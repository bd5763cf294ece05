------------------------------ MODULE PlanLedger ------------------------------
(***************************************************************************)
(* What the checkpoint file promises about a plan, across every crash and  *)
(* resumed run: a task is marked done once, after everything it needs is   *)
(* marked done; what it needs may be revised, and only until then.         *)
(***************************************************************************)
CONSTANTS
  Items,     \* tasks and fix tasks that may ever be planned
  Original   \* what each needs before any recovery revises it

VARIABLES
  done,      \* items with a done marker
  needs      \* what each item needs, as the files have it

ledger == <<done, needs>>

Init == done = {} /\ needs = Original

Complete(i) ==
  /\ i \notin done
  /\ needs[i] \subseteq done
  /\ done' = done \cup {i}
  /\ UNCHANGED needs

Revise(i, S) ==
  /\ i \notin done
  /\ needs' = [needs EXCEPT ![i] = S]
  /\ UNCHANGED done

Next ==
  \E i \in Items : Complete(i) \/ \E S \in SUBSET Items : Revise(i, S)

Spec == Init /\ [][Next]_ledger
=============================================================================

---------------------------- MODULE PlanProperties ----------------------------
(***************************************************************************)
(* What the execution phase must keep, over crashes and resumed runs.      *)
(***************************************************************************)
EXTENDS PlanExecution

\* Every variable has its type, and ids are only planned, queued or written
\* down within the recovery budget.
TypeOK ==
  /\ visible \subseteq Tasks
  /\ done \subseteq Ids /\ written \subseteq Ids /\ recorded \subseteq Ids
  /\ recDeps \in [Ids -> SUBSET Ids]
  /\ pc \in At
  /\ inPlan \subseteq Ids /\ planDeps \in [Ids -> SUBSET Ids]
  /\ pending \subseteq Ids /\ pendDeps \in [Ids -> SUBSET Ids]
  /\ res \in [Ids -> Results] /\ waveDeps \in [Ids -> SUBSET Ids]
  /\ completed \subseteq Ids /\ skipped \subseteq Ids /\ failed \subseteq Ids
  /\ attempts \in [Tasks -> 0 .. MaxRecoveries + 1]
  /\ unsaved \subseteq Ids
  /\ outcomes \in [Ids -> Seq(Reports)]
  /\ iterations \in Nat /\ limit \in Nat
  /\ starts \in 0 .. MaxStarts

Executing == Having({"running", "success", "saved"})

\* A task is executed, for the first time or again, only after everything its
\* latest definition needs has its done marker: a retry never overtakes its
\* fix task, nor a chunk added while a recovery rebuilt the plan, in the
\* process that planned the fix or in one resumed from the checkpoint after a
\* crash between any two writes.
RunsAfterNeeds ==
  pc \in {"wave", "accept"} => \A i \in Executing : Needs(i) \subseteq done

\* The done markers on disk are closed under what the tasks need, whenever the
\* process dies: a resumed run finds no completed task on top of an open one.
DoneNeedsDone == \A i \in done : Needs(i) \subseteq done

\* A marker is never on disk without its output having been handed to the
\* cache: a run resumed between the two writes re-runs the task rather than
\* starting its dependents without their input.
DoneHasOutput == done \subseteq written

\* A process reports a task twice only if it rejected a success of it before;
\* however waves, failures of peers and recoveries interleave, nothing
\* finished, skipped or given up is queued again.
SecondOutcomeOnlyAfterRejection ==
  \A i \in Ids :
    Len(outcomes[i]) > 1 => Len(outcomes[i]) = 2 /\ outcomes[i][1] = "rejected"

\* A terminal failure is not requeued, also when a peer of its wave has been
\* recovered (packages/franken-orchestrator/tests/unit/phases/execution.test.ts
\* 1102, 'keeps terminal peer wave failures from being requeued after recovery
\* rebuilds pending').
OneOutcomePerTask == \A i \in Ids : Len(outcomes[i]) <= 1

Reported(i) == {outcomes[i][n] : n \in DOMAIN outcomes[i]}
Ended == {"failure", "rejected", "skipped", "unmet"}

\* When the loop returns, every planned task has been reported: the iteration
\* limit never cuts off queued work, whatever is added or recovered on the way.
\* Only the fix task of a given-up task may be left in the plan unreported.
EveryTaskReported ==
  pc = "finished" =>
    \A i \in inPlan :
      \/ outcomes[i] # <<>>
      \/ IsFix(i) /\ Reported(Task(Root(i))) \cap Ended # {}

\* What is reported as a success is what the checkpoint says: a resumed run
\* reports all that earlier ones completed, however they ended.
ReportsMatchCheckpoint ==
  pc = "finished" =>
    \A i \in inPlan : "success" \in Reported(i) <=> i \in done

\* Tasks are given up for unmet dependencies only if one of those needs
\* something that failed, was refused, or was never planned: rebuilding the
\* queue around fix tasks never leaves tasks waiting for each other.
UnmetForCause ==
  LET unmet == {i \in Ids : "unmet" \in Reported(i)} IN
  pc = "finished" /\ unmet # {} =>
    \E i \in unmet : \E d \in pendDeps[i] :
      d \notin inPlan \/ (Reported(d) \cap (Ended \ {"unmet"}) # {})

\* The number of the next fix task is free, also in a process that took over a
\* plan with fix tasks in it: a retry neither throws on a duplicate id nor
\* gains attempts by a crash.
FreshFix ==
  pc \notin Idle =>
    \A i \in inPlan : IsFix(i) => attempts[Root(i)] >= i[2]

\* Nothing of a wave is marked done while a task of it still runs or once one
\* has been blocked ("Accept a wave atomically", phases/execution.ts:275).
WaveCommitsTogether ==
  [][done' # done => Having({"running", "blocked"}) = {}]_vars

\* The checkpoint is a ledger of tasks completed in order.
Checkpoint == INSTANCE PlanLedger WITH
  Items <- Ids,
  Original <- [i \in Ids |-> Declared(i)],
  needs <- [i \in Ids |-> Needs(i)]
LedgerSpec == Checkpoint!Spec

\* A process that is neither killed nor left without an answer ends its run.
ExecutionEnds == pc = "head" ~> pc \in Idle
=============================================================================

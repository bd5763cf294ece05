----------------------------- MODULE WorkerLedger -----------------------------
(***************************************************************************)
(* What the attempts table promises about worker processes, whatever the   *)
(* requests, timers, exits and restarts that bring it about: a worker is   *)
(* entered once, with its process, or is lost in the death of its keeper   *)
(* or in a kill that failed; an entry is closed only when its process is   *)
(* gone or has been condemned with SIGKILL; a closed entry stays closed.   *)
(***************************************************************************)
EXTENDS Naturals

CONSTANTS
  Slots,        \* attempts that can ever be made
  Owners,       \* whom a worker can work for
  KillMayFail   \* the keeper may fail to kill a worker it could not enter

VARIABLES
  open,     \* entries that say their worker is running
  closed,   \* entries that say how their worker ended
  working,  \* entered workers that run and may run for ever
  doomed,   \* entered workers that were sent SIGKILL and are not gone yet
  lost,     \* workers that have no entry: their owner, and the deaths before them
  deaths    \* how often the keeper of the ledger has died

ledger == <<open, closed, working, doomed, lost, deaths>>

Init ==
  /\ open = {} /\ closed = {} /\ working = {} /\ doomed = {}
  /\ lost = {} /\ deaths = 0

Launch(a) ==
  /\ a \notin open \cup closed
  /\ open' = open \cup {a}
  /\ working' = working \cup {a}
  /\ UNCHANGED <<closed, doomed, lost, deaths>>

\* A set of entries is closed; no worker of theirs is left to run.
Close(S) ==
  /\ S \subseteq open
  /\ S \cap working' = {}
  /\ open' = open \ S
  /\ closed' = closed \cup S

Condemn(a) ==
  /\ a \in working
  /\ working' = working \ {a}
  /\ doomed' = doomed \cup {a}

Die(a) ==
  /\ a \in working \cup doomed
  /\ working' = working \ {a}
  /\ doomed' = doomed \ {a}

\* At most one worker is lost in a death of the keeper.
KeeperDies ==
  /\ deaths' = deaths + 1
  /\ UNCHANGED lost \/ \E o \in Owners : lost' = lost \cup {<<o, deaths>>}

KillFails ==
  /\ KillMayFail
  /\ \E o \in Owners : lost' = lost \cup {<<o, deaths>>}
  /\ UNCHANGED <<open, closed, working, doomed, deaths>>

LostExits ==
  /\ \E w \in lost : lost' = lost \ {w}
  /\ UNCHANGED <<open, closed, working, doomed, deaths>>

Next ==
  \/ \E a \in Slots : Launch(a)
  \/ /\ \/ \E a \in Slots : Condemn(a) \/ Die(a)
        \/ UNCHANGED <<working, doomed>>
     /\ \E S \in SUBSET open : Close(S)
     /\ UNCHANGED <<lost, deaths>> \/ KeeperDies
  \/ KillFails
  \/ LostExits

Spec == Init /\ [][Next]_ledger
=============================================================================

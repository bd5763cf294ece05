------------------------- MODULE CheckpointProperties -------------------------
(***************************************************************************)
(* What the processes that share a checkpoint file rely on.                *)
(***************************************************************************)
EXTENDS CheckpointFile

\* Every variable has its type, and nobody waits beyond the time limit.
TypeOK ==
  /\ at \in [Procs -> Places]
  /\ op \in [Procs -> Op]
  /\ read \in [Procs -> SUBSET Keys]
  /\ lock \in [by : Procs \cup {NoProc}, full : BOOLEAN]
  /\ age \in 0 .. LockTimeout
  /\ wait \in [Procs -> 0 .. LockTimeout]
  /\ due \subseteq Procs /\ contended \subseteq Procs
  /\ entries \subseteq Keys /\ primary \subseteq Outputs /\ stale \subseteq Outputs
  /\ kept \subseteq Op

\* Whatever writers overlap, fail and die, a marker once written stays in the
\* file, and an output once stored can be read, afresh or stale, until a clear, as
\* long as one process at a time removes an abandoned lock (~ReapsOverlap).  "does
\* not lose or corrupt entries under concurrent multi-process writes",
\* packages/franken-orchestrator/tests/unit/file-checkpoint-store.test.ts 454.
StoredSurvives ==
  \A o \in kept :
    IF o.kind = "write" THEN o.what \in entries ELSE o.what \in primary \cup stale

\* A write gives up only if some living process had the lock while it waited, or
\* had failed to give it back, be it the waiter itself: a lock left by a dead
\* process, signed or not, never makes one time out ("so a post-crash writer
\* recovers rather than timing out before the fallback can fire",
\* checkpoint/file-checkpoint-store.ts 517).
TimeoutBlamesLiving == \A p \in Procs : at[p] = "threw" => p \in contended
=============================================================================

---------------------------- MODULE PlanExecution ----------------------------
(***************************************************************************)
(* The execution phase of the Beast loop: runExecution runs the tasks of a *)
(* plan in waves of ready tasks, accepts a wave once every task of it has  *)
(* settled, puts fix tasks before known failures and retries, and leaves   *)
(* markers in a checkpoint file from which a later process resumes.  All   *)
(* of packages/franken-orchestrator/src/phases/execution.ts, with the      *)
(* recovery code of packages/franken-planner it calls and the checkpoint   *)
(* store it writes.                                                        *)
(*                                                                         *)
(* The tasks of a wave run concurrently and settle in any order.  The rest *)
(* is one asynchronous function, suspended where it awaits the memory      *)
(* module or the file system; the process may die there, or at any write.  *)
(* The order of the tasks in a plan is an input: wherever the code goes    *)
(* through the queue or a wave in order, any order is allowed here.        *)
(***************************************************************************)
EXTENDS Integers, FiniteSets, Sequences

CONSTANTS
  Tasks,          \* tasks the planner or a chunk file may define
  Deps,           \* dependsOn of each; may name a task that never appears
  Serial,         \* tasks that need approval or a CLI: they run alone
  Visible,        \* tasks defined when the first process starts
  MaxRecoveries,  \* RecoveryController.maxAttempts
  MinIterations,  \* the least iteration limit of the loop (10 in the code)
  MaxStarts,      \* bound: processes that work on the plan, one after another
  TraceFaults,    \* memory.recordTrace may reject
  DiskFaults      \* a checkpoint write or a plan refresh may throw

\* A cycle in the planner's own tasks makes validateAcyclicPlan throw at once.
ASSUME DepsAssumption ==
  /\ Deps \in [Tasks -> SUBSET Tasks]
  /\ \E rank \in [Tasks -> 0 .. Cardinality(Tasks)] :
       \A t \in Tasks : \A d \in Deps[t] : rank[d] < rank[t]
ASSUME TasksAssumption ==
  IsFiniteSet(Tasks) /\ Serial \subseteq Tasks /\ Visible \subseteq Tasks
ASSUME NumbersAssumption ==
  MaxRecoveries \in Nat /\ MinIterations \in Nat /\ MaxStarts \in Nat
ASSUME FaultsAssumption == TraceFaults \in BOOLEAN /\ DiskFaults \in BOOLEAN

VARIABLES
  visible,     \* tasks with a definition on disk
  done,        \* ":done" markers in the checkpoint file
  written,     \* tasks whose output was handed to the checkpoint's cache
  recorded,    \* "recovery-task-v2" entries of the checkpoint file
  recDeps,     \* dependsOn in those entries
  pc,          \* where the process is
  inPlan,      \* ids of ctx.plan, which knownTaskIds follows
  planDeps,    \* dependsOn in ctx.plan
  pending,     \* ids of the queue
  pendDeps,    \* dependsOn of the queued task objects
  res,         \* what the tasks of the current wave came to
  waveDeps,    \* dependsOn of the task objects in the wave
  completed,   \* the set of that name
  skipped,     \* terminalSkipped
  failed,      \* terminalFailures
  attempts,    \* recoveryAttempts
  unsaved,     \* recovered tasks persistRecoveryTasks still has to write
  outcomes,    \* the outcomes pushed for each id, in order
  iterations,  \* rounds of the loop so far
  limit,       \* maxIterations
  starts       \* processes so far

disk == <<visible, done, written, recorded, recDeps>>
plan == <<inPlan, planDeps>>
queue == <<pending, pendDeps>>
wave == <<res, waveDeps>>
sets == <<completed, skipped, failed>>
rounds == <<iterations, limit>>
vars == <<visible, done, written, recorded, recDeps, pc, inPlan, planDeps,
          pending, pendDeps, res, waveDeps, completed, skipped, failed,
          attempts, unsaved, outcomes, iterations, limit, starts>>
-----------------------------------------------------------------------------
(* Task ids: <<t, 0>> is task t, <<t, k>> is fix-t-attempt-k.               *)

Ids == Tasks \X (0 .. MaxRecoveries)
Task(t) == <<t, 0>>
IsFix(i) == i[2] > 0
Root(i) == i[1]

Declared(i) == IF IsFix(i) THEN {} ELSE {Task(d) : d \in Deps[Root(i)]}

\* What an id needs as the files have it: its checkpointed definition, which
\* replaces the planner's.
Needs(i) == IF i \in recorded THEN recDeps[i] ELSE Declared(i)

At == {"down", "head", "wave", "accept", "settle", "persist", "finished", "threw"}
Idle == {"down", "finished", "threw"}

\* kept: done by an earlier process; saved: its output is in the cache, its
\* marker not yet written; rejected: its success could not be traced; retry: a
\* fix task is being put before it; terminal: recovery refused.
Results == {"none", "running", "kept", "blocked", "skipped", "success", "saved",
            "accepted", "rejected", "failure", "retry", "terminal", "settled"}
Reports == {"success", "skipped", "unmet", "rejected", "failure"}

Wave == {i \in Ids : res[i] # "none"}
Having(S) == {i \in Ids : res[i] \in S}
Nothing == [i \in Ids |-> {}]
NoWave == [i \in Ids |-> "none"]
-----------------------------------------------------------------------------
Init ==
  /\ visible = Visible
  /\ done = {} /\ written = {} /\ recorded = {} /\ recDeps = Nothing
  /\ pc = "down"
  /\ inPlan = {} /\ planDeps = Nothing
  /\ pending = {} /\ pendDeps = Nothing
  /\ res = NoWave /\ waveDeps = Nothing
  /\ completed = {} /\ skipped = {} /\ failed = {}
  /\ attempts = [t \in Tasks |-> 0]
  /\ unsaved = {}
  /\ outcomes = [i \in Ids |-> <<>>]
  /\ iterations = 0 /\ limit = 0
  /\ starts = 0

\* mergeCheckpointRecoveryTasks: the planner's tasks, with the checkpoint's
\* definitions added and put in the place of the planner's.
InitialPlan == {Task(t) : t \in visible} \cup recorded

\* Mutant of InitialDeps: the planner's definition wins over the checkpoint's.
PlannerDepsFirst ==
  [i \in Ids |-> CASE i \in {Task(t) : t \in visible} -> Declared(i)
                   [] i \in recorded -> recDeps[i]
                   [] OTHER -> {}]

InitialDeps == [i \in Ids |-> IF i \in InitialPlan THEN Needs(i) ELSE {}]

\* Mutant of Seeds: the counters start from zero in every process.
SeedsZero(a) == a = [t \in Tasks |-> 0]

\* seedRecoveryAttempts: the highest fix number in the plan, of each task.
Seeds(a) ==
  \A t \in Tasks :
    /\ a[t] = 0 \/ <<t, a[t]>> \in InitialPlan
    /\ \A k \in a[t] + 1 .. MaxRecoveries : <<t, k>> \notin InitialPlan

InitialLimit ==
  IF 2 * Cardinality(InitialPlan) > MinIterations
    THEN 2 * Cardinality(InitialPlan) ELSE MinIterations

\* The process ends without a result; what it had in memory is gone.
EndsIn(p) ==
  /\ pc' = p
  /\ inPlan' = {} /\ planDeps' = Nothing
  /\ pending' = {} /\ pendDeps' = Nothing
  /\ res' = NoWave /\ waveDeps' = Nothing
  /\ completed' = {} /\ skipped' = {} /\ failed' = {}
  /\ attempts' = [t \in Tasks |-> 0]
  /\ unsaved' = {}
  /\ outcomes' = [i \in Ids |-> <<>>]
  /\ iterations' = 0 /\ limit' = 0
  /\ UNCHANGED <<disk, starts>>

\* A process starts, or starts over after another died or returned: the head
\* of runExecution.
Start ==
  /\ pc \in Idle
  /\ starts < MaxStarts
  /\ starts' = starts + 1
  /\ pc' = "head"
  /\ inPlan' = InitialPlan /\ planDeps' = InitialDeps
  /\ pending' = InitialPlan /\ pendDeps' = InitialDeps
  /\ res' = NoWave /\ waveDeps' = Nothing
  /\ completed' = {} /\ skipped' = {} /\ failed' = {}
  /\ \E a \in [Tasks -> 0 .. MaxRecoveries] : Seeds(a) /\ attempts' = a
  /\ unsaved' = {}
  /\ outcomes' = [i \in Ids |-> <<>>]
  /\ iterations' = 0 /\ limit' = InitialLimit
  /\ UNCHANGED disk

\* The operator adds a chunk file, at any time.
AddTask(t) ==
  /\ t \notin visible
  /\ visible' = visible \cup {t}
  /\ UNCHANGED <<done, written, recorded, recDeps, pc, plan, queue, wave, sets,
                 attempts, unsaved, outcomes, rounds, starts>>
-----------------------------------------------------------------------------
(* The head of the loop.                                                    *)

Looping == pending # {} /\ iterations < limit

\* collectNewRefreshTasks, and the queue with them in it.
New == {Task(t) : t \in visible} \ inPlan
Queue == pending \cup New
QueueDeps == [i \in Ids |-> IF i \in New THEN Declared(i) ELSE pendDeps[i]]

\* Mutant of Ready: a dependency that failed for good counts as settled.
ReadyAfterFailure == {i \in Queue : QueueDeps[i] \subseteq completed \cup failed}

Ready == {i \in Queue : QueueDeps[i] \subseteq completed}
RunsAlone(i) == Root(i) \in Serial

\* selectExecutableWave: the first ready task alone if it is serialized,
\* otherwise all that are not.
Waves ==
  {{i} : i \in {j \in Ready : RunsAlone(j)}}
    \cup ({{i \in Ready : ~RunsAlone(i)}} \ {{}})

Refresh ==
  /\ pc = "head"
  /\ Looping
  /\ iterations' = iterations + 1
  /\ limit' = limit + 2 * Cardinality(New)
  /\ inPlan' = inPlan \cup New
  /\ planDeps' = [i \in Ids |-> IF i \in New THEN Declared(i) ELSE planDeps[i]]

\* Mutant of FirstResult: a task with a marker is run again.
RunAgain(i) == "running"

\* A task with a marker is not executed.
FirstResult(i) == IF i \in done THEN "kept" ELSE "running"

StartWave(W) ==
  /\ Refresh
  /\ pending' = Queue \ W
  /\ pendDeps' = [i \in Ids |-> IF i \in W THEN {} ELSE QueueDeps[i]]
  /\ waveDeps' = [i \in Ids |-> IF i \in W THEN QueueDeps[i] ELSE {}]
  /\ res' = [i \in Ids |-> IF i \in W THEN FirstResult(i) ELSE "none"]
  /\ pc' = "wave"
  /\ UNCHANGED <<disk, sets, attempts, unsaved, outcomes, starts>>

\* Nothing is ready: what is queued is reported as skipped.
ReportUnmet ==
  /\ Refresh
  /\ Ready = {}
  /\ outcomes' = [i \in Ids |-> IF i \in Queue THEN Append(outcomes[i], "unmet")
                                ELSE outcomes[i]]
  /\ skipped' = skipped \cup Queue
  /\ pending' = Queue /\ pendDeps' = QueueDeps
  /\ pc' = "finished"
  /\ UNCHANGED <<disk, wave, completed, failed, attempts, unsaved, starts>>

LoopEnds ==
  /\ pc = "head"
  /\ ~Looping
  /\ pc' = "finished"
  /\ UNCHANGED <<disk, plan, queue, wave, sets, attempts, unsaved, outcomes,
                 rounds, starts>>

\* refreshPlanTasks rejects, and runExecution with it.
RefreshFails ==
  /\ DiskFaults
  /\ pc = "head"
  /\ Looping
  /\ EndsIn("threw")

\* executeTask returns or throws.  Only a task that runs alone can ask the
\* governor and be refused; the firewall blocks what a task, or an earlier
\* process's output cache, came up with by throwing InjectionDetectedError.
Settle(i, r) ==
  /\ pc = "wave"
  /\ \/ res[i] = "running" /\ r \in {"success", "failure", "blocked"}
     \/ res[i] = "running" /\ r = "skipped" /\ RunsAlone(i)
     \/ res[i] = "kept" /\ r = "blocked"
  /\ res' = [res EXCEPT ![i] = r]
  /\ UNCHANGED <<disk, pc, plan, queue, waveDeps, sets, attempts, unsaved,
                 outcomes, rounds, starts>>

WaveSettled == pc = "wave" /\ Having({"running"}) = {}

\* Mutant of WaveBlocked: a blocked task is dropped and its peers go on.
AcceptPeers ==
  /\ WaveSettled
  /\ Having({"blocked"}) # {}
  /\ pc' = "accept"
  /\ UNCHANGED <<disk, plan, queue, wave, sets, attempts, unsaved, outcomes,
                 rounds, starts>>

\* Mutant of WaveBlocked: the wave is refused only if all of it was blocked.
AllBlocked ==
  /\ WaveSettled
  /\ Wave = Having({"blocked"})
  /\ EndsIn("threw")

\* Promise.allSettled has settled and one task was blocked: nothing of the
\* wave is accepted.
WaveBlocked ==
  /\ WaveSettled
  /\ Having({"blocked"}) # {}
  /\ EndsIn("threw")

\* Mutant of AcceptWave: tasks kept from an earlier process are not completed.
ForgetKept ==
  /\ WaveSettled
  /\ Having({"blocked"}) = {}
  /\ pc' = "accept"
  /\ skipped' = skipped \cup Having({"skipped"})
  /\ UNCHANGED <<disk, plan, queue, wave, completed, failed, attempts, unsaved,
                 outcomes, rounds, starts>>

AcceptWave ==
  /\ WaveSettled
  /\ Having({"blocked"}) = {}
  /\ pc' = "accept"
  /\ completed' = completed \cup Having({"kept"})
  /\ skipped' = skipped \cup Having({"skipped"})
  /\ UNCHANGED <<disk, plan, queue, wave, failed, attempts, unsaved, outcomes,
                 rounds, starts>>

\* The acceptance loop works on one task at a time.
Accepting(i) == pc = "accept" /\ res[i] = "success" /\ Having({"saved"}) = {}

\* Mutant of SaveOutput: the marker goes first.
MarkBeforeSave(i) ==
  /\ Accepting(i)
  /\ done' = done \cup {i}
  /\ res' = [res EXCEPT ![i] = "saved"]
  /\ UNCHANGED <<visible, written, recorded, recDeps, pc, plan, queue, waveDeps,
                 sets, attempts, unsaved, outcomes, rounds, starts>>

\* The success is traced and the output handed to the cache ...
SaveOutput(i) ==
  /\ Accepting(i)
  /\ written' = written \cup {i}
  /\ res' = [res EXCEPT ![i] = "saved"]
  /\ UNCHANGED <<visible, done, recorded, recDeps, pc, plan, queue, waveDeps,
                 sets, attempts, unsaved, outcomes, rounds, starts>>

\* ... then the marker is written.
MarkDone(i) ==
  /\ pc = "accept"
  /\ res[i] = "saved"
  /\ done' = done \cup {i}
  /\ completed' = completed \cup {i}
  /\ res' = [res EXCEPT ![i] = "accepted"]
  /\ UNCHANGED <<visible, written, recorded, recDeps, pc, plan, queue, waveDeps,
                 skipped, failed, attempts, unsaved, outcomes, rounds, starts>>

\* The success cannot be traced and becomes an acceptance failure.
RejectSuccess(i) ==
  /\ TraceFaults
  /\ Accepting(i)
  /\ res' = [res EXCEPT ![i] = "rejected"]
  /\ UNCHANGED <<disk, pc, plan, queue, waveDeps, sets, attempts, unsaved,
                 outcomes, rounds, starts>>

\* A write to the checkpoint throws, and runExecution with it.
AcceptFails ==
  /\ DiskFaults
  /\ pc = "accept"
  /\ Having({"success", "saved"}) # {}
  /\ EndsIn("threw")

Report(i) == CASE res[i] \in {"kept", "accepted"} -> Append(outcomes[i], "success")
               [] res[i] = "skipped" -> Append(outcomes[i], "skipped")
               [] OTHER -> outcomes[i]

WaveAccepted ==
  /\ pc = "accept"
  /\ Having({"success", "saved"}) = {}
  /\ outcomes' = [i \in Ids |-> Report(i)]
  /\ pc' = "settle"
  /\ UNCHANGED <<disk, plan, queue, wave, sets, attempts, unsaved, rounds, starts>>
-----------------------------------------------------------------------------
(* Failures of the wave, one at a time.                                     *)

WaveFailures ==
  Having({"failure", "rejected", "retry", "terminal", "settled"})

NextFailure == pc = "settle" /\ Having({"retry", "terminal"}) = {}

\* An acceptance failure is terminal at once.
RejectTask(i) ==
  /\ NextFailure
  /\ res[i] = "rejected"
  /\ failed' = failed \cup {i}
  /\ outcomes' = [outcomes EXCEPT ![i] = Append(@, "rejected")]
  /\ res' = [res EXCEPT ![i] = "settled"]
  /\ UNCHANGED <<disk, pc, plan, queue, waveDeps, completed, skipped, attempts,
                 unsaved, rounds, starts>>

\* recoverFailedTask counts a failure of a planned task, not of a fix task.
Counted(i) ==
  IF IsFix(i) THEN attempts
  ELSE [attempts EXCEPT ![Root(i)] =
          IF @ > MaxRecoveries THEN @ ELSE @ + 1]

\* recoverFailedTask returns false: a fix task failed, the budget is spent, the
\* error is unknown (the governor is told) or the memory module has no answer.
GiveUp(i) ==
  /\ NextFailure
  /\ res[i] = "failure"
  /\ attempts' = Counted(i)
  /\ res' = [res EXCEPT ![i] = "terminal"]
  /\ UNCHANGED <<disk, pc, plan, queue, waveDeps, sets, unsaved, outcomes,
                 rounds, starts>>

\* toRecoveryGraph drops what is not in the plan.
InPlan(i) == planDeps[i] \cap inPlan

\* insertFixItTask puts the fix between the failed task and what it needed;
\* fromRecoveryGraph gives the failed task its former needs back.
WithFix(i, f) ==
  [j \in Ids |->
     CASE j = i -> {f} \cup waveDeps[i]
       [] j = f -> InPlan(i)
       [] j \in inPlan /\ j # i -> InPlan(j)
       [] OTHER -> {}]

\* Mutant of NextFix: the number of the attempt after this one.
FixAhead(i) == <<Root(i), attempts[Root(i)] + 2>>

NextFix(i) == <<Root(i), attempts[Root(i)] + 1>>

\* RecoveryController.recover knows the error: the plan is replaced.
Recover(i) ==
  LET f == NextFix(i) IN
  /\ NextFailure
  /\ res[i] = "failure"
  /\ ~IsFix(i)
  /\ attempts[Root(i)] < MaxRecoveries
  /\ f \notin inPlan
  /\ attempts' = Counted(i)
  /\ inPlan' = inPlan \cup {f}
  /\ planDeps' = WithFix(i, f)
  /\ unsaved' = {j \in inPlan \cup {f} : IsFix(j)} \cup {i}
  /\ res' = [res EXCEPT ![i] = "retry"]
  /\ pc' = "persist"
  /\ UNCHANGED <<disk, queue, waveDeps, sets, outcomes, rounds, starts>>

\* persistRecoveryTasks writes in topological order.  The definition is written
\* before its entry; a definition shows when both are there, so that one of the two
\* writes, the second of a new task and the first of a known one, is this step.
Persist(i) ==
  /\ pc = "persist"
  /\ i \in unsaved
  /\ planDeps[i] \cap unsaved = {}
  /\ recorded' = recorded \cup {i}
  /\ recDeps' = [recDeps EXCEPT ![i] = planDeps[i]]
  /\ unsaved' = unsaved \ {i}
  /\ UNCHANGED <<visible, done, written, pc, plan, queue, wave, sets, attempts,
                 outcomes, rounds, starts>>

\* A checkpoint write throws and recoverFailedTask returns false; the plan
\* stays replaced.
PersistFails ==
  /\ DiskFaults
  /\ pc = "persist"
  /\ unsaved # {}
  /\ unsaved' = {}
  /\ res' = [i \in Ids |-> IF res[i] = "retry" THEN "terminal" ELSE res[i]]
  /\ pc' = "settle"
  /\ UNCHANGED <<disk, plan, queue, waveDeps, sets, attempts, outcomes, rounds,
                 starts>>

\* Mutant of Requeued: a task already queued keeps its old dependencies.
KeepQueued == {i \in inPlan \ (completed \cup skipped \cup failed) : i \notin pending}

\* What a recovery puts back into the queue, with its dependencies in the new
\* plan.
Requeued ==
  {i \in inPlan \ (completed \cup skipped \cup failed) :
     i \notin pending \/ i \in WaveFailures}

\* Mutant of RecoveryLimit: a recovery is given no rounds.
SameLimit == limit

RecoveryLimit == limit + 2

Requeue ==
  /\ pc = "persist"
  /\ unsaved = {}
  /\ pending' = pending \cup Requeued
  /\ pendDeps' = [i \in Ids |-> IF i \in Requeued THEN planDeps[i] ELSE pendDeps[i]]
  /\ limit' = RecoveryLimit
  /\ res' = [i \in Ids |-> IF res[i] = "retry" THEN "settled" ELSE res[i]]
  /\ pc' = "settle"
  /\ UNCHANGED <<disk, plan, waveDeps, sets, attempts, unsaved, outcomes,
                 iterations, starts>>

\* Mutant of FailTask: the task stays in the queue.
FailQueuedTask(i) ==
  /\ pc = "settle"
  /\ res[i] = "terminal"
  /\ failed' = failed \cup {i}
  /\ outcomes' = [outcomes EXCEPT ![i] = Append(@, "failure")]
  /\ res' = [res EXCEPT ![i] = "settled"]
  /\ UNCHANGED <<disk, pc, plan, queue, waveDeps, completed, skipped, attempts,
                 unsaved, rounds, starts>>

\* The failure is traced and reported; a peer's recovery may have queued the
\* task again.
FailTask(i) ==
  /\ pc = "settle"
  /\ res[i] = "terminal"
  /\ pending' = pending \ {i}
  /\ pendDeps' = [pendDeps EXCEPT ![i] = {}]
  /\ failed' = failed \cup {i}
  /\ outcomes' = [outcomes EXCEPT ![i] = Append(@, "failure")]
  /\ res' = [res EXCEPT ![i] = "settled"]
  /\ UNCHANGED <<disk, pc, plan, waveDeps, completed, skipped, attempts, unsaved,
                 rounds, starts>>

\* recordFailureTrace rejects, and runExecution with it.
FailureTraceFails ==
  /\ TraceFaults
  /\ pc = "settle"
  /\ Having({"terminal"}) # {}
  /\ EndsIn("threw")

WaveEnds ==
  /\ NextFailure
  /\ Having({"failure", "rejected"}) = {}
  /\ res' = NoWave /\ waveDeps' = Nothing
  /\ pc' = "head"
  /\ UNCHANGED <<disk, plan, queue, sets, attempts, unsaved, outcomes, rounds,
                 starts>>

\* The process dies.
Crash ==
  /\ pc \notin Idle
  /\ EndsIn("down")
-----------------------------------------------------------------------------
Round ==
  \/ \E W \in Waves : StartWave(W)
  \/ ReportUnmet \/ LoopEnds \/ RefreshFails
TaskSettles == \E i \in Ids, r \in Results : Settle(i, r)
Acceptance ==
  \/ WaveBlocked \/ AcceptWave \/ AcceptFails \/ WaveAccepted
  \/ \E i \in Ids : SaveOutput(i) \/ MarkDone(i) \/ RejectSuccess(i)
Recovery ==
  \/ \E i \in Ids : RejectTask(i) \/ GiveUp(i) \/ Recover(i) \/ Persist(i) \/ FailTask(i)
  \/ PersistFails \/ Requeue \/ FailureTraceFails \/ WaveEnds

Next ==
  \/ Start \/ Crash
  \/ \E t \in Tasks : AddTask(t)
  \/ Round \/ TaskSettles \/ Acceptance \/ Recovery

Spec == Init /\ [][Next]_vars

\* What the process has resumed runs on; skills, the governor and the memory
\* module answer.  Nobody has to start a process or add a task, and none dies.
FairSpec ==
  Spec /\ WF_vars(Round) /\ WF_vars(TaskSettles) /\ WF_vars(Acceptance)
       /\ WF_vars(Recovery)
=============================================================================

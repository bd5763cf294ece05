------------------------------ MODULE PlanProofs ------------------------------
(***************************************************************************)
(* Proofs about the execution of a plan, for any plan, any budget of       *)
(* recoveries, any number of processes and any faults.                     *)
(***************************************************************************)
EXTENDS PlanProperties, FiniteSetTheorems, SequenceTheorems, TLAPS

\* What tasks may have come to, by phase.
Phase ==
  /\ pc = "head" => \A i \in Ids : res[i] = "none"
  /\ pc = "wave" => \A i \in Ids :
       res[i] \in {"none", "running", "kept", "blocked", "skipped", "success",
                   "failure"}
  /\ pc = "accept" => \A i \in Ids :
       res[i] \in {"none", "kept", "skipped", "success", "saved", "accepted",
                   "rejected", "failure"}
  /\ pc \in {"settle", "persist"} => \A i \in Ids :
       res[i] \in {"none", "kept", "skipped", "accepted", "rejected", "failure",
                   "retry", "terminal", "settled"}
  /\ pc = "settle" => \A i \in Ids : res[i] # "retry"

Undone == {"running", "success", "saved", "rejected", "failure", "retry", "terminal"}

UndoneNotDone == \A i \in Ids : res[i] \in Undone => i \notin done

\* Tasks of a wave were ready; the definition of one that failed may have
\* changed since.
RunCovered ==
  \A i \in Ids : res[i] \notin {"none", "retry", "terminal", "settled"} =>
    Needs(i) \subseteq done

SettledCovered ==
  \A i \in Ids : res[i] \in {"terminal", "settled"} =>
    Needs(i) \subseteq (planDeps[i] \cap inPlan) \cup done

\* A queued task waits for all it needs, except one that is being recovered.
QueueCovered ==
  \A i \in pending : res[i] \notin {"retry", "terminal"} =>
    Needs(i) \subseteq pendDeps[i] \cup done

CompletedDone ==
  /\ completed \subseteq done \cap inPlan
  /\ \A i \in Ids : waveDeps[i] \subseteq completed
  /\ \A i \in Ids : res[i] = "kept" => i \in done

\* A planned task is queued, in the wave, or over with.
Placed ==
  /\ \A i \in Ids : res[i] # "none" => i \in inPlan
  /\ \A i \in inPlan : ~IsFix(i) /\ res[i] \notin Undone =>
       \/ i \in pending \cup completed \cup skipped \cup failed
       \/ pc = "wave" /\ res[i] \in {"kept", "skipped", "blocked"}

QueueLive ==
  /\ pending \subseteq inPlan
  /\ \A i \in pending : res[i] \in {"failure", "rejected", "retry", "terminal"} =>
       i \notin completed \cup skipped \cup failed
  /\ pc \in {"wave", "accept"} => \A i \in pending : res[i] = "none"

\* The process knows what is on disk, and a fix task, once recorded, is what the
\* checkpoint says.
FixRecorded ==
  /\ pc \notin {"down", "threw"} => recorded \subseteq inPlan
  /\ \A i \in Ids : IsFix(i) /\ (i \in pending \cup done \/ res[i] # "none") =>
       i \in recorded
  /\ \A i \in inPlan : IsFix(i) =>
       /\ i \in recorded => planDeps[i] = recDeps[i]
       /\ planDeps[i] \subseteq inPlan

\* What a fix task needs will be planned by any process that resumes.
Known == {i \in Ids : IF IsFix(i) THEN i \in recorded ELSE Root(i) \in visible}

AllKnown ==
  /\ \A i \in inPlan : ~IsFix(i) => i \in Known
  /\ \A i \in recorded : i \in Known /\ (IsFix(i) => recDeps[i] \subseteq Known)

UnsavedOK ==
  /\ pc # "persist" => unsaved = {}
  /\ unsaved \subseteq inPlan
  /\ \A i \in unsaved : IsFix(i) \/ res[i] = "retry"
  /\ pc = "persist" => \A i \in inPlan : IsFix(i) => i \in unsaved \cup recorded
  /\ \A i \in Ids : res[i] = "retry" =>
       /\ planDeps[i] \subseteq inPlan
       /\ \/ i \in unsaved /\ Needs(i) \subseteq done
          \/ i \in recorded /\ recDeps[i] = planDeps[i]

\* The inductive invariant.
Plan == UndoneNotDone /\ CompletedDone /\ Placed /\ QueueLive /\ FixRecorded /\ AllKnown
Covered == DoneNeedsDone /\ RunCovered /\ SettledCovered /\ QueueCovered /\ UnsavedOK
IInv == TypeOK /\ Phase /\ Plan /\ Covered

-----------------------------------------------------------------------------
(* Ids                                                                      *)

LEMMA IdFacts ==
  /\ \A t \in Tasks : Task(t) \in Ids /\ ~IsFix(Task(t)) /\ Root(Task(t)) = t
  /\ \A i \in Ids : /\ Root(i) \in Tasks
                    /\ ~IsFix(i) => i = Task(Root(i))
BY NumbersAssumption DEF Ids, Task, IsFix, Root

LEMMA NextFixFacts ==
  ASSUME NEW i \in Ids, attempts \in [Tasks -> 0 .. MaxRecoveries + 1],
         attempts[Root(i)] < MaxRecoveries
  PROVE  NextFix(i) \in Ids /\ IsFix(NextFix(i)) /\ Root(NextFix(i)) = Root(i)
BY NumbersAssumption DEF Ids, NextFix, IsFix, Root

LEMMA NeedsType ==
  ASSUME TypeOK, NEW i \in Ids
  PROVE  Needs(i) \subseteq Ids /\ Declared(i) \subseteq Ids
<1>1. Declared(i) \subseteq Ids
  BY IdFacts, DepsAssumption DEF Declared
<1> QED BY <1>1 DEF Needs, TypeOK

\* Cardinalities of sets of ids are numbers.
LEMMA IdsFinite ==
  ASSUME NEW S \in SUBSET Ids
  PROVE  IsFiniteSet(S) /\ Cardinality(S) \in Nat
<1>1. IsFiniteSet(0 .. MaxRecoveries)
  BY FS_Interval, NumbersAssumption
<1>2. IsFiniteSet(Ids)
  BY <1>1, FS_Product, TasksAssumption DEF Ids
<1> QED BY <1>2, FS_Subset, FS_CardinalityType

LEMMA AppendType ==
  ASSUME NEW s \in Seq(Reports), NEW r \in Reports
  PROVE  Append(s, r) \in Seq(Reports)
BY AppendProperties

LEMMA SameNeeds ==
  ASSUME UNCHANGED <<recorded, recDeps>>
  PROVE  \A i \in Ids : Needs(i)' = Needs(i)
BY DEF Needs

-----------------------------------------------------------------------------
(* Types                                                                    *)

LEMMA EndsInType ==
  ASSUME TypeOK, NEW p \in At, EndsIn(p)
  PROVE  TypeOK'
<1> USE DEF TypeOK, EndsIn, disk, Nothing, NoWave, Results
<1>1. [i \in Ids |-> <<>>] \in [Ids -> Seq(Reports)]
  OBVIOUS
<1> QED BY <1>1, NumbersAssumption

LEMMA InitType == Init => TypeOK
<1> USE DEF Init, TypeOK, Nothing, NoWave, Results, At
<1>1. [i \in Ids |-> <<>>] \in [Ids -> Seq(Reports)]
  OBVIOUS
<1> QED BY <1>1, NumbersAssumption, TasksAssumption

LEMMA StartType ==
  ASSUME TypeOK, Start
  PROVE  TypeOK'
<1>1. InitialPlan \subseteq Ids
  BY IdFacts DEF InitialPlan, TypeOK
<1>2. InitialDeps \in [Ids -> SUBSET Ids]
  BY NeedsType DEF InitialDeps
<1>3. InitialLimit \in Nat
  BY <1>1, IdsFinite, NumbersAssumption DEF InitialLimit
<1>4. [i \in Ids |-> <<>>] \in [Ids -> Seq(Reports)]
  OBVIOUS
<1>5. attempts' \in [Tasks -> 0 .. MaxRecoveries + 1]
  BY NumbersAssumption DEF Start
<1> QED
  BY <1>1, <1>2, <1>3, <1>4, <1>5, NumbersAssumption
  DEF Start, TypeOK, disk, Nothing, NoWave, Results, At

LEMMA RefreshType ==
  ASSUME TypeOK, Refresh
  PROVE  /\ New \subseteq Ids /\ Queue \subseteq Ids
         /\ QueueDeps \in [Ids -> SUBSET Ids]
         /\ iterations' \in Nat /\ limit' \in Nat
         /\ inPlan' \subseteq Ids /\ planDeps' \in [Ids -> SUBSET Ids]
<1>1. New \subseteq Ids
  BY IdFacts DEF New, TypeOK
<1>2. Queue \subseteq Ids
  BY <1>1 DEF Queue, TypeOK
<1>3. QueueDeps \in [Ids -> SUBSET Ids]
  BY NeedsType DEF QueueDeps, TypeOK
<1>4. iterations' \in Nat /\ limit' \in Nat
  BY <1>1, IdsFinite DEF Refresh, TypeOK
<1>5. inPlan' \subseteq Ids /\ planDeps' \in [Ids -> SUBSET Ids]
  BY <1>1, NeedsType DEF Refresh, TypeOK
<1> QED BY <1>1, <1>2, <1>3, <1>4, <1>5

LEMMA RoundType ==
  ASSUME TypeOK, Round
  PROVE  TypeOK'
<1>1. ASSUME NEW W \in Waves, StartWave(W)
      PROVE  TypeOK'
  <2>1. Refresh
    BY <1>1 DEF StartWave
  <2>2. W \subseteq Ids
    BY <2>1, RefreshType DEF Waves, Ready
  <2>3. \A i \in Ids : FirstResult(i) \in Results
    BY DEF FirstResult, Results
  <2>4. res' \in [Ids -> Results]
    BY <1>1, <2>3 DEF StartWave, Results
  <2>5. pendDeps' \in [Ids -> SUBSET Ids] /\ waveDeps' \in [Ids -> SUBSET Ids]
    BY <1>1, <2>1, RefreshType DEF StartWave
  <2> QED
    BY <1>1, <2>1, <2>4, <2>5, RefreshType DEF StartWave, TypeOK, disk, sets, At
<1>2. CASE ReportUnmet
  <2>1. Refresh
    BY <1>2 DEF ReportUnmet
  <2>2. outcomes' \in [Ids -> Seq(Reports)]
    BY <1>2, AppendType DEF ReportUnmet, TypeOK, Reports
  <2> QED
    BY <1>2, <2>1, <2>2, RefreshType DEF ReportUnmet, TypeOK, disk, wave, At
<1>3. CASE LoopEnds
  BY <1>3 DEF LoopEnds, TypeOK, At, disk, plan, queue, wave, sets, rounds
<1>4. CASE RefreshFails
  BY <1>4, EndsInType DEF RefreshFails, At
<1> QED BY <1>1, <1>2, <1>3, <1>4 DEF Round

LEMMA SettleType ==
  ASSUME TypeOK, NEW i \in Ids, NEW r \in Results, Settle(i, r)
  PROVE  TypeOK'
BY DEF Settle, TypeOK, disk, plan, queue, sets, rounds

LEMMA AcceptanceType ==
  ASSUME TypeOK, Acceptance
  PROVE  TypeOK'
<1>1. CASE WaveBlocked \/ AcceptFails
  BY <1>1, EndsInType DEF WaveBlocked, AcceptFails, At
<1>2. CASE AcceptWave
  BY <1>2 DEF AcceptWave, TypeOK, At, disk, plan, queue, wave, rounds, Having
<1>3. CASE WaveAccepted
  <2>1. \A i \in Ids : Report(i) \in Seq(Reports)
    BY AppendType DEF Report, TypeOK, Reports
  <2> QED
    BY <1>3, <2>1 DEF WaveAccepted, TypeOK, At, disk, plan, queue, wave, sets, rounds
<1>4. ASSUME NEW i \in Ids, SaveOutput(i) \/ MarkDone(i) \/ RejectSuccess(i)
      PROVE  TypeOK'
  BY <1>4 DEF SaveOutput, MarkDone, RejectSuccess, TypeOK, Results, disk, plan, queue,
    sets, rounds
<1> QED BY <1>1, <1>2, <1>3, <1>4 DEF Acceptance

LEMMA CountedType ==
  ASSUME TypeOK, NEW i \in Ids
  PROVE  Counted(i) \in [Tasks -> 0 .. MaxRecoveries + 1]
BY IdFacts, NumbersAssumption DEF Counted, TypeOK

LEMMA RecoveryType ==
  ASSUME TypeOK, Recovery
  PROVE  TypeOK'
<1>1. ASSUME NEW i \in Ids, RejectTask(i)
      PROVE  TypeOK'
  <2>1. outcomes' \in [Ids -> Seq(Reports)]
    BY <1>1, AppendType DEF RejectTask, TypeOK, Reports
  <2> QED BY <1>1, <2>1 DEF RejectTask, TypeOK, Results, disk, plan, queue, rounds
<1>2. ASSUME NEW i \in Ids, GiveUp(i)
      PROVE  TypeOK'
  BY <1>2, CountedType DEF GiveUp, TypeOK, Results, disk, plan, queue, sets, rounds
<1>3. ASSUME NEW i \in Ids, Recover(i)
      PROVE  TypeOK'
  <2> DEFINE f == NextFix(i)
  <2>1. f \in Ids
    BY <1>3, NextFixFacts DEF Recover, TypeOK
  <2> HIDE DEF f
  <2>2. WithFix(i, f) \in [Ids -> SUBSET Ids]
    BY <2>1 DEF WithFix, InPlan, TypeOK
  <2>3. /\ inPlan' = inPlan \cup {f} /\ planDeps' = WithFix(i, f)
        /\ unsaved' = {j \in inPlan \cup {f} : IsFix(j)} \cup {i}
    BY <1>3 DEF Recover, f
  <2> QED
    BY <1>3, <2>1, <2>2, <2>3, CountedType
    DEF Recover, TypeOK, Results, At, disk, queue, sets, rounds
<1>4. ASSUME NEW i \in Ids, Persist(i)
      PROVE  TypeOK'
  BY <1>4 DEF Persist, TypeOK, plan, queue, wave, sets, rounds
<1>5. ASSUME NEW i \in Ids, FailTask(i)
      PROVE  TypeOK'
  <2>1. outcomes' \in [Ids -> Seq(Reports)]
    BY <1>5, AppendType DEF FailTask, TypeOK, Reports
  <2> QED BY <1>5, <2>1 DEF FailTask, TypeOK, Results, disk, plan, rounds
<1>6. CASE PersistFails
  BY <1>6 DEF PersistFails, TypeOK, Results, At, disk, plan, queue, sets, rounds
<1>7. CASE Requeue
  <2>1. limit' \in Nat
    BY <1>7 DEF Requeue, RecoveryLimit, TypeOK
  <2>2. Requeued \subseteq Ids
    BY DEF Requeued, TypeOK
  <2>3. res' \in [Ids -> Results]
    BY <1>7 DEF Requeue, TypeOK, Results
  <2>4. pendDeps' \in [Ids -> SUBSET Ids]
    BY <1>7 DEF Requeue, TypeOK
  <2> QED
    BY <1>7, <2>1, <2>2, <2>3, <2>4 DEF Requeue, TypeOK, At, disk, plan, sets
<1>8. CASE FailureTraceFails
  BY <1>8, EndsInType DEF FailureTraceFails, At
<1>9. CASE WaveEnds
  BY <1>9 DEF WaveEnds, TypeOK, Results, At, disk, plan, queue, sets, rounds, NoWave, Nothing
<1> QED BY <1>1, <1>2, <1>3, <1>4, <1>5, <1>6, <1>7, <1>8, <1>9 DEF Recovery

LEMMA StepType ==
  ASSUME TypeOK, [Next]_vars
  PROVE  TypeOK'
<1>1. CASE UNCHANGED vars
  BY <1>1 DEF vars, TypeOK
<1>2. CASE Crash
  BY <1>2, EndsInType DEF Crash, At
<1>3. ASSUME NEW t \in Tasks, AddTask(t)
      PROVE  TypeOK'
  BY <1>3 DEF AddTask, TypeOK, plan, queue, wave, sets, rounds
<1> QED
  BY <1>1, <1>2, <1>3, StartType, RoundType, SettleType, AcceptanceType, RecoveryType
  DEF Next, TaskSettles

\* Every id the process plans, queues, runs or writes down is a task or one of
\* its fix tasks within the budget of recoveries.
THEOREM TypeCorrect == Spec => []TypeOK
BY InitType, StepType, PTL DEF Spec

-----------------------------------------------------------------------------
(* The inductive invariant                                                  *)

LEMMA InitIInv == Init => IInv
<1> SUFFICES ASSUME Init PROVE IInv
  OBVIOUS
<1>1. TypeOK
  BY InitType
<1>2. Phase /\ Plan
  BY DEF Init, Phase, Plan, UndoneNotDone, CompletedDone, Placed, QueueLive, FixRecorded,
    AllKnown, NoWave, Nothing, Undone
<1>3. Covered
  BY DEF Init, Covered, DoneNeedsDone, RunCovered, SettledCovered, QueueCovered,
    UnsavedOK, NoWave, Nothing
<1> QED BY <1>1, <1>2, <1>3 DEF IInv

LEMMA StutterIInv ==
  ASSUME IInv, UNCHANGED vars
  PROVE  IInv'
<1>1. \A i \in Ids : Needs(i)' = Needs(i)
  BY SameNeeds DEF vars
<1>2. TypeOK' /\ Phase'
  BY DEF IInv, vars, TypeOK, Phase
<1>3. Known' = Known
  BY DEF vars, Known
<1>4. Plan'
  BY <1>3 DEF IInv, vars, Plan, UndoneNotDone, CompletedDone, Placed, QueueLive,
    FixRecorded, AllKnown
<1>5. Covered'
  BY <1>1 DEF IInv, vars, TypeOK, Plan, QueueLive, Covered, DoneNeedsDone, RunCovered,
    SettledCovered, QueueCovered, UnsavedOK
<1> QED BY <1>2, <1>4, <1>5 DEF IInv

\* The end of a process leaves what is on disk in order.
LEMMA EndsInIInv ==
  ASSUME IInv, NEW p \in {"down", "threw"}, EndsIn(p)
  PROVE  IInv'
<1>1. \A i \in Ids : Needs(i)' = Needs(i)
  BY SameNeeds DEF EndsIn, disk
<1>2. TypeOK'
  BY EndsInType DEF IInv, At
<1>3. Known' = Known
  BY DEF EndsIn, disk, Known
<1>4. Phase'
  BY DEF EndsIn, Phase
<1>5. Plan'
  BY <1>3 DEF IInv, EndsIn, disk, NoWave, Nothing, Plan, UndoneNotDone, Undone,
    CompletedDone, Placed, QueueLive, FixRecorded, AllKnown
<1>6. Covered'
  BY <1>1 DEF IInv, EndsIn, disk, NoWave, Nothing, TypeOK, Covered, DoneNeedsDone,
    RunCovered, SettledCovered, QueueCovered, UnsavedOK
<1> QED BY <1>2, <1>4, <1>5, <1>6 DEF IInv

LEMMA StartIInv ==
  ASSUME IInv, Start
  PROVE  IInv'
<1>1. \A i \in Ids : Needs(i)' = Needs(i)
  BY SameNeeds DEF Start, disk
<1>2. TypeOK'
  BY StartType DEF IInv
<1>3. Known' = Known
  BY DEF Start, disk, Known
<1>4. Phase'
  BY DEF Start, Phase, NoWave
<1>5. Known \subseteq InitialPlan /\ InitialPlan \subseteq Ids /\ recorded \subseteq InitialPlan
  BY IdFacts DEF Known, InitialPlan, IInv, TypeOK
<1>6. \A i \in InitialPlan : /\ ~IsFix(i) => i \in Known
                             /\ IsFix(i) => i \in recorded
  BY IdFacts DEF InitialPlan, Known, IInv, TypeOK, Plan, AllKnown
<1>7. \A i \in Ids : /\ i \in InitialPlan => InitialDeps[i] = Needs(i)
                     /\ i \in recorded => Needs(i) = recDeps[i]
  BY DEF InitialDeps, Needs
<1>8. /\ UNCHANGED <<visible, done, written, recorded, recDeps>>
      /\ inPlan' = InitialPlan /\ planDeps' = InitialDeps
      /\ pending' = InitialPlan /\ pendDeps' = InitialDeps
      /\ res' = NoWave /\ waveDeps' = Nothing
      /\ completed' = {} /\ skipped' = {} /\ failed' = {}
      /\ unsaved' = {}
      /\ pc' = "head"
  BY DEF Start, disk
<1>9. /\ UndoneNotDone' /\ CompletedDone' /\ Placed' /\ QueueLive'
  BY <1>8 DEF UndoneNotDone, CompletedDone, Placed, QueueLive, Undone, NoWave, Nothing
<1>10. FixRecorded'
  <2>1. \A i \in InitialPlan : IsFix(i) => InitialDeps[i] = recDeps[i] /\ recDeps[i] \subseteq InitialPlan
    BY <1>5, <1>6, <1>7 DEF IInv, Plan, AllKnown
  <2>2. \A i \in done : IsFix(i) => i \in recorded
    BY DEF IInv, TypeOK, Plan, FixRecorded
  <2> QED BY <1>5, <1>6, <1>8, <2>1, <2>2 DEF FixRecorded, NoWave
<1>11. AllKnown'
  BY <1>3, <1>6, <1>8 DEF IInv, Plan, AllKnown
<1>12. DoneNeedsDone' /\ RunCovered' /\ SettledCovered' /\ UnsavedOK'
  BY <1>1, <1>8 DEF IInv, TypeOK, Covered, DoneNeedsDone, RunCovered, SettledCovered,
    UnsavedOK, NoWave
<1>13. QueueCovered'
  BY <1>1, <1>5, <1>7, <1>8 DEF QueueCovered
<1> QED BY <1>2, <1>4, <1>9, <1>10, <1>11, <1>12, <1>13 DEF IInv, Plan, Covered

LEMMA AddTaskIInv ==
  ASSUME IInv, NEW t \in Tasks, AddTask(t)
  PROVE  IInv'
<1>0. /\ visible' = visible \cup {t}
      /\ UNCHANGED <<done, written, recorded, recDeps, pc, inPlan, planDeps, pending,
           pendDeps, res, waveDeps, completed, skipped, failed, attempts, unsaved,
           outcomes, iterations, limit, starts>>
  BY DEF AddTask, plan, queue, wave, sets, rounds
<1>1. \A i \in Ids : Needs(i)' = Needs(i)
  BY <1>0, SameNeeds
<1>2. TypeOK' /\ Phase'
  BY <1>0 DEF IInv, TypeOK, Phase
<1>3. Known \subseteq Known'
  BY <1>0 DEF Known
<1>4. Plan'
  BY <1>0, <1>3 DEF IInv, Plan, UndoneNotDone, CompletedDone, Placed, QueueLive,
    FixRecorded, AllKnown
<1>5. Covered'
  BY <1>0, <1>1 DEF IInv, TypeOK, Plan, QueueLive, Covered, DoneNeedsDone, RunCovered,
    SettledCovered, QueueCovered, UnsavedOK
<1> QED BY <1>2, <1>4, <1>5 DEF IInv

-----------------------------------------------------------------------------
(* The head of the loop                                                     *)

\* Tasks the process has not seen, and all that is queued, are known.
LEMMA NewFacts ==
  ASSUME IInv, pc = "head"
  PROVE  /\ New \subseteq Ids /\ New \cap inPlan = {} /\ New \cap recorded = {}
         /\ \A i \in New : ~IsFix(i) /\ i \in Known /\ Needs(i) = Declared(i)
         /\ New \cap completed = {} /\ pending \subseteq inPlan
         /\ \A i \in Ids : res[i] = "none"
<1>1. New \subseteq Ids /\ \A i \in New : ~IsFix(i) /\ Root(i) \in visible /\ i \notin inPlan
  BY IdFacts DEF New, IInv, TypeOK
<1>2. recorded \subseteq inPlan /\ completed \subseteq inPlan /\ pending \subseteq inPlan
  BY DEF IInv, Plan, FixRecorded, CompletedDone, QueueLive
<1> QED
  BY <1>1, <1>2 DEF Known, Needs, IInv, Phase

\* A round takes new tasks into the plan, and what is then queued waits for all it
\* needs.
LEMMA RefreshFacts ==
  ASSUME IInv, Refresh
  PROVE  /\ inPlan' = inPlan \cup New
         /\ planDeps' = [i \in Ids |-> IF i \in New THEN Declared(i) ELSE planDeps[i]]
         /\ Queue = pending \cup New
         /\ \A i \in Queue : Needs(i) \subseteq QueueDeps[i] \cup done
<1>1. pc = "head"
  BY DEF Refresh
<1>2. \A i \in pending \ New : Needs(i) \subseteq QueueDeps[i] \cup done
  BY <1>1, NewFacts DEF QueueDeps, IInv, TypeOK, Covered, QueueCovered
<1>3. \A i \in New : Needs(i) \subseteq QueueDeps[i]
  BY <1>1, NewFacts DEF QueueDeps
<1> QED BY <1>2, <1>3 DEF Refresh, Queue

\* The parts of the invariant that no round touches.
LEMMA RefreshKeeps ==
  ASSUME IInv, Refresh, UNCHANGED <<disk, sets, unsaved>>, unsaved = {},
         \A i \in Ids : res'[i] # "retry"
  PROVE  /\ \A i \in Ids : Needs(i)' = Needs(i)
         /\ AllKnown' /\ DoneNeedsDone'
         /\ \A i \in inPlan' : IsFix(i) =>
              /\ i \in recorded => planDeps'[i] = recDeps[i]
              /\ planDeps'[i] \subseteq inPlan'
<1>1. pc = "head"
  BY DEF Refresh
<1>2. \A i \in Ids : Needs(i)' = Needs(i)
  BY SameNeeds DEF disk
<1>3. Known' = Known
  BY DEF disk, Known
<1>4. AllKnown'
  BY <1>1, <1>3, NewFacts, RefreshFacts DEF AllKnown, IInv, Plan, disk
<1>5. DoneNeedsDone'
  BY <1>2 DEF DoneNeedsDone, disk, IInv, TypeOK, Covered
<1>6. \A i \in inPlan' : IsFix(i) =>
        i \in inPlan /\ planDeps'[i] = planDeps[i] /\ planDeps[i] \subseteq inPlan
  BY <1>1, NewFacts, RefreshFacts DEF IInv, TypeOK, Plan, FixRecorded
<1>7. \A i \in inPlan : IsFix(i) /\ i \in recorded => planDeps[i] = recDeps[i]
  BY DEF IInv, Plan, FixRecorded
<1>8. inPlan \subseteq inPlan'
  BY RefreshFacts
<1> QED BY <1>2, <1>4, <1>5, <1>6, <1>7, <1>8

LEMMA StartWaveIInv ==
  ASSUME IInv, NEW W \in Waves, StartWave(W)
  PROVE  IInv'
<1>1. Refresh /\ pc = "head"
  BY DEF StartWave, Refresh
<1>2. TypeOK'
  BY RoundType DEF Round, IInv
<1>3. W \subseteq Ready /\ Ready \subseteq Queue /\ Queue \subseteq Ids
  BY <1>1, RefreshType DEF Waves, Ready, IInv
<1>4. /\ UNCHANGED <<visible, done, written, recorded, recDeps, completed, skipped,
           failed, unsaved>>
      /\ pending' = Queue \ W
      /\ pendDeps' = [i \in Ids |-> IF i \in W THEN {} ELSE QueueDeps[i]]
      /\ waveDeps' = [i \in Ids |-> IF i \in W THEN QueueDeps[i] ELSE {}]
      /\ res' = [i \in Ids |-> IF i \in W THEN FirstResult(i) ELSE "none"]
      /\ pc' = "wave" /\ unsaved = {}
  BY <1>1 DEF StartWave, disk, sets, IInv, Covered, UnsavedOK
<1>5. \A i \in Ids : res'[i] = IF i \in W THEN IF i \in done THEN "kept" ELSE "running"
                                ELSE "none"
  BY <1>4 DEF FirstResult
<1>6. /\ \A i \in Ids : Needs(i)' = Needs(i)
      /\ AllKnown' /\ DoneNeedsDone'
      /\ \A i \in inPlan' : IsFix(i) =>
           /\ i \in recorded => planDeps'[i] = recDeps[i]
           /\ planDeps'[i] \subseteq inPlan'
  BY <1>1, <1>4, <1>5, RefreshKeeps DEF disk, sets
<1>7. /\ inPlan' = inPlan \cup New /\ Queue = pending \cup New
      /\ \A i \in Queue : Needs(i) \subseteq QueueDeps[i] \cup done
      /\ \A i \in New : ~IsFix(i) /\ i \in Ids
      /\ completed \subseteq inPlan /\ completed \subseteq done
      /\ recorded \subseteq inPlan /\ pending \subseteq inPlan
      /\ \A i \in Ids : res[i] = "none"
  BY <1>1, RefreshFacts, NewFacts DEF IInv, Plan, FixRecorded, CompletedDone
<1>8. Phase'
  BY <1>4, <1>5 DEF Phase
<1>9. UndoneNotDone'
  BY <1>4, <1>5 DEF UndoneNotDone, Undone
<1>10. CompletedDone'
  <2>1. \A i \in Ids : waveDeps'[i] \subseteq completed
    BY <1>3, <1>4 DEF Ready
  <2> QED BY <1>4, <1>5, <1>7, <2>1 DEF CompletedDone
<1>11. Placed'
  <2>1. \A i \in inPlan : ~IsFix(i) => i \in pending \cup completed \cup skipped \cup failed
    BY <1>1, <1>7 DEF IInv, TypeOK, Plan, Placed, Undone
  <2>2. \A i \in inPlan' : ~IsFix(i) =>
          i \in W \cup pending' \cup completed' \cup skipped' \cup failed'
    BY <1>4, <1>7, <2>1
  <2>3. \A i \in W : res'[i] \in {"kept", "running"} /\ i \in inPlan'
    BY <1>3, <1>5, <1>7
  <2>4. \A i \in Ids : i \notin W => res'[i] = "none"
    BY <1>5
  <2> QED BY <1>4, <2>2, <2>3, <2>4 DEF Placed, Undone
<1>12. QueueLive'
  BY <1>3, <1>4, <1>5, <1>7 DEF QueueLive
<1>13. FixRecorded'
  <2>1. \A i \in Ids : IsFix(i) /\ i \in pending \cup done => i \in recorded
    BY DEF IInv, Plan, FixRecorded
  <2>2. \A i \in Ids : i \in pending' \cup done \/ res'[i] # "none" => i \in pending \cup New \cup done
    BY <1>3, <1>4, <1>5, <1>7
  <2> QED BY <1>4, <1>6, <1>7, <2>1, <2>2 DEF FixRecorded
<1>14. RunCovered' /\ SettledCovered'
  <2>1. \A i \in W : Needs(i) \subseteq done
    BY <1>3, <1>7 DEF Ready
  <2> QED BY <1>4, <1>5, <1>6, <2>1 DEF RunCovered, SettledCovered
<1>15. QueueCovered'
  BY <1>3, <1>4, <1>6, <1>7 DEF QueueCovered
<1>16. UnsavedOK'
  BY <1>4, <1>5 DEF UnsavedOK
<1> QED
  BY <1>2, <1>6, <1>8, <1>9, <1>10, <1>11, <1>12, <1>13, <1>14, <1>15, <1>16
  DEF IInv, Plan, Covered

LEMMA ReportUnmetIInv ==
  ASSUME IInv, ReportUnmet
  PROVE  IInv'
<1>1. Refresh /\ pc = "head"
  BY DEF ReportUnmet, Refresh
<1>2. TypeOK'
  BY RoundType DEF Round, IInv
<1>3. /\ UNCHANGED <<visible, done, written, recorded, recDeps, completed, failed,
           unsaved, res, waveDeps>>
      /\ pending' = Queue /\ pendDeps' = QueueDeps
      /\ skipped' = skipped \cup Queue
      /\ pc' = "finished" /\ unsaved = {}
  BY <1>1 DEF ReportUnmet, disk, wave, IInv, Covered, UnsavedOK
<1>4. /\ inPlan' = inPlan \cup New /\ Queue = pending \cup New
      /\ planDeps' = [i \in Ids |-> IF i \in New THEN Declared(i) ELSE planDeps[i]]
      /\ \A i \in Queue : Needs(i) \subseteq QueueDeps[i] \cup done
      /\ \A i \in New : ~IsFix(i) /\ i \in Ids
      /\ completed \subseteq inPlan /\ completed \subseteq done
      /\ recorded \subseteq inPlan /\ pending \subseteq inPlan
      /\ \A i \in Ids : res[i] = "none"
  BY <1>1, RefreshFacts, NewFacts DEF IInv, Plan, FixRecorded, CompletedDone
<1>5. \A i \in Ids : Needs(i)' = Needs(i)
  BY <1>3, SameNeeds
<1>6. Known' = Known
  BY <1>3 DEF Known
<1>7. Phase'
  BY <1>3 DEF Phase
<1>8. UndoneNotDone' /\ CompletedDone'
  BY <1>3, <1>4 DEF IInv, Plan, UndoneNotDone, CompletedDone
<1>9. Placed' /\ QueueLive'
  <2>1. \A i \in inPlan : ~IsFix(i) => i \in pending \cup completed \cup skipped \cup failed
    BY <1>1, <1>4 DEF IInv, TypeOK, Plan, Placed, Undone
  <2>2. Placed'
    BY <1>3, <1>4, <2>1 DEF Placed
  <2>3. QueueLive'
    BY <1>1, <1>3, <1>4, RefreshType DEF QueueLive, IInv
  <2> QED BY <2>2, <2>3
<1>10. FixRecorded'
  <2>1. \A i \in Ids : IsFix(i) /\ i \in pending \cup done => i \in recorded
    BY DEF IInv, Plan, FixRecorded
  <2>2. \A i \in inPlan' : IsFix(i) => i \in inPlan /\ planDeps'[i] = planDeps[i]
    BY <1>4 DEF IInv, TypeOK
  <2> QED BY <1>3, <1>4, <2>1, <2>2 DEF FixRecorded, IInv, Plan
<1>11. AllKnown'
  BY <1>1, <1>3, <1>4, <1>6, NewFacts DEF AllKnown, IInv, Plan
<1>12. DoneNeedsDone' /\ RunCovered' /\ SettledCovered'
  BY <1>3, <1>4, <1>5 DEF IInv, TypeOK, Covered, DoneNeedsDone, RunCovered,
    SettledCovered
<1>13. QueueCovered'
  BY <1>1, <1>3, <1>4, <1>5, RefreshType DEF QueueCovered, IInv
<1>14. UnsavedOK'
  BY <1>3, <1>4 DEF UnsavedOK
<1> QED
  BY <1>2, <1>7, <1>8, <1>9, <1>10, <1>11, <1>12, <1>13, <1>14 DEF IInv, Plan, Covered

LEMMA RoundIInv ==
  ASSUME IInv, Round
  PROVE  IInv'
<1>1. CASE LoopEnds
  <2>1. /\ UNCHANGED <<visible, done, written, recorded, recDeps, inPlan, planDeps, pending,
             pendDeps, res, waveDeps, completed, skipped, failed, attempts, unsaved,
             outcomes, iterations, limit, starts>>
        /\ pc = "head" /\ pc' = "finished"
    BY <1>1 DEF LoopEnds, disk, plan, queue, wave, sets, rounds
  <2>2. \A i \in Ids : Needs(i)' = Needs(i)
    BY <2>1, SameNeeds
  <2>3. TypeOK'
    BY RoundType DEF IInv
  <2>4. Known' = Known /\ Phase'
    BY <2>1 DEF Known, Phase
  <2>5. Plan'
    BY <2>1, <2>4 DEF IInv, Phase, Plan, UndoneNotDone, CompletedDone, Placed, QueueLive,
      FixRecorded, AllKnown
  <2>6. Covered'
    BY <2>1, <2>2 DEF IInv, TypeOK, Plan, QueueLive, Covered, DoneNeedsDone, RunCovered,
      SettledCovered, QueueCovered, UnsavedOK
  <2> QED BY <2>3, <2>4, <2>5, <2>6 DEF IInv
<1>2. CASE RefreshFails
  BY <1>2, EndsInIInv DEF RefreshFails
<1> QED BY <1>1, <1>2, StartWaveIInv, ReportUnmetIInv DEF Round

-----------------------------------------------------------------------------
(* A wave runs and is accepted                                              *)

LEMMA SettleIInv ==
  ASSUME IInv, NEW i \in Ids, NEW r \in Results, Settle(i, r)
  PROVE  IInv'
<1>1. /\ UNCHANGED <<visible, done, written, recorded, recDeps, inPlan, planDeps, pending,
           pendDeps, waveDeps, completed, skipped, failed, unsaved>>
      /\ pc = "wave" /\ pc' = "wave" /\ unsaved = {}
      /\ r \in {"success", "failure", "skipped", "blocked"}
      /\ r \in {"success", "failure"} => res[i] = "running"
      /\ res[i] \in {"running", "kept"}
      /\ \A j \in Ids : res'[j] = IF j = i THEN r ELSE res[j]
  BY DEF Settle, disk, plan, queue, sets, rounds, IInv, TypeOK, Covered, UnsavedOK
<1>2. \A j \in Ids : Needs(j)' = Needs(j)
  BY <1>1, SameNeeds
<1>3. TypeOK'
  BY SettleType DEF IInv
<1>4. Known' = Known
  BY <1>1 DEF Known
<1>5. Phase'
  BY <1>1 DEF IInv, Phase
<1>6. i \notin pending /\ i \in inPlan
  BY <1>1 DEF IInv, Plan, QueueLive, Placed
<1>7. UndoneNotDone' /\ CompletedDone'
  BY <1>1 DEF IInv, Plan, UndoneNotDone, CompletedDone, Undone
<1>8. Placed' /\ QueueLive'
  BY <1>1, <1>6 DEF IInv, TypeOK, Plan, Placed, QueueLive, Undone
<1>9. FixRecorded' /\ AllKnown'
  BY <1>1, <1>4 DEF IInv, Plan, FixRecorded, AllKnown
<1>10. DoneNeedsDone' /\ RunCovered' /\ SettledCovered'
  BY <1>1, <1>2 DEF IInv, TypeOK, Covered, DoneNeedsDone, RunCovered, SettledCovered
<1>11. QueueCovered'
  BY <1>1, <1>2, <1>6 DEF IInv, TypeOK, Covered, QueueCovered
<1>12. UnsavedOK'
  BY <1>1, <1>5 DEF Phase, UnsavedOK
<1> QED
  BY <1>3, <1>5, <1>7, <1>8, <1>9, <1>10, <1>11, <1>12 DEF IInv, Plan, Covered

LEMMA AcceptWaveIInv ==
  ASSUME IInv, AcceptWave
  PROVE  IInv'
<1>1. /\ UNCHANGED <<visible, done, written, recorded, recDeps, inPlan, planDeps, pending,
           pendDeps, res, waveDeps, failed, unsaved>>
      /\ pc = "wave" /\ pc' = "accept" /\ unsaved = {}
      /\ \A j \in Ids : res[j] \notin {"running", "blocked"}
      /\ completed' = completed \cup {j \in Ids : res[j] = "kept"}
      /\ skipped' = skipped \cup {j \in Ids : res[j] = "skipped"}
  BY DEF AcceptWave, WaveSettled, Having, disk, plan, queue, wave, rounds, IInv, Covered,
    UnsavedOK
<1>2. \A j \in Ids : Needs(j)' = Needs(j)
  BY <1>1, SameNeeds
<1>3. TypeOK'
  BY AcceptanceType DEF IInv, Acceptance
<1>4. Known' = Known
  BY <1>1 DEF Known
<1>5. Phase'
  BY <1>1 DEF IInv, Phase
<1>6. UndoneNotDone' /\ CompletedDone'
  BY <1>1 DEF IInv, Plan, UndoneNotDone, CompletedDone, Placed
<1>7. Placed'
  BY <1>1 DEF IInv, TypeOK, Plan, Placed
<1>8. QueueLive'
  BY <1>1 DEF IInv, Plan, QueueLive
<1>9. FixRecorded' /\ AllKnown'
  BY <1>1, <1>4 DEF IInv, Plan, FixRecorded, AllKnown
<1>10. Covered'
  BY <1>1, <1>2, <1>5 DEF IInv, Phase, TypeOK, Covered, DoneNeedsDone, RunCovered,
    SettledCovered, QueueCovered, UnsavedOK
<1> QED BY <1>3, <1>5, <1>6, <1>7, <1>8, <1>9, <1>10 DEF IInv, Plan

LEMMA AcceptTaskIInv ==
  ASSUME IInv, NEW i \in Ids, SaveOutput(i) \/ MarkDone(i) \/ RejectSuccess(i)
  PROVE  IInv'
<1>1. /\ UNCHANGED <<visible, recorded, recDeps, inPlan, planDeps, pending,
           pendDeps, waveDeps, skipped, failed, unsaved>>
      /\ pc = "accept" /\ pc' = "accept" /\ unsaved = {}
      /\ res[i] \in {"success", "saved"}
      /\ \/ /\ res'[i] = "accepted"
            /\ done' = done \cup {i} /\ completed' = completed \cup {i}
         \/ res'[i] \in {"saved", "rejected"} /\ UNCHANGED <<done, completed>>
      /\ \A j \in Ids : j # i => res'[j] = res[j]
  BY DEF SaveOutput, MarkDone, RejectSuccess, Accepting, disk, plan, queue, sets, rounds,
    IInv, TypeOK, Covered, UnsavedOK
<1>2. \A j \in Ids : Needs(j)' = Needs(j)
  BY <1>1, SameNeeds
<1>3. TypeOK'
  BY AcceptanceType DEF IInv, Acceptance
<1>4. Known' = Known
  BY <1>1 DEF Known
<1>5. Phase'
  BY <1>1 DEF IInv, Phase
<1>6. i \notin pending /\ i \in inPlan /\ i \notin done /\ Needs(i) \subseteq done
  BY <1>1 DEF IInv, Plan, QueueLive, Placed, UndoneNotDone, Undone, Covered, RunCovered
<1>7. UndoneNotDone' /\ CompletedDone'
  <2>1. \A j \in Ids : j # i => (j \in done' <=> j \in done)
    BY <1>1
  <2>2. res'[i] \in Undone => i \notin done'
    BY <1>1, <1>6 DEF Undone
  <2>3. UndoneNotDone'
    BY <1>1, <2>1, <2>2 DEF IInv, Plan, UndoneNotDone
  <2>4. completed' \subseteq done' \cap inPlan' /\ completed \subseteq completed'
    BY <1>1, <1>6 DEF IInv, Plan, CompletedDone
  <2>5. \A j \in Ids : res'[j] = "kept" => j \in done'
    BY <1>1 DEF IInv, Plan, CompletedDone
  <2> QED BY <1>1, <2>3, <2>4, <2>5 DEF IInv, Plan, CompletedDone
<1>8. Placed' /\ QueueLive'
  <2>1. completed \subseteq completed' /\ (res'[i] \notin Undone => i \in completed')
    BY <1>1 DEF Undone
  <2>2. Placed'
    BY <1>1, <1>6, <2>1 DEF IInv, TypeOK, Plan, Placed
  <2>3. \A j \in pending' : res'[j] = "none"
    BY <1>1, <1>6 DEF IInv, TypeOK, Plan, QueueLive
  <2>4. QueueLive'
    BY <1>1, <2>3 DEF IInv, Plan, QueueLive
  <2> QED BY <2>2, <2>4
<1>9. FixRecorded' /\ AllKnown'
  BY <1>1, <1>4 DEF IInv, Plan, FixRecorded, AllKnown
<1>10. done \subseteq done' /\ done' \subseteq done \cup {i} /\ done \subseteq Ids
  BY <1>1 DEF IInv, TypeOK
<1>11. DoneNeedsDone'
  BY <1>2, <1>6, <1>10 DEF IInv, Covered, DoneNeedsDone
<1>12. RunCovered' /\ SettledCovered'
  BY <1>1, <1>2, <1>6, <1>10 DEF IInv, Covered, RunCovered, SettledCovered
<1>13. QueueCovered'
  <2>1. pending \subseteq Ids /\ \A j \in pending : res'[j] = res[j]
    BY <1>1, <1>6 DEF IInv, TypeOK
  <2> QED BY <1>1, <1>2, <1>10, <2>1 DEF IInv, Covered, QueueCovered
<1>14. UnsavedOK'
  BY <1>1, <1>5 DEF Phase, UnsavedOK
<1> QED
  BY <1>3, <1>5, <1>7, <1>8, <1>9, <1>10, <1>11, <1>12, <1>13, <1>14
  DEF IInv, Plan, Covered

LEMMA WaveAcceptedIInv ==
  ASSUME IInv, WaveAccepted
  PROVE  IInv'
<1>1. /\ UNCHANGED <<visible, done, written, recorded, recDeps, inPlan, planDeps, pending,
           pendDeps, res, waveDeps, completed, skipped, failed, unsaved>>
      /\ pc = "accept" /\ pc' = "settle" /\ unsaved = {}
      /\ \A j \in Ids : res[j] \notin {"success", "saved"}
  BY DEF WaveAccepted, Having, disk, plan, queue, wave, sets, rounds, IInv, Covered,
    UnsavedOK
<1>2. \A j \in Ids : Needs(j)' = Needs(j)
  BY <1>1, SameNeeds
<1>3. TypeOK'
  BY AcceptanceType DEF IInv, Acceptance
<1>4. Known' = Known
  BY <1>1 DEF Known
<1>5. Phase'
  BY <1>1 DEF IInv, Phase
<1>6. Plan'
  BY <1>1, <1>4 DEF IInv, TypeOK, Plan, UndoneNotDone, CompletedDone, Placed, QueueLive,
    FixRecorded, AllKnown
<1>7. Covered'
  BY <1>1, <1>2, <1>5 DEF IInv, Phase, TypeOK, Plan, QueueLive, Covered, DoneNeedsDone,
    RunCovered, SettledCovered, QueueCovered, UnsavedOK
<1> QED BY <1>3, <1>5, <1>6, <1>7 DEF IInv

LEMMA AcceptanceIInv ==
  ASSUME IInv, Acceptance
  PROVE  IInv'
<1>1. CASE WaveBlocked \/ AcceptFails
  BY <1>1, EndsInIInv DEF WaveBlocked, AcceptFails
<1> QED BY <1>1, AcceptWaveIInv, AcceptTaskIInv, WaveAcceptedIInv DEF Acceptance

-----------------------------------------------------------------------------
(* Failures and recoveries                                                  *)

\* A failure is settled or given up for good.
LEMMA FailureIInv ==
  ASSUME IInv, NEW i \in Ids, RejectTask(i) \/ GiveUp(i) \/ FailTask(i)
  PROVE  IInv'
<1>1. /\ UNCHANGED <<visible, done, written, recorded, recDeps, inPlan, planDeps,
           waveDeps, completed, skipped, unsaved>>
      /\ pc = "settle" /\ pc' = "settle" /\ unsaved = {}
      /\ \/ /\ res[i] = "rejected" /\ res'[i] = "settled"
            /\ failed' = failed \cup {i} /\ UNCHANGED <<pending, pendDeps>>
         \/ /\ res[i] = "failure" /\ res'[i] = "terminal"
            /\ UNCHANGED <<failed, pending, pendDeps>>
         \/ /\ res[i] = "terminal" /\ res'[i] = "settled"
            /\ failed' = failed \cup {i} /\ pending' = pending \ {i}
            /\ pendDeps' = [pendDeps EXCEPT ![i] = {}]
      /\ \A j \in Ids : j # i => res'[j] = res[j]
  BY DEF RejectTask, GiveUp, FailTask, NextFailure, disk, plan, queue, sets, rounds,
    IInv, TypeOK, Covered, UnsavedOK
<1>2. \A j \in Ids : Needs(j)' = Needs(j)
  BY <1>1, SameNeeds
<1>3. TypeOK'
  BY RecoveryType DEF IInv, Recovery
<1>4. Known' = Known
  BY <1>1 DEF Known
<1>5. Phase'
  BY <1>1 DEF IInv, Phase
<1>6. /\ res[i] \in {"rejected", "failure", "terminal"} /\ res'[i] \in {"settled", "terminal"}
      /\ failed \subseteq failed' /\ failed' \subseteq failed \cup {i}
      /\ res'[i] = "settled" => i \in failed'
      /\ pending' \subseteq pending /\ pending \subseteq pending' \cup {i}
      /\ \A j \in pending' : j # i => pendDeps'[j] = pendDeps[j]
      /\ pending \subseteq Ids /\ failed \subseteq Ids
      /\ res'[i] = "terminal" => failed' = failed
      /\ res[i] = "terminal" => i \notin pending'
      /\ res[i] # "terminal" => pendDeps' = pendDeps
  <2>1. pending \subseteq Ids /\ failed \subseteq Ids /\ pendDeps \in [Ids -> SUBSET Ids]
    BY DEF IInv, TypeOK
  <2> QED BY <1>1, <2>1
<1>7. i \in inPlan
  BY <1>6 DEF IInv, Plan, Placed
<1>8. UndoneNotDone' /\ CompletedDone'
  BY <1>1, <1>6 DEF IInv, Plan, UndoneNotDone, CompletedDone, Undone
<1>9. Placed'
  <2>1. \A j \in inPlan : j # i /\ ~IsFix(j) /\ res[j] \notin Undone =>
          j \in pending' \cup completed \cup skipped \cup failed'
    BY <1>1, <1>6 DEF IInv, Plan, Placed
  <2>2. res'[i] \notin Undone => i \in failed'
    BY <1>6 DEF Undone
  <2>3. \A j \in inPlan : ~IsFix(j) /\ res'[j] \notin Undone =>
          j \in pending' \cup completed \cup skipped \cup failed'
    BY <1>1, <2>1, <2>2 DEF IInv, TypeOK
  <2>4. \A j \in Ids : res'[j] # "none" => j \in inPlan
    BY <1>1, <1>7 DEF IInv, Plan, Placed
  <2> QED BY <1>1, <2>3, <2>4 DEF Placed
<1>10. QueueLive'
  <2>1. \A j \in pending' : j # i /\ res[j] \in {"failure", "rejected", "retry", "terminal"} =>
          j \notin completed \cup skipped \cup failed'
    BY <1>6 DEF IInv, Plan, QueueLive
  <2>2. i \in pending' /\ res'[i] = "terminal" => i \notin completed \cup skipped \cup failed'
    BY <1>6 DEF IInv, Plan, QueueLive
  <2>3. pending' \subseteq inPlan
    BY <1>6 DEF IInv, Plan, QueueLive
  <2> QED BY <1>1, <1>6, <2>1, <2>2, <2>3 DEF QueueLive
<1>11. FixRecorded' /\ AllKnown'
  <2>1. \A j \in Ids : j \in pending' \cup done \/ res'[j] # "none" =>
          j \in pending \cup done \/ res[j] # "none"
    BY <1>1, <1>6
  <2>2. FixRecorded'
    BY <1>1, <2>1 DEF IInv, Plan, FixRecorded
  <2> QED BY <1>1, <1>4, <2>2 DEF IInv, Plan, AllKnown
<1>12. DoneNeedsDone' /\ RunCovered'
  <2>1. done' = done /\ done \subseteq Ids
    BY <1>1 DEF IInv, TypeOK
  <2>2. \A j \in Ids : res'[j] \notin {"none", "retry", "terminal", "settled"} => res'[j] = res[j]
    BY <1>1, <1>6
  <2> QED BY <1>2, <2>1, <2>2 DEF IInv, Covered, DoneNeedsDone, RunCovered
<1>13. SettledCovered'
  <2>1. Needs(i) \subseteq (planDeps[i] \cap inPlan) \cup done
    BY <1>6 DEF IInv, Covered, RunCovered, SettledCovered
  <2> QED BY <1>1, <1>2, <2>1 DEF IInv, Covered, SettledCovered
<1>14. QueueCovered'
  <2>1. ASSUME NEW j \in pending', res'[j] \notin {"retry", "terminal"}
        PROVE  Needs(j) \subseteq pendDeps'[j] \cup done
    <3>1. j \in pending /\ res[j] \notin {"retry", "terminal"} /\ pendDeps'[j] = pendDeps[j]
      BY <1>1, <1>6, <2>1
    <3> QED BY <3>1 DEF IInv, Covered, QueueCovered
  <2> QED BY <1>1, <1>2, <1>6, <2>1 DEF QueueCovered
<1>15. UnsavedOK'
  BY <1>1, <1>5 DEF Phase, UnsavedOK
<1> QED
  BY <1>3, <1>5, <1>8, <1>9, <1>10, <1>11, <1>12, <1>13, <1>14, <1>15
  DEF IInv, Plan, Covered

LEMMA WaveEndsIInv ==
  ASSUME IInv, WaveEnds
  PROVE  IInv'
<1>1. /\ UNCHANGED <<visible, done, written, recorded, recDeps, inPlan, planDeps, pending,
           pendDeps, completed, skipped, failed, unsaved>>
      /\ pc = "settle" /\ pc' = "head" /\ unsaved = {}
      /\ \A j \in Ids : res[j] \notin {"retry", "terminal", "failure", "rejected"}
      /\ \A j \in Ids : res'[j] = "none" /\ waveDeps'[j] = {}
  BY DEF WaveEnds, NextFailure, Having, NoWave, Nothing, disk, plan, queue, sets, rounds,
    IInv, Covered, UnsavedOK
<1>2. \A j \in Ids : Needs(j)' = Needs(j)
  BY <1>1, SameNeeds
<1>3. TypeOK'
  BY RecoveryType DEF IInv, Recovery
<1>4. Known' = Known
  BY <1>1 DEF Known
<1>5. Phase'
  BY <1>1 DEF Phase
<1>6. \A j \in Ids : res[j] \notin Undone
  BY <1>1 DEF IInv, Phase, Undone
<1>7. pending \subseteq Ids /\ inPlan \subseteq Ids
  BY DEF IInv, TypeOK
<1>8. Placed'
  BY <1>1, <1>6, <1>7 DEF IInv, Plan, Placed
<1>9. UndoneNotDone' /\ CompletedDone' /\ QueueLive' /\ FixRecorded' /\ AllKnown'
  BY <1>1, <1>4, <1>7 DEF IInv, Plan, UndoneNotDone, Undone, CompletedDone, QueueLive,
    FixRecorded, AllKnown
<1>10. Covered'
  BY <1>1, <1>2, <1>7 DEF IInv, TypeOK, Covered, DoneNeedsDone, RunCovered,
    SettledCovered, QueueCovered, UnsavedOK
<1> QED BY <1>3, <1>5, <1>8, <1>9, <1>10 DEF IInv, Plan

\* The task being retried is covered by its new dependencies, or by its former.
LEMMA RetryCovered ==
  ASSUME IInv, NEW i \in Ids, res[i] = "retry"
  PROVE  Needs(i) \subseteq (planDeps[i] \cap inPlan) \cup done
BY DEF IInv, Covered, UnsavedOK, Needs

LEMMA PersistFailsIInv ==
  ASSUME IInv, PersistFails
  PROVE  IInv'
<1>1. /\ UNCHANGED <<visible, done, written, recorded, recDeps, inPlan, planDeps, pending,
           pendDeps, waveDeps, completed, skipped, failed>>
      /\ pc = "persist" /\ pc' = "settle" /\ unsaved' = {}
      /\ \A j \in Ids : res'[j] = IF res[j] = "retry" THEN "terminal" ELSE res[j]
  BY DEF PersistFails, disk, plan, queue, sets, rounds
<1>2. \A j \in Ids : Needs(j)' = Needs(j)
  BY <1>1, SameNeeds
<1>3. TypeOK'
  BY RecoveryType DEF IInv, Recovery
<1>4. Known' = Known
  BY <1>1 DEF Known
<1>5. Phase'
  BY <1>1 DEF IInv, Phase
<1>6. pending \subseteq Ids /\ inPlan \subseteq Ids /\ done \subseteq Ids
  BY DEF IInv, TypeOK
<1>7. Plan'
  BY <1>1, <1>4, <1>6 DEF IInv, Plan, UndoneNotDone, Undone, CompletedDone, Placed,
    QueueLive, FixRecorded, AllKnown
<1>8. SettledCovered'
  BY <1>1, <1>2, RetryCovered DEF IInv, Covered, SettledCovered
<1>9. DoneNeedsDone' /\ RunCovered' /\ QueueCovered' /\ UnsavedOK'
  BY <1>1, <1>2, <1>6 DEF IInv, Covered, DoneNeedsDone, RunCovered, QueueCovered, UnsavedOK
<1> QED BY <1>3, <1>5, <1>7, <1>8, <1>9 DEF IInv, Covered

LEMMA RequeueIInv ==
  ASSUME IInv, Requeue
  PROVE  IInv'
<1>1. /\ UNCHANGED <<visible, done, written, recorded, recDeps, inPlan, planDeps,
           waveDeps, completed, skipped, failed, unsaved>>
      /\ pc = "persist" /\ pc' = "settle" /\ unsaved = {}
      /\ pending' = pending \cup Requeued
      /\ pendDeps' = [j \in Ids |-> IF j \in Requeued THEN planDeps[j] ELSE pendDeps[j]]
      /\ \A j \in Ids : res'[j] = IF res[j] = "retry" THEN "settled" ELSE res[j]
  BY DEF Requeue, disk, plan, sets
<1>2. \A j \in Ids : Needs(j)' = Needs(j)
  BY <1>1, SameNeeds
<1>3. TypeOK'
  BY RecoveryType DEF IInv, Recovery
<1>4. Known' = Known
  BY <1>1 DEF Known
<1>5. Phase'
  BY <1>1 DEF IInv, Phase
<1>6. /\ pending \subseteq Ids /\ inPlan \subseteq Ids /\ done \subseteq Ids
      /\ Requeued \subseteq inPlan
      /\ \A j \in Requeued : j \notin completed \cup skipped \cup failed
      /\ \A j \in Requeued : j \in pending => res[j] # "none"
      /\ \A j \in inPlan : res[j] = "retry" => j \in Requeued \cup completed \cup skipped \cup failed
  BY DEF IInv, TypeOK, Requeued, WaveFailures, Having
<1>7. UndoneNotDone' /\ CompletedDone' /\ AllKnown'
  BY <1>1, <1>4 DEF IInv, Plan, UndoneNotDone, Undone, CompletedDone, AllKnown
<1>8. Placed'
  BY <1>1, <1>6 DEF IInv, Plan, Placed, Undone
<1>9. QueueLive'
  BY <1>1, <1>6 DEF IInv, Plan, QueueLive
<1>10. \A j \in inPlan : IsFix(j) => j \in recorded
  BY <1>1 DEF IInv, Covered, UnsavedOK
<1>11. FixRecorded'
  BY <1>1, <1>6, <1>10 DEF IInv, Plan, FixRecorded
<1>12. DoneNeedsDone' /\ RunCovered' /\ UnsavedOK'
  BY <1>1, <1>2, <1>6 DEF IInv, Covered, DoneNeedsDone, RunCovered, UnsavedOK
<1>13. SettledCovered'
  BY <1>1, <1>2, RetryCovered DEF IInv, Covered, SettledCovered
<1>14. ASSUME NEW j \in Requeued, res[j] # "terminal"
       PROVE  Needs(j) \subseteq planDeps[j] \cup done
  <2>1. CASE IsFix(j)
    BY <1>6, <1>10, <2>1 DEF IInv, Plan, FixRecorded, Needs
  <2>2. CASE res[j] \in {"retry", "settled"}
    BY <1>6, <2>2, RetryCovered DEF IInv, Covered, SettledCovered
  <2>3. CASE ~IsFix(j) /\ res[j] = "none"
    BY <1>1, <1>6, <2>3 DEF IInv, Plan, Placed, Undone
  <2>4. CASE res[j] \notin {"none", "retry", "settled"}
    BY <1>6, <1>14, <2>4 DEF IInv, Covered, RunCovered
  <2> QED BY <2>1, <2>2, <2>3, <2>4
<1>15. ASSUME NEW j \in pending, j \notin Requeued, res'[j] \notin {"retry", "terminal"}
       PROVE  Needs(j) \subseteq pendDeps[j] \cup done
  <2>1. res[j] # "retry"
    BY <1>6, <1>15 DEF IInv, Plan, QueueLive
  <2>2. res[j] # "terminal"
    BY <1>1, <1>6, <1>15, <2>1
  <2> QED BY <2>1, <2>2 DEF IInv, Covered, QueueCovered
<1>16. QueueCovered'
  <2>1. ASSUME NEW j \in pending', res'[j] \notin {"retry", "terminal"}
        PROVE  Needs(j) \subseteq pendDeps'[j] \cup done
    <3>1. j \in Ids
      BY <1>1, <1>6
    <3>2. CASE j \in Requeued
      BY <1>1, <1>14, <2>1, <3>1, <3>2
    <3>3. CASE j \notin Requeued
      BY <1>1, <1>15, <2>1, <3>1, <3>3
    <3> QED BY <3>2, <3>3
  <2> QED BY <1>1, <1>2, <1>6, <2>1 DEF QueueCovered
<1> QED
  BY <1>3, <1>5, <1>7, <1>8, <1>9, <1>11, <1>12, <1>13, <1>16 DEF IInv, Plan, Covered

LEMMA RecoverIInv ==
  ASSUME IInv, NEW i \in Ids, Recover(i)
  PROVE  IInv'
<1> DEFINE f == NextFix(i)
<1>1. f \in Ids /\ IsFix(f) /\ f # i /\ ~IsFix(i)
  BY NextFixFacts DEF Recover, IInv, TypeOK
<1>2. /\ f \notin inPlan
      /\ inPlan' = inPlan \cup {f}
      /\ planDeps' = WithFix(i, f)
      /\ unsaved' = {j \in inPlan \cup {f} : IsFix(j)} \cup {i}
  BY DEF Recover
<1> HIDE DEF f
<1>3. /\ UNCHANGED <<visible, done, written, recorded, recDeps, pending, pendDeps,
           waveDeps, completed, skipped, failed>>
      /\ pc = "settle" /\ pc' = "persist" /\ unsaved = {}
      /\ res[i] = "failure"
      /\ \A j \in Ids : res'[j] = IF j = i THEN "retry" ELSE res[j]
  BY DEF Recover, NextFailure, disk, queue, sets, rounds, IInv, TypeOK, Covered, UnsavedOK
<1>4. \A j \in Ids : Needs(j)' = Needs(j)
  BY <1>3, SameNeeds
<1>5. TypeOK'
  BY RecoveryType DEF IInv, Recovery
<1>6. Known' = Known
  BY <1>3 DEF Known
<1>7. Phase'
  BY <1>3 DEF IInv, Phase
<1>8. /\ pending \subseteq Ids /\ inPlan \subseteq Ids /\ done \subseteq Ids
      /\ recorded \subseteq inPlan /\ f \notin recorded
      /\ i \in inPlan /\ \A j \in Ids : res[j] # "none" => j \in inPlan
      /\ \A j \in Ids : res[j] # "retry"
  BY <1>2, <1>3 DEF IInv, TypeOK, Plan, FixRecorded, Placed, Phase
<1>9. /\ planDeps'[i] = {f} \cup waveDeps[i]
      /\ planDeps'[f] = planDeps[i] \cap inPlan
      /\ \A j \in inPlan : j # i => planDeps'[j] = planDeps[j] \cap inPlan
  BY <1>1, <1>2, <1>8 DEF WithFix, InPlan
<1>10. UndoneNotDone' /\ CompletedDone'
  BY <1>2, <1>3 DEF IInv, Plan, UndoneNotDone, Undone, CompletedDone
<1>11. Placed'
  BY <1>1, <1>2, <1>3, <1>8 DEF IInv, Plan, Placed, Undone
<1>12. QueueLive'
  BY <1>2, <1>3, <1>8 DEF IInv, Plan, QueueLive
<1>13. FixRecorded'
  <2>1. \A j \in inPlan : IsFix(j) => planDeps'[j] = planDeps[j] /\ planDeps[j] \subseteq inPlan
    BY <1>1, <1>9 DEF IInv, Plan, FixRecorded
  <2> QED BY <1>1, <1>2, <1>3, <1>8, <1>9, <2>1 DEF IInv, Plan, FixRecorded
<1>14. AllKnown'
  BY <1>1, <1>2, <1>3, <1>6 DEF IInv, Plan, AllKnown
<1>15. DoneNeedsDone' /\ RunCovered' /\ QueueCovered'
  BY <1>3, <1>4, <1>8 DEF IInv, Covered, DoneNeedsDone, RunCovered, QueueCovered
<1>16. SettledCovered'
  <2>1. ASSUME NEW j \in Ids, res'[j] \in {"terminal", "settled"}
        PROVE  Needs(j) \subseteq (planDeps'[j] \cap inPlan') \cup done
    <3>1. j # i /\ j \in inPlan /\ res[j] \in {"terminal", "settled"}
      BY <1>3, <1>8, <2>1
    <3> QED BY <1>2, <1>9, <3>1 DEF IInv, Covered, SettledCovered
  <2> QED BY <1>3, <1>4, <2>1 DEF SettledCovered
<1>17. UnsavedOK'
  <2>1. planDeps'[i] \subseteq inPlan'
    BY <1>2, <1>9 DEF IInv, Plan, CompletedDone
  <2>2. Needs(i) \subseteq done
    BY <1>3 DEF IInv, Covered, RunCovered
  <2>3. \A j \in Ids : res'[j] = "retry" => j = i
    BY <1>3, <1>8
  <2> QED BY <1>1, <1>2, <1>3, <1>4, <1>8, <2>1, <2>2, <2>3 DEF UnsavedOK
<1> QED
  BY <1>5, <1>7, <1>10, <1>11, <1>12, <1>13, <1>14, <1>15, <1>16, <1>17
  DEF IInv, Plan, Covered

\* Writing a recovered task changes what is needed only of a task that is neither
\* queued, nor running, nor done.
LEMMA PersistNeeds ==
  ASSUME IInv, NEW i \in Ids, Persist(i)
  PROVE  /\ \A j \in Ids : j # i => Needs(j)' = Needs(j)
         /\ Needs(i)' = planDeps[i]
         /\ \/ Needs(i)' = Needs(i) /\ IsFix(i)
            \/ IsFix(i) /\ i \notin pending \cup done /\ res[i] = "none"
            \/ ~IsFix(i) /\ res[i] = "retry" /\ i \notin done
<1>1. /\ recorded' = recorded \cup {i} /\ recDeps' = [recDeps EXCEPT ![i] = planDeps[i]]
      /\ recDeps \in [Ids -> SUBSET Ids] /\ i \in unsaved /\ unsaved \subseteq inPlan
  BY DEF Persist, IInv, TypeOK, Covered, UnsavedOK
<1>2. \A j \in Ids : j # i => Needs(j)' = Needs(j)
  BY <1>1 DEF Needs, Declared
<1>3. Needs(i)' = planDeps[i]
  BY <1>1 DEF Needs
<1>4. CASE IsFix(i) /\ i \in recorded
  BY <1>1, <1>2, <1>3, <1>4 DEF IInv, Plan, FixRecorded, Needs
<1>5. CASE IsFix(i) /\ i \notin recorded
  BY <1>2, <1>3, <1>5 DEF IInv, Plan, FixRecorded
<1>6. CASE ~IsFix(i)
  BY <1>1, <1>2, <1>3, <1>6 DEF IInv, Plan, Covered, UnsavedOK, UndoneNotDone, Undone
<1> QED BY <1>4, <1>5, <1>6

LEMMA PersistIInv ==
  ASSUME IInv, NEW i \in Ids, Persist(i)
  PROVE  IInv'
<1>1. /\ UNCHANGED <<visible, done, written, pc, inPlan, planDeps, pending, pendDeps,
           res, waveDeps, completed, skipped, failed>>
      /\ pc = "persist" /\ i \in unsaved /\ planDeps[i] \cap unsaved = {}
      /\ recorded' = recorded \cup {i} /\ recDeps' = [recDeps EXCEPT ![i] = planDeps[i]]
      /\ unsaved' = unsaved \ {i}
  BY DEF Persist, plan, queue, wave, sets, rounds
<1>2. /\ pending \subseteq Ids /\ done \subseteq Ids /\ inPlan \subseteq Ids
      /\ recDeps \in [Ids -> SUBSET Ids] /\ planDeps \in [Ids -> SUBSET Ids]
      /\ unsaved \subseteq inPlan
      /\ IsFix(i) \/ res[i] = "retry"
      /\ \A j \in inPlan : IsFix(j) => j \in unsaved \cup recorded
  BY <1>1 DEF IInv, TypeOK, Covered, UnsavedOK
<1>3. /\ recDeps'[i] = planDeps[i]
      /\ \A j \in Ids : j # i => recDeps'[j] = recDeps[j]
  BY <1>1, <1>2
<1>4. /\ Needs(i)' = planDeps[i]
      /\ \A j \in Ids : Needs(j)' # Needs(j) =>
           /\ j = i /\ j \notin done
           /\ \/ j \notin pending /\ res[j] = "none"
              \/ res[j] = "retry"
  BY PersistNeeds
<1>5. TypeOK'
  BY RecoveryType DEF IInv, Recovery
<1>6. Phase'
  BY <1>1 DEF IInv, Phase
<1>7. UndoneNotDone' /\ CompletedDone' /\ Placed' /\ QueueLive'
  BY <1>1 DEF IInv, Plan, UndoneNotDone, CompletedDone, Placed, QueueLive
<1>8. planDeps[i] \subseteq inPlan
  BY <1>1, <1>2 DEF IInv, Plan, FixRecorded, Covered, UnsavedOK
<1>9. FixRecorded'
  BY <1>1, <1>2, <1>3 DEF IInv, Plan, FixRecorded
<1>10. AllKnown'
  <2>1. Known \subseteq Known'
    BY <1>1 DEF Known
  <2>2. \A j \in inPlan : j \notin unsaved => j \in Known
    BY <1>2 DEF IInv, Plan, AllKnown, Known
  <2>3. planDeps[i] \subseteq Known
    BY <1>1, <1>8, <2>2
  <2>4. i \in Known'
    BY <1>1, <1>2, <2>1 DEF IInv, Plan, AllKnown, Known
  <2> QED BY <1>1, <1>2, <1>3, <2>1, <2>3, <2>4 DEF IInv, TypeOK, Plan, AllKnown
<1>11. DoneNeedsDone' /\ RunCovered' /\ SettledCovered' /\ QueueCovered'
  BY <1>1, <1>2, <1>4 DEF IInv, Covered, DoneNeedsDone, RunCovered, SettledCovered,
    QueueCovered
<1>12. UnsavedOK'
  <2>1. ASSUME NEW j \in Ids, res[j] = "retry"
        PROVE  \/ j \in unsaved' /\ Needs(j)' \subseteq done
               \/ j \in recorded' /\ recDeps'[j] = planDeps[j]
    <3>1. CASE j = i
      BY <1>1, <1>3, <3>1
    <3>2. CASE j # i
      <4>1. Needs(j)' = Needs(j)
        BY <1>4, <3>2
      <4> QED BY <1>1, <1>3, <2>1, <3>2, <4>1 DEF IInv, Covered, UnsavedOK
    <3> QED BY <3>1, <3>2
  <2> QED BY <1>1, <1>2, <2>1 DEF IInv, Covered, UnsavedOK
<1> QED
  BY <1>5, <1>6, <1>7, <1>9, <1>10, <1>11, <1>12 DEF IInv, Plan, Covered

LEMMA RecoveryIInv ==
  ASSUME IInv, Recovery
  PROVE  IInv'
<1>1. CASE FailureTraceFails
  BY <1>1, EndsInIInv DEF FailureTraceFails
<1> QED
  BY <1>1, FailureIInv, RecoverIInv, PersistIInv, PersistFailsIInv, RequeueIInv,
    WaveEndsIInv
  DEF Recovery

LEMMA StepIInv ==
  ASSUME IInv, [Next]_vars
  PROVE  IInv'
<1>1. CASE Crash
  BY <1>1, EndsInIInv DEF Crash
<1> QED
  BY <1>1, StutterIInv, StartIInv, AddTaskIInv, RoundIInv, SettleIInv, AcceptanceIInv,
    RecoveryIInv
  DEF Next, TaskSettles

THEOREM Invariant == Spec => []IInv
BY InitIInv, StepIInv, PTL DEF Spec

-----------------------------------------------------------------------------
(* What follows from the invariant                                          *)

\* Whatever crashes, fails or is recovered, a task runs only after all that its
\* latest definition needs is marked done.
THEOREM TasksRunAfterNeeds == Spec => []RunsAfterNeeds
<1>1. IInv => RunsAfterNeeds
  BY DEF IInv, Covered, RunCovered, RunsAfterNeeds, Executing, Having
<1> QED BY <1>1, Invariant, PTL

\* At every moment the markers on disk are closed under what the tasks need.
THEOREM MarkersClosed == Spec => []DoneNeedsDone
<1>1. IInv => DoneNeedsDone
  BY DEF IInv, Covered
<1> QED BY <1>1, Invariant, PTL

\* The output goes to the cache before the marker goes to disk.
OutputFirst ==
  DoneHasOutput /\ \A i \in Ids : res[i] = "saved" => i \in written

LEMMA StepOutputFirst ==
  ASSUME IInv, OutputFirst, [Next]_vars
  PROVE  OutputFirst'
<1> USE DEF OutputFirst, DoneHasOutput
<1>1. CASE UNCHANGED vars
  BY <1>1 DEF vars
<1>2. ASSUME NEW p \in At, EndsIn(p)
      PROVE  OutputFirst'
  BY <1>2 DEF EndsIn, disk, NoWave
<1>3. CASE Start
  BY <1>3 DEF Start, disk, NoWave
<1>4. ASSUME NEW t \in Tasks, AddTask(t)
      PROVE  OutputFirst'
  BY <1>4 DEF AddTask, wave
<1>5. ASSUME NEW W \in Waves, StartWave(W)
      PROVE  OutputFirst'
  <2>1. \A i \in Ids : res'[i] # "saved"
    BY <1>5 DEF StartWave, FirstResult
  <2> QED BY <1>5, <2>1 DEF StartWave, disk
<1>6. CASE ReportUnmet \/ LoopEnds
  BY <1>6 DEF ReportUnmet, LoopEnds, disk, wave
<1>7. ASSUME NEW i \in Ids, NEW r \in Results, Settle(i, r)
      PROVE  OutputFirst'
  BY <1>7 DEF Settle, disk, IInv, TypeOK
<1>8. CASE AcceptWave \/ WaveAccepted
  BY <1>8 DEF AcceptWave, WaveAccepted, disk, wave
<1>9. ASSUME NEW i \in Ids, SaveOutput(i) \/ MarkDone(i) \/ RejectSuccess(i)
      PROVE  OutputFirst'
  BY <1>9 DEF SaveOutput, MarkDone, RejectSuccess, disk, IInv, TypeOK
<1>10. ASSUME NEW i \in Ids,
              RejectTask(i) \/ GiveUp(i) \/ Recover(i) \/ Persist(i) \/ FailTask(i)
       PROVE  OutputFirst'
  BY <1>10 DEF RejectTask, GiveUp, Recover, Persist, FailTask, disk, wave, IInv, TypeOK
<1>11. CASE PersistFails \/ Requeue \/ WaveEnds
  BY <1>11 DEF PersistFails, Requeue, WaveEnds, disk, NoWave
<1> QED
  BY <1>1, <1>2, <1>3, <1>4, <1>5, <1>6, <1>7, <1>8, <1>9, <1>10, <1>11
  DEF Next, Crash, Round, RefreshFails, TaskSettles, Acceptance, WaveBlocked, AcceptFails,
    Recovery, FailureTraceFails, At

\* No marker is ever on disk without its output having been handed to the cache.
THEOREM MarkersHaveOutput == Spec => []DoneHasOutput
<1>1. Init => OutputFirst
  BY DEF Init, OutputFirst, DoneHasOutput, NoWave
<1>2. OutputFirst => DoneHasOutput
  BY DEF OutputFirst
<1> QED BY <1>1, <1>2, StepOutputFirst, Invariant, PTL DEF Spec

\* What a step does to the markers and to what is needed.
LEMMA DiskSteps ==
  ASSUME IInv, [Next]_vars
  PROVE  \/ UNCHANGED <<done, recorded, recDeps>>
         \/ \E i \in Ids : MarkDone(i)
         \/ \E i \in Ids : Persist(i)
<1>1. CASE UNCHANGED vars
  BY <1>1 DEF vars
<1>2. ASSUME NEW p \in At, EndsIn(p)
      PROVE  UNCHANGED <<done, recorded, recDeps>>
  BY <1>2 DEF EndsIn, disk
<1>3. CASE Start \/ ReportUnmet \/ LoopEnds
  BY <1>3 DEF Start, ReportUnmet, LoopEnds, disk
<1>4. ASSUME NEW t \in Tasks, AddTask(t)
      PROVE  UNCHANGED <<done, recorded, recDeps>>
  BY <1>4 DEF AddTask
<1>5. ASSUME NEW W \in Waves, StartWave(W)
      PROVE  UNCHANGED <<done, recorded, recDeps>>
  BY <1>5 DEF StartWave, disk
<1>6. ASSUME NEW i \in Ids, NEW r \in Results, Settle(i, r)
      PROVE  UNCHANGED <<done, recorded, recDeps>>
  BY <1>6 DEF Settle, disk
<1>7. CASE AcceptWave \/ WaveAccepted \/ PersistFails \/ Requeue \/ WaveEnds
  BY <1>7 DEF AcceptWave, WaveAccepted, PersistFails, Requeue, WaveEnds, disk
<1>8. ASSUME NEW i \in Ids, SaveOutput(i) \/ RejectSuccess(i) \/ RejectTask(i)
                \/ GiveUp(i) \/ Recover(i) \/ FailTask(i)
      PROVE  UNCHANGED <<done, recorded, recDeps>>
  BY <1>8 DEF SaveOutput, RejectSuccess, RejectTask, GiveUp, Recover, FailTask, disk
<1> QED
  BY <1>1, <1>2, <1>3, <1>4, <1>5, <1>6, <1>7, <1>8
  DEF Next, Crash, Round, RefreshFails, TaskSettles, Acceptance, WaveBlocked, AcceptFails,
    Recovery, FailureTraceFails, At

\* Markers are written only while no task of the wave runs or has been blocked.
THEOREM WavesCommitTogether == Spec => WaveCommitsTogether
<1>1. ASSUME IInv, [Next]_vars
      PROVE  [done' # done => Having({"running", "blocked"}) = {}]_vars
  <2>1. ASSUME NEW i \in Ids, MarkDone(i)
        PROVE  Having({"running", "blocked"}) = {}
    BY <1>1, <2>1 DEF MarkDone, IInv, Phase, Having
  <2>2. ASSUME NEW i \in Ids, Persist(i)
        PROVE  done' = done
    BY <2>2 DEF Persist
  <2> QED BY <1>1, <2>1, <2>2, DiskSteps
<1> QED BY <1>1, Invariant, PTL DEF Spec, WaveCommitsTogether

\* The checkpoint file is a ledger of tasks completed in order, across crashes,
\* restarts and recoveries.
THEOREM LedgerImplemented == Spec => LedgerSpec
<1> DEFINE need == [i \in Ids |-> Needs(i)]
<1>1. Init => Checkpoint!Init
  BY DEF Init, Checkpoint!Init, Needs
<1>2. ASSUME IInv, [Next]_vars
      PROVE  [Checkpoint!Next]_Checkpoint!ledger
  <2>1. ASSUME UNCHANGED <<done, recorded, recDeps>>
        PROVE  UNCHANGED Checkpoint!ledger
    BY <2>1, SameNeeds DEF Checkpoint!ledger
  <2>2. ASSUME NEW i \in Ids, MarkDone(i)
        PROVE  Checkpoint!Next
    <3>1. i \notin done /\ Needs(i) \subseteq done
      BY <1>2, <2>2 DEF MarkDone, IInv, Plan, UndoneNotDone, Undone, Covered, RunCovered
    <3>2. done' = done \cup {i} /\ UNCHANGED <<recorded, recDeps>>
      BY <2>2 DEF MarkDone
    <3>3. \A j \in Ids : Needs(j)' = Needs(j)
      BY <3>2, SameNeeds
    <3>4. Checkpoint!Complete(i)
      BY <3>1, <3>2, <3>3 DEF Checkpoint!Complete
    <3> QED BY <3>4 DEF Checkpoint!Next
  <2>3. ASSUME NEW i \in Ids, Persist(i)
        PROVE  [Checkpoint!Next]_Checkpoint!ledger
    <3>1. done' = done
      BY <2>3 DEF Persist
    <3>2. \A j \in Ids : j # i => Needs(j)' = Needs(j)
      BY <1>2, <2>3, PersistNeeds
    <3>3. Needs(i)' = planDeps[i] /\ planDeps[i] \in SUBSET Ids
      BY <1>2, <2>3, PersistNeeds DEF IInv, TypeOK
    <3>4. Needs(i)' = Needs(i) \/ i \notin done
      BY <1>2, <2>3, PersistNeeds
    <3>5. need' = [need EXCEPT ![i] = planDeps[i]]
      BY <3>2, <3>3
    <3>6. CASE Needs(i)' = Needs(i)
      <4>1. UNCHANGED need
        BY <3>2, <3>6
      <4> QED BY <3>1, <4>1 DEF Checkpoint!ledger
    <3>7. CASE i \notin done
      <4>1. Checkpoint!Revise(i, planDeps[i])
        BY <3>1, <3>5, <3>7 DEF Checkpoint!Revise
      <4> QED BY <3>3, <4>1 DEF Checkpoint!Next
    <3> QED BY <3>4, <3>6, <3>7
  <2> QED BY <1>2, <2>1, <2>2, <2>3, DiskSteps
<1> QED BY <1>1, <1>2, Invariant, PTL DEF Spec, LedgerSpec, Checkpoint!Spec

-----------------------------------------------------------------------------
(* The numbers of fix tasks                                                 *)

LEMMA StepFreshFix ==
  ASSUME IInv, FreshFix, [Next]_vars
  PROVE  FreshFix'
<1> USE DEF FreshFix
<1>0. \A i \in Ids : Root(i) \in Tasks /\ i[2] \in 0 .. MaxRecoveries /\ i = <<Root(i), i[2]>>
  BY DEF Ids, Root
<1>1. CASE UNCHANGED vars
  BY <1>1 DEF vars
<1>2. ASSUME NEW p \in {"down", "threw"}, EndsIn(p)
      PROVE  FreshFix'
  BY <1>2 DEF EndsIn, Idle
<1>3. CASE Start
  <2>1. inPlan' = InitialPlan /\ InitialPlan \subseteq Ids
    BY <1>3, IdFacts DEF Start, InitialPlan, IInv, TypeOK
  <2>2. attempts' \in [Tasks -> 0 .. MaxRecoveries] /\ Seeds(attempts')
    BY <1>3 DEF Start
  <2>3. ASSUME NEW i \in InitialPlan
        PROVE  attempts'[Root(i)] >= i[2]
    <3>1. Root(i) \in Tasks /\ i[2] \in 0 .. MaxRecoveries /\ i = <<Root(i), i[2]>>
      BY <1>0, <2>1
    <3> DEFINE t == Root(i) k == i[2] a == attempts'[t]
    <3>2. a \in 0 .. MaxRecoveries
      BY <2>2, <3>1
    <3>3. k \notin a + 1 .. MaxRecoveries
      BY <2>2, <3>1 DEF Seeds
    <3> HIDE DEF a, k
    <3>4. k \in 0 .. MaxRecoveries
      BY <3>1 DEF k
    <3> QED BY <3>2, <3>3, <3>4, NumbersAssumption DEF a, k
  <2> QED BY <2>1, <2>3
<1>4. ASSUME NEW t \in Tasks, AddTask(t)
      PROVE  FreshFix'
  BY <1>4 DEF AddTask, plan
<1>5. ASSUME Refresh, UNCHANGED attempts
      PROVE  FreshFix'
  <2>1. pc = "head"
    BY <1>5 DEF Refresh
  <2>2. inPlan' = inPlan \cup New /\ \A i \in New : ~IsFix(i)
    BY <1>5, <2>1, NewFacts DEF Refresh
  <2> QED BY <1>5, <2>1, <2>2 DEF Idle
<1>6. ASSUME UNCHANGED <<inPlan, attempts>>, pc \notin Idle
      PROVE  FreshFix'
  BY <1>6
<1>7. ASSUME NEW i \in Ids, pc = "settle", attempts' = Counted(i),
             inPlan' = inPlan \/ (~IsFix(i) /\ attempts[Root(i)] < MaxRecoveries
                                  /\ inPlan' = inPlan \cup {NextFix(i)})
      PROVE  FreshFix'
  <2>1. attempts \in [Tasks -> 0 .. MaxRecoveries + 1] /\ Root(i) \in Tasks /\ inPlan \subseteq Ids
    BY <1>0 DEF IInv, TypeOK
  <2>2. \A t \in Tasks : attempts'[t] >= attempts[t] /\ attempts'[t] \in Nat /\ attempts[t] \in Nat
    BY <1>7, <2>1, NumbersAssumption DEF Counted
  <2>3. ASSUME NEW j \in inPlan, IsFix(j)
        PROVE  attempts'[Root(j)] >= j[2]
    <3>1. attempts[Root(j)] >= j[2] /\ Root(j) \in Tasks /\ j[2] \in Nat
      BY <1>0, <1>7, <2>1, <2>3, NumbersAssumption DEF Idle
    <3> QED BY <2>2, <3>1
  <2>4. ASSUME ~IsFix(i), attempts[Root(i)] < MaxRecoveries
        PROVE  attempts'[Root(i)] >= NextFix(i)[2] /\ Root(NextFix(i)) = Root(i)
    BY <1>7, <2>1, <2>4, NumbersAssumption DEF Counted, NextFix, Root
  <2> QED BY <1>7, <2>3, <2>4
<1>8. ASSUME NEW W \in Waves, StartWave(W)
      PROVE  FreshFix'
  BY <1>5, <1>8 DEF StartWave
<1>9. CASE ReportUnmet
  BY <1>5, <1>9 DEF ReportUnmet
<1>10. CASE LoopEnds \/ AcceptWave \/ WaveAccepted \/ WaveEnds \/ PersistFails \/ Requeue
  BY <1>6, <1>10 DEF LoopEnds, AcceptWave, WaveSettled, WaveAccepted, WaveEnds, NextFailure,
    PersistFails, Requeue, plan, Idle
<1>11. ASSUME NEW i \in Ids, NEW r \in Results, Settle(i, r)
       PROVE  FreshFix'
  BY <1>6, <1>11 DEF Settle, plan, Idle
<1>12. ASSUME NEW i \in Ids, SaveOutput(i) \/ MarkDone(i) \/ RejectSuccess(i)
                 \/ RejectTask(i) \/ Persist(i) \/ FailTask(i)
       PROVE  FreshFix'
  BY <1>6, <1>12 DEF SaveOutput, MarkDone, RejectSuccess, Accepting, RejectTask, NextFailure,
    Persist, FailTask, plan, Idle
<1>13. ASSUME NEW i \in Ids, GiveUp(i) \/ Recover(i)
       PROVE  FreshFix'
  BY <1>7, <1>13 DEF GiveUp, Recover, NextFailure, plan
<1> QED
  BY <1>1, <1>2, <1>3, <1>4, <1>8, <1>9, <1>10, <1>11, <1>12, <1>13
  DEF Next, Crash, Round, RefreshFails, TaskSettles, Acceptance, WaveBlocked, AcceptFails,
    Recovery, FailureTraceFails

\* The number of the next fix task of a task is higher than any in the plan, in
\* every process that takes the plan over.
THEOREM FixNumbersFresh == Spec => []FreshFix
<1>1. Init => FreshFix
  BY DEF Init, FreshFix, Idle
<1> QED BY <1>1, StepFreshFix, Invariant, PTL DEF Spec

-----------------------------------------------------------------------------
(* How often a task is reported                                             *)

\* Not reported yet, or only as a success that could not be accepted.
Open(i) == outcomes[i] = <<>> \/ outcomes[i] = <<"rejected">>

Over == completed \cup skipped \cup failed

ReportsInOrder ==
  /\ \A i \in pending : pc # "finished" => Open(i)
  /\ \A i \in Ids :
       /\ res[i] \in Undone \cup {"blocked"} => Open(i)
       /\ pc \in {"wave", "accept"} /\ res[i] # "none" => Open(i)
       /\ pc # "wave" /\ res[i] \in {"kept", "accepted", "skipped"} => i \in Over
       /\ outcomes[i] # <<>> => i \in Over /\ i \in inPlan

Reporting == SecondOutcomeOnlyAfterRejection /\ ReportsInOrder

LEMMA AppendOnce ==
  ASSUME NEW i \in Ids, Open(i), NEW r \in Reports
  PROVE  /\ Append(outcomes[i], r) # <<>>
         /\ Len(Append(outcomes[i], r)) > 1 =>
              Len(Append(outcomes[i], r)) = 2 /\ Append(outcomes[i], r)[1] = "rejected"
         /\ outcomes[i] = <<>> => Append(outcomes[i], r) = <<r>>
<1>1. CASE outcomes[i] = <<>>
  BY <1>1
<1>2. CASE outcomes[i] = <<"rejected">>
  BY <1>2
<1> QED BY <1>1, <1>2 DEF Open

\* A step that reports nothing keeps the order, if it opens nothing that is over.
LEMMA SilentStep ==
  ASSUME IInv, Reporting, UNCHANGED outcomes,
         \A i \in Ids : i \in pending' => Open(i) \/ i \notin Over \/ pc' = "finished",
         \A i \in Ids : res'[i] \in Undone \cup {"blocked"} => Open(i),
         \A i \in Ids : pc' \in {"wave", "accept"} /\ res'[i] # "none" => Open(i),
         \A i \in Ids : pc' # "wave" /\ res'[i] \in {"kept", "accepted", "skipped"} => i \in Over',
         Over \subseteq Over', inPlan \subseteq inPlan', pending' \subseteq Ids
  PROVE  Reporting'
BY DEF Reporting, SecondOutcomeOnlyAfterRejection, ReportsInOrder, Open

\* A step that reports one failure.
LEMMA FailureReported ==
  ASSUME IInv, Reporting, NEW i \in Ids, RejectTask(i) \/ FailTask(i)
  PROVE  Reporting'
<1>1. /\ pc = "settle" /\ pc' = "settle" /\ res[i] \in {"rejected", "terminal"}
      /\ UNCHANGED <<inPlan, completed, skipped>> /\ failed' = failed \cup {i}
      /\ \A j \in Ids : j # i => res'[j] = res[j] /\ outcomes'[j] = outcomes[j]
      /\ res'[i] = "settled"
      /\ pending' \subseteq pending
  BY DEF RejectTask, FailTask, NextFailure, disk, plan, queue, IInv, TypeOK
<1>2. PICK r \in {"rejected", "failure"} : outcomes'[i] = Append(outcomes[i], r)
  BY DEF RejectTask, FailTask, IInv, TypeOK
<1>3. Open(i)
  BY <1>1 DEF Reporting, ReportsInOrder, Undone
<1>4. /\ outcomes'[i] # <<>>
      /\ Len(outcomes'[i]) > 1 => Len(outcomes'[i]) = 2 /\ outcomes'[i][1] = "rejected"
      /\ outcomes[i] = <<>> => outcomes'[i] = <<r>>
  <2>1. r \in Reports
    BY DEF Reports
  <2> QED BY <1>2, <1>3, <2>1, AppendOnce
<1>5. ASSUME i \in pending'
      PROVE  outcomes'[i] = <<"rejected">>
  <2>1. RejectTask(i) /\ i \in pending
    BY <1>1, <1>5 DEF FailTask
  <2>2. i \notin Over
    BY <2>1 DEF RejectTask, IInv, Plan, QueueLive, Over
  <2>3. outcomes[i] = <<>>
    BY <2>2 DEF Reporting, ReportsInOrder
  <2> QED BY <2>1, <2>3, <1>4 DEF RejectTask, IInv, TypeOK
<1>6. i \in inPlan /\ pending \subseteq Ids
  BY <1>1 DEF IInv, TypeOK, Plan, Placed
<1>7. Over' = Over \cup {i}
  BY <1>1 DEF Over
<1>8. SecondOutcomeOnlyAfterRejection'
  BY <1>1, <1>4 DEF Reporting, SecondOutcomeOnlyAfterRejection
<1>9. ReportsInOrder'
  BY <1>1, <1>5, <1>6, <1>7 DEF Reporting, ReportsInOrder, Open, Undone
<1> QED BY <1>8, <1>9 DEF Reporting

LEMMA WaveReported ==
  ASSUME IInv, Reporting, WaveAccepted
  PROVE  Reporting'
<1>1. /\ pc = "accept" /\ pc' = "settle"
      /\ UNCHANGED <<inPlan, completed, skipped, failed, pending, res>>
      /\ \A i \in Ids : outcomes'[i] = Report(i)
  BY DEF WaveAccepted, disk, plan, queue, wave, sets
<1>2. ASSUME NEW i \in Ids, res[i] \in {"kept", "accepted", "skipped"}
      PROVE  /\ outcomes'[i] # <<>>
             /\ Len(outcomes'[i]) > 1 => Len(outcomes'[i]) = 2 /\ outcomes'[i][1] = "rejected"
             /\ i \in Over /\ i \in inPlan /\ i \notin pending
  <2>1. PICK r \in Reports : outcomes'[i] = Append(outcomes[i], r)
    BY <1>1, <1>2 DEF Report, Reports
  <2>2. Open(i) /\ i \in Over
    BY <1>1, <1>2 DEF Reporting, ReportsInOrder
  <2>3. i \in inPlan /\ i \notin pending
    BY <1>1, <1>2 DEF IInv, Plan, Placed, QueueLive
  <2> QED BY <2>1, <2>2, <2>3, AppendOnce
<1>3. \A i \in Ids : res[i] \notin {"kept", "accepted", "skipped"} => outcomes'[i] = outcomes[i]
  BY <1>1 DEF Report
<1>4. pending \subseteq Ids /\ Over' = Over
  BY <1>1 DEF IInv, TypeOK, Over
<1>5. SecondOutcomeOnlyAfterRejection'
  BY <1>2, <1>3 DEF Reporting, SecondOutcomeOnlyAfterRejection
<1>6. ReportsInOrder'
  BY <1>1, <1>2, <1>3, <1>4 DEF Reporting, ReportsInOrder, Open, Undone
<1> QED BY <1>5, <1>6 DEF Reporting

LEMMA UnmetReported ==
  ASSUME IInv, Reporting, ReportUnmet
  PROVE  Reporting'
<1>1. Refresh /\ pc = "head"
  BY DEF ReportUnmet, Refresh
<1>2. /\ pc' = "finished" /\ Queue = pending \cup New /\ Queue \subseteq Ids
      /\ inPlan' = inPlan \cup New /\ pending \subseteq inPlan /\ New \cap inPlan = {}
      /\ Over' = Over \cup Queue
      /\ \A i \in Ids : res'[i] = "none"
      /\ \A i \in Ids : outcomes'[i] = IF i \in Queue THEN Append(outcomes[i], "unmet")
                                       ELSE outcomes[i]
  BY <1>1, NewFacts, RefreshFacts, RefreshType
  DEF ReportUnmet, Over, wave, IInv
<1>3. \A i \in Queue : Open(i)
  <2>1. \A i \in New : outcomes[i] = <<>>
    BY <1>2 DEF Reporting, ReportsInOrder
  <2> QED BY <1>1, <1>2, <2>1 DEF Reporting, ReportsInOrder, Open
<1>4. ASSUME NEW i \in Queue
      PROVE  /\ outcomes'[i] # <<>>
             /\ Len(outcomes'[i]) > 1 => Len(outcomes'[i]) = 2 /\ outcomes'[i][1] = "rejected"
  <2>1. "unmet" \in Reports
    BY DEF Reports
  <2>2. i \in Ids /\ Open(i) /\ outcomes'[i] = Append(outcomes[i], "unmet")
    BY <1>2, <1>3
  <2> QED BY <2>1, <2>2, AppendOnce
<1>5. SecondOutcomeOnlyAfterRejection'
  BY <1>2, <1>4 DEF Reporting, SecondOutcomeOnlyAfterRejection
<1>6. ReportsInOrder'
  BY <1>2, <1>4 DEF Reporting, ReportsInOrder, Undone
<1> QED BY <1>5, <1>6 DEF Reporting

LEMMA StepReporting ==
  ASSUME IInv, Reporting, [Next]_vars
  PROVE  Reporting'
<1>1. CASE UNCHANGED vars
  BY <1>1 DEF vars, Reporting, SecondOutcomeOnlyAfterRejection, ReportsInOrder, Over, Open
<1>2. ASSUME NEW p \in {"down", "threw"}, EndsIn(p)
      PROVE  Reporting'
  BY <1>2 DEF EndsIn, NoWave, Reporting, SecondOutcomeOnlyAfterRejection, ReportsInOrder, Open,
    Undone
<1>3. CASE Start
  <2>1. InitialPlan \subseteq Ids
    BY IdFacts DEF InitialPlan, IInv, TypeOK
  <2> QED
    BY <1>3, <2>1 DEF Start, NoWave, Reporting, SecondOutcomeOnlyAfterRejection,
      ReportsInOrder, Open, Undone
<1>4. ASSUME NEW t \in Tasks, AddTask(t)
      PROVE  Reporting'
  BY <1>4 DEF AddTask, plan, queue, wave, sets, Reporting, SecondOutcomeOnlyAfterRejection,
    ReportsInOrder, Over, Open
<1>5. ASSUME NEW W \in Waves, StartWave(W)
      PROVE  Reporting'
  <2>1. Refresh /\ pc = "head"
    BY <1>5 DEF StartWave, Refresh
  <2>2. /\ pending' = Queue \ W /\ pc' = "wave" /\ Over' = Over /\ UNCHANGED outcomes
        /\ W \subseteq Queue /\ Queue \subseteq Ids
        /\ \A i \in Ids : i \notin W => res'[i] = "none"
    BY <1>5, <2>1, RefreshType DEF StartWave, Over, sets, Waves, Ready, IInv
  <2>3. inPlan' = inPlan \cup New /\ Queue = pending \cup New /\ New \cap inPlan = {}
    BY <2>1, NewFacts, RefreshFacts
  <2>4. \A i \in Queue : Open(i)
    BY <2>1, <2>2, <2>3 DEF Reporting, ReportsInOrder, Open
  <2> QED BY <2>2, <2>3, <2>4, SilentStep DEF Undone
<1>6. CASE LoopEnds
  BY <1>6 DEF LoopEnds, plan, queue, wave, sets, Reporting, SecondOutcomeOnlyAfterRejection,
    ReportsInOrder, Over, Open
<1>7. ASSUME NEW i \in Ids, NEW r \in Results, Settle(i, r)
      PROVE  Reporting'
  <2>1. /\ pc = "wave" /\ pc' = "wave" /\ UNCHANGED <<inPlan, pending, completed, skipped, failed, outcomes>>
        /\ res[i] # "none" /\ \A j \in Ids : j # i => res'[j] = res[j]
    BY <1>7 DEF Settle, plan, queue, sets, IInv, TypeOK
  <2>2. \A j \in Ids : res'[j] # "none" => Open(j)
    BY <2>1 DEF Reporting, ReportsInOrder
  <2>3. pending \subseteq Ids /\ Over' = Over
    BY <2>1 DEF IInv, TypeOK, Over
  <2> QED BY <2>1, <2>2, <2>3, SilentStep DEF Reporting, ReportsInOrder, Undone
<1>8. CASE AcceptWave
  <2>1. /\ pc = "wave" /\ pc' = "accept" /\ UNCHANGED <<inPlan, pending, res, failed, outcomes>>
        /\ \A j \in Ids : res[j] \in {"kept", "skipped"} => j \in completed' \cup skipped'
        /\ completed \subseteq completed' /\ skipped \subseteq skipped'
    BY <1>8 DEF AcceptWave, WaveSettled, Having, plan, queue, wave
  <2>2. \A j \in Ids : res[j] # "accepted"
    BY <2>1 DEF IInv, Phase
  <2>3. pending \subseteq Ids /\ Over \subseteq Over'
        /\ \A j \in Ids : res[j] \in {"kept", "skipped"} => j \in Over'
    BY <2>1 DEF IInv, TypeOK, Over
  <2> QED BY <2>1, <2>2, <2>3, SilentStep DEF Reporting, ReportsInOrder
<1>9. ASSUME NEW i \in Ids, SaveOutput(i) \/ MarkDone(i) \/ RejectSuccess(i)
      PROVE  Reporting'
  <2>1. /\ pc = "accept" /\ pc' = "accept"
        /\ UNCHANGED <<inPlan, pending, skipped, failed, outcomes>>
        /\ res[i] # "none" /\ \A j \in Ids : j # i => res'[j] = res[j]
        /\ completed \subseteq completed'
        /\ res'[i] \in {"saved", "rejected", "accepted"}
        /\ res'[i] = "accepted" => i \in completed'
    <3>1. CASE MarkDone(i)
      BY <3>1 DEF MarkDone, plan, queue, IInv, TypeOK
    <3>2. CASE SaveOutput(i)
      BY <3>2 DEF SaveOutput, Accepting, plan, queue, sets, IInv, TypeOK
    <3>3. CASE RejectSuccess(i)
      BY <3>3 DEF RejectSuccess, Accepting, plan, queue, sets, IInv, TypeOK
    <3> QED BY <1>9, <3>1, <3>2, <3>3
  <2>2. \A j \in Ids : res'[j] # "none" => Open(j)
    BY <2>1 DEF Reporting, ReportsInOrder
  <2>3. pending \subseteq Ids /\ Over \subseteq Over' /\ completed' \subseteq Over'
    BY <2>1 DEF IInv, TypeOK, Over
  <2> QED BY <2>1, <2>2, <2>3, SilentStep DEF Reporting, ReportsInOrder
<1>10. ASSUME NEW i \in Ids, GiveUp(i) \/ Recover(i) \/ Persist(i)
       PROVE  Reporting'
  <2>1. /\ pc' \in {"settle", "persist"} /\ pc \in {"settle", "persist"}
        /\ UNCHANGED <<pending, completed, skipped, failed, outcomes>>
        /\ inPlan \subseteq inPlan'
        /\ \A j \in Ids : res'[j] = res[j] \/ (res[j] = "failure" /\ res'[j] \in {"terminal", "retry"})
    BY <1>10 DEF GiveUp, Recover, Persist, NextFailure, plan, queue, wave, sets, IInv, TypeOK
  <2>2. pending \subseteq Ids /\ Over' = Over
    BY <2>1 DEF IInv, TypeOK, Over
  <2> QED BY <2>1, <2>2, SilentStep DEF Reporting, ReportsInOrder, Undone
<1>11. CASE PersistFails \/ Requeue \/ WaveEnds
  <2>1. /\ pc' \in {"settle", "head"} /\ pc \in {"settle", "persist"}
        /\ UNCHANGED <<inPlan, completed, skipped, failed, outcomes>>
        /\ \A j \in pending' : j \in pending \/ j \in Requeued
        /\ \A j \in Ids : res'[j] \notin {res[j], "none"} =>
             res[j] = "retry" /\ res'[j] \in {"terminal", "settled"}
    <3>1. CASE PersistFails
      BY <3>1 DEF PersistFails, plan, queue, sets
    <3>2. CASE Requeue
      BY <3>2 DEF Requeue, plan, sets
    <3>3. CASE WaveEnds
      BY <3>3 DEF WaveEnds, NextFailure, NoWave, plan, queue, sets
    <3> QED BY <1>11, <3>1, <3>2, <3>3
  <2>2. pending' \subseteq Ids /\ Over' = Over /\ Requeued \cap Over = {}
    BY <2>1 DEF IInv, TypeOK, Over, Requeued
  <2> QED BY <2>1, <2>2, SilentStep DEF Reporting, ReportsInOrder, Undone
<1>12. ASSUME NEW i \in Ids, RejectTask(i) \/ FailTask(i)
       PROVE  Reporting'
  BY <1>12, FailureReported
<1> QED
  BY <1>1, <1>2, <1>3, <1>4, <1>5, <1>6, <1>7, <1>8, <1>9, <1>10, <1>11, <1>12,
    WaveReported, UnmetReported
  DEF Next, Crash, Round, RefreshFails, TaskSettles, Acceptance, WaveBlocked, AcceptFails,
    Recovery, FailureTraceFails

\* No task is reported again after it finished, was skipped or was given up; only
\* one whose success could not be accepted may be, once.
THEOREM ReportedOnce == Spec => []SecondOutcomeOnlyAfterRejection
<1>1. Init => Reporting
  BY DEF Init, Reporting, SecondOutcomeOnlyAfterRejection, ReportsInOrder, Open, NoWave, Undone
<1>2. Reporting => SecondOutcomeOnlyAfterRejection
  BY DEF Reporting
<1> QED BY <1>1, <1>2, StepReporting, Invariant, PTL DEF Spec
=============================================================================

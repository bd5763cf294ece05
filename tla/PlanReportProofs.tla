--------------------------- MODULE PlanReportProofs ---------------------------
(***************************************************************************)
(* What a process reports of its plan when its loop returns: every task,   *)
(* what the checkpoint says, and unmet needs only for a cause.             *)
(***************************************************************************)
EXTENDS PlanProofs, WellFoundedInduction

\* The invariants of PlanProofs the ones below build on.
Base == IInv /\ FreshFix /\ Reporting

LEMMA BaseStep ==
  ASSUME Base, [Next]_vars
  PROVE  Base'
BY StepIInv, StepFreshFix, StepReporting DEF Base

LEMMA InitBase == Init => Base
<1>1. Init => FreshFix
  BY DEF Init, FreshFix, Idle
<1>2. Init => Reporting
  BY DEF Init, Reporting, SecondOutcomeOnlyAfterRejection, ReportsInOrder, Open,
      NoWave, Undone
<1> QED BY <1>1, <1>2, InitIInv DEF Base

-----------------------------------------------------------------------------
(* An order of the ids                                                      *)

\* The acyclic order of the tasks the planner insists on.
Rank ==
  CHOOSE rank \in [Tasks -> 0 .. Cardinality(Tasks)] :
    \A t \in Tasks : \A d \in Deps[t] : rank[d] < rank[t]

\* A task needs tasks of a lower rank and its own fix tasks; a fix task needs
\* what its task does and the fix tasks before it.
Before(d, i) ==
  \/ ~IsFix(d) /\ Rank[Root(d)] < Rank[Root(i)]
  \/ IsFix(d) /\ Root(d) = Root(i) /\ (IsFix(i) => d[2] < i[2])

Ordered(D) == \A i \in Ids : \A d \in D[i] : Before(d, i)
DepsOrdered ==
  Ordered(recDeps) /\ Ordered(planDeps) /\ Ordered(pendDeps) /\ Ordered(waveDeps)

LEMMA RankFacts ==
  /\ \A t \in Tasks : Rank[t] \in Nat
  /\ \A t \in Tasks : \A d \in Deps[t] : d \in Tasks /\ Rank[d] < Rank[t]
<1>1. /\ Rank \in [Tasks -> 0 .. Cardinality(Tasks)]
      /\ \A t \in Tasks : \A d \in Deps[t] : Rank[d] < Rank[t]
  BY DepsAssumption DEF Rank
<1>2. \A t \in Tasks : Deps[t] \subseteq Tasks
  BY DepsAssumption
<1>3. Cardinality(Tasks) \in Nat
  BY TasksAssumption, FS_CardinalityType
<1> QED BY <1>1, <1>2, <1>3

LEMMA DeclaredOrdered == \A i \in Ids : \A d \in Declared(i) : Before(d, i)
<1>1. ASSUME NEW i \in Ids, NEW d \in Declared(i)
      PROVE  Before(d, i)
  <2>1. PICK t \in Deps[Root(i)] : d = Task(t)
    BY <1>1 DEF Declared
  <2>2. Root(i) \in Tasks
    BY IdFacts
  <2>3. t \in Tasks /\ Rank[t] < Rank[Root(i)]
    BY <2>1, <2>2, RankFacts
  <2> QED BY <2>1, <2>3, IdFacts DEF Before
<1> QED BY <1>1

LEMMA RecoverOrdered ==
  ASSUME Base, DepsOrdered, NEW i \in Ids, Recover(i)
  PROVE  Ordered(planDeps)'
<1> DEFINE f == NextFix(i)
<1>1. attempts \in [Tasks -> 0 .. MaxRecoveries + 1] /\ inPlan \subseteq Ids
      /\ planDeps \in [Ids -> SUBSET Ids] /\ waveDeps \in [Ids -> SUBSET Ids]
  BY DEF Base, IInv, TypeOK
<1>2. ~IsFix(i) /\ attempts[Root(i)] < MaxRecoveries /\ planDeps' = WithFix(i, f)
      /\ pc = "settle"
  BY DEF Recover, NextFailure
<1>3. f \in Ids /\ IsFix(f) /\ Root(f) = Root(i)
  BY <1>1, <1>2, NextFixFacts
<1>4. f[2] = attempts[Root(i)] + 1
  BY DEF NextFix
<1> HIDE DEF f
<1>5. \A d \in inPlan : IsFix(d) /\ Root(d) = Root(i) => d[2] < f[2]
  <2>1. \A d \in inPlan : IsFix(d) => attempts[Root(d)] >= d[2] /\ d[2] \in Nat
    BY <1>1, <1>2, NumbersAssumption DEF Base, FreshFix, Idle, Ids
  <2>2. attempts[Root(i)] \in Nat
    BY <1>1, IdFacts, NumbersAssumption
  <2> QED BY <1>4, <2>1, <2>2
<1>6. \A d \in {f} \cup waveDeps[i] : Before(d, i)
  BY <1>2, <1>3 DEF Before, DepsOrdered, Ordered
<1>7. \A d \in InPlan(i) : Before(d, f)
  BY <1>2, <1>3, <1>5 DEF Before, DepsOrdered, Ordered, InPlan
<1>8. \A j \in Ids : \A d \in InPlan(j) : Before(d, j)
  BY DEF DepsOrdered, Ordered, InPlan
<1>9. \A j \in Ids : \/ j = i /\ WithFix(i, f)[j] = {f} \cup waveDeps[i]
                     \/ j = f /\ WithFix(i, f)[j] = InPlan(i)
                     \/ WithFix(i, f)[j] \in {InPlan(j), {}}
  BY DEF WithFix
<1> QED BY <1>2, <1>6, <1>7, <1>8, <1>9 DEF Ordered

LEMMA StepOrdered ==
  ASSUME Base, DepsOrdered, [Next]_vars
  PROVE  DepsOrdered'
<1> USE DEF DepsOrdered
<1>0. TypeOK /\ Ordered(Nothing) /\ \A i \in Ids : \A d \in Needs(i) : Before(d, i)
  BY DeclaredOrdered DEF Base, IInv, Ordered, Nothing, Needs
<1>1. CASE UNCHANGED <<recDeps, planDeps, pendDeps, waveDeps>>
  BY <1>1 DEF Ordered
<1>2. ASSUME NEW p \in {"down", "threw"}, EndsIn(p)
      PROVE  DepsOrdered'
  BY <1>0, <1>2 DEF EndsIn, disk, Ordered
<1>3. CASE Start
  <2>1. Ordered(InitialDeps)
    BY <1>0 DEF Ordered, InitialDeps
  <2> QED BY <1>0, <1>3, <2>1 DEF Start, disk, Ordered
<1>4. ASSUME Refresh
      PROVE  Ordered(planDeps)' /\ Ordered(QueueDeps)
  BY <1>4, DeclaredOrdered DEF Refresh, QueueDeps, Ordered
<1>5. ASSUME NEW W \in Waves, StartWave(W)
      PROVE  DepsOrdered'
  <2>1. Refresh
    BY <1>5 DEF StartWave
  <2> QED BY <1>4, <1>5, <2>1 DEF StartWave, disk, Ordered
<1>6. CASE ReportUnmet
  <2>1. Refresh
    BY <1>6 DEF ReportUnmet
  <2> QED BY <1>4, <1>6, <2>1 DEF ReportUnmet, disk, wave, Ordered
<1>7. ASSUME NEW i \in Ids, FailTask(i)
      PROVE  DepsOrdered'
  <2>1. pendDeps' = [pendDeps EXCEPT ![i] = {}]
        /\ UNCHANGED <<recDeps, planDeps, waveDeps>>
    BY <1>7 DEF FailTask, disk, plan
  <2> QED BY <1>0, <2>1 DEF Ordered, TypeOK
<1>8. ASSUME NEW i \in Ids, Recover(i)
      PROVE  DepsOrdered'
  BY <1>8, RecoverOrdered DEF Recover, disk, queue, Ordered
<1>9. ASSUME NEW i \in Ids, Persist(i)
      PROVE  DepsOrdered'
  <2>1. recDeps' = [recDeps EXCEPT ![i] = planDeps[i]]
        /\ UNCHANGED <<pendDeps, planDeps, waveDeps>>
    BY <1>9 DEF Persist, plan, queue, wave
  <2> QED BY <1>0, <2>1 DEF Ordered, TypeOK
<1>10. CASE Requeue
  BY <1>10 DEF Requeue, disk, plan, Ordered
<1>11. CASE WaveEnds
  BY <1>0, <1>11 DEF WaveEnds, disk, plan, queue, Ordered
<1>12. ASSUME NEW i \in Ids, NEW r \in Results, Settle(i, r)
       PROVE  UNCHANGED <<recDeps, planDeps, pendDeps, waveDeps>>
  BY <1>12 DEF Settle, disk, plan, queue
<1>13. ASSUME NEW i \in Ids,
               SaveOutput(i) \/ MarkDone(i) \/ RejectSuccess(i) \/ RejectTask(i) \/ GiveUp(i)
       PROVE  UNCHANGED <<recDeps, planDeps, pendDeps, waveDeps>>
  BY <1>13 DEF SaveOutput, MarkDone, RejectSuccess, RejectTask, GiveUp, disk, plan, queue
<1>14. ASSUME UNCHANGED vars \/ LoopEnds \/ AcceptWave \/ WaveAccepted \/ PersistFails
         \/ \E t \in Tasks : AddTask(t)
       PROVE  UNCHANGED <<recDeps, planDeps, pendDeps, waveDeps>>
  BY <1>14 DEF vars, LoopEnds, AcceptWave, WaveAccepted, PersistFails, AddTask, disk,
      plan, queue, wave
<1> QED
  BY <1>1, <1>2, <1>3, <1>5, <1>6, <1>7, <1>8, <1>9, <1>10, <1>11, <1>12, <1>13, <1>14
  DEF Next, Crash, Round, RefreshFails, TaskSettles, Acceptance, WaveBlocked, AcceptFails,
    Recovery, FailureTraceFails

-----------------------------------------------------------------------------
(* What has been reported                                                   *)

LEMMA SaidMore ==
  ASSUME NEW s \in Seq(Reports), NEW r \in Reports
  PROVE  {Append(s, r)[n] : n \in DOMAIN Append(s, r)} = {s[n] : n \in DOMAIN s} \cup {r}
<1>1. /\ DOMAIN s = 1 .. Len(s) /\ Len(s) \in Nat
      /\ DOMAIN Append(s, r) = 1 .. Len(s) + 1
      /\ \A n \in 1 .. Len(s) : Append(s, r)[n] = s[n]
      /\ Append(s, r)[Len(s) + 1] = r
  BY AppendProperties, LenProperties
<1>2. DOMAIN Append(s, r) = DOMAIN s \cup {Len(s) + 1}
  BY <1>1
<1> QED BY <1>1, <1>2

\* Reports are only added, one at a time.
LEMMA ReportAdded ==
  ASSUME TypeOK, NEW i \in Ids, NEW r \in Reports, outcomes'[i] = Append(outcomes[i], r)
  PROVE  Reported(i)' = Reported(i) \cup {r}
<1> DEFINE s == outcomes[i]
           now == outcomes'[i]
<1>1. s \in Seq(Reports)
  BY DEF TypeOK
<1>2. now = Append(s, r)
  OBVIOUS
<1> HIDE DEF s, now
<1>3. {now[n] : n \in DOMAIN now} = {s[n] : n \in DOMAIN s} \cup {r}
  BY <1>1, <1>2, SaidMore
<1> QED BY <1>3 DEF Reported, s, now

LEMMA ReportKept ==
  ASSUME NEW i \in Ids, outcomes'[i] = outcomes[i]
  PROVE  Reported(i)' = Reported(i)
BY DEF Reported

LEMMA NothingReported ==
  ASSUME outcomes' = [i \in Ids |-> <<>>]
  PROVE  \A i \in Ids : Reported(i)' = {}
BY DEF Reported

LEMMA FailureReports ==
  ASSUME TypeOK, NEW i \in Ids, RejectTask(i) \/ FailTask(i)
  PROVE  /\ \A j \in Ids : j # i => Reported(j)' = Reported(j)
         /\ RejectTask(i) => Reported(i)' = Reported(i) \cup {"rejected"}
         /\ FailTask(i) => Reported(i)' = Reported(i) \cup {"failure"}
<1>1. \A j \in Ids : j # i => outcomes'[j] = outcomes[j]
  BY DEF RejectTask, FailTask, TypeOK
<1>2. RejectTask(i) => outcomes'[i] = Append(outcomes[i], "rejected")
  BY DEF RejectTask, TypeOK
<1>3. FailTask(i) => outcomes'[i] = Append(outcomes[i], "failure")
  BY DEF FailTask, TypeOK
<1>4. "rejected" \in Reports /\ "failure" \in Reports
  BY DEF Reports
<1> QED BY <1>1, <1>2, <1>3, <1>4, ReportAdded, ReportKept

LEMMA WaveReports ==
  ASSUME TypeOK, WaveAccepted, NEW i \in Ids
  PROVE  /\ res[i] \in {"kept", "accepted"} => Reported(i)' = Reported(i) \cup {"success"}
         /\ res[i] = "skipped" => Reported(i)' = Reported(i) \cup {"skipped"}
         /\ res[i] \notin {"kept", "accepted", "skipped"} => Reported(i)' = Reported(i)
<1>1. outcomes'[i] = Report(i)
  BY DEF WaveAccepted
<1>2. "success" \in Reports /\ "skipped" \in Reports
  BY DEF Reports
<1>3. /\ res[i] \in {"kept", "accepted"} => outcomes'[i] = Append(outcomes[i], "success")
      /\ res[i] = "skipped" => outcomes'[i] = Append(outcomes[i], "skipped")
      /\ res[i] \notin {"kept", "accepted", "skipped"} => outcomes'[i] = outcomes[i]
  BY <1>1 DEF Report
<1> QED BY <1>2, <1>3, ReportAdded, ReportKept

LEMMA UnmetReports ==
  ASSUME TypeOK, ReportUnmet, NEW i \in Ids
  PROVE  Reported(i)' = IF i \in Queue THEN Reported(i) \cup {"unmet"} ELSE Reported(i)
<1>1. outcomes'[i] = IF i \in Queue THEN Append(outcomes[i], "unmet") ELSE outcomes[i]
  BY DEF ReportUnmet
<1>2. "unmet" \in Reports
  BY DEF Reports
<1> QED BY <1>1, <1>2, ReportAdded, ReportKept

-----------------------------------------------------------------------------
(* The process keeps its word                                               *)

\* What is over has been reported, or is about to be as the wave is accepted, and
\* a success is reported of what has a marker only.
SpokenOf(i) ==
  /\ i \in completed => \/ "success" \in Reported(i)
                        \/ pc = "accept" /\ res[i] \in {"kept", "accepted"}
  /\ i \in skipped => \/ "skipped" \in Reported(i)
                      \/ pc = "finished" /\ "unmet" \in Reported(i)
                      \/ pc = "accept" /\ res[i] = "skipped"
  /\ i \in failed => Reported(i) \cap {"failure", "rejected"} # {}
  /\ "unmet" \in Reported(i) => pc = "finished"
  /\ "success" \in Reported(i) => i \in done
  /\ res[i] = "accepted" => i \in done
  /\ res[i] = "skipped" => i \notin done

Spoken == \A i \in Ids : SpokenOf(i)

\* Steps that report nothing and finish nothing.
LEMMA QuietSpoken ==
  ASSUME Spoken, UNCHANGED <<outcomes, completed, skipped, failed, done>>,
         pc \notin {"accept", "finished"} \/ pc' = pc,
         \A i \in Ids : \/ res'[i] = res[i]
                        \/ res[i] \notin {"kept", "accepted", "skipped"}
                             /\ res'[i] \notin {"accepted", "skipped"}
                        \/ res'[i] \notin {"accepted", "skipped"} /\ pc # "accept"
                        \/ res'[i] = "skipped" /\ i \notin done /\ pc # "accept"
  PROVE  Spoken'
<1>1. ASSUME NEW i \in Ids
      PROVE  SpokenOf(i)'
  <2>1. SpokenOf(i) /\ Reported(i)' = Reported(i)
    BY <1>1, ReportKept DEF Spoken
  <2> QED BY <2>1 DEF SpokenOf
<1> QED BY <1>1 DEF Spoken

LEMMA AcceptanceSpoken ==
  ASSUME Base, Spoken, Acceptance, ~WaveBlocked, ~AcceptFails
  PROVE  Spoken'
<1>0. TypeOK
  BY DEF Base, IInv
<1>1. CASE AcceptWave
  <2>1. /\ pc = "wave" /\ pc' = "accept" /\ UNCHANGED <<done, res, failed, outcomes>>
        /\ completed' = completed \cup Having({"kept"})
        /\ skipped' = skipped \cup Having({"skipped"})
    BY <1>1 DEF AcceptWave, WaveSettled, disk, wave
  <2>2. ASSUME NEW i \in Ids
        PROVE  SpokenOf(i)'
    <3>1. SpokenOf(i) /\ Reported(i)' = Reported(i)
      BY <2>1, <2>2, ReportKept DEF Spoken
    <3> QED BY <2>1, <3>1 DEF SpokenOf, Having
  <2> QED BY <2>2 DEF Spoken
<1>2. CASE WaveAccepted
  <2>1. /\ pc = "accept" /\ pc' = "settle"
        /\ UNCHANGED <<done, res, completed, skipped, failed>>
    BY <1>2 DEF WaveAccepted, disk, wave, sets
  <2>2. ASSUME NEW i \in Ids
        PROVE  SpokenOf(i)'
    <3>1. SpokenOf(i) /\ (res[i] = "kept" => i \in done)
      BY <2>2 DEF Spoken, Base, IInv, Plan, CompletedDone
    <3>2. /\ res[i] \in {"kept", "accepted"}
             => Reported(i)' = Reported(i) \cup {"success"}
          /\ res[i] = "skipped" => Reported(i)' = Reported(i) \cup {"skipped"}
          /\ res[i] \notin {"kept", "accepted", "skipped"} => Reported(i)' = Reported(i)
      BY <1>0, <1>2, <2>2, WaveReports
    <3> QED BY <2>1, <3>1, <3>2 DEF SpokenOf
  <2> QED BY <2>2 DEF Spoken
<1>3. ASSUME NEW i \in Ids, MarkDone(i)
      PROVE  Spoken'
  <2>1. /\ pc = "accept" /\ pc' = "accept" /\ UNCHANGED <<skipped, failed, outcomes>>
        /\ done' = done \cup {i} /\ completed' = completed \cup {i}
        /\ res[i] = "saved" /\ res'[i] = "accepted" /\ \A j \in Ids : j # i => res'[j] = res[j]
    BY <1>0, <1>3 DEF MarkDone, TypeOK
  <2>2. ASSUME NEW j \in Ids
        PROVE  SpokenOf(j)'
    <3>1. SpokenOf(j) /\ Reported(j)' = Reported(j)
      BY <2>1, <2>2, ReportKept DEF Spoken
    <3> QED BY <2>1, <3>1 DEF SpokenOf
  <2> QED BY <2>2 DEF Spoken
<1>4. ASSUME NEW i \in Ids, SaveOutput(i) \/ RejectSuccess(i)
      PROVE  Spoken'
  BY <1>0, <1>4, QuietSpoken DEF SaveOutput, RejectSuccess, Accepting, disk, sets, TypeOK
<1> QED BY <1>1, <1>2, <1>3, <1>4 DEF Acceptance

LEMMA RecoverySpoken ==
  ASSUME Base, Spoken, Recovery, ~FailureTraceFails
  PROVE  Spoken'
<1>0. TypeOK
  BY DEF Base, IInv
<1>1. ASSUME NEW i \in Ids, RejectTask(i) \/ FailTask(i)
      PROVE  Spoken'
  <2>1. /\ pc = "settle" /\ pc' = "settle" /\ UNCHANGED <<done, completed, skipped>>
        /\ failed' = failed \cup {i}
        /\ res'[i] = "settled" /\ \A j \in Ids : j # i => res'[j] = res[j]
    BY <1>0, <1>1 DEF RejectTask, FailTask, NextFailure, disk, TypeOK
  <2>2. ASSUME NEW j \in Ids
        PROVE  SpokenOf(j)'
    <3>1. SpokenOf(j)
      BY <2>2 DEF Spoken
    <3>2. CASE j # i
      <4>1. Reported(j)' = Reported(j)
        BY <1>0, <1>1, <2>2, <3>2, FailureReports
      <4> QED BY <2>1, <2>2, <3>1, <3>2, <4>1 DEF SpokenOf
    <3>3. CASE j = i
      <4>1. PICK r \in {"rejected", "failure"} : Reported(i)' = Reported(i) \cup {r}
        BY <1>0, <1>1, FailureReports
      <4> QED BY <2>1, <3>1, <3>3, <4>1 DEF SpokenOf
    <3> QED BY <3>2, <3>3
  <2> QED BY <2>2 DEF Spoken
<1>2. ASSUME NEW i \in Ids, GiveUp(i) \/ Recover(i) \/ Persist(i)
      PROVE  Spoken'
  <2>1. /\ pc \in {"settle", "persist"}
        /\ UNCHANGED <<outcomes, completed, skipped, failed, done>>
        /\ \A j \in Ids : res'[j] = res[j] \/ res'[j] \in {"terminal", "retry"}
    BY <1>0, <1>2 DEF GiveUp, Recover, Persist, NextFailure, disk, sets, wave, TypeOK
  <2> QED BY <2>1, QuietSpoken
<1>3. CASE PersistFails \/ Requeue \/ WaveEnds
  <2>1. /\ pc \in {"settle", "persist"}
        /\ UNCHANGED <<outcomes, completed, skipped, failed, done>>
        /\ \A j \in Ids : res'[j] = res[j] \/ res'[j] \in {"terminal", "settled", "none"}
    BY <1>3 DEF PersistFails, Requeue, WaveEnds, NextFailure, NoWave, disk, sets
  <2> QED BY <2>1, QuietSpoken
<1> QED BY <1>1, <1>2, <1>3 DEF Recovery

LEMMA RoundSpoken ==
  ASSUME Base, Spoken, Round, ~RefreshFails
  PROVE  Spoken'
<1>0. TypeOK
  BY DEF Base, IInv
<1>1. ASSUME NEW W \in Waves, StartWave(W)
      PROVE  Spoken'
  <2>1. /\ pc = "head" /\ UNCHANGED <<outcomes, completed, skipped, failed, done>>
        /\ \A j \in Ids : res'[j] \in {"kept", "running", "none"}
    BY <1>1 DEF StartWave, Refresh, FirstResult, disk, sets
  <2> QED BY <2>1, QuietSpoken
<1>2. CASE ReportUnmet
  <2>1. /\ pc = "head" /\ pc' = "finished" /\ UNCHANGED <<done, res, completed, failed>>
        /\ skipped' = skipped \cup Queue
    BY <1>2 DEF ReportUnmet, Refresh, disk, wave
  <2>2. ASSUME NEW i \in Ids
        PROVE  SpokenOf(i)'
    <3>1. SpokenOf(i)
      BY <2>2 DEF Spoken
    <3>2. Reported(i)' = IF i \in Queue THEN Reported(i) \cup {"unmet"} ELSE Reported(i)
      BY <1>0, <1>2, <2>2, UnmetReports
    <3> QED BY <2>1, <3>1, <3>2 DEF SpokenOf
  <2> QED BY <2>2 DEF Spoken
<1>3. CASE LoopEnds
  <2>1. pc = "head" /\ UNCHANGED <<outcomes, completed, skipped, failed, done, res>>
    BY <1>3 DEF LoopEnds, disk, wave, sets
  <2> QED BY <2>1, QuietSpoken
<1> QED BY <1>1, <1>2, <1>3 DEF Round

LEMMA StepSpoken ==
  ASSUME Base, Spoken, [Next]_vars
  PROVE  Spoken'
<1>1. ASSUME NEW p \in {"down", "threw"}, EndsIn(p)
      PROVE  Spoken'
  BY <1>1, NothingReported DEF EndsIn, NoWave, Spoken, SpokenOf
<1>2. CASE Start
  BY <1>2, NothingReported DEF Start, NoWave, Spoken, SpokenOf
<1>3. ASSUME UNCHANGED vars \/ \E t \in Tasks : AddTask(t)
      PROVE  Spoken'
  BY <1>3, QuietSpoken DEF vars, AddTask, wave, sets
<1>4. ASSUME NEW i \in Ids, NEW r \in Results, Settle(i, r)
      PROVE  Spoken'
  <2>1. /\ pc = "wave" /\ UNCHANGED <<outcomes, completed, skipped, failed, done>>
        /\ \A j \in Ids : j # i => res'[j] = res[j]
        /\ res'[i] # "accepted" /\ (res'[i] = "skipped" => res[i] = "running")
    BY <1>4 DEF Settle, disk, sets, Base, IInv, TypeOK
  <2>2. res[i] = "running" => i \notin done
    BY DEF Base, IInv, Plan, UndoneNotDone, Undone
  <2> QED BY <2>1, <2>2, QuietSpoken
<1> QED
  BY <1>1, <1>2, <1>3, <1>4, AcceptanceSpoken, RecoverySpoken, RoundSpoken
  DEF Next, Crash, Round, RefreshFails, TaskSettles, Acceptance, WaveBlocked, AcceptFails,
    Recovery, FailureTraceFails

-----------------------------------------------------------------------------
(* Fix tasks that are nowhere                                               *)

\* A fix task in the plan that is neither queued, in the wave nor over.
Orphan(f) == f \notin pending \cup Over \cup Wave

\* Its task is being recovered or was given up, it has not run, and it is the last
\* fix of that task.
OrphanOK(f) ==
  /\ f \notin done
  /\ \/ res[Task(Root(f))] \in {"retry", "terminal"}
     \/ "failure" \in Reported(Task(Root(f)))
  /\ \A j \in inPlan : IsFix(j) /\ Root(j) = Root(f) => j[2] <= f[2]

Orphans ==
  /\ \A f \in inPlan : IsFix(f) /\ Orphan(f) => OrphanOK(f)
  /\ \A i \in Ids : /\ IsFix(i) /\ res[i] = "settled" => i \in failed
                    /\ res[i] = "retry" => ~IsFix(i)

LEMMA OpenReports ==
  ASSUME NEW i, Open(i)
  PROVE  Reported(i) \subseteq {"rejected"}
BY DEF Open, Reported

\* Steps that plan nothing and let nothing go.
LEMMA QuietOrphans ==
  ASSUME TypeOK, Orphans, UNCHANGED <<inPlan, done>>,
         \A i \in Ids : Reported(i) \subseteq Reported(i)',
         pending \cup Over \cup Wave \subseteq pending' \cup Over' \cup Wave',
         \A i \in Ids : ~IsFix(i) /\ res[i] \in {"retry", "terminal"} =>
           res'[i] \in {"retry", "terminal"} \/ "failure" \in Reported(i)',
         \A i \in Ids : res'[i] # res[i] =>
           /\ IsFix(i) /\ res'[i] = "settled" => i \in failed'
           /\ res'[i] = "retry" => ~IsFix(i),
         failed \subseteq failed'
  PROVE  Orphans'
<1>1. ASSUME NEW f \in inPlan, IsFix(f), Orphan(f)'
      PROVE  OrphanOK(f)'
  <2>1. OrphanOK(f)
    BY <1>1 DEF Orphans, Orphan
  <2>2. Task(Root(f)) \in Ids /\ ~IsFix(Task(Root(f)))
    BY <1>1, IdFacts DEF TypeOK
  <2> QED BY <1>1, <2>1, <2>2 DEF OrphanOK
<1>2. ASSUME NEW i \in Ids
      PROVE  /\ IsFix(i) /\ res'[i] = "settled" => i \in failed'
             /\ res'[i] = "retry" => ~IsFix(i)
  BY DEF Orphans
<1> QED BY <1>1, <1>2 DEF Orphans

LEMMA RecoverOrphans ==
  ASSUME Base, Orphans, NEW i \in Ids, Recover(i)
  PROVE  Orphans'
<1>0. /\ TypeOK /\ attempts \in [Tasks -> 0 .. MaxRecoveries + 1] /\ inPlan \subseteq Ids
      /\ res \in [Ids -> Results]
  BY DEF Base, IInv, TypeOK
<1>2. PICK f \in Ids : f = NextFix(i) /\ IsFix(f) /\ Root(f) = Root(i)
  BY <1>0, NextFixFacts DEF Recover
<1>1. /\ ~IsFix(i) /\ attempts[Root(i)] < MaxRecoveries /\ f \notin inPlan
      /\ inPlan' = inPlan \cup {f} /\ pc = "settle" /\ res[i] = "failure"
      /\ res' = [res EXCEPT ![i] = "retry"]
      /\ UNCHANGED <<done, pending, completed, skipped, failed, outcomes>>
  BY <1>2 DEF Recover, NextFailure, disk, queue, sets
<1>3. f[2] = attempts[Root(i)] + 1
  BY <1>2 DEF NextFix
<1>4. \A d \in inPlan : IsFix(d) /\ Root(d) = Root(i) => d[2] <= f[2]
  <2>1. \A d \in inPlan : IsFix(d) => attempts[Root(d)] >= d[2] /\ d[2] \in Nat
    BY <1>0, <1>1, NumbersAssumption DEF Base, FreshFix, Idle, Ids
  <2>2. attempts[Root(i)] \in Nat
    BY <1>0, IdFacts, NumbersAssumption
  <2> QED BY <1>3, <2>1, <2>2
<1>5. f \notin done /\ f[2] <= f[2]
  <2>1. f[2] \in Nat
    BY <1>2, NumbersAssumption DEF Ids
  <2>2. f \notin done
    BY <1>1, <1>2 DEF Base, IInv, Plan, FixRecorded
  <2> QED BY <2>1, <2>2
<1>6. i = Task(Root(i)) /\ i = Task(Root(f)) /\ res'[i] = "retry"
  BY <1>0, <1>1, <1>2, IdFacts
<1>7. \A j \in Ids : Reported(j)' = Reported(j)
  BY <1>1, ReportKept
<1>8. "failure" \notin Reported(i) /\ res[i] \notin {"retry", "terminal"}
  BY <1>1, OpenReports DEF Base, Reporting, ReportsInOrder, Undone
<1>9. \A j \in Ids : j # i => res'[j] = res[j]
  BY <1>0, <1>1
<1>10. Wave' = Wave /\ Over' = Over
  BY <1>0, <1>1, <1>6, <1>9 DEF Wave, Over
<1>11. ASSUME NEW g \in inPlan, IsFix(g), Orphan(g)'
       PROVE  OrphanOK(g)'
  <2>1. OrphanOK(g)
    BY <1>1, <1>10, <1>11 DEF Orphans, Orphan
  <2>2. Root(g) # Root(f)
    BY <1>6, <1>8, <2>1 DEF OrphanOK
  <2>3. Task(Root(g)) \in Ids /\ Task(Root(g)) # i
    BY <1>0, <1>2, <1>11, <2>2, IdFacts
  <2> QED BY <1>1, <1>7, <1>9, <2>1, <2>2, <2>3 DEF OrphanOK
<1>12. OrphanOK(f)'
  BY <1>1, <1>4, <1>5, <1>6, <1>2 DEF OrphanOK
<1> QED BY <1>1, <1>6, <1>9, <1>11, <1>12 DEF Orphans

LEMMA RequeueOrphans ==
  ASSUME Base, Orphans, Requeue
  PROVE  Orphans'
<1>1. /\ pending' = pending \cup Requeued
      /\ UNCHANGED <<inPlan, failed, completed, skipped>>
      /\ \A i \in Ids : res'[i] = IF res[i] = "retry" THEN "settled" ELSE res[i]
  BY DEF Requeue, plan, sets
<1>2. \A f \in inPlan : f \in pending' \cup Over'
  BY <1>1 DEF Requeued, Over
<1> QED BY <1>1, <1>2 DEF Orphans, Orphan

LEMMA WaveEndsOrphans ==
  ASSUME Base, Orphans, WaveEnds
  PROVE  Orphans'
<1>1. /\ UNCHANGED <<inPlan, done, pending, completed, skipped, failed, outcomes>>
      /\ res' = NoWave /\ pc = "settle"
      /\ \A i \in Ids : res[i] \notin {"retry", "terminal", "failure", "rejected"}
  BY DEF WaveEnds, NextFailure, Having, disk, plan, queue, sets
<1>2. \A i \in Ids : Reported(i)' = Reported(i)
  BY <1>1, ReportKept
<1>3. ASSUME NEW f \in inPlan, IsFix(f), Orphan(f)'
      PROVE  OrphanOK(f)'
  <2>1. f \in Ids /\ Over' = Over /\ f \notin Over /\ f \notin pending
    BY <1>1, <1>3 DEF Base, IInv, TypeOK, Over, Orphan
  <2>2. res[f] \in {"none", "kept", "skipped", "accepted", "settled"}
    BY <1>1, <2>1 DEF Base, IInv, Phase
  <2>3. res[f] = "none"
    BY <1>1, <1>3, <2>1, <2>2 DEF Orphans, Over, Base, Reporting, ReportsInOrder
  <2>4. OrphanOK(f)
    BY <1>3, <2>1, <2>3 DEF Orphans, Orphan, Wave
  <2>5. Task(Root(f)) \in Ids
    BY <2>1, IdFacts
  <2> QED BY <1>1, <1>2, <2>4, <2>5 DEF OrphanOK
<1> QED BY <1>1, <1>3 DEF Orphans, NoWave

LEMMA StepOrphans ==
  ASSUME Base, Orphans, [Next]_vars
  PROVE  Orphans'
<1>0. TypeOK
  BY DEF Base, IInv
<1>1. ASSUME NEW p \in {"down", "threw"}, EndsIn(p)
      PROVE  Orphans'
  BY <1>1 DEF EndsIn, NoWave, Orphans
<1>2. CASE Start
  BY <1>2 DEF Start, NoWave, Orphans, Orphan
<1>3. ASSUME UNCHANGED vars \/ LoopEnds \/ \E t \in Tasks : AddTask(t)
      PROVE  Orphans'
  <2>1. UNCHANGED <<inPlan, done, pending, completed, skipped, failed, outcomes, res>>
    BY <1>3 DEF vars, LoopEnds, AddTask, disk, plan, queue, wave, sets
  <2> QED BY <1>0, <2>1, QuietOrphans, ReportKept DEF Over, Wave
<1>4. ASSUME Refresh, UNCHANGED done, UNCHANGED failed,
             \A i \in Ids : Reported(i) \subseteq Reported(i)',
             pending \cup Over \subseteq pending' \cup Over' \cup Wave',
             \A i \in Ids : res'[i] \notin {"settled", "retry"}
      PROVE  Orphans'
  <2>1. /\ pc = "head" /\ inPlan' = inPlan \cup New /\ \A i \in New : ~IsFix(i)
        /\ \A i \in Ids : res[i] = "none"
    BY <1>4, NewFacts DEF Refresh, Base
  <2>2. ASSUME NEW f \in inPlan, IsFix(f), Orphan(f)'
        PROVE  OrphanOK(f)'
    <3>1. OrphanOK(f)
      BY <1>4, <2>1, <2>2 DEF Orphans, Orphan, Wave
    <3>2. Task(Root(f)) \in Ids
      BY <1>0, IdFacts DEF TypeOK
    <3> QED BY <1>4, <2>1, <3>1, <3>2 DEF OrphanOK
  <2> QED BY <1>4, <2>1, <2>2 DEF Orphans
<1>5. ASSUME NEW W \in Waves, StartWave(W)
      PROVE  Orphans'
  <2>1. Refresh /\ UNCHANGED <<done, failed, completed, skipped, outcomes>>
    BY <1>5 DEF StartWave, disk, sets
  <2>2. /\ pending' = Queue \ W /\ pending \subseteq Queue /\ W \subseteq Ids
        /\ \A i \in Ids : res'[i] = IF i \in W THEN FirstResult(i) ELSE "none"
    BY <1>0, <1>5, <2>1, RefreshType DEF StartWave, Queue, Waves, Ready
  <2>3. W \subseteq Wave' /\ \A i \in Ids : res'[i] \in {"none", "kept", "running"}
    BY <2>2 DEF Wave, FirstResult
  <2> QED BY <1>4, <2>1, <2>2, <2>3, ReportKept DEF Over
<1>6. CASE ReportUnmet
  <2>1. Refresh /\ UNCHANGED <<done, failed, completed, res>>
        /\ skipped' = skipped \cup Queue
        /\ pending' = Queue /\ pending \subseteq Queue
    BY <1>6 DEF ReportUnmet, disk, wave, Queue
  <2>2. \A i \in Ids : res[i] = "none"
    BY <2>1, NewFacts DEF Refresh, Base
  <2>3. \A i \in Ids : Reported(i) \subseteq Reported(i)'
    BY <1>0, <1>6, UnmetReports
  <2> QED BY <1>4, <2>1, <2>2, <2>3 DEF Over
<1>7. ASSUME NEW i \in Ids, NEW r \in Results, Settle(i, r)
      PROVE  Orphans'
  <2>1. /\ UNCHANGED <<inPlan, done, pending, completed, skipped, failed, outcomes>>
        /\ res[i] \in {"running", "kept"}
        /\ res'[i] \in {"success", "failure", "blocked", "skipped"}
        /\ \A j \in Ids : j # i => res'[j] = res[j]
    BY <1>0, <1>7 DEF Settle, disk, plan, queue, sets, TypeOK
  <2>2. Wave' = Wave /\ Over' = Over
    BY <2>1 DEF Wave, Over
  <2> QED BY <1>0, <2>1, <2>2, QuietOrphans, ReportKept
<1>8. CASE AcceptWave
  <2>1. /\ UNCHANGED <<inPlan, done, pending, failed, outcomes, res>>
        /\ completed \subseteq completed' /\ skipped \subseteq skipped'
    BY <1>8 DEF AcceptWave, disk, plan, queue, wave
  <2> QED BY <1>0, <2>1, QuietOrphans, ReportKept DEF Wave, Over
<1>9. ASSUME NEW i \in Ids, MarkDone(i)
      PROVE  Orphans'
  <2>1. /\ UNCHANGED <<inPlan, pending, skipped, failed, outcomes>>
        /\ done' = done \cup {i} /\ completed' = completed \cup {i}
        /\ res[i] = "saved" /\ res'[i] = "accepted"
        /\ \A j \in Ids : j # i => res'[j] = res[j]
    BY <1>0, <1>9 DEF MarkDone, plan, queue, TypeOK
  <2>2. Wave' = Wave /\ i \in Wave /\ Over' = Over \cup {i}
    BY <2>1 DEF Wave, Over
  <2>3. \A j \in Ids : Reported(j)' = Reported(j)
    BY <2>1, ReportKept
  <2>4. ASSUME NEW f \in inPlan, IsFix(f), Orphan(f)'
        PROVE  OrphanOK(f)'
    <3>1. OrphanOK(f) /\ f # i
      BY <2>1, <2>2, <2>4 DEF Orphans, Orphan
    <3>2. Task(Root(f)) \in Ids
      BY <1>0, IdFacts DEF TypeOK
    <3> QED BY <2>1, <2>3, <3>1, <3>2 DEF OrphanOK
  <2> QED BY <2>1, <2>4 DEF Orphans
<1>10. ASSUME NEW i \in Ids, SaveOutput(i) \/ RejectSuccess(i) \/ GiveUp(i)
       PROVE  Orphans'
  <2>1. /\ UNCHANGED <<inPlan, done, pending, completed, skipped, failed, outcomes>>
        /\ res[i] \in {"success", "failure"}
        /\ res'[i] \in {"saved", "rejected", "terminal"}
        /\ \A j \in Ids : j # i => res'[j] = res[j]
    BY <1>0, <1>10 DEF SaveOutput, RejectSuccess, GiveUp, Accepting, disk, plan, queue,
        sets, TypeOK
  <2>2. Wave' = Wave /\ Over' = Over
    BY <2>1 DEF Wave, Over
  <2> QED BY <1>0, <2>1, <2>2, QuietOrphans, ReportKept
<1>11. CASE WaveAccepted
  <2>1. UNCHANGED <<inPlan, done, pending, completed, skipped, failed, res>>
    BY <1>11 DEF WaveAccepted, disk, plan, queue, sets, wave
  <2>2. \A j \in Ids : Reported(j) \subseteq Reported(j)'
    BY <1>0, <1>11, WaveReports
  <2> QED BY <1>0, <2>1, <2>2, QuietOrphans DEF Wave, Over
<1>12. ASSUME NEW i \in Ids, RejectTask(i) \/ FailTask(i)
       PROVE  Orphans'
  <2>1. /\ UNCHANGED <<inPlan, done, completed, skipped>>
        /\ failed' = failed \cup {i} /\ pending \ {i} \subseteq pending'
        /\ res[i] \in {"rejected", "terminal"} /\ (res[i] = "terminal" => FailTask(i))
        /\ res'[i] = "settled" /\ \A j \in Ids : j # i => res'[j] = res[j]
    BY <1>0, <1>12 DEF RejectTask, FailTask, disk, plan, queue, TypeOK
  <2>2. Wave' = Wave /\ Over' = Over \cup {i}
    BY <2>1 DEF Wave, Over
  <2>3. \A j \in Ids : Reported(j) \subseteq Reported(j)'
    BY <1>0, <1>12, FailureReports
  <2>4. res[i] = "terminal" => "failure" \in Reported(i)'
    BY <1>0, <2>1, FailureReports
  <2> QED BY <1>0, <2>1, <2>2, <2>3, <2>4, QuietOrphans
<1>13. ASSUME NEW i \in Ids, Persist(i)
       PROVE  Orphans'
  <2>1. UNCHANGED <<inPlan, done, pending, completed, skipped, failed, outcomes, res>>
    BY <1>13 DEF Persist, plan, queue, wave, sets
  <2> QED BY <1>0, <2>1, QuietOrphans, ReportKept DEF Over, Wave
<1>14. CASE PersistFails
  <2>1. /\ UNCHANGED <<inPlan, done, pending, completed, skipped, failed, outcomes>>
        /\ \A i \in Ids : res'[i] = IF res[i] = "retry" THEN "terminal" ELSE res[i]
    BY <1>14 DEF PersistFails, disk, plan, queue, sets
  <2>2. Wave' = Wave /\ Over' = Over
    BY <2>1 DEF Wave, Over
  <2> QED BY <1>0, <2>1, <2>2, QuietOrphans, ReportKept
<1> QED
  BY <1>1, <1>2, <1>3, <1>5, <1>6, <1>7, <1>8, <1>9, <1>10, <1>11, <1>12, <1>13, <1>14,
    RecoverOrphans, RequeueOrphans, WaveEndsOrphans
  DEF Next, Crash, Round, RefreshFails, TaskSettles, Acceptance, WaveBlocked, AcceptFails,
    Recovery, FailureTraceFails

-----------------------------------------------------------------------------
(* Least elements                                                           *)

LEMMA NatOrder ==
  \E R : IsWellFoundedOn(R, Nat) /\ \A a, b \in Nat : <<a, b>> \in R <=> a < b
<1>1. \A a, b \in Nat : <<a, b>> \in OpToRel(<, Nat) <=> a < b
  BY DEF OpToRel
<1> QED BY <1>1, NatLessThanWellFounded

LEMMA NatMin ==
  ASSUME NEW S \in SUBSET Nat, S # {}
  PROVE  \E m \in S : \A k \in S : m <= k
<1>1. PICK R : IsWellFoundedOn(R, Nat) /\ \A a, b \in Nat : <<a, b>> \in R <=> a < b
  BY NatOrder
<1>2. S \subseteq Nat /\ S # {}
  OBVIOUS
<1>3. IsWellFoundedOn(R, Nat)
  BY <1>1
<1>4. \E m \in S : \A k \in S : ~ (<<k, m>> \in R)
  BY <1>2, <1>3, WFMin, Zenon
<1>5. PICK m \in S : \A k \in S : ~ (<<k, m>> \in R)
  BY <1>4
<1>6. ASSUME NEW k \in S PROVE m <= k
  <2>1. ~(k < m) /\ k \in Nat /\ m \in Nat
    BY <1>1, <1>2, <1>5
  <2> QED BY <2>1
<1> QED BY <1>6

\* Among queued ids there is one that waits for none of them.
LEMMA Minimal ==
  ASSUME NEW S \in SUBSET Ids, S # {}
  PROVE  \E i \in S : \A d \in S : ~Before(d, i)
<1> DEFINE Ranks == {Rank[Root(i)] : i \in S}
<1>0. \A i \in Ids : Root(i) \in Tasks /\ Rank[Root(i)] \in Nat /\ i[2] \in 0 .. MaxRecoveries
  BY IdFacts, RankFacts DEF Ids
<1>1. PICK m \in Ranks : \A k \in Ranks : m <= k
  <2>1. Ranks \in SUBSET Nat /\ Ranks # {}
    BY <1>0
  <2> HIDE DEF Ranks
  <2> QED BY <2>1, NatMin
<1>2. PICK j \in S : \A d \in S : Rank[Root(j)] <= Rank[Root(d)]
  BY <1>1
<1> DEFINE Same == {i \in S : Root(i) = Root(j)}
           Turn(i) == IF IsFix(i) THEN i[2] ELSE MaxRecoveries + 1
           Turns == {Turn(i) : i \in Same}
<1>3. \A i \in Same : Turn(i) \in Nat
  BY <1>0, NumbersAssumption
<1>4. PICK n \in Turns : \A k \in Turns : n <= k
  <2>1. Turns \in SUBSET Nat /\ Turns # {}
    BY <1>3
  <2> HIDE DEF Turns
  <2> QED BY <2>1, NatMin
<1>5. PICK i \in Same : \A d \in Same : Turn(i) <= Turn(d)
  BY <1>4
<1>6. ASSUME NEW d \in S, Before(d, i)
      PROVE  FALSE
  <2>1. /\ Rank[Root(i)] \in Nat /\ Rank[Root(d)] \in Nat /\ Rank[Root(i)] <= Rank[Root(d)]
        /\ d[2] \in 0 .. MaxRecoveries /\ i[2] \in 0 .. MaxRecoveries
    BY <1>0, <1>2, <1>5
  <2>2. IsFix(d) /\ Root(d) = Root(i) /\ (IsFix(i) => d[2] < i[2])
    BY <1>6, <2>1 DEF Before
  <2>3. Turn(i) <= Turn(d) /\ Turn(d) = d[2]
    BY <1>5, <1>6, <2>2
  <2> QED BY <2>1, <2>2, <2>3, NumbersAssumption
<1> QED BY <1>5, <1>6

-----------------------------------------------------------------------------
(* Markers and the queue                                                    *)

\* What a marked task needs, in the plan and in the queue, is marked too; nothing
\* marked is given up; and the plan asks no more of a queued task than the queue.
MarkedClosed ==
  /\ \A i \in inPlan \cap done : planDeps[i] \subseteq done
  /\ \A i \in pending \cap done : pendDeps[i] \subseteq done
MarkedOver == \A i \in done : i \in skipped \cup failed => i \in completed
MarkedVisible == \A i \in done : ~IsFix(i) => Root(i) \in visible
QueueAsks ==
  /\ \A i \in pending : res[i] \notin {"retry", "terminal"}
     => planDeps[i] \subseteq pendDeps[i]
  /\ pc \in {"wave", "accept"} => \A i \in Wave : planDeps[i] \subseteq waveDeps[i]

DoneParts == MarkedClosed /\ MarkedOver /\ MarkedVisible /\ QueueAsks

\* What a queued task with a marker waits for has a marker, also for a new task.
LEMMA QueueMarked ==
  ASSUME Base, DoneParts, Refresh
  PROVE  /\ \A i \in Queue \cap done : QueueDeps[i] \subseteq done
         /\ \A i \in inPlan' \cap done : planDeps'[i] \subseteq done
         /\ \A i \in Queue : planDeps'[i] \subseteq QueueDeps[i]
<1>1. /\ pc = "head" /\ New \subseteq Ids /\ New \cap inPlan = {} /\ pending \subseteq inPlan
      /\ \A i \in New : Needs(i) = Declared(i)
      /\ \A i \in Ids : res[i] = "none"
  BY NewFacts DEF Refresh, Base
<1>2. /\ inPlan' = inPlan \cup New /\ Queue = pending \cup New
      /\ inPlan \subseteq Ids
      /\ \A i \in Ids : planDeps'[i] = IF i \in New THEN Declared(i) ELSE planDeps[i]
      /\ \A i \in Ids : QueueDeps[i] = IF i \in New THEN Declared(i) ELSE pendDeps[i]
  BY RefreshFacts DEF Base, IInv, TypeOK, QueueDeps
<1>3. \A i \in New \cap done : Declared(i) \subseteq done
  BY <1>1 DEF Base, IInv, Covered, DoneNeedsDone
<1> QED BY <1>1, <1>2, <1>3 DEF DoneParts, MarkedClosed, QueueAsks

LEMMA QueueOrdered ==
  ASSUME DepsOrdered
  PROVE  \A i \in Ids : \A d \in QueueDeps[i] : Before(d, i)
BY DeclaredOrdered DEF DepsOrdered, Ordered, QueueDeps

\* When nothing is ready, nothing queued has a marker.
LEMMA NoDoneQueued ==
  ASSUME Base, DepsOrdered, Orphans, DoneParts, Refresh, Ready = {}
  PROVE  Queue \cap done = {}
<1>1. SUFFICES ASSUME Queue \cap done # {}
               PROVE  FALSE
  OBVIOUS
<1>2. /\ pc = "head" /\ New \cap inPlan = {} /\ New \subseteq Ids /\ Queue \subseteq Ids
      /\ Queue = pending \cup New /\ \A i \in Ids : res[i] = "none"
      /\ recorded \subseteq inPlan
  BY NewFacts, RefreshFacts, RefreshType DEF Refresh, Base, IInv, Plan, FixRecorded
<1>3. PICK i \in Queue \cap done : \A d \in Queue \cap done : ~Before(d, i)
  BY <1>1, <1>2, Minimal
<1>4. PICK d \in QueueDeps[i] : d \notin completed
  BY <1>3 DEF Ready
<1>5. d \in done /\ d \in Ids
  BY <1>3, <1>4, QueueMarked DEF Base, IInv, TypeOK
<1>6. d \notin Queue
  BY <1>2, <1>3, <1>4, <1>5, QueueOrdered
<1>7. d \in inPlan
  <2>1. CASE IsFix(d)
    BY <1>2, <1>5, <2>1 DEF Base, IInv, Plan, FixRecorded
  <2>2. CASE ~IsFix(d)
    <3>1. d = Task(Root(d)) /\ Root(d) \in visible
      BY <1>5, <2>2, IdFacts DEF DoneParts, MarkedVisible
    <3> QED BY <1>2, <1>6, <3>1 DEF New
  <2> QED BY <2>1, <2>2
<1>8. d \in Over
  <2>1. CASE IsFix(d)
    BY <1>2, <1>5, <1>6, <1>7, <2>1 DEF Orphans, Orphan, OrphanOK, Wave
  <2>2. CASE ~IsFix(d)
    BY <1>2, <1>5, <1>6, <1>7, <2>2 DEF Base, IInv, Plan, Placed, Undone, Over
  <2> QED BY <2>1, <2>2
<1> QED BY <1>4, <1>5, <1>8 DEF Over, DoneParts, MarkedOver

LEMMA RecoverDone ==
  ASSUME Base, DoneParts, NEW i \in Ids, Recover(i)
  PROVE  DoneParts'
<1>0. TypeOK /\ inPlan \subseteq Ids /\ res \in [Ids -> Results]
      /\ attempts \in [Tasks -> 0 .. MaxRecoveries + 1]
  BY DEF Base, IInv, TypeOK
<1>1. PICK f \in Ids : f = NextFix(i) /\ IsFix(f)
  BY <1>0, NextFixFacts DEF Recover
<1>2. /\ f \notin inPlan /\ inPlan' = inPlan \cup {f} /\ planDeps' = WithFix(i, f)
      /\ res' = [res EXCEPT ![i] = "retry"] /\ res[i] = "failure"
      /\ pc = "settle" /\ pc' = "persist"
      /\ UNCHANGED <<done, visible, pending, pendDeps, waveDeps, completed, skipped,
                     failed>>
  BY <1>1 DEF Recover, NextFailure, disk, queue, sets
<1>3. i \notin done /\ f \notin done /\ pending \subseteq inPlan
  <2>1. f \notin done
    BY <1>1, <1>2 DEF Base, IInv, Plan, FixRecorded
  <2> QED BY <1>2, <2>1 DEF Base, IInv, Plan, UndoneNotDone, Undone, QueueLive
<1>4. \A j \in inPlan : j # i => planDeps'[j] \subseteq planDeps[j]
  BY <1>0, <1>2 DEF WithFix, InPlan
<1>5. \A j \in Ids : j # i => res'[j] = res[j]
  BY <1>0, <1>2
<1>6. res'[i] = "retry"
  BY <1>0, <1>2
<1>7. MarkedClosed'
  BY <1>2, <1>3, <1>4 DEF DoneParts, MarkedClosed
<1>8. MarkedOver' /\ MarkedVisible'
  BY <1>2 DEF DoneParts, MarkedOver, MarkedVisible
<1>9. QueueAsks'
  BY <1>0, <1>2, <1>3, <1>4, <1>5, <1>6 DEF DoneParts, QueueAsks
<1> QED BY <1>7, <1>8, <1>9 DEF DoneParts

LEMMA RequeueDone ==
  ASSUME Base, DoneParts, Requeue
  PROVE  DoneParts'
<1>0. inPlan \subseteq Ids /\ pending \subseteq Ids /\ res \in [Ids -> Results]
  BY DEF Base, IInv, TypeOK
<1>1. /\ pending' = pending \cup Requeued /\ Requeued \subseteq inPlan
      /\ \A i \in Ids : pendDeps'[i] = IF i \in Requeued THEN planDeps[i] ELSE pendDeps[i]
      /\ UNCHANGED <<done, visible, inPlan, planDeps, waveDeps, completed, skipped,
                     failed>>
      /\ pc' = "settle"
      /\ \A i \in Ids : res'[i] = IF res[i] = "retry" THEN "settled" ELSE res[i]
  BY DEF Requeue, Requeued, disk, plan, sets
<1>2. \A i \in pending : res[i] = "retry" => i \in Requeued
  BY <1>0 DEF Base, IInv, Plan, QueueLive, Requeued, WaveFailures, Having
<1>3. MarkedClosed'
  BY <1>0, <1>1 DEF DoneParts, MarkedClosed
<1>4. MarkedOver' /\ MarkedVisible'
  BY <1>1 DEF DoneParts, MarkedOver, MarkedVisible
<1>5. QueueAsks'
  BY <1>0, <1>1, <1>2 DEF DoneParts, QueueAsks
<1> QED BY <1>3, <1>4, <1>5 DEF DoneParts

LEMMA StepDoneParts ==
  ASSUME Base, DepsOrdered, Orphans, Spoken, DoneParts, [Next]_vars
  PROVE  DoneParts'
<1>0. TypeOK /\ pending \subseteq Ids /\ pending \subseteq inPlan
  BY DEF Base, IInv, TypeOK, Plan, QueueLive
<1> USE DEF DoneParts
<1>1. ASSUME NEW p \in {"down", "threw"}, EndsIn(p)
      PROVE  DoneParts'
  BY <1>1 DEF EndsIn, disk, MarkedClosed, MarkedOver, MarkedVisible, QueueAsks
<1>2. CASE Start
  <2>1. \A i \in InitialPlan : InitialDeps[i] = Needs(i) /\ i \in Ids
    BY <1>0, IdFacts DEF InitialPlan, InitialDeps, TypeOK
  <2>2. \A i \in done : Needs(i) \subseteq done
    BY DEF Base, IInv, Covered, DoneNeedsDone
  <2> QED
    BY <1>2, <2>1, <2>2 DEF Start, disk, MarkedClosed, MarkedOver, MarkedVisible,
        QueueAsks
<1>3. ASSUME NEW t \in Tasks, AddTask(t)
      PROVE  DoneParts'
  BY <1>3 DEF AddTask, plan, queue, wave, sets, MarkedClosed, MarkedOver, MarkedVisible,
    QueueAsks, Wave
<1>4. ASSUME NEW W \in Waves, StartWave(W)
      PROVE  DoneParts'
  <2>1. Refresh /\ pc' = "wave" /\ UNCHANGED <<done, visible, completed, skipped, failed>>
    BY <1>4 DEF StartWave, disk, sets
  <2>2. /\ pending' = Queue \ W /\ Queue \subseteq Ids /\ W \subseteq Queue
        /\ \A i \in Ids : pendDeps'[i] = IF i \in W THEN {} ELSE QueueDeps[i]
        /\ \A i \in Ids : waveDeps'[i] = IF i \in W THEN QueueDeps[i] ELSE {}
        /\ \A i \in Ids : i \notin W => res'[i] = "none"
    BY <1>0, <1>4, <2>1, RefreshType DEF StartWave, Waves, Ready
  <2>3. /\ \A i \in Queue \cap done : QueueDeps[i] \subseteq done
        /\ \A i \in inPlan' \cap done : planDeps'[i] \subseteq done
        /\ \A i \in Queue : planDeps'[i] \subseteq QueueDeps[i]
    BY <2>1, QueueMarked
  <2>4. Wave' \subseteq W
    BY <2>2 DEF Wave
  <2>5. MarkedClosed' /\ QueueAsks'
    BY <2>1, <2>2, <2>3, <2>4 DEF MarkedClosed, QueueAsks
  <2> QED BY <2>1, <2>5 DEF MarkedOver, MarkedVisible
<1>5. CASE ReportUnmet
  <2>1. /\ Refresh /\ pc' = "finished" /\ UNCHANGED <<done, visible, completed, failed>>
        /\ pending' = Queue /\ pendDeps' = QueueDeps /\ skipped' = skipped \cup Queue
        /\ Ready = {}
    BY <1>5 DEF ReportUnmet, disk
  <2>2. /\ \A i \in Queue \cap done : QueueDeps[i] \subseteq done
        /\ \A i \in inPlan' \cap done : planDeps'[i] \subseteq done
        /\ \A i \in Queue : planDeps'[i] \subseteq QueueDeps[i]
    BY <2>1, QueueMarked
  <2>3. Queue \cap done = {}
    BY <2>1, NoDoneQueued
  <2> QED BY <2>1, <2>2, <2>3 DEF MarkedClosed, MarkedOver, MarkedVisible, QueueAsks
<1>6. ASSUME UNCHANGED <<done, visible, inPlan, planDeps, pending, pendDeps, completed,
                        skipped, failed, waveDeps>>,
             pc' \in {"wave", "accept"} => pc \in {"wave", "accept"} /\ Wave' = Wave,
             \A i \in pending : res'[i] \in {"retry", "terminal"}
             \/ res[i] \notin {"retry", "terminal"}
      PROVE  DoneParts'
  BY <1>6 DEF MarkedClosed, MarkedOver, MarkedVisible, QueueAsks
<1>7. ASSUME UNCHANGED vars \/ LoopEnds \/ WaveAccepted \/ PersistFails \/ WaveEnds
               \/ \E i \in Ids : Persist(i)
      PROVE  DoneParts'
  <2>1. UNCHANGED <<done, visible, inPlan, planDeps, pending, pendDeps, completed,
                    skipped, failed>>
    BY <1>7 DEF vars, LoopEnds, WaveAccepted, PersistFails, WaveEnds, Persist, disk,
        plan, queue,
      wave, sets
  <2>2. CASE UNCHANGED vars
    BY <1>6, <2>2 DEF vars, Wave
  <2>3. CASE LoopEnds \/ WaveAccepted \/ \E i \in Ids : Persist(i)
    BY <1>6, <2>1, <2>3 DEF LoopEnds, WaveAccepted, Persist, wave
  <2>4. CASE PersistFails
    BY <1>0, <1>6, <2>1, <2>4 DEF PersistFails
  <2>5. CASE WaveEnds
    <3>1. pc' = "head" /\ \A i \in Ids : res[i] \notin {"retry", "terminal"}
          /\ res'[i] = "none"
      BY <2>5 DEF WaveEnds, NextFailure, Having, NoWave
    <3> QED BY <1>0, <2>1, <3>1 DEF MarkedClosed, MarkedOver, MarkedVisible, QueueAsks
  <2> QED BY <1>7, <2>2, <2>3, <2>4, <2>5
<1>8. ASSUME NEW i \in Ids, NEW r \in Results, Settle(i, r)
      PROVE  DoneParts'
  <2>1. /\ UNCHANGED <<done, visible, inPlan, planDeps, pending, pendDeps, completed,
                       skipped, failed, waveDeps>>
        /\ pc = "wave" /\ res[i] \in {"running", "kept"}
        /\ res'[i] \in {"success", "failure", "blocked", "skipped"}
        /\ \A j \in Ids : j # i => res'[j] = res[j]
    BY <1>0, <1>8 DEF Settle, disk, plan, queue, sets, TypeOK
  <2>2. Wave' = Wave
    BY <2>1 DEF Wave
  <2>3. \A j \in pending : res'[j] \in {"retry", "terminal"}
        \/ res[j] \notin {"retry", "terminal"}
    BY <1>0, <2>1
  <2> QED BY <1>6, <2>1, <2>2, <2>3
<1>9. CASE AcceptWave
  <2>1. /\ UNCHANGED <<done, visible, inPlan, planDeps, pending, pendDeps, failed,
                       waveDeps, res>>
        /\ pc = "wave" /\ skipped' = skipped \cup Having({"skipped"})
        /\ completed \subseteq completed'
    BY <1>9 DEF AcceptWave, WaveSettled, disk, plan, queue, wave
  <2>2. \A i \in Having({"skipped"}) : i \notin done
    BY DEF Having, Spoken, SpokenOf
  <2> QED BY <2>1, <2>2 DEF MarkedClosed, MarkedOver, MarkedVisible, QueueAsks, Wave
<1>10. ASSUME NEW i \in Ids, SaveOutput(i) \/ RejectSuccess(i) \/ GiveUp(i)
       PROVE  DoneParts'
  <2>1. /\ UNCHANGED <<done, visible, inPlan, planDeps, pending, pendDeps, completed,
                       skipped, failed, waveDeps, pc>>
        /\ res[i] \in {"success", "failure"}
        /\ res'[i] \in {"saved", "rejected", "terminal"}
        /\ \A j \in Ids : j # i => res'[j] = res[j]
    BY <1>0, <1>10 DEF SaveOutput, RejectSuccess, GiveUp, Accepting, disk, plan, queue,
        sets, TypeOK
  <2>2. Wave' = Wave
    BY <2>1 DEF Wave
  <2>3. \A j \in pending : res'[j] \in {"retry", "terminal"}
        \/ res[j] \notin {"retry", "terminal"}
    BY <1>0, <2>1
  <2> QED BY <1>6, <2>1, <2>2, <2>3
<1>11. ASSUME NEW i \in Ids, MarkDone(i)
       PROVE  DoneParts'
  <2>1. /\ UNCHANGED <<visible, inPlan, planDeps, pending, pendDeps, skipped, failed,
                       waveDeps>>
        /\ done' = done \cup {i} /\ completed' = completed \cup {i} /\ pc = "accept"
        /\ res[i] = "saved" /\ res'[i] = "accepted"
        /\ \A j \in Ids : j # i => res'[j] = res[j]
    BY <1>0, <1>11 DEF MarkDone, plan, queue, TypeOK
  <2>2. i \in Wave /\ Wave' = Wave
    BY <2>1 DEF Wave
  <2>3. i \in inPlan /\ i \notin pending /\ (~IsFix(i) => Root(i) \in visible)
    BY <2>1 DEF Base, IInv, Plan, Placed, QueueLive, AllKnown, Known
  <2>4. planDeps[i] \subseteq done
    <3>1. planDeps[i] \subseteq waveDeps[i]
      BY <2>1, <2>2 DEF QueueAsks
    <3>2. waveDeps[i] \subseteq completed /\ completed \subseteq done
      BY DEF Base, IInv, Plan, CompletedDone
    <3> QED BY <3>1, <3>2
  <2>5. MarkedClosed'
    BY <2>1, <2>3, <2>4 DEF MarkedClosed
  <2>6. \A j \in pending : res'[j] \in {"retry", "terminal"}
        \/ res[j] \notin {"retry", "terminal"}
    BY <1>0, <2>1
  <2>7. QueueAsks'
    BY <2>1, <2>2, <2>6 DEF QueueAsks
  <2> QED BY <2>1, <2>3, <2>5, <2>7 DEF MarkedOver, MarkedVisible
<1>12. ASSUME NEW i \in Ids, RejectTask(i) \/ FailTask(i)
       PROVE  DoneParts'
  <2>1. /\ UNCHANGED <<done, visible, inPlan, planDeps, completed, skipped, waveDeps>>
        /\ failed' = failed \cup {i} /\ pc' = "settle"
        /\ pending' \subseteq pending /\ (res[i] = "terminal" => i \notin pending')
        /\ \A j \in pending' : pendDeps'[j] = pendDeps[j]
        /\ res[i] \in {"rejected", "terminal"}
        /\ \A j \in Ids : j # i => res'[j] = res[j]
    BY <1>0, <1>12 DEF RejectTask, FailTask, NextFailure, disk, plan, queue, TypeOK
  <2>2. i \notin done
    BY <2>1 DEF Base, IInv, Plan, UndoneNotDone, Undone
  <2>3. MarkedClosed'
    BY <1>0, <2>1 DEF MarkedClosed
  <2>4. QueueAsks'
    BY <1>0, <2>1 DEF QueueAsks
  <2> QED BY <2>1, <2>2, <2>3, <2>4 DEF MarkedOver, MarkedVisible
<1> QED
  BY <1>1, <1>2, <1>3, <1>4, <1>5, <1>7, <1>8, <1>9, <1>10, <1>11, <1>12,
    RecoverDone, RequeueDone
  DEF Next, Crash, Round, RefreshFails, TaskSettles, Acceptance, WaveBlocked, AcceptFails,
    Recovery, FailureTraceFails

-----------------------------------------------------------------------------
(* Unmet needs have a cause                                                 *)

\* The least queued task waits for one that ended without success.
LEMMA UnmetHasCause ==
  ASSUME Base, DepsOrdered, Orphans, Spoken, ReportUnmet
  PROVE  UnmetForCause'
<1>0. TypeOK /\ inPlan \subseteq Ids
  BY DEF Base, IInv, TypeOK
<1>1. Refresh /\ Ready = {} /\ pendDeps' = QueueDeps /\ pending # {}
  BY DEF ReportUnmet, Refresh, Looping
<1>2. /\ pc = "head" /\ New \cap inPlan = {} /\ New \subseteq Ids /\ Queue \subseteq Ids
      /\ Queue = pending \cup New /\ \A i \in Ids : res[i] = "none"
      /\ inPlan' = inPlan \cup New /\ pending \subseteq inPlan
  BY <1>1, NewFacts, RefreshFacts, RefreshType DEF Refresh, Base, IInv
<1>3. PICK i \in Queue : \A d \in Queue : ~Before(d, i)
  BY <1>1, <1>2, Minimal
<1>4. PICK d \in QueueDeps[i] : d \notin completed
  BY <1>1, <1>3 DEF Ready
<1>5. d \in Ids /\ i \in Ids
  BY <1>0, <1>1, <1>2, RefreshType
<1>6. d \notin Queue /\ Before(d, i)
  BY <1>2, <1>3, <1>4, QueueOrdered
<1>7. Reported(i)' = Reported(i) \cup {"unmet"} /\ Reported(d)' = Reported(d)
  BY <1>0, <1>3, <1>5, <1>6, UnmetReports
<1>8. d \notin inPlan' \/ Reported(d) \cap (Ended \ {"unmet"}) # {}
  <2>1. SUFFICES ASSUME d \in inPlan
                 PROVE  Reported(d) \cap (Ended \ {"unmet"}) # {}
    BY <1>2, <1>6
  <2>2. CASE d \in Over
    <3>1. d \in skipped \cup failed
      BY <1>4, <2>2 DEF Over
    <3> QED BY <1>2, <1>5, <3>1 DEF Spoken, SpokenOf, Ended
  <2>3. CASE ~IsFix(d) /\ d \notin Over
    BY <1>2, <1>5, <1>6, <2>1, <2>3 DEF Base, IInv, Plan, Placed, Undone, Over
  <2>4. CASE IsFix(d) /\ d \notin Over
    <3>1. OrphanOK(d)
      BY <1>2, <1>5, <1>6, <2>1, <2>4 DEF Orphans, Orphan, Wave
    <3>2. Root(d) = Root(i) /\ (IsFix(i) => d[2] < i[2])
      BY <1>6, <2>4 DEF Before
    <3>3. CASE IsFix(i)
      <4>1. i \in inPlan
        BY <1>1, <1>2, <1>3, <3>3, NewFacts DEF Base
      <4>2. d[2] \in Nat /\ i[2] \in Nat
        BY <1>5, NumbersAssumption DEF Ids
      <4> QED BY <3>1, <3>2, <3>3, <4>1, <4>2 DEF OrphanOK
    <3>4. CASE ~IsFix(i)
      <4>1. i = Task(Root(d))
        BY <1>5, <3>2, <3>4, IdFacts
      <4>2. "failure" \in Reported(i)
        BY <1>2, <1>5, <3>1, <4>1 DEF OrphanOK
      <4>3. Open(i)
        BY <1>2, <1>3, <1>5 DEF Base, Reporting, ReportsInOrder, Open
      <4> QED BY <4>2, <4>3, OpenReports
    <3> QED BY <3>3, <3>4
  <2> QED BY <2>2, <2>3, <2>4
<1> QED BY <1>1, <1>4, <1>5, <1>7, <1>8 DEF UnmetForCause

\* What the loop returned with stays as it is.
LEMMA StaysFinished ==
  ASSUME [Next]_vars, pc = "finished", pc' = "finished"
  PROVE  UNCHANGED <<inPlan, pendDeps, done, outcomes>>
<1>1. CASE UNCHANGED vars
  BY <1>1 DEF vars
<1>2. ASSUME NEW t \in Tasks, AddTask(t)
      PROVE  UNCHANGED <<inPlan, pendDeps, done, outcomes>>
  BY <1>2 DEF AddTask, plan, queue
<1> QED
  BY <1>1, <1>2
  DEF Next, Start, Crash, EndsIn, Idle, Round, StartWave, ReportUnmet, LoopEnds,
  RefreshFails,
    Refresh, TaskSettles, Settle, Acceptance, WaveBlocked, AcceptWave, WaveSettled,
    AcceptFails,
    WaveAccepted, SaveOutput, Accepting, MarkDone, RejectSuccess, Recovery, RejectTask,
    NextFailure, GiveUp, Recover, Persist, FailTask, PersistFails, Requeue,
    FailureTraceFails,
    WaveEnds

\* The loop returns in two ways.
LEMMA Finishes ==
  ASSUME [Next]_vars, pc # "finished", pc' = "finished"
  PROVE  ReportUnmet \/ LoopEnds
BY DEF vars, Next, Start, Crash, EndsIn, AddTask, Round, StartWave, RefreshFails,
  TaskSettles, Settle, Acceptance, WaveBlocked, AcceptWave, AcceptFails,
  WaveAccepted, SaveOutput, Accepting, MarkDone, RejectSuccess, Recovery, RejectTask,
  NextFailure, GiveUp, Recover, Persist, FailTask, PersistFails, Requeue,
  FailureTraceFails,
  WaveEnds

LEMMA StepUnmet ==
  ASSUME Base, DepsOrdered, Orphans, Spoken, UnmetForCause, [Next]_vars
  PROVE  UnmetForCause'
<1>1. CASE pc' # "finished"
  BY <1>1 DEF UnmetForCause
<1>2. CASE pc = "finished" /\ pc' = "finished"
  <2>1. UNCHANGED <<inPlan, pendDeps, outcomes>>
    BY <1>2, StaysFinished
  <2>2. \A i : Reported(i)' = Reported(i)
    BY <2>1 DEF Reported
  <2> QED BY <1>2, <2>1, <2>2 DEF UnmetForCause
<1>3. CASE ReportUnmet
  BY <1>3, UnmetHasCause
<1>4. CASE LoopEnds
  <2>1. \A i \in Ids : Reported(i)' = Reported(i) /\ "unmet" \notin Reported(i)
    BY <1>4, ReportKept DEF LoopEnds, Spoken, SpokenOf
  <2> QED BY <2>1 DEF UnmetForCause
<1> QED BY <1>1, <1>2, <1>3, <1>4, Finishes

\* The invariant of the reports.
Told == Base /\ DepsOrdered /\ Spoken /\ Orphans /\ DoneParts

LEMMA InitTold == Init => Told
BY InitBase DEF Told, Init, DepsOrdered, Ordered, Nothing, NoWave, Spoken, SpokenOf,
    Reported,
  Orphans, DoneParts, MarkedClosed, MarkedOver, MarkedVisible, QueueAsks

LEMMA StepTold ==
  ASSUME Told, [Next]_vars
  PROVE  Told'
BY BaseStep, StepOrdered, StepSpoken, StepOrphans, StepDoneParts DEF Told

LEMMA ToldInvariant == Spec => []Told
BY InitTold, StepTold, PTL DEF Spec

\* Tasks are given up for unmet needs only if one of them needs something that
\* failed, was refused or was never planned, for any acyclic plan and however its
\* tasks fail, are recovered and are queued again.
THEOREM UnmetNeedsHaveACause == Spec => []UnmetForCause
<1>1. Init => UnmetForCause
  BY DEF Init, UnmetForCause
<1>2. Told /\ UnmetForCause /\ [Next]_vars => UnmetForCause'
  BY StepUnmet DEF Told
<1> QED BY <1>1, <1>2, ToldInvariant, PTL DEF Spec

-----------------------------------------------------------------------------
(* The iteration limit covers the work                                      *)

\* Tasks that still cost a round, and tasks that run again after a success that
\* could not be accepted.
Live == {i \in inPlan : res[i] # "terminal" /\ (i \notin Over \/ i \in pending)}
Rerun == {i \in failed : res[i] \in Undone \ {"terminal"}}

\* A task costs one round, a planned one another round: either it runs a second
\* time after its success was rejected, or a fix task is put before it.
Owed == Live \cup Rerun
OwedMore == {i \in Live : ~IsFix(i)}
Load == Cardinality(Owed) + Cardinality(OwedMore)

\* A fix task in the plan is paid for once it is queued.
Cap == IF pc = "persist" THEN limit + 1 ELSE limit
Paid == iterations + Load <= Cap

\* The round of a wave is counted before its tasks are done with.
Untouched ==
  \A i \in Wave :
    /\ i \notin pending /\ res[i] \notin {"settled", "terminal"}
    /\ i \in Over => IsFix(i) /\ i \in Rerun

Budget ==
  /\ pc = "head" => Paid
  /\ pc \in {"wave", "accept", "settle", "persist"} =>
       Wave # {} /\ (Paid \/ (iterations + Load <= Cap + 1 /\ Untouched))
  /\ pc = "persist" => \E i \in Ids : res[i] = "retry"

LEMMA CardFacts ==
  ASSUME NEW A \in SUBSET Ids, NEW B \in SUBSET Ids
  PROVE  /\ Cardinality(A) \in Nat /\ (Cardinality(A) = 0 => A = {})
         /\ A \subseteq B => Cardinality(A) <= Cardinality(B)
         /\ \A x \in B : A \subseteq B \ {x} => Cardinality(A) <= Cardinality(B) - 1
         /\ Cardinality(A \cup B) <= Cardinality(A) + Cardinality(B)
         /\ \A x \in Ids : A \subseteq B \cup {x} => Cardinality(A) <= Cardinality(B) + 1
<1>1. IsFiniteSet(A) /\ IsFiniteSet(B) /\ Cardinality(A) \in Nat /\ Cardinality(B) \in Nat
  BY IdsFinite
<1>2. A \subseteq B => Cardinality(A) <= Cardinality(B)
  BY <1>1, FS_Subset
<1>3. ASSUME NEW x \in B, A \subseteq B \ {x}
      PROVE  Cardinality(A) <= Cardinality(B) - 1
  <2>1. IsFiniteSet(B \ {x}) /\ Cardinality(B \ {x}) = Cardinality(B) - 1
    BY <1>1, FS_RemoveElement
  <2>2. Cardinality(A) <= Cardinality(B \ {x})
    BY <1>3, <2>1, FS_Subset
  <2> QED BY <2>1, <2>2
<1>4. Cardinality(A \cup B) <= Cardinality(A) + Cardinality(B)
  <2>1. /\ Cardinality(A \cup B) = Cardinality(A) + Cardinality(B) - Cardinality(A \cap B)
        /\ Cardinality(A \cap B) \in Nat
    BY <1>1, FS_Union, FS_Intersection, FS_CardinalityType
  <2> QED BY <1>1, <2>1
<1>5. ASSUME NEW x \in Ids, A \subseteq B \cup {x}
      PROVE  Cardinality(A) <= Cardinality(B) + 1
  <2>1. IsFiniteSet(B \cup {x})
        /\ Cardinality(B \cup {x}) \in {Cardinality(B), Cardinality(B) + 1}
    BY <1>1, FS_AddElement
  <2>2. Cardinality(A) <= Cardinality(B \cup {x})
    BY <1>5, <2>1, FS_Subset
  <2> QED BY <1>1, <2>1, <2>2
<1>6. Cardinality(A) = 0 => A = {}
  BY <1>1, FS_EmptySet
<1> QED BY <1>1, <1>2, <1>3, <1>4, <1>5, <1>6

LEMMA OwedType ==
  /\ TypeOK => Owed \in SUBSET Ids /\ OwedMore \in SUBSET Ids
  /\ TypeOK' => Owed' \in SUBSET Ids /\ OwedMore' \in SUBSET Ids
BY DEF Owed, OwedMore, Live, Rerun, TypeOK

LEMMA LoadTypes == (TypeOK => Load \in Nat) /\ (TypeOK' => Load' \in Nat)
<1>1. \A S \in SUBSET Ids : Cardinality(S) \in Nat
  BY CardFacts
<1>2. TypeOK => Cardinality(Owed) \in Nat /\ Cardinality(OwedMore) \in Nat
  BY <1>1, OwedType
<1>3. TypeOK' => Cardinality(Owed') \in Nat /\ Cardinality(OwedMore') \in Nat
  BY <1>1, OwedType
<1> QED BY <1>2, <1>3 DEF Load

\* The load of the next state, from the sets it counts.
LEMMA LoadSame ==
  ASSUME TypeOK, TypeOK', Owed' \subseteq Owed, OwedMore' \subseteq OwedMore
  PROVE  Load' <= Load /\ Load \in Nat /\ Load' \in Nat
<1>1. /\ Owed \in SUBSET Ids /\ Owed' \in SUBSET Ids
      /\ OwedMore \in SUBSET Ids /\ OwedMore' \in SUBSET Ids
  BY OwedType
<1>2. /\ Cardinality(Owed') <= Cardinality(Owed) /\ Cardinality(OwedMore') <= Cardinality(OwedMore)
      /\ Cardinality(Owed') \in Nat /\ Cardinality(Owed) \in Nat
      /\ Cardinality(OwedMore') \in Nat /\ Cardinality(OwedMore) \in Nat
  BY <1>1, CardFacts
<1> QED BY <1>2 DEF Load

LEMMA LoadLess ==
  ASSUME TypeOK, TypeOK', Owed' \subseteq Owed, OwedMore' \subseteq OwedMore,
         NEW i \in Ids
  PROVE  /\ i \in Owed /\ i \notin Owed' => Load' <= Load - 1
         /\ i \in OwedMore /\ i \notin OwedMore' => Load' <= Load - 1
         /\ i \in Owed /\ i \notin Owed' /\ i \in OwedMore /\ i \notin OwedMore' =>
              Load' <= Load - 2
<1>1. /\ Owed \in SUBSET Ids /\ Owed' \in SUBSET Ids
      /\ OwedMore \in SUBSET Ids /\ OwedMore' \in SUBSET Ids
  BY OwedType
<1>2. /\ i \in Owed /\ i \notin Owed' => Owed' \subseteq Owed \ {i}
      /\ i \in OwedMore /\ i \notin OwedMore' => OwedMore' \subseteq OwedMore \ {i}
  OBVIOUS
<1>3. /\ i \in Owed /\ i \notin Owed' => Cardinality(Owed') <= Cardinality(Owed) - 1
      /\ i \in OwedMore /\ i \notin OwedMore' =>
           Cardinality(OwedMore') <= Cardinality(OwedMore) - 1
  BY <1>1, <1>2, CardFacts
<1>4. /\ Cardinality(Owed') <= Cardinality(Owed) /\ Cardinality(OwedMore') <= Cardinality(OwedMore)
      /\ Cardinality(Owed') \in Nat /\ Cardinality(Owed) \in Nat
      /\ Cardinality(OwedMore') \in Nat /\ Cardinality(OwedMore) \in Nat
  BY <1>1, CardFacts
<1> QED BY <1>3, <1>4 DEF Load

LEMMA Spend ==
  ASSUME NEW n \in Nat, NEW a \in Nat, NEW b \in Nat, NEW c \in Nat
  PROVE  /\ n + a <= c /\ b <= a => n + b <= c
         /\ n + a <= c + 1 /\ b <= a - 1 => n + b <= c
         /\ n + a <= c + 2 /\ b <= a - 2 => n + b <= c
         /\ n + a <= c + 2 /\ b <= a => n + b <= c + 2
         /\ n + a <= c /\ b <= a + 1 => n + b <= c + 1
         /\ n + a <= c + 1 /\ b <= a + 1 => n + b <= c + 1 + 1
OBVIOUS

LEMMA SpendMore ==
  ASSUME NEW n \in Nat, NEW a \in Nat, NEW b \in Nat, NEW c \in Nat, NEW m \in Nat,
  n + a <= c
  PROVE  /\ b <= a + 2 * m => n + 1 + b <= c + 2 * m + 1
         /\ b <= a + 2 * m - 1 => n + 1 + b <= c + 2 * m
OBVIOUS

\* What the steps of a wave do to the budget, when they add no work.
LEMMA BudgetKept ==
  ASSUME TypeOK, TypeOK', Budget, pc \in {"wave", "accept", "settle"},
         pc' \in {"wave", "accept", "settle"}, UNCHANGED <<iterations, limit>>,
         Wave' = Wave,
         Owed' \subseteq Owed, OwedMore' \subseteq OwedMore,
         \/ Untouched => Untouched'
         \/ Untouched => \E i \in Ids : i \in Owed /\ i \notin Owed'
  PROVE  Budget'
<1>1. /\ Load' <= Load /\ Load \in Nat /\ Load' \in Nat /\ iterations \in Nat /\ limit \in Nat
      /\ iterations' = iterations /\ Cap = limit /\ Cap' = limit
  BY LoadSame DEF TypeOK, Cap
<1>2. CASE Paid
  BY <1>1, <1>2 DEF Budget, Paid
<1>3. CASE ~Paid
  <2>1. Untouched /\ iterations + Load <= Cap + 1 /\ Wave # {}
    BY <1>3 DEF Budget
  <2>2. CASE Untouched'
    BY <1>1, <2>1, <2>2 DEF Budget
  <2>3. ASSUME NEW i \in Ids, i \in Owed, i \notin Owed'
        PROVE  Budget'
    <3>1. Load' <= Load - 1
      BY <2>3, LoadLess
    <3>2. iterations + Load <= limit + 1
      BY <1>1, <2>1
    <3>3. iterations + Load' <= limit
      BY <1>1, <3>1, <3>2, Spend
    <3>4. Paid'
      BY <1>1, <3>3 DEF Paid
    <3> QED BY <2>1, <3>4 DEF Budget
  <2>4. Untouched' \/ \E i \in Ids : i \in Owed /\ i \notin Owed'
    BY <2>1
  <2> QED BY <2>2, <2>3, <2>4
<1> QED BY <1>2, <1>3

\* Nothing of a wave is done with while its round is not paid for.
LEMMA WaveOwed ==
  ASSUME Base, Untouched, NEW i \in Ids, res[i] # "none"
  PROVE  /\ i \in Owed /\ i \notin pending /\ res[i] # "terminal"
         /\ i \in Over => i \in Rerun /\ IsFix(i)
         /\ i \notin Over => i \in Live
<1>1. i \in Wave /\ i \in inPlan
  BY DEF Wave, Base, IInv, Plan, Placed
<1> QED BY <1>1 DEF Untouched, Owed, Live

LEMMA SettleBudget ==
  ASSUME Told, Budget, TypeOK', NEW i \in Ids, NEW r \in Results, Settle(i, r)
  PROVE  Budget'
<1>0. TypeOK /\ Base
  BY DEF Told, Base, IInv
<1>1. /\ UNCHANGED <<inPlan, pending, completed, skipped, failed, iterations, limit>>
      /\ pc = "wave" /\ pc' = "wave" /\ res[i] \in {"running", "kept"} /\ res'[i] = r
      /\ \/ r \in {"success", "failure"} /\ res[i] = "running"
         \/ r \in {"blocked", "skipped"}
      /\ \A j \in Ids : j # i => res'[j] = res[j]
  BY <1>0 DEF Settle, disk, plan, queue, sets, rounds, TypeOK
<1>2. Wave' = Wave /\ Over' = Over
  BY <1>1 DEF Wave, Over
<1>3. Live' \subseteq Live /\ Rerun' \subseteq Rerun
  BY <1>0, <1>1, <1>2 DEF Live, Rerun, Undone, TypeOK
<1>4. Owed' \subseteq Owed /\ OwedMore' \subseteq OwedMore
  BY <1>3 DEF Owed, OwedMore
<1>5. ASSUME Untouched
      PROVE  Untouched' \/ (i \in Owed /\ i \notin Owed')
  <2>1. CASE r \in {"blocked", "skipped"} /\ i \in Over
    <3>1. i \in Owed /\ i \notin pending
      BY <1>0, <1>1, <1>5, WaveOwed
    <3>2. i \notin Owed'
      BY <1>1, <1>2, <2>1, <3>1 DEF Owed, Live, Rerun, Undone
    <3> QED BY <3>1, <3>2
  <2>2. CASE ~(r \in {"blocked", "skipped"} /\ i \in Over)
    <3>1. \A j \in Rerun : j = i => r \in {"success", "failure"}
      BY <1>1, <2>2 DEF Rerun, Over
    <3>2. \A j \in Rerun : j \in Rerun'
      BY <1>0, <1>1, <3>1 DEF Rerun, Undone, TypeOK
    <3>3. \A j \in Wave : res'[j] \notin {"settled", "terminal"}
      BY <1>1, <1>5 DEF Untouched, Wave
    <3> QED BY <1>1, <1>2, <1>5, <3>2, <3>3 DEF Untouched
  <2> QED BY <2>1, <2>2
<1> QED BY <1>0, <1>1, <1>2, <1>4, <1>5, BudgetKept DEF Told

LEMMA AcceptanceBudget ==
  ASSUME Told, Budget, TypeOK', Acceptance, ~WaveBlocked, ~AcceptFails
  PROVE  Budget'
<1>0. TypeOK /\ Base
  BY DEF Told, Base, IInv
<1>1. CASE AcceptWave
  <2>1. /\ UNCHANGED <<inPlan, pending, failed, iterations, limit, res>>
        /\ pc = "wave" /\ pc' = "accept"
        /\ completed' = completed \cup Having({"kept"})
        /\ skipped' = skipped \cup Having({"skipped"})
    BY <1>1 DEF AcceptWave, WaveSettled, disk, plan, queue, wave, rounds
  <2>2. Wave' = Wave /\ Over' = Over \cup Having({"kept", "skipped"})
    BY <2>1 DEF Wave, Over, Having
  <2>3. Live' \subseteq Live /\ Rerun' = Rerun
    BY <2>1, <2>2 DEF Live, Rerun
  <2>4. Owed' \subseteq Owed /\ OwedMore' \subseteq OwedMore
    BY <2>3 DEF Owed, OwedMore
  <2>5. ASSUME Untouched
        PROVE  Untouched' \/ \E i \in Ids : i \in Owed /\ i \notin Owed'
    <3>1. CASE Having({"kept", "skipped"}) = {}
      BY <2>1, <2>2, <2>3, <2>5, <3>1 DEF Untouched
    <3>2. ASSUME NEW i \in Having({"kept", "skipped"})
          PROVE  i \in Ids /\ i \in Owed /\ i \notin Owed'
      <4>1. i \in Ids /\ res[i] \in {"kept", "skipped"} /\ i \in Over'
        BY <2>2, <3>2 DEF Having
      <4>2. i \in Owed /\ i \notin pending
        BY <1>0, <2>5, <4>1, WaveOwed
      <4> QED BY <2>1, <4>1, <4>2 DEF Owed, Live, Rerun, Undone
    <3> QED BY <3>1, <3>2
  <2> QED BY <1>0, <2>1, <2>2, <2>4, <2>5, BudgetKept DEF Told
<1>2. ASSUME NEW i \in Ids, MarkDone(i)
      PROVE  Budget'
  <2>1. /\ UNCHANGED <<inPlan, pending, skipped, failed, iterations, limit>>
        /\ pc = "accept" /\ pc' = "accept" /\ completed' = completed \cup {i}
        /\ res[i] = "saved" /\ res'[i] = "accepted"
        /\ \A j \in Ids : j # i => res'[j] = res[j]
    BY <1>0, <1>2 DEF MarkDone, plan, queue, rounds, TypeOK
  <2>2. Wave' = Wave /\ Over' = Over \cup {i}
    BY <2>1 DEF Wave, Over
  <2>3. Live' \subseteq Live /\ Rerun' \subseteq Rerun
    BY <1>0, <2>1, <2>2 DEF Live, Rerun, Undone, TypeOK
  <2>4. Owed' \subseteq Owed /\ OwedMore' \subseteq OwedMore
    BY <2>3 DEF Owed, OwedMore
  <2>5. ASSUME Untouched
        PROVE  i \in Owed /\ i \notin Owed'
    <3>1. i \in Owed /\ i \notin pending
      BY <1>0, <2>1, <2>5, WaveOwed
    <3> QED BY <2>1, <2>2, <3>1 DEF Owed, Live, Rerun, Undone
  <2> QED BY <1>0, <2>1, <2>2, <2>4, <2>5, BudgetKept DEF Told
<1>3. ASSUME NEW i \in Ids, SaveOutput(i) \/ RejectSuccess(i)
      PROVE  Budget'
  <2>1. /\ UNCHANGED <<inPlan, pending, completed, skipped, failed, iterations, limit>>
        /\ pc = "accept" /\ pc' = "accept"
        /\ res[i] = "success" /\ res'[i] \in {"saved", "rejected"}
        /\ \A j \in Ids : j # i => res'[j] = res[j]
    BY <1>0, <1>3 DEF SaveOutput, RejectSuccess, Accepting, disk, plan, queue, sets,
        rounds, TypeOK
  <2>2. Wave' = Wave /\ Over' = Over
    BY <2>1 DEF Wave, Over
  <2>3. Live' = Live /\ Rerun' = Rerun
    BY <1>0, <2>1, <2>2 DEF Live, Rerun, Undone, TypeOK
  <2>4. Owed' = Owed /\ OwedMore' = OwedMore
    BY <2>3 DEF Owed, OwedMore
  <2>5. \A j \in Wave : j \in Ids
    BY DEF Wave
  <2>6. Untouched => Untouched'
    BY <2>1, <2>2, <2>3, <2>5 DEF Untouched
  <2> QED BY <1>0, <2>1, <2>2, <2>4, <2>6, BudgetKept DEF Told
<1>4. CASE WaveAccepted
  <2>1. /\ UNCHANGED <<inPlan, pending, completed, skipped, failed, iterations, limit,
                       res>>
        /\ pc = "accept" /\ pc' = "settle"
    BY <1>4 DEF WaveAccepted, disk, plan, queue, wave, sets, rounds
  <2>2. Wave' = Wave /\ Over' = Over /\ Live' = Live /\ Rerun' = Rerun
    BY <2>1 DEF Wave, Over, Live, Rerun
  <2>3. Owed' = Owed /\ OwedMore' = OwedMore
    BY <2>2 DEF Owed, OwedMore
  <2>4. Untouched => Untouched'
    BY <2>1, <2>2 DEF Untouched
  <2> QED BY <1>0, <2>1, <2>2, <2>3, <2>4, BudgetKept DEF Told
<1> QED BY <1>1, <1>2, <1>3, <1>4 DEF Acceptance

\* Tasks that are done with for good.
LEMMA FailureBudget ==
  ASSUME Told, Budget, TypeOK', NEW i \in Ids, RejectTask(i) \/ GiveUp(i) \/ FailTask(i)
  PROVE  Budget'
<1>0. TypeOK /\ Base
  BY DEF Told, Base, IInv
<1>1. /\ UNCHANGED <<inPlan, completed, skipped, iterations, limit>>
      /\ pc = "settle" /\ pc' = "settle" /\ pending' \subseteq pending
      /\ \A j \in Ids : j # i => res'[j] = res[j]
      /\ \/ failed' = failed /\ res[i] = "failure" /\ res'[i] = "terminal" /\ pending' = pending
         \/ failed' = failed \cup {i} /\ res[i] = "rejected" /\ res'[i] = "settled"
              /\ pending' = pending
         \/ failed' = failed \cup {i} /\ res[i] = "terminal" /\ res'[i] = "settled"
              /\ pending' = pending \ {i}
  BY <1>0 DEF RejectTask, GiveUp, FailTask, NextFailure, disk, plan, queue, sets,
      rounds, TypeOK
<1>2. Wave' = Wave /\ Over \subseteq Over'
  BY <1>1 DEF Wave, Over
<1>3. Live' \subseteq Live /\ Rerun' \subseteq Rerun
  <2>1. ASSUME NEW j \in Live'
        PROVE  j \in Live
    <3>1. j \in Ids
      BY <2>1 DEF Live, TypeOK
    <3> QED BY <1>1, <1>2, <2>1, <3>1 DEF Live, Over
  <2>2. ASSUME NEW j \in Rerun'
        PROVE  j \in Rerun
    <3>1. j \in Ids
      BY <2>2 DEF Rerun, TypeOK
    <3> QED BY <1>1, <2>2, <3>1 DEF Rerun, Undone
  <2> QED BY <2>1, <2>2
<1>4. Owed' \subseteq Owed /\ OwedMore' \subseteq OwedMore
  BY <1>3 DEF Owed, OwedMore
<1>5. ASSUME Untouched
      PROVE  i \in Owed /\ i \notin Owed'
  <2>1. i \in Owed /\ i \notin pending /\ res[i] # "terminal"
    BY <1>0, <1>1, <1>5, WaveOwed
  <2> QED BY <1>1, <2>1 DEF Owed, Live, Rerun, Undone, Over
<1> QED BY <1>0, <1>1, <1>2, <1>4, <1>5, BudgetKept DEF Told

\* A task being recovered is owed two rounds while its first is not paid for, and one
\* also if an earlier success of it was rejected.
LEMMA RetryOwed ==
  ASSUME Told, NEW i \in Ids, res[i] = "retry"
  PROVE  /\ i \in Owed /\ ~IsFix(i)
         /\ Untouched => i \in OwedMore
<1>1. /\ ~IsFix(i) /\ i \notin done /\ Open(i) /\ i \in inPlan
      /\ Base
  BY DEF Told, Orphans, Base, IInv, Plan, UndoneNotDone, Placed, Undone, Reporting,
    ReportsInOrder
<1>2. i \notin completed
  BY <1>1 DEF Base, IInv, Plan, CompletedDone
<1>3. i \notin skipped
  <2>1. Reported(i) \subseteq {"rejected"}
    BY <1>1, OpenReports
  <2> QED BY <2>1 DEF Told, Spoken, SpokenOf
<1>4. i \in Owed
  BY <1>1, <1>2, <1>3 DEF Owed, Live, Rerun, Over, Undone
<1>5. Untouched => i \in OwedMore
  BY <1>1, WaveOwed DEF OwedMore
<1> QED BY <1>1, <1>4, <1>5

LEMMA RecoverBudget ==
  ASSUME Told, Budget, TypeOK', NEW i \in Ids, Recover(i)
  PROVE  Budget'
<1>0. TypeOK /\ Base /\ attempts \in [Tasks -> 0 .. MaxRecoveries + 1]
  BY DEF Told, Base, IInv, TypeOK
<1>1. PICK f \in Ids : f = NextFix(i) /\ IsFix(f)
  BY <1>0, NextFixFacts DEF Recover
<1>2. /\ f \notin inPlan /\ inPlan' = inPlan \cup {f}
      /\ res[i] = "failure" /\ res'[i] = "retry" /\ pc = "settle" /\ pc' = "persist"
      /\ \A j \in Ids : j # i => res'[j] = res[j]
      /\ UNCHANGED <<pending, completed, skipped, failed, iterations, limit>>
  BY <1>0, <1>1 DEF Recover, NextFailure, queue, sets, rounds, TypeOK
<1>3. Wave' = Wave /\ Over' = Over
  BY <1>2 DEF Wave, Over
<1>4. Live' \subseteq Live \cup {f} /\ Rerun' = Rerun
  <2>1. ASSUME NEW j \in Live'
        PROVE  j \in Live \cup {f}
    <3>1. j \in Ids
      BY <2>1 DEF Live, TypeOK
    <3> QED BY <1>2, <1>3, <2>1, <3>1 DEF Live
  <2>2. Rerun' = Rerun
    BY <1>0, <1>2 DEF Rerun, Undone, TypeOK
  <2> QED BY <2>1, <2>2
<1>5. Owed' \subseteq Owed \cup {f} /\ OwedMore' \subseteq OwedMore
  BY <1>1, <1>4 DEF Owed, OwedMore
<1>6. Load' <= Load + 1 /\ Load' \in Nat /\ Load \in Nat
  <2>1. /\ Owed \in SUBSET Ids /\ Owed' \in SUBSET Ids
        /\ OwedMore \in SUBSET Ids /\ OwedMore' \in SUBSET Ids
    BY <1>0, OwedType
  <2>2. /\ Cardinality(Owed') <= Cardinality(Owed) + 1
        /\ Cardinality(OwedMore') <= Cardinality(OwedMore)
        /\ Cardinality(Owed') \in Nat /\ Cardinality(Owed) \in Nat
        /\ Cardinality(OwedMore') \in Nat /\ Cardinality(OwedMore) \in Nat
    BY <1>1, <1>5, <2>1, CardFacts
  <2> QED BY <2>2 DEF Load
<1>7. iterations \in Nat /\ limit \in Nat /\ Cap = limit /\ Cap' = limit + 1
  BY <1>0, <1>2 DEF Cap, TypeOK
<1>8. Untouched => Untouched'
  <2>1. \A j \in Wave : j \in Ids
    BY DEF Wave
  <2> QED BY <1>2, <1>3, <1>4, <2>1 DEF Untouched
<1>9. /\ iterations + Load <= limit => iterations + Load' <= limit + 1
      /\ iterations + Load <= limit + 1 => iterations + Load' <= limit + 1 + 1
  BY <1>6, <1>7, Spend
<1>10. /\ Paid => Paid'
       /\ iterations + Load <= Cap + 1 => iterations' + Load' <= Cap' + 1
  BY <1>2, <1>7, <1>9 DEF Paid
<1> QED BY <1>2, <1>3, <1>8, <1>10 DEF Budget

LEMMA PersistFailsBudget ==
  ASSUME Told, Budget, TypeOK', PersistFails
  PROVE  Budget'
<1>0. TypeOK /\ Base
  BY DEF Told, Base, IInv
<1>1. /\ UNCHANGED <<inPlan, pending, completed, skipped, failed, iterations, limit>>
      /\ pc = "persist" /\ pc' = "settle"
      /\ \A j \in Ids : res'[j] = IF res[j] = "retry" THEN "terminal" ELSE res[j]
  BY DEF PersistFails, disk, plan, queue, sets, rounds
<1>2. PICK i \in Ids : res[i] = "retry"
  BY <1>1 DEF Budget
<1>3. Wave' = Wave /\ Over' = Over
  BY <1>1 DEF Wave, Over
<1>4. Live' \subseteq Live /\ Rerun' \subseteq Rerun
  BY <1>0, <1>1, <1>3 DEF Live, Rerun, Undone, TypeOK
<1>5. Owed' \subseteq Owed /\ OwedMore' \subseteq OwedMore
  BY <1>4 DEF Owed, OwedMore
<1>6. i \in Owed /\ i \notin Owed' /\ i \notin OwedMore'
  <2>1. i \in Owed
    BY <1>2, RetryOwed
  <2> QED BY <1>1, <1>2, <2>1 DEF Owed, OwedMore, Live, Rerun
<1>7. /\ iterations \in Nat /\ limit \in Nat /\ Load \in Nat /\ Load' \in Nat
      /\ Cap = limit + 1 /\ Cap' = limit /\ iterations' = iterations
  BY <1>0, <1>1, <1>5, LoadSame DEF Cap, TypeOK
<1>8. CASE Paid
  <2>1. Load' <= Load - 1
    BY <1>0, <1>5, <1>6, LoadLess
  <2>2. iterations + Load <= limit + 1
    BY <1>7, <1>8 DEF Paid
  <2>3. iterations + Load' <= limit
    BY <1>7, <2>1, <2>2, Spend
  <2>4. Paid'
    BY <1>7, <2>3 DEF Paid
  <2> QED BY <1>1, <1>3, <2>4 DEF Budget
<1>9. CASE ~Paid
  <2>1. Untouched /\ iterations + Load <= Cap + 1
    BY <1>1, <1>9 DEF Budget
  <2>2. i \in OwedMore
    BY <1>2, <2>1, RetryOwed
  <2>3. Load' <= Load - 2
    BY <1>0, <1>5, <1>6, <2>2, LoadLess
  <2>4. iterations + Load <= limit + 2
    BY <1>7, <2>1
  <2>5. iterations + Load' <= limit
    BY <1>7, <2>3, <2>4, Spend
  <2>6. Paid'
    BY <1>7, <2>5 DEF Paid
  <2> QED BY <1>1, <1>3, <2>6 DEF Budget
<1> QED BY <1>8, <1>9

LEMMA RequeueBudget ==
  ASSUME Told, Budget, TypeOK', Requeue
  PROVE  Budget'
<1>0. TypeOK
  BY DEF Told, Base, IInv
<1>1. /\ UNCHANGED <<inPlan, completed, skipped, failed, iterations>>
      /\ pending' = pending \cup Requeued /\ limit' = limit + 2
      /\ pc = "persist" /\ pc' = "settle"
      /\ \A j \in Ids : res'[j] = IF res[j] = "retry" THEN "settled" ELSE res[j]
  BY DEF Requeue, RecoveryLimit, plan, sets
<1>2. Wave' = Wave /\ Over' = Over /\ Requeued \cap Over = {}
  BY <1>1 DEF Wave, Over, Requeued
<1>3. Live' \subseteq Live /\ Rerun' \subseteq Rerun
  <2>1. ASSUME NEW j \in Live'
        PROVE  j \in Live
    <3>1. j \in Ids
      BY <2>1 DEF Live, TypeOK
    <3> QED BY <1>1, <1>2, <2>1, <3>1 DEF Live
  <2>2. Rerun' \subseteq Rerun
    BY <1>0, <1>1 DEF Rerun, Undone, TypeOK
  <2> QED BY <2>1, <2>2
<1>4. Owed' \subseteq Owed /\ OwedMore' \subseteq OwedMore
  BY <1>3 DEF Owed, OwedMore
<1>5. /\ Load' <= Load /\ Load \in Nat /\ Load' \in Nat /\ iterations \in Nat /\ limit \in Nat
      /\ Cap = limit + 1 /\ Cap' = limit + 2
  BY <1>0, <1>1, <1>4, LoadSame DEF Cap, TypeOK
<1>6. iterations + Load <= limit + 2
  BY <1>1, <1>5 DEF Budget, Paid
<1>7. iterations + Load' <= limit + 2
  BY <1>5, <1>6, Spend
<1>8. Paid'
  BY <1>1, <1>5, <1>7 DEF Paid
<1> QED BY <1>1, <1>2, <1>8 DEF Budget

\* A wave that has ended is paid for: one of its tasks is over or queued again.
LEMMA WaveEndsBudget ==
  ASSUME Told, Budget, TypeOK', WaveEnds
  PROVE  Budget'
<1>0. TypeOK /\ Base
  BY DEF Told, Base, IInv
<1>1. /\ UNCHANGED <<inPlan, pending, completed, skipped, failed, iterations, limit>>
      /\ pc = "settle" /\ pc' = "head"
      /\ \A j \in Ids : res[j] \notin {"retry", "terminal", "failure", "rejected"}
         /\ res'[j] = "none"
  BY DEF WaveEnds, NextFailure, Having, NoWave, plan, queue, sets, rounds
<1>2. Live' \subseteq Live /\ Rerun' = {}
  BY <1>0, <1>1 DEF Live, Rerun, Over, Undone, TypeOK
<1>3. Owed' \subseteq Owed /\ OwedMore' \subseteq OwedMore
  BY <1>2 DEF Owed, OwedMore
<1>4. /\ Load' <= Load /\ Load \in Nat /\ Load' \in Nat /\ iterations \in Nat /\ limit \in Nat
      /\ Cap = limit /\ Cap' = limit
  BY <1>0, <1>1, <1>3, LoadSame DEF Cap, TypeOK
<1>5. Paid
  <2>1. SUFFICES ASSUME Untouched, Wave # {}
                 PROVE  FALSE
    BY <1>1 DEF Budget
  <2>2. PICK i \in Ids : res[i] # "none"
    BY <2>1 DEF Wave
  <2>3. res[i] \in {"kept", "skipped", "accepted"}
    <3>1. res[i] # "settled"
      BY <2>1, <2>2 DEF Untouched, Wave
    <3> QED BY <1>0, <1>1, <2>2, <3>1 DEF Base, IInv, Phase
  <2>4. i \in Over
    BY <1>0, <1>1, <2>3 DEF Base, Reporting, ReportsInOrder
  <2>5. i \in Rerun
    BY <1>0, <2>1, <2>2, <2>4, WaveOwed
  <2> QED BY <2>3, <2>5 DEF Rerun, Undone
<1>6. iterations + Load <= limit
  BY <1>4, <1>5 DEF Paid
<1>7. iterations + Load' <= limit
  BY <1>4, <1>6, Spend
<1>8. Paid'
  BY <1>1, <1>4, <1>7 DEF Paid
<1> QED BY <1>1, <1>8 DEF Budget

LEMMA StartBudget ==
  ASSUME Told, TypeOK', Start
  PROVE  Budget'
<1>0. TypeOK
  BY DEF Told, Base, IInv
<1>1. /\ pc' = "head" /\ inPlan' = InitialPlan /\ iterations' = 0 /\ limit' = InitialLimit
      /\ failed' = {}
  BY DEF Start
<1>2. InitialPlan \in SUBSET Ids
  BY <1>0, IdFacts DEF InitialPlan, TypeOK
<1>3. /\ Owed' \subseteq InitialPlan /\ OwedMore' \subseteq InitialPlan
  BY <1>1 DEF Owed, OwedMore, Live, Rerun
<1>4. /\ Cardinality(Owed') <= Cardinality(InitialPlan)
      /\ Cardinality(OwedMore') <= Cardinality(InitialPlan)
      /\ Cardinality(Owed') \in Nat /\ Cardinality(OwedMore') \in Nat
      /\ Cardinality(InitialPlan) \in Nat
  <2>1. Owed' \in SUBSET Ids /\ OwedMore' \in SUBSET Ids
    BY OwedType
  <2> QED BY <1>2, <1>3, <2>1, CardFacts
<1>5. 2 * Cardinality(InitialPlan) <= InitialLimit /\ InitialLimit \in Nat
  BY <1>4, NumbersAssumption DEF InitialLimit
<1>6. Load' <= InitialLimit /\ Load' \in Nat
  BY <1>4, <1>5 DEF Load
<1>7. Cap' = InitialLimit /\ 0 + Load' <= InitialLimit
  <2>1. Cap' = InitialLimit
    BY <1>1 DEF Cap
  <2>2. \A n \in Nat : 0 + n = n
    OBVIOUS
  <2>3. 0 + Load' = Load'
    BY <1>6, <2>2
  <2> QED BY <1>6, <2>1, <2>3
<1>8. Paid'
  BY <1>1, <1>7 DEF Paid
<1> QED BY <1>1, <1>8 DEF Budget

\* A queued task that was over before is a rejected success.
LEMMA QueuedAgain ==
  ASSUME Told, pc = "head", NEW i \in Queue, i \in Over
  PROVE  i \in inPlan /\ i \in pending /\ i \notin New /\ i \in failed /\ i \notin completed
<1>0. TypeOK /\ Base
  BY DEF Told, Base, IInv
<1>1. /\ Queue = pending \cup New /\ New \cap inPlan = {} /\ i \in Ids
      /\ res[i] = "none"
  BY <1>0, NewFacts DEF Queue, Base, TypeOK
<1>2. SpokenOf(i)
  BY <1>1 DEF Told, Spoken
<1>3. outcomes[i] # <<>>
  <2>1. Reported(i) # {}
    BY <1>2 DEF SpokenOf, Over
  <2> QED BY <2>1 DEF Reported
<1>4. i \in inPlan /\ i \notin New /\ i \in pending
  BY <1>0, <1>1, <1>3 DEF Base, Reporting, ReportsInOrder
<1>5. Reported(i) \subseteq {"rejected"}
  BY <1>0, <1>4, OpenReports DEF Base, Reporting, ReportsInOrder
<1> QED BY <1>2, <1>4, <1>5 DEF SpokenOf, Over

\* A round takes new tasks into the budget, two rounds each.
LEMMA StartWaveBudget ==
  ASSUME Told, Budget, TypeOK', NEW W \in Waves, StartWave(W)
  PROVE  Budget'
<1>0. TypeOK /\ Base /\ inPlan \subseteq Ids
  BY DEF Told, Base, IInv, TypeOK
<1>1. Refresh /\ pc = "head"
  BY DEF StartWave, Refresh
<1>2. /\ New \in SUBSET Ids /\ New \cap inPlan = {} /\ Queue = pending \cup New
      /\ pending \subseteq inPlan /\ Queue \subseteq Ids
      /\ \A i \in Ids : res[i] = "none"
  BY <1>0, <1>1, NewFacts, RefreshFacts, RefreshType DEF Base
<1>3. /\ pending' = Queue \ W /\ pc' = "wave" /\ inPlan' = inPlan \cup New
      /\ iterations' = iterations + 1 /\ limit' = limit + 2 * Cardinality(New)
      /\ UNCHANGED <<completed, skipped, failed>>
      /\ \A i \in Ids : res'[i] = IF i \in W THEN FirstResult(i) ELSE "none"
  BY DEF StartWave, Refresh, sets
<1>4. W \subseteq Queue /\ W # {}
  BY DEF Waves, Ready
<1>5. /\ \A i \in W : res'[i] = IF i \in done THEN "kept" ELSE "running"
      /\ \A i \in Ids : i \notin W => res'[i] = "none"
      /\ Wave' = W /\ Over' = Over
  BY <1>2, <1>3, <1>4 DEF FirstResult, Wave, Over
<1>6. Live' \subseteq Live \cup New /\ Rerun' \subseteq Live \cup New
  <2>1. ASSUME NEW i \in Live'
        PROVE  i \in Live \cup New
    BY <1>0, <1>2, <1>3, <1>5, <2>1 DEF Live
  <2>2. ASSUME NEW i \in Rerun'
        PROVE  i \in Live \cup New
    <3>1. i \in Ids
      BY <1>0, <1>3, <2>2 DEF Rerun, TypeOK
    <3>2. i \in W
      BY <1>5, <2>2, <3>1 DEF Rerun, Undone
    <3> QED BY <1>2, <1>4, <3>1, <3>2 DEF Live
  <2> QED BY <2>1, <2>2
<1>7. Owed' \subseteq Owed \cup New /\ OwedMore' \subseteq OwedMore \cup New
  BY <1>2, <1>6 DEF Owed, OwedMore
<1>8. /\ Owed \in SUBSET Ids /\ Owed' \in SUBSET Ids
      /\ OwedMore \in SUBSET Ids /\ OwedMore' \in SUBSET Ids
  BY <1>0, OwedType
<1> DEFINE n == Cardinality(New)
<1>9. /\ n \in Nat /\ iterations \in Nat /\ limit \in Nat
      /\ Load \in Nat /\ Load' \in Nat
      /\ Cap = limit /\ Cap' = limit + 2 * n /\ iterations + Load <= limit
  <2>1. n \in Nat
    BY <1>2, CardFacts
  <2>2. Load \in Nat /\ Load' \in Nat
    BY <1>0, LoadTypes
  <2> QED BY <1>0, <1>1, <1>3, <2>1, <2>2 DEF Budget, Paid, Cap, TypeOK
<1>10. ASSUME NEW S \in SUBSET Ids, NEW T \in SUBSET Ids, S \subseteq T \cup New
       PROVE  Cardinality(S) <= Cardinality(T) + n /\ Cardinality(S) \in Nat /\ Cardinality(T) \in Nat
  <2>1. T \cup New \in SUBSET Ids
    BY <1>2
  <2>2. Cardinality(T \cup New) <= Cardinality(T) + n
    BY <1>2, CardFacts
  <2>3. Cardinality(S) <= Cardinality(T \cup New)
    BY <1>10, <2>1, CardFacts
  <2>4. Cardinality(S) \in Nat /\ Cardinality(T \cup New) \in Nat /\ Cardinality(T) \in Nat
    BY <2>1, CardFacts
  <2> QED BY <1>9, <2>2, <2>3, <2>4
<1> HIDE DEF n
<1>11. Load' <= Load + 2 * n
  <2>1. Cardinality(OwedMore') <= Cardinality(OwedMore) + n /\ Cardinality(OwedMore') \in Nat
          /\ Cardinality(OwedMore) \in Nat
    BY <1>7, <1>8, <1>10
  <2>2. Cardinality(Owed') <= Cardinality(Owed) + n /\ Cardinality(Owed') \in Nat
          /\ Cardinality(Owed) \in Nat
    BY <1>7, <1>8, <1>10
  <2> QED BY <1>9, <2>1, <2>2 DEF Load
<1>12. CASE \A i \in W : i \in Over => IsFix(i)
  <2>1. ASSUME NEW i \in W, i \in Over
        PROVE  i \in Rerun'
    <3>1. i \in failed /\ i \notin completed
      BY <1>0, <1>1, <1>2, <1>4, <2>1, QueuedAgain
    <3>2. i \notin done
      BY <3>1 DEF Told, DoneParts, MarkedOver
    <3> QED BY <1>3, <1>5, <3>1, <3>2 DEF Rerun, Undone
  <2>2. \A i \in W : res'[i] \notin {"settled", "terminal"} /\ i \notin pending'
    BY <1>3, <1>5
  <2>3. Untouched'
    BY <1>5, <1>12, <2>1, <2>2 DEF Untouched
  <2>4. iterations' + Load' <= Cap' + 1
    <3>1. iterations + 1 + Load' <= limit + 2 * n + 1
      BY <1>9, <1>11, SpendMore
    <3> QED BY <1>3, <1>9, <3>1
  <2> QED BY <1>3, <1>4, <1>5, <2>3, <2>4 DEF Budget
<1>13. ASSUME NEW i \in W, i \in Over, ~IsFix(i)
       PROVE  Budget'
  <2>1. i \in inPlan /\ i \in pending /\ i \notin New
    BY <1>0, <1>1, <1>2, <1>4, <1>13, QueuedAgain
  <2>2. i \in OwedMore /\ i \notin OwedMore'
    BY <1>0, <1>2, <1>3, <1>5, <1>13, <2>1 DEF OwedMore, Live
  <2>3. Cardinality(OwedMore') <= Cardinality(OwedMore) + n - 1
    <3>1. OwedMore \ {i} \in SUBSET Ids /\ OwedMore' \subseteq (OwedMore \ {i}) \cup New
      BY <1>7, <1>8, <2>2
    <3>2. /\ Cardinality(OwedMore') <= Cardinality(OwedMore \ {i}) + n
          /\ Cardinality(OwedMore') \in Nat /\ Cardinality(OwedMore \ {i}) \in Nat
      BY <1>8, <1>10, <3>1
    <3>3. Cardinality(OwedMore \ {i}) <= Cardinality(OwedMore) - 1 /\ Cardinality(OwedMore) \in Nat
      BY <1>8, <2>2, <3>1, CardFacts
    <3> QED BY <1>9, <3>2, <3>3
  <2>4. Load' <= Load + 2 * n - 1
    <3>1. Cardinality(Owed') <= Cardinality(Owed) + n /\ Cardinality(Owed') \in Nat
            /\ Cardinality(Owed) \in Nat
      BY <1>7, <1>8, <1>10
    <3>2. Cardinality(OwedMore') \in Nat /\ Cardinality(OwedMore) \in Nat
      BY <1>8, CardFacts
    <3> QED BY <1>9, <2>3, <3>1, <3>2 DEF Load
  <2>5. iterations' + Load' <= Cap'
    <3>1. iterations + 1 + Load' <= limit + 2 * n
      BY <1>9, <2>4, SpendMore
    <3> QED BY <1>3, <1>9, <3>1
  <2>6. Paid'
    BY <2>5 DEF Paid
  <2> QED BY <1>3, <1>4, <1>5, <2>6 DEF Budget
<1> QED BY <1>12, <1>13

LEMMA StepBudget ==
  ASSUME Told, Budget, [Next]_vars
  PROVE  Budget'
<1>0. TypeOK /\ TypeOK'
  BY StepType DEF Told, Base, IInv
<1>1. ASSUME NEW p \in {"down", "threw"}, EndsIn(p)
      PROVE  Budget'
  BY <1>1 DEF EndsIn, Budget
<1>2. CASE ReportUnmet \/ LoopEnds
  BY <1>2 DEF ReportUnmet, LoopEnds, Budget
<1>3. ASSUME UNCHANGED <<inPlan, pending, res, completed, skipped, failed, iterations,
                         limit, pc>>
      PROVE  Budget'
  <2>1. Wave' = Wave /\ Over' = Over /\ Live' = Live /\ Rerun' = Rerun
    BY <1>3 DEF Wave, Over, Live, Rerun
  <2>2. Load' = Load /\ Cap' = Cap
    BY <1>3, <2>1 DEF Load, Owed, OwedMore, Cap
  <2> QED BY <1>3, <2>1, <2>2 DEF Budget, Paid, Untouched
<1>4. ASSUME UNCHANGED vars \/ (\E t \in Tasks : AddTask(t)) \/ (\E i \in Ids : Persist(i))
      PROVE  Budget'
  BY <1>3, <1>4 DEF vars, AddTask, Persist, plan, queue, wave, sets, rounds
<1>5. CASE Start
  BY <1>0, <1>5, StartBudget
<1>6. ASSUME NEW W \in Waves, StartWave(W)
      PROVE  Budget'
  BY <1>0, <1>6, StartWaveBudget
<1>7. CASE TaskSettles
  BY <1>0, <1>7, SettleBudget DEF TaskSettles
<1>8. CASE Acceptance
  BY <1>0, <1>1, <1>8, AcceptanceBudget DEF WaveBlocked, AcceptFails
<1>9. CASE Recovery
  BY <1>0, <1>1, <1>4, <1>9, FailureBudget, RecoverBudget, PersistFailsBudget,
      RequeueBudget,
    WaveEndsBudget
  DEF Recovery, FailureTraceFails
<1> QED
  BY <1>1, <1>2, <1>4, <1>5, <1>6, <1>7, <1>8, <1>9 DEF Next, Crash, Round, RefreshFails

\* The rounds of the loop never outrun the limit while work is queued.
LEMMA BudgetInvariant == Spec => []Budget
<1>1. Init => Budget
  BY DEF Init, Budget
<1>2. Told /\ Budget /\ [Next]_vars => Budget'
  BY StepBudget
<1> QED BY <1>1, <1>2, ToldInvariant, PTL DEF Spec

-----------------------------------------------------------------------------
(* What the loop returns with                                               *)

\* The loop ends with an empty queue.
LEMMA NothingLeft ==
  ASSUME Told, Budget, LoopEnds
  PROVE  pending = {}
<1>0. TypeOK /\ Base
  BY DEF Told, Base, IInv
<1>1. pc = "head" /\ (pending # {} => ~(iterations < limit))
  BY DEF LoopEnds, Looping
<1>2. pending \subseteq Owed
  <2>1. pending \subseteq inPlan /\ pending \subseteq Ids /\ \A i \in Ids : res[i] = "none"
    BY <1>0, <1>1, NewFacts DEF Base, TypeOK
  <2> QED BY <2>1 DEF Owed, Live
<1>3. /\ Owed \in SUBSET Ids /\ iterations \in Nat /\ limit \in Nat
      /\ iterations + Load <= limit /\ Load \in Nat
  BY <1>0, <1>1, OwedType, LoadTypes DEF TypeOK, Budget, Paid, Cap
<1>4. SUFFICES ASSUME pending # {}
               PROVE  FALSE
  OBVIOUS
<1>5. limit <= iterations
  BY <1>1, <1>3, <1>4
<1>6. Load <= 0
  BY <1>3, <1>5
<1>7. Cardinality(Owed) = 0
  <2>1. OwedMore \in SUBSET Ids
    BY <1>0, OwedType
  <2>2. Cardinality(Owed) \in Nat /\ Cardinality(OwedMore) \in Nat
    BY <1>3, <2>1, CardFacts
  <2> QED BY <1>6, <2>2 DEF Load
<1> QED BY <1>2, <1>3, <1>4, <1>7, CardFacts

\* At the head of the loop a planned task is queued, over, or a fix task of a task
\* that was given up.
LEMMA Resolved ==
  ASSUME Told, pc = "head", NEW i \in inPlan, i \notin pending
  PROVE  /\ i \in Ids
         /\ \/ i \in Over
            \/ IsFix(i) /\ i \notin done /\ "failure" \in Reported(Task(Root(i)))
<1>1. Base /\ i \in Ids /\ \A j \in Ids : res[j] = "none"
  BY NewFacts DEF Told, Base, IInv, TypeOK
<1>2. Task(Root(i)) \in Ids
  BY <1>1, IdFacts
<1>3. CASE IsFix(i) /\ i \notin Over
  <2>1. OrphanOK(i)
    BY <1>1, <1>3 DEF Told, Orphans, Orphan, Wave
  <2> QED BY <1>1, <1>2, <1>3, <2>1 DEF OrphanOK
<1>4. CASE ~IsFix(i) /\ i \notin Over
  BY <1>1, <1>4 DEF Base, IInv, Plan, Placed, Undone, Over
<1> QED BY <1>1, <1>3, <1>4

\* Where the loop returns, what it planned is queued, and reported as unmet, or over.
LEMMA Returns ==
  ASSUME Told, Budget, ReportUnmet \/ LoopEnds, NEW i \in inPlan'
  PROVE  /\ i \in Ids /\ pc = "head" /\ done' = done
         /\ \A j \in Ids : Reported(j) \subseteq Reported(j)'
         /\ Reported(i)' \subseteq Reported(i) \cup {"unmet"}
         /\ \/ i \notin done /\ "unmet" \in Reported(i)'
            \/ i \in inPlan /\ i \notin pending
<1>0. TypeOK /\ Base
  BY DEF Told, Base, IInv
<1>1. CASE ReportUnmet
  <2>1. Refresh /\ pc = "head" /\ Ready = {} /\ done' = done
    BY <1>1 DEF ReportUnmet, Refresh, disk
  <2>2. /\ inPlan' = inPlan \cup New /\ Queue = pending \cup New /\ New \subseteq Ids
        /\ inPlan \subseteq Ids
    BY <1>0, <2>1, NewFacts, RefreshFacts DEF Base, TypeOK
  <2>3. \A j \in Ids : Reported(j)' = IF j \in Queue THEN Reported(j) \cup {"unmet"} ELSE Reported(j)
    BY <1>0, <1>1, UnmetReports
  <2>4. Queue \cap done = {}
    BY <2>1, NoDoneQueued DEF Told
  <2> QED BY <2>1, <2>2, <2>3, <2>4
<1>2. CASE LoopEnds
  <2>1. inPlan' = inPlan /\ done' = done /\ outcomes' = outcomes /\ pc = "head"
    BY <1>2 DEF LoopEnds, disk, plan
  <2>2. pending = {} /\ \A j \in Ids : Reported(j)' = Reported(j)
    BY <1>2, <2>1, NothingLeft, ReportKept
  <2> QED BY <1>0, <2>1, <2>2 DEF TypeOK
<1> QED BY <1>1, <1>2

LEMMA StepEveryTask ==
  ASSUME Told, Budget, EveryTaskReported, [Next]_vars
  PROVE  EveryTaskReported'
<1>1. CASE pc' # "finished"
  BY <1>1 DEF EveryTaskReported
<1>2. CASE pc = "finished" /\ pc' = "finished"
  <2>1. UNCHANGED <<inPlan, outcomes>>
    BY <1>2, StaysFinished
  <2> QED BY <1>2, <2>1 DEF EveryTaskReported, Reported
<1>3. ASSUME ReportUnmet \/ LoopEnds, NEW i \in inPlan'
      PROVE  \/ outcomes'[i] # <<>>
             \/ IsFix(i) /\ Reported(Task(Root(i)))' \cap Ended # {}
  <2>1. /\ i \in Ids /\ pc = "head" /\ \A j \in Ids : Reported(j) \subseteq Reported(j)'
        /\ \/ "unmet" \in Reported(i)'
           \/ i \in inPlan /\ i \notin pending
    BY <1>3, Returns
  <2>2. CASE "unmet" \in Reported(i)'
    BY <2>2 DEF Reported
  <2>3. CASE i \in Over
    <3>1. Reported(i) # {}
      BY <2>1, <2>3 DEF Told, Spoken, SpokenOf, Over
    <3>2. Reported(i)' # {}
      BY <2>1, <3>1
    <3> QED BY <3>2 DEF Reported
  <2>4. CASE IsFix(i) /\ "failure" \in Reported(Task(Root(i)))
    <3>1. Task(Root(i)) \in Ids
      BY <2>1, IdFacts
    <3> QED BY <2>1, <2>4, <3>1 DEF Ended
  <2> QED BY <2>1, <2>2, <2>3, <2>4, Resolved
<1> QED BY <1>1, <1>2, <1>3, Finishes DEF EveryTaskReported

LEMMA StepReportsMatch ==
  ASSUME Told, Budget, ReportsMatchCheckpoint, [Next]_vars
  PROVE  ReportsMatchCheckpoint'
<1>1. CASE pc' # "finished"
  BY <1>1 DEF ReportsMatchCheckpoint
<1>2. CASE pc = "finished" /\ pc' = "finished"
  <2>1. UNCHANGED <<inPlan, outcomes, done>>
    BY <1>2, StaysFinished
  <2> QED BY <1>2, <2>1 DEF ReportsMatchCheckpoint, Reported
<1>3. ASSUME ReportUnmet \/ LoopEnds, NEW i \in inPlan'
      PROVE  "success" \in Reported(i)' <=> i \in done'
  <2>1. /\ i \in Ids /\ pc = "head" /\ done' = done
        /\ Reported(i) \subseteq Reported(i)' /\ Reported(i)' \subseteq Reported(i) \cup {"unmet"}
        /\ i \in done => i \in inPlan /\ i \notin pending
    BY <1>3, Returns
  <2>2. "success" \in Reported(i) => i \in done
    BY <2>1 DEF Told, Spoken, SpokenOf
  <2>3. ASSUME i \in done
        PROVE  "success" \in Reported(i)
    <3>1. i \in Over
      BY <2>1, <2>3, Resolved
    <3>2. i \in completed
      BY <2>3, <3>1 DEF Over, Told, DoneParts, MarkedOver
    <3> QED BY <2>1, <3>2 DEF Told, Spoken, SpokenOf
  <2> QED BY <2>1, <2>2, <2>3
<1> QED BY <1>1, <1>2, <1>3, Finishes DEF ReportsMatchCheckpoint

\* When the loop returns, every planned task has been reported, but for the fix tasks
\* of a task that was given up: the iteration limit never cuts off queued work,
\* whatever is added, rejected, recovered or fails on the way.
THEOREM NoTaskForgotten == Spec => []EveryTaskReported
<1>1. Init => EveryTaskReported
  BY DEF Init, EveryTaskReported
<1>2. Told /\ Budget /\ EveryTaskReported /\ [Next]_vars => EveryTaskReported'
  BY StepEveryTask
<1> QED BY <1>1, <1>2, ToldInvariant, BudgetInvariant, PTL DEF Spec

\* When the loop returns, the tasks it reports as successes are those of its plan with
\* a marker in the checkpoint, whichever process completed them.
THEOREM ReportsAreTheMarkers == Spec => []ReportsMatchCheckpoint
<1>1. Init => ReportsMatchCheckpoint
  BY DEF Init, ReportsMatchCheckpoint
<1>2. Told /\ Budget /\ ReportsMatchCheckpoint /\ [Next]_vars => ReportsMatchCheckpoint'
  BY StepReportsMatch
<1> QED BY <1>1, <1>2, ToldInvariant, BudgetInvariant, PTL DEF Spec
-----------------------------------------------------------------------------
(* When every success can be traced                                         *)

\* Nothing has been rejected.
Traced == \A i \in Ids : res[i] # "rejected" /\ "rejected" \notin Reported(i)

LEMMA StepTraced ==
  ASSUME Base, Traced, ~TraceFaults, [Next]_vars
  PROVE  Traced'
<1>0. TypeOK
  BY DEF Base, IInv
<1>1. ASSUME UNCHANGED outcomes, \A i \in Ids : res'[i] # "rejected"
      PROVE  Traced'
  BY <1>1, ReportKept DEF Traced
<1>2. ASSUME NEW p \in {"down", "threw"}, EndsIn(p)
      PROVE  Traced'
  BY <1>2, NothingReported DEF EndsIn, NoWave, Traced
<1>3. CASE Start
  BY <1>3, NothingReported DEF Start, NoWave, Traced
<1>4. CASE ReportUnmet
  <2>1. res' = res
    BY <1>4 DEF ReportUnmet, wave
  <2> QED BY <1>0, <1>4, <2>1, UnmetReports DEF Traced
<1>5. CASE WaveAccepted
  <2>1. res' = res
    BY <1>5 DEF WaveAccepted, wave
  <2>2. ASSUME NEW i \in Ids
        PROVE  "rejected" \notin Reported(i)'
    BY <1>0, <1>5, <2>2, WaveReports DEF Traced
  <2> QED BY <2>1, <2>2 DEF Traced
<1>6. ASSUME NEW i \in Ids, FailTask(i)
      PROVE  Traced'
  <2>1. \A j \in Ids : res'[j] \in {res[j], "settled"}
    BY <1>0, <1>6 DEF FailTask, TypeOK
  <2>2. \A j \in Ids : Reported(j)' \subseteq Reported(j) \cup {"failure"}
    BY <1>0, <1>6, FailureReports
  <2> QED BY <2>1, <2>2 DEF Traced
<1>7. ASSUME NEW i \in Ids, RejectTask(i) \/ RejectSuccess(i)
      PROVE  FALSE
  BY <1>7 DEF RejectTask, RejectSuccess, Traced
<1>8. ASSUME NEW W \in Waves, StartWave(W)
      PROVE  Traced'
  BY <1>1, <1>8 DEF StartWave, FirstResult, Traced
<1>9. ASSUME NEW i \in Ids, NEW r \in Results, Settle(i, r)
      PROVE  Traced'
  BY <1>0, <1>1, <1>9 DEF Settle, TypeOK, Traced
<1>10. ASSUME NEW i \in Ids, SaveOutput(i) \/ MarkDone(i) \/ GiveUp(i) \/ Recover(i)
       PROVE  Traced'
  BY <1>0, <1>1, <1>10 DEF SaveOutput, MarkDone, GiveUp, Recover, TypeOK, Traced
<1>11. CASE PersistFails \/ Requeue \/ WaveEnds
  BY <1>1, <1>11 DEF PersistFails, Requeue, WaveEnds, NoWave, Traced
<1>12. ASSUME \/ UNCHANGED vars \/ LoopEnds \/ AcceptWave
              \/ \E t \in Tasks : AddTask(t)
              \/ \E i \in Ids : Persist(i)
       PROVE  Traced'
  BY <1>1, <1>12 DEF vars, LoopEnds, AcceptWave, AddTask, Persist, wave, Traced
<1> QED
  BY <1>2, <1>3, <1>4, <1>5, <1>6, <1>7, <1>8, <1>9, <1>10, <1>11, <1>12
  DEF Next, Crash, Round, RefreshFails, TaskSettles, Acceptance, WaveBlocked, AcceptFails,
    Recovery, FailureTraceFails

\* No task is ever reported twice, recovered peers or not, as long as no success
\* is refused for want of a trace: the second report of a task that could not be
\* accepted (runExecution's acceptance failures) is the only one there is.
THEOREM RejectionIsTheOnlyWay ==
  ASSUME ~TraceFaults
  PROVE  Spec => []OneOutcomePerTask
<1>1. Init => Traced
  BY DEF Init, NoWave, Traced, Reported
<1>2. ASSUME Base, Traced
      PROVE  OneOutcomePerTask
  <2>1. ASSUME NEW i \in Ids, Len(outcomes[i]) > 1
        PROVE  FALSE
    <3>1. Len(outcomes[i]) = 2 /\ outcomes[i][1] = "rejected"
      BY <1>2, <2>1 DEF Base, Reporting, SecondOutcomeOnlyAfterRejection
    <3>2. outcomes[i] \in Seq(Reports)
      BY <1>2 DEF Base, IInv, TypeOK
    <3>3. 1 \in DOMAIN outcomes[i]
      BY <3>1, <3>2
    <3>4. "rejected" \in Reported(i)
      BY <3>1, <3>3 DEF Reported
    <3> QED BY <1>2, <2>1, <3>4 DEF Traced
  <2>2. \A i \in Ids : Len(outcomes[i]) \in Nat
    BY <1>2 DEF Base, IInv, TypeOK
  <2> QED BY <2>1, <2>2 DEF OneOutcomePerTask
<1>3. Base /\ [Next]_vars => Base'
  BY BaseStep
<1>4. Base /\ Traced /\ [Next]_vars => Traced'
  BY StepTraced
<1>5. Base /\ Traced => OneOutcomePerTask
  BY <1>2
<1> QED BY <1>1, <1>3, <1>4, <1>5, InitBase, PTL DEF Spec
=============================================================================

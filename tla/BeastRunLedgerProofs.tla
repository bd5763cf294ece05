------------------------- MODULE BeastRunLedgerProofs -------------------------
(***************************************************************************)
(* The repository never forgets a worker, and the run lifecycle implements *)
(* the worker ledger.  The inductive invariant adds to the types what ties *)
(* attempt numbers to the attempt count of their run: a launch takes a     *)
(* number that nothing refers to yet.                                      *)
(***************************************************************************)
EXTENDS BeastRunProofs

-----------------------------------------------------------------------------
(* The invariant                                                           *)

\* The current attempt of a run is one of those made; a run that is not in the
\* repository has none.
Counted ==
  \A r \in Runs :
    /\ run[r].cur <= run[r].count
    /\ run[r].status = "absent" => run[r].count = 0

\* Attempts have rows as far as the count of their run, and processes exactly
\* if they have rows.
Numbered ==
  \A r \in Runs, n \in Numbers :
    /\ attempt[r][n] = "none" <=> run[r].count < n
    /\ attempt[r][n] = "none" <=> proc[r][n] = "none"

\* What a request remembers is about a run that exists and attempts that were
\* made: counts only grow.
Remembered ==
  \A h \in Handlers : pc[h] # "idle" =>
    /\ run[req[h].run].status # "absent"
    /\ req[h].prior.status # "absent"
    /\ req[h].prior.cur <= run[req[h].run].count
    /\ req[h].att <= run[req[h].run].count

\* A stop whose promise is gone has nothing left to kill.
UnpromisedStops ==
  \A h \in Handlers, r \in Runs, n \in Numbers :
    Stopping(h, r, n) /\ waiter[r][n] = NoHandler => proc[r][n] \notin Working

LInv ==
  /\ TInv
  /\ PromiseHolderWaits
  /\ Counted
  /\ Numbered
  /\ Remembered
  /\ UnpromisedStops
  /\ NoForgottenWorker

-----------------------------------------------------------------------------
(* What a step does to the rows of runs                                    *)

\* A run keeps its attempts; only its status and its current attempt change.
Kept(r) ==
  /\ run'[r].count = run[r].count
  /\ run'[r].cur <= run'[r].count
  /\ run'[r].status = "absent" => run[r].status = "absent"

RunsKept == \A r \in Runs : Kept(r)

LEMMA CountTypes ==
  ASSUME TInv, NEW r \in Runs
  PROVE  /\ run[r] \in RunRecord
         /\ run[r].cur \in 0..MaxAttempts /\ run[r].count \in 0..MaxAttempts
         /\ run[r].cur \in Nat /\ run[r].count \in Nat
         /\ run \in [Runs -> RunRecord]
  BY BoundsAssumption, TInvParts DEF StoreOK, RunRecord

LEMMA SameRuns == Counted /\ UNCHANGED run => RunsKept
  BY DEF Counted, RunsKept, Kept

LEMMA FinishKept ==
  ASSUME TInv, Counted, NEW r \in Runs, NEW status \in TerminalStatus,
         run' = [run EXCEPT ![r] = Finished(@, status)]
  PROVE  RunsKept
  <1>1. status # "absent"
    BY DEF TerminalStatus
  <1>2. Kept(r)
    BY <1>1, CountTypes, FinishedType DEF Kept, Counted
  <1>3. \A s \in Runs \ {r} : Kept(s)
    BY CountTypes DEF Kept, Counted
  <1> QED
    BY <1>2, <1>3 DEF RunsKept

LEMMA CreateKept ==
  ASSUME TInv, Counted, NEW h, NEW r \in Runs, ~Exists(r),
         NEW runs \in [Runs -> RunRecord], CreateRun(h, r, runs),
         \A s \in Runs \ {r} : /\ runs[s].count = run[s].count
                               /\ runs[s].cur = run[s].cur
                               /\ runs[s].status = "absent" => run[s].status = "absent"
  PROVE  RunsKept
  <1>1. run' = [runs EXCEPT ![r] = [AbsentRun EXCEPT !.status = "queued"]]
    BY DEF CreateRun
  <1>2. run[r].count = 0
    BY DEF Exists, Counted
  <1>3. Kept(r)
    BY <1>1, <1>2, AbsentRunType DEF Kept
  <1>4. \A s \in Runs \ {r} : Kept(s)
    BY <1>1 DEF Kept, Counted
  <1> QED
    BY <1>3, <1>4 DEF RunsKept

LEMMA OperatorKeepsRuns ==
  ASSUME TInv, Counted, NEW h \in Handlers, Operator(h)
  PROVE  RunsKept
  <1>0. {"stopped", "killed"} \subseteq TerminalStatus /\ run \in [Runs -> RunRecord]
    BY TInvParts DEF TerminalStatus, StoreOK
  <1>1. ASSUME UNCHANGED run PROVE RunsKept
    BY <1>1, SameRuns
  <1>2. ASSUME NEW r \in Runs, RequestStart(h, r) PROVE RunsKept
    BY <1>1, <1>2 DEF RequestStart, store
  <1>3. ASSUME NEW r \in Runs, RequestStop(h, r) PROVE RunsKept
    BY <1>1, <1>3 DEF RequestStop, store
  <1>4. ASSUME NEW r \in Runs, StopUnstarted(h, r) PROVE RunsKept
    BY <1>0, <1>4, FinishKept DEF StopUnstarted
  <1>5. ASSUME NEW r \in Runs, RequestKill(h, r) PROVE RunsKept
    BY <1>0, <1>5, FinishKept DEF RequestKill
  <1>6. ASSUME NEW r \in Runs, RequestRestart(h, r) PROVE RunsKept
    BY <1>0, <1>1, <1>6, FinishKept DEF RequestRestart, store
  <1>7. ASSUME NEW r \in Runs, RequestDispatch(h, r) PROVE RunsKept
    BY <1>0, <1>7, CreateKept DEF RequestDispatch
  <1>8. ASSUME StopUnlinkedAgent(h) PROVE RunsKept
    BY <1>1, <1>8 DEF StopUnlinkedAgent, store
  <1>9. ASSUME RequestReplace(h) PROVE RunsKept
    <2> DEFINE r == agent.run
               runs == [run EXCEPT ![r] = Finished(@, "stopped")]
    <2>1. ASSUME NEW fresh \in Runs, ~Exists(fresh), CreateRun(h, fresh, runs)
          PROVE  RunsKept
      <3>1. r \in Runs
        BY <1>9 DEF RequestReplace, Attempted
      <3>2. runs \in [Runs -> RunRecord]
        BY <1>0, <3>1, TInvParts, FinishRunType
      <3>3. \A s \in Runs : /\ runs[s].count = run[s].count
                            /\ runs[s].cur = run[s].cur
                            /\ runs[s].status = "absent" => run[s].status = "absent"
        BY <1>0, <3>1, CountTypes, FinishedType
      <3> HIDE DEF runs
      <3> QED
        BY <2>1, <3>2, <3>3, CreateKept
    <2> QED
      BY <1>1, <1>9, <2>1 DEF RequestReplace, store
  <1>10. ASSUME RequestReject(h) PROVE RunsKept
    BY <1>0, <1>1, <1>10, FinishKept DEF RequestReject, store
  <1> QED
    BY <1>2, <1>3, <1>4, <1>5, <1>6, <1>7, <1>8, <1>9, <1>10 DEF Operator

LEMMA ContinueKeepsRuns ==
  ASSUME TInv, Counted, Remembered, NEW h \in Handlers, Continue(h), ~LaunchWorker(h)
  PROVE  RunsKept
  <1> DEFINE r == req[h].run
  <1>0. {"stopped", "failed", "killed"} \subseteq TerminalStatus /\ run \in [Runs -> RunRecord]
    BY TInvParts DEF TerminalStatus, StoreOK
  <1>1. ASSUME UNCHANGED run PROVE RunsKept
    BY <1>1, SameRuns
  <1>2. ASSUME pc[h] # "idle" PROVE r \in Runs /\ req[h].prior \in RunRecord
    BY <1>2, BusyType
  <1>3. CASE SpawnFailureLogged(h)
    BY <1>0, <1>2, <1>3, FinishKept DEF SpawnFailureLogged
  <1>4. CASE DispatchLogged(h)
    BY <1>0, <1>1, <1>2, <1>4, FinishKept DEF DispatchLogged
  <1>5. CASE UndoRejectedStart(h)
    BY <1>0, <1>1, <1>2, <1>5, FinishKept DEF UndoRejectedStart
  <1>6. CASE DispatchThrew(h)
    BY <1>0, <1>1, <1>2, <1>6, FinishKept DEF DispatchThrew
  <1>7. CASE StartThrew(h)
    <2>0. pc[h] # "idle" /\ r \in Runs /\ req[h].prior \in RunRecord
      BY <1>2, <1>7 DEF StartThrew
    <2>1. CASE run' = [run EXCEPT ![r] = [@ EXCEPT !.status = req[h].prior.status,
                         !.cur = req[h].prior.cur, !.fin = req[h].prior.fin]]
      <3>1. /\ run'[r].count = run[r].count
            /\ run'[r].cur = req[h].prior.cur
            /\ run'[r].status = req[h].prior.status
        BY <1>0, <2>0, <2>1 DEF RunRecord
      <3>2. Kept(r)
        BY <2>0, <3>1 DEF Kept, Remembered
      <3>3. \A s \in Runs \ {r} : Kept(s)
        BY <1>0, <2>1 DEF Kept, Counted
      <3> QED
        BY <3>2, <3>3 DEF RunsKept
    <2>2. CASE run' = [run EXCEPT ![r] = [Finished(@, "failed") EXCEPT !.cur = None]]
      <3>1. /\ run'[r].count = run[r].count
            /\ run'[r].cur = 0
            /\ run'[r].status = "failed"
        BY <1>0, <2>0, <2>2, FinishedType DEF RunRecord, None
      <3>2. Kept(r)
        BY <2>0, <3>1, CountTypes DEF Kept
      <3>3. \A s \in Runs \ {r} : Kept(s)
        BY <1>0, <2>2 DEF Kept, Counted
      <3> QED
        BY <3>2, <3>3 DEF RunsKept
    <2> QED
      BY <1>1, <1>7, <2>1, <2>2 DEF StartThrew
  <1>8. CASE StartFailureLogged(h)
    <2>0. r \in Runs /\ run' = [run EXCEPT ![r].cur = None]
      BY <1>2, <1>8 DEF StartFailureLogged
    <2>1. run'[r].count = run[r].count /\ run'[r].cur = 0 /\ run'[r].status = run[r].status
      BY <1>0, <2>0 DEF RunRecord, None
    <2>2. Kept(r)
      BY <2>0, <2>1, CountTypes DEF Kept, Counted
    <2>3. \A s \in Runs \ {r} : Kept(s)
      BY <1>0, <2>0 DEF Kept, Counted
    <2> QED
      BY <2>2, <2>3 DEF RunsKept
  <1>9. CASE StopReturned(h)
    <2>1. ASSUME NEW fresh \in Runs, ~Exists(fresh), CreateRun(h, fresh, run)
          PROVE  RunsKept
      BY <1>0, <2>1, CreateKept
    <2> QED
      BY <1>1, <1>9, <2>1 DEF StopReturned
  <1> QED
    BY <1>1, <1>3, <1>4, <1>5, <1>6, <1>7, <1>8, <1>9
    DEF Continue, LaunchCancelled, LaunchFails, PrepareFailureLogged, StartLogged,
        StartReturned, store

LEMMA RestartKeepsRuns ==
  ASSUME TInv, Counted, Restart
  PROVE  RunsKept
  <1> SUFFICES ASSUME NEW r \in Runs PROVE Kept(r)
    BY DEF RunsKept
  <1>1. run' = [s \in Runs |-> [run[s] EXCEPT !.status = ReconciledStatus(s)]]
    BY DEF Restart
  <1>2. /\ run'[r].status = ReconciledStatus(r)
        /\ run'[r].cur = run[r].cur
        /\ run'[r].count = run[r].count
    BY <1>1, CountTypes DEF RunRecord
  <1>3. ReconciledStatus(r) = "absent" => run[r].status = "absent"
    BY DEF ReconciledStatus, TerminalStatus
  <1> QED
    BY <1>2, <1>3 DEF Kept, Counted

-----------------------------------------------------------------------------
(* What a step does to what requests remember                              *)

\* What request h remembers after a step is about attempts that were made.
Remembers(h) ==
  pc'[h] # "idle" =>
    /\ run'[req'[h].run].status # "absent"
    /\ req'[h].prior.status # "absent"
    /\ req'[h].prior.cur <= run'[req'[h].run].count
    /\ req'[h].att <= run'[req'[h].run].count

LEMMA EnterRemembers ==
  ASSUME TInv, NEW h \in Handlers, NEW label, NEW op, NEW r \in Runs, NEW n, NEW rec,
         pc' = [pc EXCEPT ![h] = label],
         req' = [req EXCEPT ![h] = [op |-> op, run |-> r, att |-> n, prior |-> rec]],
         run'[r].status # "absent",
         rec.status # "absent", rec.cur <= run'[r].count, n <= run'[r].count
  PROVE  Remembers(h)
  BY TInvParts DEF ControlOK, Remembers

LEMMA StayRemembers ==
  ASSUME TInv, RunsKept, Remembered, NEW h \in Handlers,
         \/ Done(h)
         \/ \E label : pc[h] # "idle" /\ Goto(h, label)
         \/ pc[h] = "idle" /\ UNCHANGED control
  PROVE  Remembers(h)
  <1>1. CASE Done(h)
    BY <1>1, TInvParts DEF Done, Remembers, ControlOK
  <1>2. CASE pc[h] = "idle" /\ UNCHANGED control
    BY <1>2 DEF control, Remembers
  <1>3. ASSUME NEW label, pc[h] # "idle", Goto(h, label) PROVE Remembers(h)
    BY <1>3, BusyType DEF Goto, Remembers, Remembered, RunsKept, Kept
  <1> QED
    BY <1>1, <1>2, <1>3

LEMMA BeginStopRemembers ==
  ASSUME TInv, RunsKept, Counted, Remembered, NEW h \in Handlers, NEW r \in Runs, NEW op,
         op \in {"start", "dispatch"} => pc[h] # "idle",
         run[r].cur # None, BeginStop(h, r, op)
  PROVE  Remembers(h)
  <1> DEFINE n == run[r].cur
  <1>1. /\ run[r].status # "absent" /\ n <= run[r].count
        /\ run'[r].count = run[r].count /\ run'[r].status # "absent"
    BY CountTypes DEF Counted, RunsKept, Kept, None
  <1>2. CASE /\ pc' = [pc EXCEPT ![h] = "stopWait"]
             /\ req' = [req EXCEPT ![h] = [op |-> op, run |-> r, att |-> n, prior |-> run[r]]]
    BY <1>1, <1>2, EnterRemembers
  <1>3. CASE Refused(h, op)
    BY <1>3, StayRemembers DEF Refused
  <1> QED
    BY <1>2, <1>3 DEF BeginStop

LEMMA BeginStartRemembers ==
  ASSUME TInv, RunsKept, Counted, NEW h \in Handlers, NEW r \in Runs, NEW rec, NEW ag,
         run[r].status # "absent",
         rec.status # "absent", rec.cur = run[r].cur, BeginStart(h, r, rec, ag)
  PROVE  Remembers(h)
  <1>1. run[r].cur <= run'[r].count /\ None <= run'[r].count /\ run'[r].status # "absent"
    BY CountTypes DEF Counted, RunsKept, Kept, None
  <1>2. /\ pc' = [pc EXCEPT ![h] = "launch"]
        /\ req' = [req EXCEPT ![h] = [op |-> "start", run |-> r, att |-> None, prior |-> rec]]
    BY DEF BeginStart
  <1> QED
    BY <1>1, <1>2, EnterRemembers

LEMMA CreateRemembers ==
  ASSUME TInv, RunsKept, Remembered, NEW h \in Handlers, NEW r \in Runs,
         NEW runs \in [Runs -> RunRecord], CreateRun(h, r, runs)
  PROVE  Remembers(h)
  <1> DEFINE queued == [AbsentRun EXCEPT !.status = "queued"]
  <1>1. /\ queued.status # "absent" /\ run'[r].status # "absent"
        /\ queued.cur <= run'[r].count /\ None <= run'[r].count
    BY AbsentRunType, CountTypes DEF RunsKept, Kept, None, CreateRun
  <1>2. CASE Done(h)
    BY <1>2, StayRemembers
  <1>3. CASE /\ pc' = [pc EXCEPT ![h] = "dispLog"]
             /\ req' = [req EXCEPT ![h] = [op |-> "dispatch", run |-> r, att |-> None,
                                           prior |-> queued]]
    <2> HIDE DEF queued
    <2> QED
      BY <1>1, <1>3, EnterRemembers
  <1> QED
    BY <1>2, <1>3 DEF CreateRun

LEMMA OperatorRemembers ==
  ASSUME TInv, Counted, Remembered, NEW h \in Handlers, Operator(h)
  PROVE  Remembers(h)
  <1>0. RunsKept
    BY OperatorKeepsRuns
  <1>1. ASSUME Accept(h) PROVE pc[h] = "idle"
    BY <1>1 DEF Accept
  <1>2. ASSUME NEW r \in Runs, RequestStart(h, r) PROVE Remembers(h)
    BY <1>0, <1>2, BeginStartRemembers DEF RequestStart, Exists
  <1>3. ASSUME NEW r \in Runs, RequestStop(h, r) PROVE Remembers(h)
    BY <1>0, <1>3, BeginStopRemembers DEF RequestStop
  <1>4. ASSUME NEW r \in Runs, StopUnstarted(h, r) PROVE Remembers(h)
    BY <1>0, <1>1, <1>4, StayRemembers DEF StopUnstarted
  <1>5. ASSUME NEW r \in Runs, RequestKill(h, r) PROVE Remembers(h)
    BY <1>0, <1>1, <1>5, StayRemembers DEF RequestKill
  <1>6. ASSUME NEW r \in Runs, RequestRestart(h, r) PROVE Remembers(h)
    <2>1. /\ Finished(run[r], "stopped").status # "absent"
          /\ Finished(run[r], "stopped").cur = run[r].cur
      BY CountTypes, FinishedType DEF TerminalStatus
    <2> QED
      BY <1>0, <1>6, <2>1, BeginStopRemembers, BeginStartRemembers DEF RequestRestart, Exists
  <1>7. ASSUME NEW r \in Runs, RequestDispatch(h, r) PROVE Remembers(h)
    <2>1. run \in [Runs -> RunRecord]
      BY TInvParts DEF StoreOK
    <2> QED
      BY <1>0, <1>7, <2>1, CreateRemembers DEF RequestDispatch
  <1>8. ASSUME StopUnlinkedAgent(h) PROVE Remembers(h)
    BY <1>0, <1>1, <1>8, StayRemembers DEF StopUnlinkedAgent
  <1>9. ASSUME RequestReplace(h) PROVE Remembers(h)
    <2>1. /\ agent.run \in Runs
          /\ [run EXCEPT ![agent.run] = Finished(@, "stopped")] \in [Runs -> RunRecord]
      BY <1>9, TInvParts, FinishRunType DEF RequestReplace, Attempted, TerminalStatus
    <2> QED
      BY <1>0, <1>9, <2>1, BeginStopRemembers, CreateRemembers DEF RequestReplace
  <1>10. ASSUME RequestReject(h) PROVE Remembers(h)
    BY <1>0, <1>1, <1>10, BeginStopRemembers, StayRemembers DEF RequestReject
  <1> QED
    BY <1>2, <1>3, <1>4, <1>5, <1>6, <1>7, <1>8, <1>9, <1>10 DEF Operator

LEMMA ContinueRemembers ==
  ASSUME TInv, Counted, Remembered, NEW h \in Handlers, Continue(h), ~LaunchWorker(h)
  PROVE  Remembers(h)
  <1> DEFINE r == req[h].run
  <1>0. RunsKept
    BY ContinueKeepsRuns
  <1>1. pc[h] # "idle" /\ r \in Runs /\ req[h].op \in Operations
    <2>1. pc[h] # "idle"
      BY DEF Continue, LaunchWorker, LaunchCancelled, LaunchFails, PrepareFailureLogged,
             SpawnFailureLogged, StartLogged, DispatchLogged, UndoRejectedStart, StartReturned,
             DispatchThrew, StartThrew, StartFailureLogged, StopReturned
    <2> QED
      BY <2>1, BusyType
  <1>2. CASE Done(h)
    BY <1>0, <1>2, StayRemembers
  <1>3. ASSUME NEW label, Goto(h, label) PROVE Remembers(h)
    BY <1>0, <1>1, <1>3, StayRemembers
  <1>4. CASE UndoRejectedStart(h)
    BY <1>0, <1>1, <1>2, <1>4, BeginStopRemembers DEF UndoRejectedStart
  <1>5. CASE StopReturned(h)
    <2>1. CASE BeginStart(h, r, run[r], Synced(agent, r, run[r].status)) /\ UNCHANGED run
      BY <1>0, <1>1, <2>1, BeginStartRemembers DEF Remembered
    <2>2. run \in [Runs -> RunRecord]
      BY TInvParts DEF StoreOK
    <2> QED
      BY <1>0, <1>2, <1>5, <2>1, <2>2, CreateRemembers DEF StopReturned
  <1> QED
    BY <1>2, <1>3, <1>4, <1>5
    DEF Continue, LaunchCancelled, LaunchFails, PreparationFails, SpawnFails,
        AttemptNotStored, PrepareFailureLogged, SpawnFailureLogged,
        StartLogged, DispatchLogged, StartReturned, DispatchThrew, StartThrew,
        StartFailureLogged

-----------------------------------------------------------------------------
(* What a step does to attempts and their workers                          *)

Same(r, n) == attempt'[r][n] = attempt[r][n] /\ proc'[r][n] = proc[r][n]

\* An attempt that was made goes on: its row may be closed, if its worker is
\* gone or condemned, and its worker may come closer to its end.
Change(r, n) ==
  /\ attempt[r][n] # "none"
  /\ attempt'[r][n] \in {attempt[r][n]} \cup TerminalStatus
  /\ attempt'[r][n] \in TerminalStatus => proc'[r][n] \notin Working
  /\ \/ proc'[r][n] = proc[r][n]
     \/ proc[r][n] \in Working /\ proc'[r][n] \in {"term", "killed", "dead"}
     \/ proc[r][n] = "killed" /\ proc'[r][n] = "dead"

ChangeOnly(r, n) ==
  /\ Change(r, n)
  /\ \A s \in Runs, m \in Numbers : s # r \/ m # n => Same(s, m)

AllSame == \A r \in Runs, n \in Numbers : Same(r, n)

OneChange == AllSame \/ \E r \in Runs, n \in Numbers : ChangeOnly(r, n)

LEMMA SlotTypes ==
  ASSUME TInv, NEW r \in Runs, NEW n \in Numbers
  PROVE  /\ attempt[r][n] \in AttemptStatus
         /\ proc[r][n] \in ProcStatus
         /\ waiter[r][n] \in Handlers \cup {NoHandler}
         /\ attempt \in [Runs -> [Numbers -> AttemptStatus]]
         /\ proc \in [Runs -> [Numbers -> ProcStatus]]
         /\ waiter \in [Runs -> [Numbers -> Handlers \cup {NoHandler}]]
  BY DEF TInv, TypeOK

LEMMA SameSlots == UNCHANGED <<attempt, proc>> => OneChange
  BY DEF OneChange, AllSame, Same

\* The current attempt of a run was made.
LEMMA CurrentAttempt ==
  ASSUME LInv, NEW r \in Runs, run[r].cur # None
  PROVE  run[r].cur \in Numbers /\ attempt[r][run[r].cur] # "none"
  <1>1. run[r].cur \in Numbers /\ run[r].count \in Nat
    BY CountTypes, BoundsAssumption DEF LInv, Numbers, None
  <1>2. ~(run[r].count < run[r].cur)
    BY <1>1, CountTypes DEF LInv, Counted
  <1> QED
    BY <1>1, <1>2 DEF LInv, Numbered

LEMMA BeginStopChanges ==
  ASSUME LInv, NEW h \in Handlers, NEW r \in Runs, NEW op, run[r].cur # None,
         BeginStop(h, r, op), UNCHANGED attempt
  PROVE  OneChange
  <1> DEFINE n == run[r].cur
  <1>1. n \in Numbers /\ attempt[r][n] # "none"
    BY CurrentAttempt
  <1>2. TInv
    BY DEF LInv
  <1>3. CASE proc' = [proc EXCEPT ![r][n] = Terminated(@)]
    <2>1. proc'[r][n] = Terminated(proc[r][n])
      BY <1>1, <1>2, <1>3, SlotTypes
    <2>2. Change(r, n)
      BY <1>1, <2>1 DEF Change, Terminated, Working, LInv, NoForgottenWorker
    <2>3. \A s \in Runs, m \in Numbers : s # r \/ m # n => Same(s, m)
      BY <1>1, <1>2, <1>3, SlotTypes DEF Same
    <2> QED
      BY <1>1, <2>2, <2>3 DEF OneChange, ChangeOnly
  <1>4. CASE UNCHANGED workers
    BY <1>4, SameSlots DEF workers
  <1> QED
    BY <1>3, <1>4 DEF BeginStop

\* A row is closed together with the end of its worker.
LEMMA CloseChanges ==
  ASSUME LInv, NEW r \in Runs, NEW n \in Numbers, attempt[r][n] # "none",
         NEW status \in TerminalStatus, attempt' = [attempt EXCEPT ![r][n] = status],
         \/ proc' = [proc EXCEPT ![r][n] = Killed(@)]
         \/ proc[r][n] # "none" /\ proc' = [proc EXCEPT ![r][n] = "dead"]
         \/ proc[r][n] \notin Working /\ UNCHANGED proc
  PROVE  ChangeOnly(r, n)
  <1>1. TInv
    BY DEF LInv
  <1>2. /\ attempt'[r][n] = status
        /\ \/ proc'[r][n] = Killed(proc[r][n])
           \/ proc[r][n] # "none" /\ proc'[r][n] = "dead"
           \/ proc[r][n] \notin Working /\ proc'[r][n] = proc[r][n]
    BY <1>1, SlotTypes
  <1>3. Change(r, n)
    BY <1>1, <1>2, SlotTypes DEF Change, Killed, Working, ProcStatus
  <1>4. \A s \in Runs, m \in Numbers : s # r \/ m # n => Same(s, m)
    BY <1>1, SlotTypes DEF Same
  <1> QED
    BY <1>3, <1>4 DEF ChangeOnly

LEMMA OperatorChanges ==
  ASSUME LInv, NEW h \in Handlers, Operator(h)
  PROVE  OneChange
  <1>1. ASSUME NEW r \in Runs, RequestStart(h, r) PROVE OneChange
    BY <1>1, SameSlots DEF RequestStart, store, workers
  <1>2. ASSUME NEW r \in Runs, RequestStop(h, r) PROVE OneChange
    BY <1>2, BeginStopChanges DEF RequestStop, store
  <1>3. ASSUME NEW r \in Runs, StopUnstarted(h, r) PROVE OneChange
    BY <1>3, SameSlots DEF StopUnstarted, workers
  <1>4. ASSUME NEW r \in Runs, RequestKill(h, r) PROVE OneChange
    <2> DEFINE n == run[r].cur
    <2>1. n \in Numbers /\ attempt[r][n] # "none"
      BY <1>4, CurrentAttempt DEF RequestKill
    <2>2. /\ attempt' = [attempt EXCEPT ![r][n] = "killed"]
          /\ proc' = [proc EXCEPT ![r][n] = Killed(@)]
      BY <1>4 DEF RequestKill
    <2> QED
      BY <2>1, <2>2, CloseChanges DEF TerminalStatus, OneChange
  <1>5. ASSUME NEW r \in Runs, RequestRestart(h, r) PROVE OneChange
    BY <1>5, SameSlots, BeginStopChanges DEF RequestRestart, store, workers
  <1>6. ASSUME NEW r \in Runs, RequestDispatch(h, r) PROVE OneChange
    BY <1>6, SameSlots DEF RequestDispatch, workers
  <1>7. ASSUME StopUnlinkedAgent(h) PROVE OneChange
    BY <1>7, SameSlots DEF StopUnlinkedAgent, store, workers
  <1>8. ASSUME RequestReplace(h) PROVE OneChange
    BY <1>8, SameSlots, BeginStopChanges DEF RequestReplace, Attempted, store, workers
  <1>9. ASSUME RequestReject(h) PROVE OneChange
    BY <1>9, SameSlots, BeginStopChanges DEF RequestReject, store, workers
  <1> QED
    BY <1>1, <1>2, <1>3, <1>4, <1>5, <1>6, <1>7, <1>8, <1>9 DEF Operator

LEMMA ContinueChanges ==
  ASSUME LInv, NEW h \in Handlers, Continue(h), ~LaunchWorker(h)
  PROVE  OneChange
  <1>1. CASE UndoRejectedStart(h)
    <2>1. req[h].run \in Runs
      BY <1>1, BusyType DEF UndoRejectedStart, LInv
    <2> QED
      BY <1>1, <2>1, SameSlots, BeginStopChanges DEF UndoRejectedStart, workers
  <1>2. CASE UNCHANGED <<attempt, proc>>
    BY <1>2, SameSlots
  <1> QED
    BY <1>1, <1>2
    DEF Continue, LaunchCancelled, LaunchFails, PrepareFailureLogged, SpawnFailureLogged,
        StartLogged, DispatchLogged, StartReturned, DispatchThrew, StartThrew,
        StartFailureLogged, StopReturned, store, workers

\* The stops that wait are about attempts that were made.
LEMMA StoppedAttempt ==
  ASSUME LInv, NEW h \in Handlers, NEW r \in Runs, NEW n \in Numbers, Stopping(h, r, n)
  PROVE  attempt[r][n] # "none"
  <1>1. n <= run[r].count
    BY DEF Stopping, LInv, Remembered
  <1>2. n \in Nat /\ run[r].count \in Nat
    BY CountTypes DEF LInv, Numbers
  <1> QED
    BY <1>1, <1>2 DEF LInv, Numbered

-----------------------------------------------------------------------------
(* What follows from the changes of a step                                 *)

\* Any number of rows may be closed at once, but only one worker changes.
Evolve ==
  /\ \A r \in Runs, n \in Numbers : Same(r, n) \/ Change(r, n)
  /\ OneChange \/ UNCHANGED proc

LEMMA OneChangeEvolves == OneChange => Evolve
  BY DEF OneChange, AllSame, ChangeOnly, Evolve

LEMMA EvolveKeeps ==
  ASSUME LInv, RunsKept, Evolve
  PROVE  /\ Counted' /\ Numbered' /\ NoForgottenWorker'
         /\ \A r \in Runs, n \in Numbers :
              attempt[r][n] # "none" /\ proc[r][n] \notin Working =>
                proc'[r][n] \notin Working
  <1>1. Counted'
    BY DEF LInv, Counted, RunsKept, Kept
  <1>2. ASSUME NEW r \in Runs, NEW n \in Numbers
        PROVE  /\ attempt'[r][n] = "none" <=> run'[r].count < n
               /\ attempt'[r][n] = "none" <=> proc'[r][n] = "none"
               /\ attempt'[r][n] \in TerminalStatus => proc'[r][n] \notin Working
               /\ attempt[r][n] # "none" /\ proc[r][n] \notin Working =>
                    proc'[r][n] \notin Working
    <2>1. /\ attempt[r][n] = "none" <=> run[r].count < n
          /\ attempt[r][n] = "none" <=> proc[r][n] = "none"
          /\ attempt[r][n] \in TerminalStatus => proc[r][n] \notin Working
          /\ run'[r].count = run[r].count
      BY DEF LInv, Numbered, NoForgottenWorker, RunsKept, Kept
    <2>2. CASE Same(r, n)
      BY <2>1, <2>2 DEF Same
    <2>3. CASE Change(r, n)
      BY <2>1, <2>3 DEF Change, TerminalStatus, Working
    <2> QED
      BY <2>2, <2>3 DEF Evolve
  <1> QED
    BY <1>1, <1>2 DEF Numbered, NoForgottenWorker

\* No request but h is about anything new.
LEMMA RememberedKept ==
  ASSUME TInv, TInv', Remembered, NEW h \in Handlers, Alone(h), Remembers(h),
         \A r \in Runs : /\ run[r].count <= run'[r].count
                         /\ run'[r].status = "absent" => run[r].status = "absent"
  PROVE  Remembered'
  <1> SUFFICES ASSUME NEW g \in Handlers, g # h, pc'[g] # "idle"
               PROVE  /\ run'[req'[g].run].status # "absent"
                      /\ req'[g].prior.status # "absent"
                      /\ req'[g].prior.cur <= run'[req'[g].run].count
                      /\ req'[g].att <= run'[req'[g].run].count
    BY DEF Remembered, Remembers
  <1> DEFINE r == req[g].run
  <1>1. pc[g] # "idle" /\ req'[g] = req[g]
    BY DEF Alone
  <1>2. r \in Runs /\ req[g].prior.cur \in Nat /\ req[g].att \in Nat
    BY <1>1, BusyType, BoundsAssumption DEF RunRecord, Request
  <1>3. run[r].count \in Nat /\ run'[r].count \in Nat
    BY <1>2, TInvParts, TInvPartsPrimed, BoundsAssumption DEF StoreOK, RunRecord
  <1>4. /\ run[r].status # "absent" /\ req[g].prior.status # "absent"
        /\ req[g].prior.cur <= run[r].count /\ req[g].att <= run[r].count
    BY <1>1 DEF Remembered
  <1> QED
    BY <1>1, <1>2, <1>3, <1>4

LEMMA KeptGrows ==
  ASSUME TInv, RunsKept
  PROVE  \A r \in Runs : /\ run[r].count <= run'[r].count
                         /\ run'[r].status = "absent" => run[r].status = "absent"
  BY CountTypes DEF RunsKept, Kept

\* A stop without a promise had none before, or its worker is at its end.
LEMMA UnpromisedKept ==
  ASSUME LInv, RunsKept, Evolve,
         \A g \in Handlers, r \in Runs, n \in Numbers :
           Stopping(g, r, n)' /\ waiter'[r][n] = NoHandler =>
             \/ Stopping(g, r, n) /\ waiter[r][n] = NoHandler
             \/ proc'[r][n] \notin Working
  PROVE  UnpromisedStops'
  <1> SUFFICES ASSUME NEW g \in Handlers, NEW r \in Runs, NEW n \in Numbers,
                      Stopping(g, r, n), waiter[r][n] = NoHandler
               PROVE  proc'[r][n] \notin Working
    BY DEF UnpromisedStops
  <1> QED
    BY StoppedAttempt, EvolveKeeps DEF LInv, UnpromisedStops

LEMMA MovesUnpromised ==
  ASSUME LInv, RunsKept, Evolve, NEW h \in Handlers, Moves(h)
  PROVE  UnpromisedStops'
  <1>0. ControlOK /\ ExitsOK /\ TInv
    BY TInvParts DEF LInv
  <1> SUFFICES ASSUME NEW g \in Handlers, NEW r \in Runs, NEW n \in Numbers,
                      Stopping(g, r, n)', waiter'[r][n] = NoHandler
               PROVE  \/ Stopping(g, r, n) /\ waiter[r][n] = NoHandler
                      \/ proc'[r][n] \notin Working
    BY UnpromisedKept
  <1>1. g # h => Stopping(g, r, n)
    BY DEF Moves, Alone, Stopping
  <1>2. CASE UNCHANGED exits /\ pc'[h] # "stopWait"
    BY <1>1, <1>2 DEF exits, Stopping
  <1>3. ASSUME NEW s \in Runs, NEW op \in Operations, run[s].cur # None, BeginStop(h, s, op)
        PROVE  \/ Stopping(g, r, n) /\ waiter[r][n] = NoHandler
               \/ proc'[r][n] \notin Working
    <2> DEFINE m == run[s].cur
    <2>0. m \in Numbers
      BY <1>3, CurrentAttempt
    <2>1. CASE /\ waiter' = [waiter EXCEPT ![s][m] = h]
               /\ pc' = [pc EXCEPT ![h] = "stopWait"]
               /\ req' = [req EXCEPT ![h] = [op |-> op, run |-> s, att |-> m, prior |-> run[s]]]
      <3>1. ~(r = s /\ n = m)
        BY <1>0, <2>0, <2>1, NoHandlerAssumption DEF ExitsOK
      <3>2. g # h
        BY <1>0, <2>1, <3>1 DEF ControlOK, Stopping
      <3> QED
        BY <1>0, <1>1, <2>1, <3>1, <3>2 DEF ExitsOK
    <2>2. CASE /\ MayRefuse(s, m)
               /\ waiter' = [waiter EXCEPT ![s][m] = NoHandler]
               /\ Refused(h, op)
               /\ UNCHANGED workers
      <3>1. pc'[h] # "stopWait"
        BY <1>0, <2>2 DEF ControlOK, Refused, Goto, Done
      <3>2. g # h
        BY <3>1 DEF Stopping
      <3>3. r = s /\ n = m => proc'[r][n] \notin Working
        BY <2>2 DEF MayRefuse, workers, Working
      <3>4. r # s \/ n # m => waiter'[r][n] = waiter[r][n]
        BY <1>0, <2>2 DEF ExitsOK
      <3> QED
        BY <1>1, <3>2, <3>3, <3>4
    <2> QED
      BY <1>3, <2>1, <2>2 DEF BeginStop
  <1> QED
    BY <1>2, <1>3 DEF Moves

-----------------------------------------------------------------------------
(* The steps that end an attempt                                           *)

LEMMA TimeoutSteps ==
  ASSUME LInv, NEW h \in Handlers, StopTimedOut(h)
  PROVE  /\ RunsKept /\ Remembers(h) /\ OneChange /\ UnpromisedStops'
         /\ req[h].att \in Numbers => proc'[req[h].run][req[h].att] \notin Working
  <1> DEFINE r == req[h].run
             n == req[h].att
  <1>0. TInv /\ ControlOK /\ ExitsOK /\ Counted /\ Remembered
    BY TInvParts DEF LInv
  <1>1. /\ pc[h] = "stopWait" /\ r \in Runs /\ n \in 0..MaxAttempts
        /\ waiter' = [waiter EXCEPT ![r][n] = NoHandler]
    BY <1>0, BusyType DEF StopTimedOut, Request
  <1>2. RunsKept
    BY <1>0, <1>1, SameRuns, FinishKept DEF StopTimedOut, store, TerminalStatus
  <1>3. Remembers(h)
    BY <1>0, <1>1, <1>2, StayRemembers DEF StopTimedOut, Refused
  <1>4. n \in Numbers => attempt[r][n] # "none"
    BY <1>1, StoppedAttempt DEF Stopping
  <1>5. n \in Numbers /\ waiter[r][n] = NoHandler => proc[r][n] \notin Working
    BY <1>1 DEF LInv, UnpromisedStops, Stopping
  <1>6. OneChange /\ (n \in Numbers => proc'[r][n] \notin Working)
    <2>1. CASE n \notin Numbers
      <3>1. \A s \in Runs, m \in Numbers : Same(s, m)
        BY <1>0, <1>1, <2>1, SlotTypes DEF StopTimedOut, KillOverdue, store, Same
      <3> QED
        BY <2>1, <3>1 DEF OneChange, AllSame
    <2>2. CASE /\ n \in Numbers
               /\ KillOverdue(r, n)
               /\ attempt' = [attempt EXCEPT ![r][n] = "stopped"]
      <3>1. \/ proc' = [proc EXCEPT ![r][n] = Killed(@)]
            \/ proc[r][n] \notin Working /\ UNCHANGED proc
        BY <1>5, <2>2 DEF KillOverdue
      <3>2. ChangeOnly(r, n)
        BY <1>1, <1>4, <2>2, <3>1, CloseChanges DEF TerminalStatus
      <3>3. attempt'[r][n] = "stopped"
        BY <1>0, <1>1, <2>2, SlotTypes
      <3> QED
        BY <1>1, <2>2, <3>2, <3>3 DEF OneChange, ChangeOnly, Change, TerminalStatus
    <2>3. CASE n \in Numbers /\ MayRefuse(r, n) /\ UNCHANGED <<store, agent, proc>>
      BY <2>3, SameSlots DEF MayRefuse, Working, store
    <2> QED
      BY <2>1, <2>2, <2>3 DEF StopTimedOut
  <1>7. UnpromisedStops'
    <2> SUFFICES ASSUME NEW g \in Handlers, NEW s \in Runs, NEW m \in Numbers,
                        Stopping(g, s, m)', waiter'[s][m] = NoHandler
                 PROVE  \/ Stopping(g, s, m) /\ waiter[s][m] = NoHandler
                        \/ proc'[s][m] \notin Working
      BY <1>2, <1>6, OneChangeEvolves, UnpromisedKept
    <2>1. Alone(h)
      BY <1>0, TimeoutPromises DEF LInv
    <2>2. pc'[h] # "stopWait"
      BY <1>0 DEF StopTimedOut, ControlOK, Refused, Goto, Done
    <2>3. Stopping(g, s, m)
      BY <2>1, <2>2 DEF Alone, Stopping
    <2>4. s # r \/ m # n => waiter'[s][m] = waiter[s][m]
      BY <1>0, <1>1 DEF ExitsOK
    <2> QED
      BY <1>6, <2>3, <2>4
  <1> QED
    BY <1>2, <1>3, <1>6, <1>7

LEMMA ExitSteps ==
  ASSUME LInv, TInv', NEW r \in Runs, NEW n \in Numbers, Exit(r, n)
  PROVE  RunsKept /\ Remembered' /\ OneChange /\ UnpromisedStops'
  <1>0. TInv /\ ControlOK /\ ExitsOK /\ Counted /\ Remembered
    BY TInvParts DEF LInv
  <1>1. /\ proc[r][n] \in Working \cup {"killed"}
        /\ proc' = [proc EXCEPT ![r][n] = "dead"]
        /\ req' = req
    BY DEF Exit, WorkerExit, Exited, UnwatchedExit, control
  <1>2. attempt[r][n] # "none" /\ proc'[r][n] = "dead"
    BY <1>0, <1>1, SlotTypes DEF LInv, Numbered, Working
  <1>3. ASSUME UNCHANGED attempt
        PROVE  OneChange
    <2>1. Change(r, n)
      BY <1>1, <1>2, <1>3 DEF Change, Working
    <2>2. \A s \in Runs, m \in Numbers : s # r \/ m # n => Same(s, m)
      BY <1>0, <1>1, <1>3, SlotTypes DEF Same
    <2> QED
      BY <2>1, <2>2 DEF OneChange, ChangeOnly
  <1>4. ASSUME NEW status \in {"completed", "failed"}, WorkerExit(r, n, status)
        PROVE  RunsKept /\ OneChange
    <2> DEFINE outcome == IF n \in stopping[r] THEN "stopped" ELSE status
    <2>1. CASE UNCHANGED store
      BY <1>0, <1>3, <2>1, SameRuns DEF store
    <2>2. CASE /\ attempt' = [attempt EXCEPT ![r][n] = outcome]
               /\ run' = [run EXCEPT ![r] = Finished(@, outcome)]
      <3>1. outcome \in TerminalStatus
        BY DEF TerminalStatus
      <3>2. proc[r][n] # "none"
        BY <1>1 DEF Working
      <3>3. RunsKept
        BY <1>0, <2>2, <3>1, FinishKept
      <3>4. ChangeOnly(r, n)
        BY <1>1, <1>2, <2>2, <3>1, <3>2, CloseChanges
      <3> QED
        BY <3>3, <3>4 DEF OneChange
    <2> QED
      BY <1>4, <2>1, <2>2 DEF WorkerExit
  <1>5. RunsKept /\ OneChange
    BY <1>0, <1>3, <1>4, SameRuns DEF Exit, UnwatchedExit, store
  <1>6. \A g \in Handlers : pc[g] = "idle" => pc'[g] = "idle"
    <2> SUFFICES ASSUME NEW status, WorkerExit(r, n, status), NEW g \in Handlers,
                        pc[g] = "idle"
                 PROVE  pc'[g] = "idle"
      BY DEF Exit, UnwatchedExit, control
    <2>1. waiter[r][n] # g
      BY DEF LInv, PromiseHolderWaits, Stopping
    <2> QED
      BY <1>0, <2>1 DEF WorkerExit, ControlOK
  <1>7. Remembered'
    <2> SUFFICES ASSUME NEW g \in Handlers, pc'[g] # "idle"
                 PROVE  /\ run'[req[g].run].status # "absent"
                        /\ req[g].prior.status # "absent"
                        /\ req[g].prior.cur <= run'[req[g].run].count
                        /\ req[g].att <= run'[req[g].run].count
      BY <1>1 DEF Remembered
    <2>1. pc[g] # "idle"
      BY <1>6
    <2> QED
      BY <1>0, <1>5, <2>1, BusyType DEF Remembered, RunsKept, Kept
  <1>8. UnpromisedStops'
    <2> SUFFICES ASSUME NEW g \in Handlers, NEW s \in Runs, NEW m \in Numbers,
                        Stopping(g, s, m)', waiter'[s][m] = NoHandler
                 PROVE  \/ Stopping(g, s, m) /\ waiter[s][m] = NoHandler
                        \/ proc'[s][m] \notin Working
      BY <1>5, OneChangeEvolves, UnpromisedKept
    <2>1. CASE s = r /\ m = n
      BY <1>2, <2>1 DEF Working
    <2>2. CASE s # r \/ m # n
      <3>1. waiter'[s][m] = waiter[s][m]
        BY <1>0, <2>2 DEF Exit, WorkerExit, UnwatchedExit, exits, ExitsOK
      <3>2. pc'[g] = "stopWait" => pc[g] = "stopWait"
        BY <1>0 DEF Exit, WorkerExit, UnwatchedExit, control, ControlOK
      <3> QED
        BY <1>1, <3>1, <3>2 DEF Stopping
    <2> QED
      BY <2>1, <2>2
  <1> QED
    BY <1>5, <1>7, <1>8

\* The daemon goes down: every request is forgotten, and at most one row is
\* closed while its run's is not.
LEMMA FailureSteps ==
  ASSUME LInv, Failure
  PROVE  RunsKept /\ Remembered' /\ OneChange /\ UnpromisedStops'
  <1>0. TInv /\ Counted
    BY DEF LInv
  <1>1. MemoryLost /\ UNCHANGED run
    BY DEF Failure, Crash, CrashWhileLaunching, CrashWhileFinishing, GoDown, store
  <1>2. RunsKept
    BY <1>0, <1>1, SameRuns
  <1>3. \A g \in Handlers : pc'[g] = "idle"
    BY <1>1 DEF MemoryLost
  <1>4. Remembered' /\ UnpromisedStops'
    BY <1>3 DEF Remembered, UnpromisedStops, Stopping
  <1>5. CASE Crash
    BY <1>2, <1>4, <1>5, SameSlots DEF Crash, store
  <1>7. ASSUME NEW h \in Handlers, CrashWhileLaunching(h) PROVE OneChange
    BY <1>7, SameSlots DEF CrashWhileLaunching, store
  <1>6. ASSUME NEW r \in Runs, NEW n \in Numbers, NEW status \in TerminalStatus,
               CrashWhileFinishing(r, n, status)
        PROVE  OneChange
    <2>1. attempt' = [attempt EXCEPT ![r][n] = status]
      BY <1>6 DEF CrashWhileFinishing
    <2>2. CASE attempt[r][n] = "running" /\ proc' = [proc EXCEPT ![r][n] = "dead"]
      <3>1. proc[r][n] # "none" /\ attempt[r][n] # "none"
        BY <2>2 DEF LInv, Numbered
      <3> QED
        BY <2>1, <2>2, <3>1, CloseChanges DEF OneChange
    <2>3. ASSUME NEW h \in Handlers, Stopping(h, r, n), KillOverdue(r, n)
          PROVE  OneChange
      <3>1. attempt[r][n] # "none"
        BY <2>3, StoppedAttempt
      <3>2. waiter[r][n] = NoHandler => proc[r][n] \notin Working
        BY <2>3 DEF LInv, UnpromisedStops
      <3>3. \/ proc' = [proc EXCEPT ![r][n] = Killed(@)]
            \/ proc[r][n] \notin Working /\ UNCHANGED proc
        BY <2>3, <3>2 DEF KillOverdue
      <3> QED
        BY <2>1, <3>1, <3>3, CloseChanges DEF OneChange
    <2>4. CASE run[r].cur = n /\ proc' = [proc EXCEPT ![r][n] = Killed(@)]
      <3>1. attempt[r][n] # "none"
        BY <2>4, CurrentAttempt DEF Numbers, None
      <3> QED
        BY <2>1, <2>4, <3>1, CloseChanges DEF OneChange
    <2> QED
      BY <1>6, <2>2, <2>3, <2>4 DEF CrashWhileFinishing
  <1> QED
    BY <1>2, <1>4, <1>5, <1>6, <1>7 DEF Failure

\* Rows are closed on restart only if nothing is left of their workers.
LEMMA RestartSteps ==
  ASSUME LInv, TInv', Restart
  PROVE  RunsKept /\ Remembered' /\ Evolve /\ UnpromisedStops'
  <1>0. TInv /\ Counted /\ Remembered
    BY DEF LInv
  <1>1. RunsKept
    BY <1>0, RestartKeepsRuns
  <1>2. UNCHANGED <<proc, waiter, pc, req>>
    BY DEF Restart, workers, exits, control
  <1>3. ASSUME NEW r \in Runs, NEW n \in Numbers
        PROVE  Same(r, n) \/ Change(r, n)
    <2>1. attempt'[r][n] = IF Orphaned(r) /\ n = run[r].cur THEN "failed" ELSE attempt[r][n]
      BY DEF Restart
    <2>2. CASE Orphaned(r) /\ n = run[r].cur
      BY <1>2, <2>1, <2>2 DEF Orphaned, OwnsLiveProcess, Change, TerminalStatus
    <2>3. CASE ~(Orphaned(r) /\ n = run[r].cur)
      BY <1>2, <2>1, <2>3 DEF Same
    <2> QED
      BY <2>2, <2>3
  <1>4. Remembered'
    <2> SUFFICES ASSUME NEW g \in Handlers, pc[g] # "idle"
                 PROVE  /\ run'[req[g].run].status # "absent"
                        /\ req[g].prior.status # "absent"
                        /\ req[g].prior.cur <= run'[req[g].run].count
                        /\ req[g].att <= run'[req[g].run].count
      BY <1>2 DEF Remembered
    <2> QED
      BY <1>0, <1>1, BusyType DEF Remembered, RunsKept, Kept
  <1>5. UnpromisedStops'
    BY <1>2 DEF LInv, UnpromisedStops, Stopping
  <1> QED
    BY <1>1, <1>2, <1>3, <1>4, <1>5 DEF Evolve

-----------------------------------------------------------------------------
(* The launch of a worker                                                  *)

\* A new row and its worker.
Launched(r, n) ==
  /\ attempt[r][n] = "none" /\ attempt'[r][n] = "running"
  /\ proc[r][n] = "none" /\ proc'[r][n] = "live"
  /\ \A s \in Runs, m \in Numbers : s # r \/ m # n => Same(s, m)

LEMMA LaunchSlots ==
  ASSUME LInv, NEW h \in Handlers, LaunchWorker(h)
  PROVE  \E r \in Runs, n \in Numbers :
           /\ Launched(r, n)
           /\ run'[r].cur = n /\ run'[r].count = n /\ run'[r].status = "running"
           /\ run[r].count + 1 = n
           /\ \A s \in Runs \ {r} : run'[s] = run[s]
  <1> DEFINE r == req[h].run
             n == run[r].count + 1
  <1>0. TInv
    BY DEF LInv
  <1>1. r \in Runs /\ n \in Numbers /\ run[r].count < n
    BY <1>0, BusyType, CountTypes DEF LaunchWorker
  <1>2. attempt[r][n] = "none" /\ proc[r][n] = "none"
    BY <1>1 DEF LInv, Numbered
  <1>3. attempt'[r][n] = "running" /\ proc'[r][n] = "live"
    BY <1>0, <1>1, SlotTypes DEF LaunchWorker, Spawned
  <1>4. \A s \in Runs, m \in Numbers : s # r \/ m # n => Same(s, m)
    BY <1>0, <1>1, SlotTypes DEF LaunchWorker, Spawned, Same
  <1>5. run' = [run EXCEPT ![r] = [@ EXCEPT !.status = "running", !.cur = n, !.count = n]]
    BY DEF LaunchWorker
  <1>6. /\ run'[r].cur = n /\ run'[r].count = n /\ run'[r].status = "running"
        /\ \A s \in Runs \ {r} : run'[s] = run[s]
    BY <1>0, <1>1, <1>5, CountTypes DEF RunRecord
  <1>7. Launched(r, n)
    BY <1>2, <1>3, <1>4 DEF Launched
  <1> HIDE DEF r, n
  <1> QED
    BY <1>1, <1>6, <1>7 DEF n

LEMMA LaunchSteps ==
  ASSUME LInv, TInv', NEW h \in Handlers, LaunchWorker(h)
  PROVE  Counted' /\ Numbered' /\ NoForgottenWorker' /\ Remembered' /\ UnpromisedStops'
  <1>0. TInv /\ TInv' /\ Remembered /\ Counted
    BY DEF LInv
  <1>1. PICK r \in Runs, n \in Numbers :
           /\ Launched(r, n)
           /\ run'[r].cur = n /\ run'[r].count = n /\ run'[r].status = "running"
           /\ run[r].count + 1 = n
           /\ \A s \in Runs \ {r} : run'[s] = run[s]
    BY LaunchSlots
  <1>2. n \in Nat
    BY BoundsAssumption DEF Numbers
  <1>3. Counted'
    <2>1. \A s \in Runs : run'[s].cur <= run'[s].count
      BY <1>0, <1>1, <1>2 DEF Counted
    <2>2. \A s \in Runs : run'[s].status = "absent" => run'[s].count = 0
      BY <1>0, <1>1 DEF Counted
    <2> QED
      BY <2>1, <2>2 DEF Counted
  <1>4. ASSUME NEW s \in Runs, NEW m \in Numbers
        PROVE  /\ attempt'[s][m] = "none" <=> run'[s].count < m
               /\ attempt'[s][m] = "none" <=> proc'[s][m] = "none"
               /\ attempt'[s][m] \in TerminalStatus => proc'[s][m] \notin Working
    <2>0. m \in Nat /\ run[s].count \in Nat
      BY <1>0, CountTypes DEF Numbers
    <2>1. /\ attempt[s][m] = "none" <=> run[s].count < m
          /\ attempt[s][m] = "none" <=> proc[s][m] = "none"
          /\ attempt[s][m] \in TerminalStatus => proc[s][m] \notin Working
      BY DEF LInv, Numbered, NoForgottenWorker
    <2>2. CASE s = r /\ m = n
      BY <1>1, <1>2, <2>2 DEF Launched, TerminalStatus
    <2>3. CASE s # r \/ m # n
      <3>1. Same(s, m)
        BY <1>1, <2>3 DEF Launched
      <3>2. run'[s].count < m <=> run[s].count < m
        BY <1>1, <1>2, <2>0, <2>3
      <3> QED
        BY <2>1, <3>1, <3>2 DEF Same
    <2> QED
      BY <2>2, <2>3
  <1>5. Alone(h)
    BY <1>0, ContinueMoves DEF Continue, Moves
  <1>6. \A s \in Runs : /\ run[s].count <= run'[s].count
                        /\ run'[s].status = "absent" => run[s].status = "absent"
    BY <1>0, <1>1, CountTypes
  <1>7. Remembers(h)
    <2>1. pc[h] # "idle" /\ req'[h] = req[h]
      BY DEF LaunchWorker, Goto
    <2>2. req[h].run \in Runs /\ req[h].prior.cur \in Nat /\ req[h].att \in Nat
      BY <1>0, <2>1, BusyType, BoundsAssumption DEF Request, RunRecord
    <2>3. run[req[h].run].count \in Nat /\ run'[req[h].run].count \in Nat
      BY <1>1, <1>0, <1>2, <2>2, CountTypes
    <2> QED
      BY <1>0, <1>6, <2>1, <2>2, <2>3 DEF Remembered, Remembers
  <1>8. Remembered'
    BY <1>0, <1>5, <1>6, <1>7, RememberedKept
  <1>9. UnpromisedStops'
    <2> SUFFICES ASSUME NEW g \in Handlers, NEW s \in Runs, NEW m \in Numbers,
                        Stopping(g, s, m)', waiter'[s][m] = NoHandler
                 PROVE  proc'[s][m] \notin Working
      BY DEF UnpromisedStops
    <2>1. Stopping(g, s, m) /\ waiter[s][m] = NoHandler
      BY <1>0, TInvParts DEF LaunchWorker, Goto, ControlOK, Stopping, exits
    <2>2. proc[s][m] \notin Working /\ attempt[s][m] # "none"
      BY <2>1, StoppedAttempt DEF LInv, UnpromisedStops
    <2> QED
      BY <1>1, <2>2 DEF Launched, Same
  <1> QED
    BY <1>3, <1>4, <1>8, <1>9 DEF Numbered, NoForgottenWorker

-----------------------------------------------------------------------------
(* The second inductive invariant                                          *)

LEMMA InitialLedger == Init => LInv
  <1> SUFFICES ASSUME Init PROVE LInv
    OBVIOUS
  <1>1. TInv /\ PromiseHolderWaits
    BY InitialTypes
  <1>2. /\ \A r \in Runs : run[r] = AbsentRun
        /\ \A r \in Runs, n \in Numbers : attempt[r][n] = "none" /\ proc[r][n] = "none"
        /\ \A h \in Handlers : pc[h] = "idle"
    BY DEF Init
  <1>3. Counted
    BY <1>2 DEF Counted, AbsentRun, None
  <1>4. Numbered
    BY <1>2, BoundsAssumption DEF Numbered, AbsentRun, Numbers
  <1>5. Remembered /\ UnpromisedStops
    BY <1>2 DEF Remembered, UnpromisedStops, Stopping
  <1>6. NoForgottenWorker
    BY <1>2 DEF NoForgottenWorker, TerminalStatus
  <1> QED
    BY <1>1, <1>3, <1>4, <1>5, <1>6 DEF LInv

\* What every step but a launch does.
LEMMA EvolvingSteps ==
  ASSUME LInv, TInv', [Next]_vars, \A h \in Handlers : ~LaunchWorker(h)
  PROVE  RunsKept /\ Evolve /\ Remembered' /\ UnpromisedStops'
  <1>0. TInv /\ Counted /\ Remembered
    BY DEF LInv
  <1>1. ASSUME NEW h \in Handlers, Moves(h), RunsKept, Remembers(h), OneChange
        PROVE  RunsKept /\ Evolve /\ Remembered' /\ UnpromisedStops'
    BY <1>0, <1>1, OneChangeEvolves, KeptGrows, RememberedKept, MovesUnpromised DEF Moves
  <1>2. ASSUME NEW h \in Handlers, Operator(h)
        PROVE  RunsKept /\ Evolve /\ Remembered' /\ UnpromisedStops'
    BY <1>0, <1>1, <1>2, OperatorMoves, OperatorKeepsRuns, OperatorRemembers, OperatorChanges
  <1>3. ASSUME NEW h \in Handlers, Continue(h)
        PROVE  RunsKept /\ Evolve /\ Remembered' /\ UnpromisedStops'
    BY <1>0, <1>1, <1>3, ContinueMoves, ContinueKeepsRuns, ContinueRemembers, ContinueChanges
  <1>4. ASSUME NEW h \in Handlers, StopTimedOut(h)
        PROVE  RunsKept /\ Evolve /\ Remembered' /\ UnpromisedStops'
    <2>1. Alone(h)
      BY <1>0, <1>4, TimeoutPromises DEF LInv
    <2> QED
      BY <1>0, <1>4, <2>1, TimeoutSteps, OneChangeEvolves, KeptGrows, RememberedKept
  <1>5. ASSUME NEW r \in Runs, NEW n \in Numbers, Exit(r, n)
        PROVE  RunsKept /\ Evolve /\ Remembered' /\ UnpromisedStops'
    BY <1>5, ExitSteps, OneChangeEvolves
  <1>6. ASSUME UNCHANGED <<store, workers, exits, control>>
        PROVE  RunsKept /\ Evolve /\ Remembered' /\ UnpromisedStops'
    <2>1. RunsKept
      BY <1>0, <1>6, SameRuns DEF store
    <2>2. Evolve
      BY <1>6, SameSlots, OneChangeEvolves DEF store, workers
    <2>3. Remembered'
      BY <1>0, <1>6 DEF store, control, Remembered
    <2>4. UnpromisedStops'
      BY <1>6 DEF LInv, UnpromisedStops, Stopping, workers, exits, control
    <2> QED
      BY <2>1, <2>2, <2>3, <2>4
  <1>7. CASE DeleteAgent
    BY <1>6, <1>7 DEF DeleteAgent
  <1>8. CASE Failure
    BY <1>8, FailureSteps, OneChangeEvolves
  <1>9. CASE Restart
    BY <1>9, RestartSteps
  <1>10. CASE UNCHANGED vars
    BY <1>6, <1>10 DEF vars, store, workers, exits, control
  <1>11. ASSUME NEW s \in strays, StrayExits(s)
         PROVE  RunsKept /\ Evolve /\ Remembered' /\ UnpromisedStops'
    BY <1>6, <1>11 DEF StrayExits
  <1> QED
    BY <1>2, <1>3, <1>4, <1>5, <1>7, <1>8, <1>9, <1>10, <1>11 DEF Next

LEMMA StepLedger == LInv /\ [Next]_vars => LInv'
  <1> SUFFICES ASSUME LInv, [Next]_vars
               PROVE  LInv'
    OBVIOUS
  <1>1. TInv' /\ PromiseHolderWaits'
    BY StepTypes DEF LInv
  <1>2. ASSUME NEW h \in Handlers, LaunchWorker(h) PROVE LInv'
    BY <1>1, <1>2, LaunchSteps DEF LInv
  <1>3. CASE \A h \in Handlers : ~LaunchWorker(h)
    BY <1>1, <1>3, EvolvingSteps, EvolveKeeps DEF LInv
  <1> QED
    BY <1>2, <1>3

\* When the attempts table says how an attempt ended, its worker is gone or
\* was sent SIGKILL, for any number of runs, requests, attempts and crashes.
THEOREM NothingForgotten == Spec => []NoForgottenWorker
  <1>1. LInv => NoForgottenWorker
    BY DEF LInv
  <1> QED
    BY <1>1, InitialLedger, StepLedger, PTL DEF Spec

-----------------------------------------------------------------------------
(* The lifecycle implements the worker ledger                              *)

OpenSlots == {s \in Slots : attempt[s[1]][s[2]] = "running"}
ClosedSlots == {s \in Slots : attempt[s[1]][s[2]] \in TerminalStatus}
WorkingSlots == {s \in Slots : proc[s[1]][s[2]] \in Working}
DoomedSlots == {s \in Slots : proc[s[1]][s[2]] = "killed"}

\* What a launch does to the sets of the ledger.
LEMMA LaunchRefines ==
  ASSUME LInv, NEW h \in Handlers, LaunchWorker(h)
  PROVE  Ledger!Next
  <1>1. PICK r \in Runs, n \in Numbers : Launched(r, n)
    BY LaunchSlots
  <1> DEFINE a == <<r, n>>
  <1>2. a \in Slots /\ a \notin OpenSlots \cup ClosedSlots
    BY <1>1 DEF Slots, Launched, OpenSlots, ClosedSlots, TerminalStatus
  <1>3. ASSUME NEW s \in Slots, s # a
        PROVE  attempt'[s[1]][s[2]] = attempt[s[1]][s[2]]
               /\ proc'[s[1]][s[2]] = proc[s[1]][s[2]]
    BY <1>1, <1>3 DEF Slots, Launched, Same
  <1>4. /\ attempt'[a[1]][a[2]] = "running" /\ proc'[a[1]][a[2]] = "live"
        /\ attempt[a[1]][a[2]] = "none" /\ proc[a[1]][a[2]] = "none"
    BY <1>1 DEF Launched
  <1> HIDE DEF a
  <1>5. /\ OpenSlots' = OpenSlots \cup {a}
        /\ WorkingSlots' = WorkingSlots \cup {a}
        /\ UNCHANGED <<ClosedSlots, DoomedSlots>>
    BY <1>2, <1>3, <1>4 DEF OpenSlots, WorkingSlots, ClosedSlots, DoomedSlots,
       TerminalStatus, Working
  <1>6. UNCHANGED <<strays, crashes>>
    BY DEF LaunchWorker, env
  <1>7. Ledger!Launch(a)
    BY <1>2, <1>5, <1>6 DEF Ledger!Launch, OpenSlots, WorkingSlots, ClosedSlots, DoomedSlots
  <1> QED
    BY <1>2, <1>7 DEF Ledger!Next

\* Rows are closed together with the end of their workers.
LEMMA EvolveCloses ==
  ASSUME LInv, Evolve
  PROVE  \E S \in SUBSET OpenSlots : Ledger!Close(S)
  <1> DEFINE S == {s \in OpenSlots : attempt'[s[1]][s[2]] \in TerminalStatus}
  <1>1. ASSUME NEW s \in Slots
        PROVE  /\ attempt'[s[1]][s[2]] \in {attempt[s[1]][s[2]]} \cup TerminalStatus
               /\ attempt[s[1]][s[2]] = "none" => attempt'[s[1]][s[2]] = "none"
               /\ attempt'[s[1]][s[2]] \in TerminalStatus =>
                    proc'[s[1]][s[2]] \notin Working
    <2>1. s[1] \in Runs /\ s[2] \in Numbers
      BY DEF Slots
    <2>2. CASE Same(s[1], s[2])
      BY <2>1, <2>2 DEF Same, LInv, NoForgottenWorker
    <2>3. CASE Change(s[1], s[2])
      BY <2>3 DEF Change
    <2> QED
      BY <2>1, <2>2, <2>3 DEF Evolve
  <1>2. ASSUME NEW s \in Slots
        PROVE  attempt[s[1]][s[2]] \in {"none", "running"} \cup TerminalStatus
    BY TInvParts DEF LInv, StoreOK, Slots, AttemptStatus
  <1>3. S \subseteq OpenSlots /\ S \cap WorkingSlots' = {}
    BY <1>1 DEF OpenSlots, WorkingSlots
  <1>4. OpenSlots' = OpenSlots \ S
    BY <1>1, <1>2 DEF OpenSlots, TerminalStatus
  <1>5. ClosedSlots' = ClosedSlots \cup S
    BY <1>1, <1>2 DEF OpenSlots, ClosedSlots, TerminalStatus
  <1> HIDE DEF S
  <1>6. Ledger!Close(S)
    BY <1>3, <1>4, <1>5 DEF Ledger!Close, OpenSlots, ClosedSlots, WorkingSlots
  <1> QED
    BY <1>3, <1>6 DEF Ledger!Close

\* At most one worker gets closer to its end.
LEMMA EvolveEnds ==
  ASSUME LInv, Evolve
  PROVE  \/ \E a \in Slots : Ledger!Condemn(a) \/ Ledger!Die(a)
         \/ UNCHANGED <<WorkingSlots, DoomedSlots>>
  <1>1. ASSUME \A s \in Slots : proc'[s[1]][s[2]] = proc[s[1]][s[2]]
        PROVE  UNCHANGED <<WorkingSlots, DoomedSlots>>
    BY <1>1 DEF WorkingSlots, DoomedSlots
  <1>2. CASE AllSame \/ UNCHANGED proc
    BY <1>1, <1>2 DEF AllSame, Same, Slots
  <1>3. ASSUME NEW r \in Runs, NEW n \in Numbers, ChangeOnly(r, n)
        PROVE  \/ \E a \in Slots : Ledger!Condemn(a) \/ Ledger!Die(a)
               \/ UNCHANGED <<WorkingSlots, DoomedSlots>>
    <2> DEFINE a == <<r, n>>
    <2>1. a \in Slots
      BY DEF Slots
    <2>2. ASSUME NEW s \in Slots, s # a
          PROVE  proc'[s[1]][s[2]] = proc[s[1]][s[2]]
      BY <1>3, <2>2 DEF Slots, ChangeOnly, Same
    <2>3. \/ proc'[a[1]][a[2]] = proc[a[1]][a[2]]
          \/ /\ proc[a[1]][a[2]] \in Working
             /\ proc'[a[1]][a[2]] \in {"term", "killed", "dead"}
          \/ proc[a[1]][a[2]] = "killed" /\ proc'[a[1]][a[2]] = "dead"
      BY <1>3 DEF ChangeOnly, Change
    <2> HIDE DEF a
    <2>4. CASE proc'[a[1]][a[2]] = proc[a[1]][a[2]]
      BY <1>1, <2>2, <2>4
    <2>5. CASE proc[a[1]][a[2]] \in Working /\ proc'[a[1]][a[2]] = "term"
      BY <2>2, <2>5 DEF WorkingSlots, DoomedSlots, Working
    <2>6. CASE proc[a[1]][a[2]] \in Working /\ proc'[a[1]][a[2]] = "killed"
      <3>1. /\ a \in WorkingSlots
            /\ WorkingSlots' = WorkingSlots \ {a}
            /\ DoomedSlots' = DoomedSlots \cup {a}
        BY <2>1, <2>2, <2>6 DEF WorkingSlots, DoomedSlots, Working
      <3>2. Ledger!Condemn(a)
        BY <3>1 DEF Ledger!Condemn, WorkingSlots, DoomedSlots
      <3> QED
        BY <2>1, <3>2
    <2>7. CASE proc[a[1]][a[2]] \in Working \cup {"killed"} /\ proc'[a[1]][a[2]] = "dead"
      <3>1. /\ a \in WorkingSlots \cup DoomedSlots
            /\ WorkingSlots' = WorkingSlots \ {a}
            /\ DoomedSlots' = DoomedSlots \ {a}
        BY <2>1, <2>2, <2>7 DEF WorkingSlots, DoomedSlots, Working
      <3>2. Ledger!Die(a)
        BY <3>1 DEF Ledger!Die, WorkingSlots, DoomedSlots
      <3> QED
        BY <2>1, <3>2
    <2> QED
      BY <2>3, <2>4, <2>5, <2>6, <2>7
  <1> QED
    BY <1>2, <1>3 DEF Evolve, OneChange

\* A worker that no attempt names was spawned by a daemon that died, or could
\* not kill it.
LEMMA StrayRefines ==
  ASSUME LInv, [Next]_vars
  PROVE  \/ UNCHANGED <<strays, crashes>>
         \/ Ledger!KeeperDies
         \/ Ledger!KillFails
         \/ Ledger!LostExits
  <1>1. ASSUME NEW h \in Handlers, Operator(h) PROVE UNCHANGED <<strays, crashes>>
    BY <1>1 DEF Operator, Accept, RequestStart, RequestStop, StopUnstarted, RequestKill,
       RequestRestart, RequestDispatch, StopUnlinkedAgent, RequestReplace, RequestReject
  <1>2. ASSUME NEW h \in Handlers, Continue(h), ~LaunchFails(h)
        PROVE  UNCHANGED <<strays, crashes>>
    BY <1>2 DEF Continue, LaunchWorker, LaunchCancelled, PrepareFailureLogged,
       SpawnFailureLogged, StartLogged, DispatchLogged, UndoRejectedStart, StartReturned,
       DispatchThrew, StartThrew, StartFailureLogged, StopReturned, env
  <1>3. ASSUME NEW h \in Handlers, LaunchFails(h)
        PROVE  UNCHANGED <<strays, crashes>> \/ Ledger!KillFails
    <2>1. req[h].run \in Runs
      BY <1>3, BusyType DEF LInv, LaunchFails
    <2>2. UNCHANGED <<attempt, proc, crashes>>
      BY <1>3 DEF LaunchFails, store, workers
    <2>3. strays' = strays \/ (KillFaults /\ Strayed(req[h].run))
      BY <1>3 DEF LaunchFails, AttemptNotStored
    <2> QED
      BY <2>1, <2>2, <2>3 DEF Ledger!KillFails, Strayed
  <1>4. ASSUME NEW h \in Handlers, StopTimedOut(h) PROVE UNCHANGED <<strays, crashes>>
    BY <1>4 DEF StopTimedOut, env
  <1>5. ASSUME NEW r \in Runs, NEW n \in Numbers, Exit(r, n)
        PROVE  UNCHANGED <<strays, crashes>>
    BY <1>5 DEF Exit, WorkerExit, UnwatchedExit, env
  <1>6. ASSUME NEW s \in strays, StrayExits(s) PROVE Ledger!LostExits
    BY <1>6 DEF StrayExits, Ledger!LostExits, store, workers
  <1>7. CASE DeleteAgent \/ Restart \/ UNCHANGED vars
    BY <1>7 DEF DeleteAgent, Restart, env, vars
  <1>8. CASE Failure
    <2>1. crashes' = crashes + 1
      BY <1>8 DEF Failure, Crash, CrashWhileLaunching, CrashWhileFinishing, GoDown
    <2>2. strays' = strays \/ \E r \in Runs : Strayed(r)
      BY <1>8, BusyType
      DEF Failure, Crash, CrashWhileLaunching, CrashWhileFinishing, LInv
    <2> QED
      BY <2>1, <2>2 DEF Ledger!KeeperDies, Strayed
  <1> QED
    BY <1>1, <1>2, <1>3, <1>4, <1>5, <1>6, <1>7, <1>8 DEF Next

LEMMA StepRefines == LInv /\ [Next]_vars => Ledger!Next
  <1> SUFFICES ASSUME LInv, [Next]_vars
               PROVE  Ledger!Next
    OBVIOUS
  <1>1. ASSUME NEW h \in Handlers, LaunchWorker(h) PROVE Ledger!Next
    BY <1>1, LaunchRefines
  <1>2. CASE \A h \in Handlers : ~LaunchWorker(h)
    <2>1. TInv'
      BY StepTypes DEF LInv
    <2>2. Evolve
      BY <1>2, <2>1, EvolvingSteps
    <2> QED
      BY <2>2, EvolveCloses, EvolveEnds, StrayRefines
      DEF Ledger!Next, OpenSlots, WorkingSlots, DoomedSlots
  <1> QED
    BY <1>1, <1>2

LEMMA InitRefines == Init => Ledger!Init
  BY DEF Init, Ledger!Init, Slots, TerminalStatus, Working

\* The lifecycle keeps the worker ledger: a worker is entered with a new
\* attempt, or is lost in a death of the daemon or a kill that failed; an
\* attempt is closed only with its worker gone or condemned, and no attempt is
\* ever reopened.
THEOREM ImplementsLedger == Spec => LedgerSpec
  <1>1. LInv /\ [Next]_vars => [Ledger!Next]_(Ledger!ledger)
    BY StepRefines
  <1> QED
    BY <1>1, InitialLedger, StepLedger, InitRefines, PTL DEF Spec, LedgerSpec, Ledger!Spec

-----------------------------------------------------------------------------
(* A start that a rejection overtakes                                      *)

\* A stop that goes on has left nothing of the worker it was about.
StopsEnded ==
  \A h \in Handlers, r \in Runs, n \in Numbers :
    pc[h] = "stopDone" /\ req[h].run = r /\ req[h].att = n => proc[r][n] \notin Working

\* Requests and their continuations do not end a stop that waits.
LEMMA RequestsEndNoStop ==
  ASSUME TInv, NEW h \in Handlers, Operator(h) \/ Continue(h)
  PROVE  pc'[h] # "stopDone"
  <1>0. ControlOK
    BY TInvParts
  <1>1. /\ Done(h) => pc'[h] = "idle"
        /\ \A label : Goto(h, label) => pc'[h] = label
        /\ \A label : pc' = [pc EXCEPT ![h] = label] => pc'[h] = label
    BY <1>0 DEF Done, Goto, ControlOK
  <1>2. ASSUME NEW r, NEW op, BeginStop(h, r, op) PROVE pc'[h] # "stopDone"
    BY <1>1, <1>2 DEF BeginStop, Refused
  <1>3. ASSUME NEW r, NEW rec, NEW ag, BeginStart(h, r, rec, ag) PROVE pc'[h] # "stopDone"
    BY <1>1, <1>3 DEF BeginStart
  <1>4. ASSUME NEW r, NEW runs, CreateRun(h, r, runs) PROVE pc'[h] # "stopDone"
    BY <1>1, <1>4 DEF CreateRun
  <1>5. CASE Operator(h)
    <2>1. pc[h] = "idle"
      BY <1>5 DEF Operator, Accept, RequestStart, RequestStop, StopUnstarted, RequestKill,
         RequestRestart, RequestDispatch, StopUnlinkedAgent, RequestReplace, RequestReject
    <2> QED
      BY <1>2, <1>3, <1>4, <1>5, <2>1 DEF Operator, RequestStart, RequestStop, StopUnstarted,
         RequestKill, RequestRestart, RequestDispatch, StopUnlinkedAgent, RequestReplace,
         RequestReject, control
  <1>6. CASE Continue(h)
    BY <1>1, <1>2, <1>3, <1>4, <1>6 DEF Continue, LaunchWorker, LaunchCancelled, LaunchFails,
       PreparationFails, SpawnFails, AttemptNotStored, PrepareFailureLogged,
       SpawnFailureLogged, StartLogged, DispatchLogged, UndoRejectedStart, StartReturned,
       DispatchThrew, StartThrew, StartFailureLogged, StopReturned
  <1> QED
    BY <1>5, <1>6

\* What is gone or condemned stays so, as long as it was there.
LEMMA EndedStaysEnded ==
  ASSUME LInv, [Next]_vars, NEW r \in Runs, NEW n \in Numbers,
         attempt[r][n] # "none", proc[r][n] \notin Working
  PROVE  proc'[r][n] \notin Working
  <1>1. ASSUME NEW h \in Handlers, LaunchWorker(h) PROVE proc'[r][n] \notin Working
    BY <1>1, LaunchSlots DEF Launched, Same
  <1>2. CASE \A h \in Handlers : ~LaunchWorker(h)
    <2>1. TInv'
      BY StepTypes DEF LInv
    <2> QED
      BY <1>2, <2>1, EvolvingSteps, EvolveKeeps
  <1> QED
    BY <1>1, <1>2

\* A step ends a stop with the end of its worker, or leaves it ended.
LEMMA StopsEndedStep ==
  ASSUME LInv, StopsEnded, [Next]_vars
  PROVE  StopsEnded'
  <1> SUFFICES ASSUME NEW g \in Handlers, NEW r \in Runs, NEW n \in Numbers,
                      pc'[g] = "stopDone", req'[g].run = r, req'[g].att = n
               PROVE  proc'[r][n] \notin Working
    BY DEF StopsEnded
  <1>0. TInv /\ ControlOK
    BY TInvParts DEF LInv
  <1>1. CASE pc[g] = "stopDone" /\ req'[g] = req[g]
    <2>1. n <= run[r].count
      BY <1>1 DEF LInv, Remembered
    <2>2. n \in Nat /\ run[r].count \in Nat
      BY <1>0, CountTypes DEF Numbers
    <2>3. attempt[r][n] # "none"
      BY <2>1, <2>2 DEF LInv, Numbered
    <2> QED
      BY <1>1, <2>3, EndedStaysEnded DEF StopsEnded
  <1>2. ASSUME NEW h \in Handlers, Operator(h) \/ Continue(h)
        PROVE  proc'[r][n] \notin Working
    <2>1. Alone(h) /\ g # h
      BY <1>0, <1>2, RequestsEndNoStop, OperatorMoves, ContinueMoves DEF Moves
    <2> QED
      BY <1>1, <2>1 DEF Alone
  <1>3. ASSUME NEW h \in Handlers, StopTimedOut(h) PROVE proc'[r][n] \notin Working
    <2>1. Alone(h)
      BY <1>0, <1>3, TimeoutPromises DEF LInv
    <2>2. CASE g # h
      BY <1>1, <2>1, <2>2 DEF Alone
    <2>3. CASE g = h
      <3>1. req' = req
        BY <1>0, <1>3, <2>3 DEF StopTimedOut, Refused, Goto, Done, ControlOK
      <3> QED
        BY <1>3, <2>3, <3>1, TimeoutSteps
    <2> QED
      BY <2>2, <2>3
  <1>4. ASSUME NEW s \in Runs, NEW m \in Numbers, NEW status, WorkerExit(s, m, status)
        PROVE  proc'[r][n] \notin Working
    <2>1. CASE waiter[s][m] = g
      <3>1. Stopping(g, s, m)
        BY <2>1 DEF LInv, PromiseHolderWaits
      <3>2. r = s /\ n = m
        BY <1>4, <3>1 DEF WorkerExit, Stopping
      <3> QED
        BY <1>0, <1>4, <3>2, SlotTypes DEF WorkerExit, Exited, Working
    <2>2. CASE waiter[s][m] # g
      BY <1>0, <1>1, <1>4, <2>2 DEF WorkerExit, ControlOK
    <2> QED
      BY <2>1, <2>2
  <1>5. CASE UNCHANGED control
    BY <1>1, <1>5 DEF control
  <1>6. CASE Failure
    BY <1>6 DEF Failure, Crash, CrashWhileLaunching, CrashWhileFinishing, GoDown, MemoryLost
  <1> QED
    BY <1>2, <1>3, <1>4, <1>5, <1>6
    DEF Next, Exit, UnwatchedExit, StrayExits, DeleteAgent, Restart, vars, control

\* The step by which a start that is being undone returns.
LEMMA UndoneStep ==
  ASSUME LInv, StopsEnded, [Next]_vars,
         NEW h \in Handlers, NEW r \in Runs, NEW n \in Numbers,
         Undoing(h, r, n), pc'[h] = "idle", up'
  PROVE  proc'[r][n] \notin Working
  <1>0. TInv /\ ControlOK /\ pc[h] # "idle" /\ n # None
    BY TInvParts DEF LInv, Undoing, Numbers, None
  <1>1. ASSUME NEW g \in Handlers, Operator(g) PROVE FALSE
    BY <1>0, <1>1, OperatorMoves DEF Moves, Alone, Operator, Accept, RequestStart, RequestStop,
       StopUnstarted, RequestKill, RequestRestart, RequestDispatch, StopUnlinkedAgent,
       RequestReplace, RequestReject
  <1>2. ASSUME NEW g \in Handlers, Continue(g) PROVE proc'[r][n] \notin Working
    <2>1. g = h
      BY <1>0, <1>2, ContinueMoves DEF Moves, Alone
    <2>2. pc[h] \in {"started", "caught", "stopWait", "stopDone"}
      BY DEF Undoing
    <2>3. \/ UndoRejectedStart(h) \/ StopReturned(h)
          \/ /\ pc[h] \in {"started", "caught"}
             /\ StartReturned(h) \/ DispatchThrew(h) \/ StartThrew(h)
      BY <1>2, <2>1, <2>2 DEF Continue, LaunchWorker, LaunchCancelled, LaunchFails,
         PrepareFailureLogged, SpawnFailureLogged, StartLogged, DispatchLogged,
         StartFailureLogged, StartReturned, DispatchThrew, StartThrew
    <2>4. CASE UndoRejectedStart(h)
      <3>1. run[r].cur = n /\ req[h].run = r
        BY <2>4 DEF Undoing, UndoRejectedStart
      <3>2. BeginStop(h, r, IF pc[h] = "caught" THEN "undo" ELSE req[h].op)
        BY <1>0, <2>4, <3>1 DEF UndoRejectedStart
      <3>3. MayRefuse(r, n) /\ UNCHANGED workers
        BY <1>0, <3>1, <3>2 DEF BeginStop, ControlOK
      <3> QED
        BY <3>3 DEF MayRefuse, workers, Working
    <2>5. CASE StopReturned(h)
      <3>1. pc[h] = "stopDone" /\ req[h].run = r /\ req[h].att = n
        BY <2>5 DEF Undoing, StopReturned
      <3>2. UNCHANGED workers
        BY <2>5 DEF StopReturned
      <3> QED
        BY <3>1, <3>2 DEF StopsEnded, workers
    <2>6. CASE /\ pc[h] \in {"started", "caught"}
               /\ StartReturned(h) \/ DispatchThrew(h) \/ StartThrew(h)
      BY <2>6 DEF Undoing, StartReturned, DispatchThrew, StartThrew
    <2> QED
      BY <2>3, <2>4, <2>5, <2>6
  <1>3. ASSUME NEW g \in Handlers, StopTimedOut(g) PROVE proc'[r][n] \notin Working
    <2>1. g = h
      BY <1>0, <1>3, TimeoutPromises DEF LInv, Alone
    <2>2. req[h].run = r /\ req[h].att = n
      BY <1>3, <2>1 DEF StopTimedOut, Undoing
    <2> QED
      BY <1>3, <2>1, <2>2, TimeoutSteps
  <1>4. ASSUME NEW s \in Runs, NEW m \in Numbers, NEW status, WorkerExit(s, m, status)
        PROVE  FALSE
    BY <1>0, <1>4 DEF WorkerExit, ControlOK
  <1>5. CASE UNCHANGED control
    BY <1>0, <1>5 DEF control
  <1>6. CASE Failure
    BY <1>6 DEF Failure, Crash, CrashWhileLaunching, CrashWhileFinishing, GoDown
  <1> QED
    BY <1>1, <1>2, <1>3, <1>4, <1>5, <1>6
    DEF Next, Exit, UnwatchedExit, StrayExits, DeleteAgent, Restart, vars, control

\* A start that a rejection of the agent overtakes returns only when the worker
\* it found current is gone or was sent SIGKILL, for any number of requests in
\* flight and whatever they do to the run meanwhile.
THEOREM RejectionIsCarriedOut == Spec => RejectedStartUndone
  <1>1. Init => LInv /\ StopsEnded
    BY InitialLedger DEF Init, StopsEnded
  <1>2. LInv /\ StopsEnded /\ [Next]_vars => (LInv /\ StopsEnded)'
    BY StepLedger, StopsEndedStep
  <1>3. LInv /\ StopsEnded /\ [Next]_vars =>
          [\A h \in Handlers, r \in Runs, n \in Numbers :
             Undoing(h, r, n) /\ pc'[h] = "idle" /\ up' => proc'[r][n] \notin Working]_vars
    BY UndoneStep
  <1> QED
    BY <1>1, <1>2, <1>3, PTL DEF Spec, RejectedStartUndone
=============================================================================

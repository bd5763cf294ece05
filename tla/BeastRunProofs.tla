---------------------------- MODULE BeastRunProofs ----------------------------
(***************************************************************************)
(* Theorems about the run lifecycle, for any number of runs, requests in   *)
(* flight, attempts, crashes, and either setting of every switch.          *)
(***************************************************************************)
EXTENDS BeastRunProperties, TLAPS

-----------------------------------------------------------------------------
(* Operators that update the records                                       *)

\* A finished record is a run record: updateRun never writes a status that
\* runs do not have.
LEMMA StampedType ==
  ASSUME NEW rec \in RunRecord, NEW status \in RunStatus, NEW stamp \in Nat
  PROVE  [rec EXCEPT !.status = status, !.fin = stamp] \in RunRecord
  BY DEF RunRecord

LEMMA FinishedType ==
  ASSUME NEW rec \in RunRecord, NEW status \in TerminalStatus
  PROVE  /\ Finished(rec, status) \in RunRecord
         /\ Finished(rec, status).status = status
         /\ Finished(rec, status).cur = rec.cur
         /\ Finished(rec, status).count = rec.count
  <1>1. status \in RunStatus /\ rec.fin + 1 \in Nat
    BY DEF RunStatus, RunRecord
  <1>2. Finished(rec, status) \in RunRecord
    BY <1>1, StampedType DEF Finished
  <1> QED
    BY <1>2 DEF Finished, RunRecord

\* syncTrackedAgent writes an agent status, whatever the run's status is.
LEMMA SyncedType ==
  ASSUME NEW ag \in AgentRecord, NEW r \in Runs, NEW status
  PROVE  Synced(ag, r, status) \in AgentRecord
  BY DEF Synced, AgentStatusOf, AgentRecord, AgentStatus

\* The capacity reservation of a start and its failure transactions keep the
\* agent's vocabulary too.
LEMMA AgentUpdatesType ==
  ASSUME NEW ag \in AgentRecord, NEW r \in Runs
  PROVE  /\ Reserved(ag, r) \in AgentRecord
         /\ AgentFailed(ag, r) \in AgentRecord
         /\ AgentFailedOnce(ag, r) \in AgentRecord
  BY DEF Reserved, AgentFailed, AgentFailedOnce, AgentRecord, AgentStatus

LEMMA AgentStatusType ==
  ASSUME NEW ag \in AgentRecord, NEW status \in AgentStatus
  PROVE  [ag EXCEPT !.status = status] \in AgentRecord
  BY DEF AgentRecord

\* The row that createRun inserts.
LEMMA AbsentRunType ==
  /\ AbsentRun \in RunRecord
  /\ [AbsentRun EXCEPT !.status = "queued"] \in RunRecord
  /\ [AbsentRun EXCEPT !.status = "queued"].status = "queued"
  /\ [AbsentRun EXCEPT !.status = "queued"].cur = 0
  /\ [AbsentRun EXCEPT !.status = "queued"].count = 0
  BY BoundsAssumption DEF AbsentRun, RunRecord, RunStatus, None

-----------------------------------------------------------------------------
(* Type correctness                                                        *)

\* A request that is in flight remembers what it is about.
BusyRequests == \A h \in Handlers : pc[h] # "idle" => req[h] \in Request

TInv == TypeOK /\ BusyRequests

\* The requests' part of the types: what a step may do to pc and req.
ControlOK ==
  /\ pc \in [Handlers -> {"idle"} \cup Suspended \cup MicroSteps]
  /\ req \in [Handlers -> Request \cup {NoRequest}]
  /\ BusyRequests

StoreOK ==
  /\ run \in [Runs -> RunRecord]
  /\ attempt \in [Runs -> [Numbers -> AttemptStatus]]

WorkersOK ==
  /\ proc \in [Runs -> [Numbers -> ProcStatus]]
  /\ watched \in [Runs -> SUBSET Numbers]

ExitsOK ==
  /\ stopping \in [Runs -> SUBSET Numbers]
  /\ waiter \in [Runs -> [Numbers -> Handlers \cup {NoHandler}]]

EnvOK ==
  /\ up \in BOOLEAN
  /\ requests \in Nat
  /\ crashes \in Nat
  /\ strays \subseteq Runs \X (0..crashes)

\* TInv, regrouped the way the actions leave variables unchanged.
LEMMA TInvParts ==
  TInv <=> StoreOK /\ agent \in AgentRecord /\ WorkersOK /\ ExitsOK /\ ControlOK /\ EnvOK
  BY DEF TInv, TypeOK, StoreOK, WorkersOK, ExitsOK, ControlOK, EnvOK

LEMMA TInvPartsPrimed ==
  TInv' <=> /\ StoreOK' /\ (agent \in AgentRecord)' /\ WorkersOK' /\ ExitsOK'
            /\ ControlOK' /\ EnvOK'
  BY DEF TInv, TypeOK, StoreOK, WorkersOK, ExitsOK, ControlOK, EnvOK, BusyRequests

\* What an action leaves alone keeps its type.
LEMMA UnchangedParts ==
  /\ StoreOK /\ UNCHANGED store => StoreOK'
  /\ WorkersOK /\ UNCHANGED workers => WorkersOK'
  /\ ExitsOK /\ UNCHANGED exits => ExitsOK'
  /\ ControlOK /\ UNCHANGED control => ControlOK'
  /\ EnvOK /\ UNCHANGED env => EnvOK'
  BY DEF StoreOK, WorkersOK, ExitsOK, ControlOK, EnvOK, store, workers, exits,
         control, env, BusyRequests

\* A worker without an attempt is spawned by a daemon that has not died yet.
LEMMA StraysType ==
  ASSUME EnvOK, up' \in BOOLEAN, requests' \in Nat,
         crashes' = crashes \/ crashes' = crashes + 1,
         \/ strays' \subseteq strays
         \/ \E r \in Runs : Strayed(r)
  PROVE  EnvOK'
  <1>1. crashes \in Nat /\ crashes' \in Nat /\ crashes <= crashes'
    BY DEF EnvOK
  <1>2. 0..crashes \subseteq 0..crashes' /\ crashes \in 0..crashes'
    BY <1>1
  <1>3. strays \subseteq Runs \X (0..crashes')
    BY <1>2 DEF EnvOK
  <1>4. strays' \subseteq Runs \X (0..crashes')
    BY <1>2, <1>3 DEF Strayed
  <1> QED
    BY <1>1, <1>4 DEF EnvOK

\* A request ends, or goes on to another label with what it remembers.
LEMMA DoneType ==
  ASSUME ControlOK, NEW h \in Handlers, Done(h)
  PROVE  ControlOK'
  BY DEF ControlOK, Done, BusyRequests

LEMMA GotoType ==
  ASSUME ControlOK, NEW h \in Handlers, pc[h] # "idle",
         NEW label \in Suspended \cup MicroSteps, Goto(h, label)
  PROVE  ControlOK'
  BY DEF ControlOK, Goto, BusyRequests

LEMMA EnterType ==
  ASSUME ControlOK, NEW h \in Handlers,
         NEW label \in Suspended \cup MicroSteps, NEW q \in Request,
         pc' = [pc EXCEPT ![h] = label], req' = [req EXCEPT ![h] = q]
  PROVE  ControlOK'
  BY DEF ControlOK, BusyRequests

\* A stop begins, or is refused.
LEMMA BeginStopType ==
  ASSUME TInv, NEW h \in Handlers, NEW r \in Runs, NEW op \in Operations,
         op \in {"start", "dispatch"} => pc[h] # "idle",
         run[r].cur # None, BeginStop(h, r, op)
  PROVE  WorkersOK' /\ ExitsOK' /\ ControlOK'
  <1> DEFINE n == run[r].cur
  <1>1. /\ run[r] \in RunRecord /\ n \in 0..MaxAttempts /\ n \in Numbers
        /\ WorkersOK /\ ExitsOK /\ ControlOK
    BY TInvParts, BoundsAssumption DEF StoreOK, RunRecord, Numbers, None
  <1>2. CASE /\ waiter' = [waiter EXCEPT ![r][n] = h]
             /\ stopping' = [stopping EXCEPT ![r] = @ \cup {n}]
             /\ proc' = [proc EXCEPT ![r][n] = Terminated(@)]
             /\ pc' = [pc EXCEPT ![h] = "stopWait"]
             /\ req' = [req EXCEPT ![h] = [op |-> op, run |-> r, att |-> n, prior |-> run[r]]]
             /\ UNCHANGED watched
    <2>1. [op |-> op, run |-> r, att |-> n, prior |-> run[r]] \in Request
      BY <1>1 DEF Request
    <2>2. ControlOK'
      BY <1>1, <1>2, <2>1, EnterType DEF Suspended
    <2>3. ExitsOK'
      BY <1>1, <1>2 DEF ExitsOK
    <2>4. WorkersOK'
      BY <1>1, <1>2 DEF WorkersOK, Terminated, ProcStatus
    <2> QED
      BY <2>2, <2>3, <2>4
  <1>3. CASE /\ waiter' = [waiter EXCEPT ![r][n] = NoHandler]
             /\ stopping' = [stopping EXCEPT ![r] = @ \ {n}]
             /\ Refused(h, op)
             /\ UNCHANGED workers
    <2>1. ControlOK'
      BY <1>1, <1>3, DoneType, GotoType DEF Refused, MicroSteps
    <2>2. ExitsOK'
      BY <1>1, <1>3 DEF ExitsOK
    <2> QED
      BY <1>1, <1>3, <2>1, <2>2, UnchangedParts
  <1> QED
    BY <1>2, <1>3 DEF BeginStop

\* A start goes to the executor.
LEMMA BeginStartType ==
  ASSUME TInv, NEW h \in Handlers, NEW r \in Runs, NEW rec \in RunRecord,
         NEW ag \in AgentRecord, BeginStart(h, r, rec, ag)
  PROVE  agent' \in AgentRecord /\ ControlOK'
  <1>1. [op |-> "start", run |-> r, att |-> None, prior |-> rec] \in Request
    BY BoundsAssumption DEF Request, Operations, None
  <1>2. ControlOK'
    BY <1>1, TInvParts, EnterType DEF BeginStart, MicroSteps
  <1> QED
    BY <1>2, AgentUpdatesType DEF BeginStart

\* A run is inserted.
LEMMA CreateRunType ==
  ASSUME TInv, NEW h \in Handlers, NEW r \in Runs,
         NEW runs \in [Runs -> RunRecord], CreateRun(h, r, runs)
  PROVE  /\ run' \in [Runs -> RunRecord]
         /\ agent' \in AgentRecord
         /\ ControlOK'
  <1> DEFINE queued == [AbsentRun EXCEPT !.status = "queued"]
  <1>1. [op |-> "dispatch", run |-> r, att |-> None, prior |-> queued] \in Request
    BY AbsentRunType, BoundsAssumption DEF Request, Operations, None
  <1>2. ControlOK'
    <2>1. CASE Done(h)
      BY <2>1, TInvParts, DoneType
    <2>2. CASE /\ pc' = [pc EXCEPT ![h] = "dispLog"]
               /\ req' = [req EXCEPT ![h] = [op |-> "dispatch", run |-> r, att |-> None,
                                             prior |-> queued]]
      BY <1>1, <2>2, TInvParts, EnterType DEF Suspended
    <2> QED
      BY <2>1, <2>2 DEF CreateRun
  <1>3. agent' \in AgentRecord
    BY DEF CreateRun, AgentRecord, AgentStatus
  <1>4. run' \in [Runs -> RunRecord]
    BY AbsentRunType DEF CreateRun
  <1> QED
    BY <1>2, <1>3, <1>4

\* A run is finished.
LEMMA FinishRunType ==
  ASSUME StoreOK, NEW r \in Runs, NEW status \in TerminalStatus
  PROVE  [run EXCEPT ![r] = Finished(@, status)] \in [Runs -> RunRecord]
  BY FinishedType DEF StoreOK

\* The request in flight and its run.
LEMMA BusyType ==
  ASSUME TInv, NEW h \in Handlers, pc[h] # "idle"
  PROVE  /\ req[h] \in Request
         /\ req[h].run \in Runs
         /\ req[h].att \in 0..MaxAttempts
         /\ req[h].op \in Operations
         /\ req[h].prior \in RunRecord
  BY DEF TInv, BusyRequests, Request

LEMMA AcceptType ==
  ASSUME TInv, NEW h \in Handlers, Accept(h)
  PROVE  EnvOK' /\ pc[h] = "idle"
  <1>1. EnvOK
    BY TInvParts
  <1>2. up' \in BOOLEAN /\ requests' \in Nat /\ UNCHANGED <<crashes, strays>>
    BY <1>1 DEF Accept, EnvOK
  <1> QED
    BY <1>1, <1>2, StraysType DEF Accept

\* Every operator request keeps the types.
LEMMA OperatorType ==
  ASSUME TInv, NEW h \in Handlers, Operator(h)
  PROVE  TInv'
  <1>0. /\ StoreOK /\ agent \in AgentRecord /\ WorkersOK /\ ExitsOK /\ ControlOK /\ EnvOK
        /\ \A r \in Runs : run[r] \in RunRecord
        /\ {"stopped", "killed"} \subseteq TerminalStatus
        /\ {"stop", "restart", "replace", "reject"} \subseteq Operations
    BY TInvParts DEF StoreOK, TerminalStatus, Operations
  <1>1. ASSUME NEW r \in Runs, RequestStart(h, r) PROVE TInv'
    BY <1>0, <1>1, BeginStartType, AcceptType, UnchangedParts, TInvPartsPrimed
    DEF RequestStart
  <1>2. ASSUME NEW r \in Runs, RequestStop(h, r) PROVE TInv'
    <2>1. WorkersOK' /\ ExitsOK' /\ ControlOK'
      BY <1>0, <1>2, BeginStopType DEF RequestStop
    <2> QED
      BY <1>0, <1>2, <2>1, AcceptType, UnchangedParts, TInvPartsPrimed DEF RequestStop
  <1>3. ASSUME NEW r \in Runs, StopUnstarted(h, r) PROVE TInv'
    <2>1. StoreOK' /\ agent' \in AgentRecord
      BY <1>0, <1>3, FinishRunType, SyncedType DEF StopUnstarted, StoreOK
    <2> QED
      BY <1>0, <1>3, <2>1, AcceptType, UnchangedParts, TInvPartsPrimed DEF StopUnstarted
  <1>4. ASSUME NEW r \in Runs, RequestKill(h, r) PROVE TInv'
    <2>1. StoreOK' /\ agent' \in AgentRecord
      BY <1>0, <1>4, FinishRunType, SyncedType DEF RequestKill, StoreOK, AttemptStatus
    <2>2. WorkersOK'
      BY <1>0, <1>4 DEF RequestKill, WorkersOK, Killed, ProcStatus
    <2> QED
      BY <1>0, <1>4, <2>1, <2>2, AcceptType, UnchangedParts, TInvPartsPrimed DEF RequestKill
  <1>5. ASSUME NEW r \in Runs, RequestRestart(h, r) PROVE TInv'
    <2>1. CASE BeginStop(h, r, "restart") /\ run[r].cur # None /\ UNCHANGED <<store, agent>>
      <3>1. WorkersOK' /\ ExitsOK' /\ ControlOK'
        BY <1>0, <2>1, BeginStopType
      <3> QED
        BY <1>0, <1>5, <2>1, <3>1, AcceptType, UnchangedParts, TInvPartsPrimed
        DEF RequestRestart
    <2>2. CASE /\ run' = [run EXCEPT ![r] = Finished(@, "stopped")]
               /\ BeginStart(h, r, Finished(run[r], "stopped"), Synced(agent, r, "stopped"))
               /\ UNCHANGED <<attempt, workers, exits>>
      <3>1. StoreOK'
        BY <1>0, <2>2, FinishRunType DEF StoreOK
      <3>2. agent' \in AgentRecord /\ ControlOK'
        BY <1>0, <2>2, FinishedType, SyncedType, BeginStartType
      <3> QED
        BY <1>0, <1>5, <2>2, <3>1, <3>2, AcceptType, UnchangedParts, TInvPartsPrimed
        DEF RequestRestart
    <2>3. CASE BeginStart(h, r, run[r], agent) /\ UNCHANGED <<store, workers, exits>>
      BY <1>0, <1>5, <2>3, BeginStartType, AcceptType, UnchangedParts, TInvPartsPrimed
      DEF RequestRestart
    <2> QED
      BY <1>5, <2>1, <2>2, <2>3 DEF RequestRestart
  <1>6. ASSUME NEW r \in Runs, RequestDispatch(h, r) PROVE TInv'
    <2>1. StoreOK' /\ agent' \in AgentRecord /\ ControlOK'
      BY <1>0, <1>6, CreateRunType DEF RequestDispatch, StoreOK
    <2> QED
      BY <1>0, <1>6, <2>1, AcceptType, UnchangedParts, TInvPartsPrimed DEF RequestDispatch
  <1>7. ASSUME StopUnlinkedAgent(h) PROVE TInv'
    <2>1. agent' \in AgentRecord
      BY <1>0, <1>7, AgentStatusType DEF StopUnlinkedAgent, AgentStatus
    <2> QED
      BY <1>0, <1>7, <2>1, AcceptType, UnchangedParts, TInvPartsPrimed DEF StopUnlinkedAgent
  <1>8. ASSUME RequestReplace(h) PROVE TInv'
    <2> DEFINE r == agent.run
    <2>0. r \in Runs
      BY <1>8 DEF RequestReplace, Attempted
    <2>1. CASE run[r].cur # None /\ BeginStop(h, r, "replace") /\ UNCHANGED <<store, agent>>
      <3>1. WorkersOK' /\ ExitsOK' /\ ControlOK'
        BY <1>0, <2>0, <2>1, BeginStopType
      <3> QED
        BY <1>0, <1>8, <2>1, <3>1, AcceptType, UnchangedParts, TInvPartsPrimed
        DEF RequestReplace
    <2>2. ASSUME NEW fresh \in Runs,
                 CreateRun(h, fresh, [run EXCEPT ![r] = Finished(@, "stopped")]),
                 UNCHANGED <<attempt, workers, exits>>
          PROVE  TInv'
      <3>1. StoreOK' /\ agent' \in AgentRecord /\ ControlOK'
        BY <1>0, <2>0, <2>2, FinishRunType, CreateRunType DEF StoreOK
      <3> QED
        BY <1>0, <1>8, <2>2, <3>1, AcceptType, UnchangedParts, TInvPartsPrimed
        DEF RequestReplace
    <2> QED
      BY <1>8, <2>1, <2>2 DEF RequestReplace
  <1>9. ASSUME RequestReject(h) PROVE TInv'
    <2> DEFINE r == agent.run
    <2>1. CASE /\ r \in Runs /\ run[r].cur # None
               /\ BeginStop(h, r, "reject") /\ UNCHANGED <<store, agent>>
      <3>1. WorkersOK' /\ ExitsOK' /\ ControlOK'
        BY <1>0, <2>1, BeginStopType
      <3> QED
        BY <1>0, <1>9, <2>1, <3>1, AcceptType, UnchangedParts, TInvPartsPrimed
        DEF RequestReject
    <2>2. CASE /\ r \in Runs
               /\ run' = [run EXCEPT ![r] = Finished(@, "stopped")]
               /\ agent' = [agent EXCEPT !.status = "rejected"]
               /\ UNCHANGED <<attempt, workers, exits, control>>
      <3>1. StoreOK' /\ agent' \in AgentRecord
        BY <1>0, <2>2, FinishRunType, AgentStatusType DEF StoreOK, AgentStatus
      <3> QED
        BY <1>0, <1>9, <2>2, <3>1, AcceptType, UnchangedParts, TInvPartsPrimed
        DEF RequestReject
    <2>3. CASE /\ agent' = [agent EXCEPT !.status = "rejected"]
               /\ UNCHANGED <<store, workers, exits, control>>
      <3>1. agent' \in AgentRecord
        BY <1>0, <2>3, AgentStatusType DEF AgentStatus
      <3> QED
        BY <1>0, <1>9, <2>3, <3>1, AcceptType, UnchangedParts, TInvPartsPrimed
        DEF RequestReject
    <2> QED
      BY <1>9, <2>1, <2>2, <2>3 DEF RequestReject
  <1> QED
    BY <1>1, <1>2, <1>3, <1>4, <1>5, <1>6, <1>7, <1>8, <1>9 DEF Operator

\* So does every continuation of a request.
LEMMA ContinueType ==
  ASSUME TInv, NEW h \in Handlers, Continue(h)
  PROVE  TInv'
  <1> DEFINE r == req[h].run
             n == run[r].count + 1
  <1>0. /\ StoreOK /\ agent \in AgentRecord /\ WorkersOK /\ ExitsOK /\ ControlOK /\ EnvOK
        /\ {"stopped", "failed", "killed"} \subseteq TerminalStatus
        /\ {"undo", "start", "dispatch"} \subseteq Operations
        /\ {"prepLog", "spawnLog", "failLog", "startLog", "caught", "started", "launch"}
             \subseteq Suspended \cup MicroSteps
    BY TInvParts DEF TerminalStatus, Operations, Suspended, MicroSteps
  <1>1. pc[h] # "idle"
    BY DEF Continue, LaunchWorker, LaunchCancelled, LaunchFails, PreparationFails, SpawnFails,
           AttemptNotStored, PrepareFailureLogged,
           SpawnFailureLogged, StartLogged, DispatchLogged, UndoRejectedStart, StartReturned,
           DispatchThrew, StartThrew, StartFailureLogged, StopReturned
  <1>2. /\ r \in Runs /\ run[r] \in RunRecord /\ req[h].op \in Operations
        /\ req[h].prior \in RunRecord
    BY <1>0, <1>1, BusyType DEF StoreOK
  <1>3. /\ Done(h) => ControlOK'
        /\ \A label \in Suspended \cup MicroSteps : Goto(h, label) => ControlOK'
    BY <1>0, <1>1, DoneType, GotoType
  <1>4. \A status \in TerminalStatus : run' = [run EXCEPT ![r] = Finished(@, status)] =>
          run' \in [Runs -> RunRecord]
    BY <1>0, <1>2, FinishRunType
  <1>5. CASE LaunchWorker(h)
    <2>1. StoreOK'
      <3>1. n \in Numbers /\ n \in 0..MaxAttempts
        BY <1>5, BoundsAssumption DEF LaunchWorker, Numbers
      <3>2. [run[r] EXCEPT !.status = "running", !.cur = n, !.count = n] \in RunRecord
        BY <1>2, <3>1 DEF RunRecord, RunStatus
      <3>3. run' \in [Runs -> RunRecord]
        BY <1>0, <1>5, <3>2 DEF LaunchWorker, StoreOK
      <3>4. attempt' \in [Runs -> [Numbers -> AttemptStatus]]
        BY <1>0, <1>5 DEF LaunchWorker, StoreOK, AttemptStatus
      <3> QED
        BY <3>3, <3>4 DEF StoreOK
    <2>2. WorkersOK'
      BY <1>0, <1>2, <1>5 DEF LaunchWorker, Spawned, WorkersOK, ProcStatus
    <2> QED
      BY <1>0, <1>3, <1>5, <2>1, <2>2, UnchangedParts, TInvPartsPrimed DEF LaunchWorker
  <1>6. CASE LaunchCancelled(h)
    BY <1>0, <1>3, <1>6, UnchangedParts, TInvPartsPrimed DEF LaunchCancelled
  <1>7. CASE LaunchFails(h)
    <2>1. EnvOK'
      BY <1>0, <1>2, <1>7, StraysType DEF LaunchFails, AttemptNotStored, EnvOK
    <2> QED
      BY <1>0, <1>3, <1>7, <2>1, UnchangedParts, TInvPartsPrimed
      DEF LaunchFails, PreparationFails, SpawnFails, AttemptNotStored
  <1>8. CASE PrepareFailureLogged(h)
    BY <1>0, <1>3, <1>8, UnchangedParts, TInvPartsPrimed DEF PrepareFailureLogged
  <1>9. CASE SpawnFailureLogged(h)
    <2>1. StoreOK' /\ agent' \in AgentRecord
      BY <1>0, <1>2, <1>4, <1>9, SyncedType DEF SpawnFailureLogged, StoreOK
    <2> QED
      BY <1>0, <1>3, <1>9, <2>1, UnchangedParts, TInvPartsPrimed DEF SpawnFailureLogged
  <1>10. CASE StartLogged(h)
    BY <1>0, <1>3, <1>10, UnchangedParts, TInvPartsPrimed DEF StartLogged
  <1>11. CASE DispatchLogged(h)
    <2>1. StoreOK'
      BY <1>0, <1>2, <1>4, <1>11, UnchangedParts DEF DispatchLogged, StoreOK
    <2> QED
      BY <1>0, <1>3, <1>11, <2>1, UnchangedParts, TInvPartsPrimed DEF DispatchLogged
  <1>12. CASE UndoRejectedStart(h)
    <2> DEFINE op == IF pc[h] = "caught" THEN "undo" ELSE req[h].op
    <2>0. op \in Operations
      BY <1>0, <1>2
    <2>1. CASE run[r].cur # None /\ BeginStop(h, r, op) /\ UNCHANGED run
      <3>1. WorkersOK' /\ ExitsOK' /\ ControlOK'
        BY <1>1, <1>2, <2>0, <2>1, BeginStopType
      <3> QED
        BY <1>0, <1>12, <2>1, <3>1, UnchangedParts, TInvPartsPrimed
        DEF UndoRejectedStart, StoreOK
    <2>2. CASE /\ run' = [run EXCEPT ![r] = Finished(@, "stopped")]
               /\ Done(h) /\ UNCHANGED <<workers, exits>>
      <3>1. StoreOK'
        BY <1>0, <1>4, <1>12, <2>2 DEF StoreOK, UndoRejectedStart
      <3> QED
        BY <1>0, <1>3, <1>12, <2>2, <3>1, UnchangedParts, TInvPartsPrimed
        DEF UndoRejectedStart
    <2> QED
      BY <1>12, <2>1, <2>2 DEF UndoRejectedStart
  <1>13. CASE StartReturned(h)
    <2>1. agent' \in AgentRecord
      <3>1. DispatchedStatus(run[r].status) \in AgentStatus
        BY DEF DispatchedStatus, AgentStatus
      <3> QED
        BY <1>0, <1>2, <1>13, <3>1, SyncedType, AgentStatusType DEF StartReturned
    <2> QED
      BY <1>0, <1>3, <1>13, <2>1, UnchangedParts, TInvPartsPrimed DEF StartReturned
  <1>14. CASE DispatchThrew(h)
    <2>1. agent' \in AgentRecord
      BY <1>0, <1>14, AgentStatusType DEF DispatchThrew, AgentStatus
    <2>2. StoreOK'
      BY <1>0, <1>4, <1>14 DEF StoreOK, DispatchThrew
    <2> QED
      BY <1>0, <1>3, <1>14, <2>1, <2>2, UnchangedParts, TInvPartsPrimed DEF DispatchThrew
  <1>15. CASE StartThrew(h)
    <2>1. agent' \in AgentRecord
      BY <1>0, <1>2, <1>15, SyncedType, AgentUpdatesType DEF StartThrew
    <2>2. run' \in [Runs -> RunRecord]
      <3>1. CASE UNCHANGED run
        BY <1>0, <3>1 DEF StoreOK
      <3>2. CASE run' = [run EXCEPT ![r] = [@ EXCEPT !.status = req[h].prior.status,
                           !.cur = req[h].prior.cur, !.fin = req[h].prior.fin]]
        BY <1>0, <1>2, <3>2 DEF StoreOK, RunRecord
      <3>3. CASE run' = [run EXCEPT ![r] = [Finished(@, "failed") EXCEPT !.cur = None]]
        <4>1. Finished(run[r], "failed") \in RunRecord
          BY <1>0, <1>2, FinishedType
        <4>2. [Finished(run[r], "failed") EXCEPT !.cur = None] \in RunRecord
          BY <4>1, BoundsAssumption DEF RunRecord, None
        <4> QED
          BY <1>0, <3>3, <4>2 DEF StoreOK
      <3> QED
        BY <1>15, <3>1, <3>2, <3>3 DEF StartThrew
    <2>3. StoreOK' /\ ControlOK'
      BY <1>0, <1>3, <1>15, <2>2 DEF StoreOK, StartThrew
    <2> QED
      BY <1>0, <1>15, <2>1, <2>3, UnchangedParts, TInvPartsPrimed DEF StartThrew
  <1>16. CASE StartFailureLogged(h)
    <2>1. StoreOK'
      BY <1>0, <1>2, <1>16, BoundsAssumption DEF StartFailureLogged, StoreOK, RunRecord, None
    <2>2. agent' \in AgentRecord
      BY <1>0, <1>2, <1>16, AgentUpdatesType DEF StartFailureLogged
    <2> QED
      BY <1>0, <1>3, <1>16, <2>1, <2>2, UnchangedParts, TInvPartsPrimed DEF StartFailureLogged
  <1>17. CASE StopReturned(h)
    <2> DEFINE synced == Synced(agent, r, run[r].status)
    <2>1. synced \in AgentRecord
      BY <1>0, <1>2, SyncedType
    <2>2. run' \in [Runs -> RunRecord] /\ agent' \in AgentRecord /\ ControlOK'
      <3>1. CASE Done(h) /\ UNCHANGED run /\ agent' \in {synced, agent}
        BY <1>0, <1>3, <2>1, <3>1 DEF StoreOK
      <3>2. CASE Done(h) /\ UNCHANGED run /\ agent' = [synced EXCEPT !.status = "rejected"]
        BY <1>0, <1>3, <2>1, <3>2, AgentStatusType DEF StoreOK, AgentStatus
      <3>3. CASE BeginStart(h, r, run[r], synced) /\ UNCHANGED run
        BY <1>0, <1>2, <2>1, <3>3, BeginStartType DEF StoreOK
      <3>4. ASSUME NEW fresh \in Runs, CreateRun(h, fresh, run)
            PROVE  run' \in [Runs -> RunRecord] /\ agent' \in AgentRecord /\ ControlOK'
        BY <1>0, <3>4, CreateRunType DEF StoreOK
      <3> QED
        BY <1>17, <3>1, <3>2, <3>3, <3>4 DEF StopReturned
    <2>3. StoreOK'
      BY <1>0, <1>17, <2>2 DEF StoreOK, StopReturned
    <2> QED
      BY <1>0, <1>17, <2>2, <2>3, UnchangedParts, TInvPartsPrimed DEF StopReturned
  <1> QED
    BY <1>5, <1>6, <1>7, <1>8, <1>9, <1>10, <1>11, <1>12, <1>13, <1>14, <1>15, <1>16, <1>17
    DEF Continue

\* So does the end of a grace period.
LEMMA TimeoutType ==
  ASSUME TInv, NEW h \in Handlers, StopTimedOut(h)
  PROVE  TInv'
  <1> DEFINE r == req[h].run
             n == req[h].att
  <1>0. /\ StoreOK /\ agent \in AgentRecord /\ WorkersOK /\ ExitsOK /\ ControlOK /\ EnvOK
        /\ pc[h] # "idle" /\ r \in Runs
        /\ "stopped" \in TerminalStatus
    BY BusyType, TInvParts DEF StopTimedOut, TerminalStatus
  <1>1. ExitsOK'
    BY <1>0 DEF StopTimedOut, ExitsOK
  <1>2. ASSUME NEW op, Refused(h, op) PROVE ControlOK'
    BY <1>0, <1>2, DoneType, GotoType DEF Refused, MicroSteps
  <1>3. CASE /\ KillOverdue(r, n)
             /\ attempt' = [attempt EXCEPT ![r][n] = "stopped"]
             /\ run' = [run EXCEPT ![r] = Finished(@, "stopped")]
             /\ agent' = Synced(agent, r, "stopped")
             /\ Goto(h, "stopDone")
    <2>1. StoreOK'
      BY <1>0, <1>3, FinishRunType DEF StoreOK, AttemptStatus
    <2>2. WorkersOK'
      BY <1>0, <1>3 DEF StopTimedOut, KillOverdue, Killed, WorkersOK, ProcStatus
    <2>3. agent' \in AgentRecord /\ ControlOK'
      BY <1>0, <1>3, SyncedType, GotoType DEF MicroSteps
    <2> QED
      BY <1>0, <1>1, <2>1, <2>2, <2>3, UnchangedParts, TInvPartsPrimed DEF StopTimedOut
  <1>4. CASE Refused(h, req[h].op) /\ UNCHANGED <<store, agent, proc>>
    <2>1. WorkersOK'
      BY <1>0, <1>4 DEF WorkersOK, StopTimedOut
    <2> QED
      BY <1>0, <1>1, <1>2, <1>4, <2>1, UnchangedParts, TInvPartsPrimed DEF StopTimedOut
  <1> QED
    BY <1>3, <1>4 DEF StopTimedOut

\* So do the exits of workers, because the request that an exit wakes waits.
LEMMA ExitType ==
  ASSUME TInv, PromiseHolderWaits, NEW r \in Runs, NEW n \in Numbers, Exit(r, n)
  PROVE  TInv'
  <1>0. /\ StoreOK /\ agent \in AgentRecord /\ WorkersOK /\ ExitsOK /\ ControlOK /\ EnvOK
    BY TInvParts
  <1>1. ASSUME NEW status \in {"completed", "failed"}, WorkerExit(r, n, status)
        PROVE  TInv'
    <2> DEFINE outcome == IF n \in stopping[r] THEN "stopped" ELSE status
               h == waiter[r][n]
    <2>0. outcome \in TerminalStatus
      BY DEF TerminalStatus
    <2>1. WorkersOK'
      BY <1>0, <1>1 DEF WorkerExit, Exited, WorkersOK, ProcStatus
    <2>2. EnvOK'
      BY <1>0, <1>1, UnchangedParts DEF WorkerExit
    <2>3. ExitsOK'
      BY <1>0, <1>1 DEF WorkerExit, ExitsOK
    <2>4. StoreOK' /\ agent' \in AgentRecord
      <3>1. CASE UNCHANGED <<store, agent>>
        BY <1>0, <3>1, UnchangedParts
      <3>2. CASE /\ attempt' = [attempt EXCEPT ![r][n] = outcome]
                 /\ run' = [run EXCEPT ![r] = Finished(@, outcome)]
                 /\ agent' = Synced(agent, r, outcome)
        BY <1>0, <2>0, <3>2, FinishRunType, SyncedType DEF StoreOK, AttemptStatus
      <3> QED
        BY <1>1, <3>1, <3>2 DEF WorkerExit
    <2>5. ControlOK'
      <3>1. CASE h = NoHandler
        BY <1>0, <1>1, <3>1, UnchangedParts DEF WorkerExit, control
      <3>2. CASE h \in Handlers
        <4>1. pc[h] # "idle" /\ Goto(h, "stopDone")
          BY <1>1, <3>2, NoHandlerAssumption DEF WorkerExit, PromiseHolderWaits, Stopping, Goto
        <4> QED
          BY <1>0, <3>2, <4>1, GotoType DEF MicroSteps
      <3> QED
        BY <1>0, <3>1, <3>2 DEF ExitsOK
    <2> QED
      BY <2>1, <2>2, <2>3, <2>4, <2>5, TInvPartsPrimed
  <1>2. CASE UnwatchedExit(r, n)
    <2>1. WorkersOK'
      BY <1>0, <1>2 DEF UnwatchedExit, WorkersOK, ProcStatus
    <2> QED
      BY <1>0, <1>2, <2>1, UnchangedParts, TInvPartsPrimed DEF UnwatchedExit
  <1> QED
    BY <1>1, <1>2 DEF Exit

\* So do crashes and restarts.
LEMMA MemoryLostType ==
  ASSUME MemoryLost
  PROVE  ExitsOK' /\ ControlOK' /\ watched' \in [Runs -> SUBSET Numbers]
  BY DEF MemoryLost, ExitsOK, ControlOK, BusyRequests

LEMMA FailureType ==
  ASSUME TInv, Failure
  PROVE  TInv'
  <1>0. /\ StoreOK /\ agent \in AgentRecord /\ WorkersOK /\ ExitsOK /\ ControlOK /\ EnvOK
    BY TInvParts
  <1>1. ASSUME GoDown, strays' = strays \/ \E r \in Runs : Strayed(r)
        PROVE  EnvOK' /\ ExitsOK' /\ ControlOK' /\ watched' \in [Runs -> SUBSET Numbers]
    <2>1. EnvOK'
      <3>1. up' = FALSE /\ crashes' = crashes + 1 /\ requests' = requests
        BY <1>1 DEF GoDown
      <3>2. up' \in BOOLEAN /\ requests' \in Nat
        BY <1>0, <3>1 DEF EnvOK
      <3> QED
        BY <1>0, <1>1, <3>1, <3>2, StraysType
    <2>2. MemoryLost
      BY <1>1 DEF GoDown
    <2> QED
      BY <2>1, <2>2, MemoryLostType
  <1>2. CASE Crash
    <2>1. WorkersOK'
      BY <1>0, <1>1, <1>2 DEF Crash, WorkersOK
    <2> QED
      BY <1>0, <1>1, <1>2, <2>1, UnchangedParts, TInvPartsPrimed DEF Crash
  <1>3. ASSUME NEW r \in Runs, NEW n \in Numbers, NEW status \in TerminalStatus,
               CrashWhileFinishing(r, n, status)
        PROVE  TInv'
    <2>0. GoDown /\ strays' = strays
      BY <1>3 DEF CrashWhileFinishing
    <2>1. WorkersOK'
      <3>1. \A p \in ProcStatus : Killed(p) \in ProcStatus
        BY DEF Killed, ProcStatus
      <3>2. proc' \in [Runs -> [Numbers -> ProcStatus]]
        <4>1. CASE proc' = [proc EXCEPT ![r][n] = "dead"]
          BY <1>0, <4>1 DEF WorkersOK, ProcStatus
        <4>2. CASE proc' = [proc EXCEPT ![r][n] = Killed(@)]
          BY <1>0, <3>1, <4>2 DEF WorkersOK
        <4>3. CASE proc' = proc
          BY <1>0, <4>3 DEF WorkersOK
        <4> QED
          BY <1>3, <4>1, <4>2, <4>3 DEF CrashWhileFinishing, KillOverdue
      <3> QED
        BY <1>1, <2>0, <3>2 DEF WorkersOK
    <2>2. StoreOK'
      BY <1>0, <1>3 DEF CrashWhileFinishing, StoreOK, AttemptStatus
    <2> QED
      BY <1>0, <1>1, <1>3, <2>0, <2>1, <2>2, TInvPartsPrimed DEF CrashWhileFinishing
  <1>4. ASSUME NEW h \in Handlers, CrashWhileLaunching(h)
        PROVE  TInv'
    <2>1. GoDown /\ Strayed(req[h].run) /\ req[h].run \in Runs
      BY <1>4, BusyType DEF CrashWhileLaunching
    <2>2. WorkersOK'
      BY <1>0, <1>1, <1>4, <2>1 DEF CrashWhileLaunching, WorkersOK
    <2> QED
      BY <1>0, <1>1, <1>4, <2>1, <2>2, UnchangedParts, TInvPartsPrimed
      DEF CrashWhileLaunching
  <1> QED
    BY <1>2, <1>3, <1>4 DEF Failure

LEMMA RestartType ==
  ASSUME TInv, Restart
  PROVE  TInv'
  <1>0. /\ StoreOK /\ agent \in AgentRecord /\ WorkersOK /\ ExitsOK /\ ControlOK /\ EnvOK
    BY TInvParts
  <1>1. \A r \in Runs : ReconciledStatus(r) \in RunStatus
    <2> SUFFICES ASSUME NEW r \in Runs PROVE ReconciledStatus(r) \in RunStatus
      OBVIOUS
    <2>1. run[r] \in RunRecord
      BY <1>0 DEF StoreOK
    <2>2. run[r].status \in RunStatus /\ "failed" \in RunStatus /\ TerminalStatus \subseteq RunStatus
      BY <2>1 DEF RunRecord, RunStatus, TerminalStatus
    <2> QED
      BY <2>2 DEF ReconciledStatus
  <1>2. run' \in [Runs -> RunRecord]
    BY <1>0, <1>1 DEF Restart, StoreOK, RunRecord
  <1>3. attempt' \in [Runs -> [Numbers -> AttemptStatus]]
    BY <1>0 DEF Restart, StoreOK, AttemptStatus, TerminalStatus
  <1>4. \A status : ReconciledAgentStatus(status) \in AgentStatus
    BY DEF ReconciledAgentStatus, AgentStatusOf, AgentStatus
  <1>5. agent' \in AgentRecord
    BY <1>0, <1>4, AgentStatusType DEF Restart, ReconciledAgent
  <1>6. EnvOK'
    BY <1>0, StraysType DEF Restart, EnvOK
  <1> QED
    BY <1>0, <1>2, <1>3, <1>5, <1>6, UnchangedParts, TInvPartsPrimed DEF Restart, StoreOK

-----------------------------------------------------------------------------
(* Exit promises                                                           *)

\* A step of request h moves no other request.
Alone(h) == \A g \in Handlers \ {h} : pc'[g] = pc[g] /\ req'[g] = req[g]

\* Nor does it leave h waiting for the end of a stop.
Leaves(h) == Alone(h) /\ pc'[h] # "stopWait"

\* Requests and their continuations either leave exitPromises alone or are the
\* beginning of a stop, and none of them is a stop that waits.
Moves(h) ==
  /\ pc[h] # "stopWait"
  /\ Alone(h)
  /\ \/ UNCHANGED exits /\ pc'[h] # "stopWait"
     \/ \E r \in Runs, op \in Operations :
          run[r].cur # None /\ BeginStop(h, r, op)

LEMMA LeavesTypes ==
  ASSUME ControlOK, NEW h \in Handlers
  PROVE  /\ Done(h) => Leaves(h)
         /\ \A label : Goto(h, label) => Alone(h)
         /\ \A label : label # "stopWait" /\ Goto(h, label) => Leaves(h)
         /\ \A label, q : pc' = [pc EXCEPT ![h] = label] /\ req' = [req EXCEPT ![h] = q]
                           => Alone(h) /\ pc'[h] = label
         /\ pc[h] # "stopWait" /\ UNCHANGED control => Leaves(h)
  BY DEF ControlOK, Done, Goto, Leaves, Alone, control

LEMMA LeavesSteps ==
  ASSUME TInv, NEW h \in Handlers
  PROVE  /\ \A r, op : BeginStop(h, r, op) => Alone(h)
         /\ \A r, rec, ag : BeginStart(h, r, rec, ag) => Leaves(h)
         /\ \A r, runs : CreateRun(h, r, runs) => Leaves(h)
  <1>1. ControlOK
    BY TInvParts
  <1>2. ASSUME NEW r, NEW op, BeginStop(h, r, op) PROVE Alone(h)
    BY <1>1, <1>2, LeavesTypes DEF BeginStop, Refused, Leaves
  <1>3. ASSUME NEW r, NEW rec, NEW ag, BeginStart(h, r, rec, ag) PROVE Leaves(h)
    BY <1>1, <1>3, LeavesTypes DEF BeginStart, Leaves
  <1>4. ASSUME NEW r, NEW runs, CreateRun(h, r, runs) PROVE Leaves(h)
    BY <1>1, <1>4, LeavesTypes DEF CreateRun, Leaves
  <1> QED
    BY <1>2, <1>3, <1>4

LEMMA OperatorMoves ==
  ASSUME TInv, NEW h \in Handlers, Operator(h)
  PROVE  Moves(h)
  <1> USE DEF Moves, Leaves
  <1>0. ControlOK /\ {"stop", "restart", "replace", "reject"} \subseteq Operations
    BY TInvParts DEF Operations
  <1>1. ASSUME Accept(h) PROVE pc[h] # "stopWait"
    BY <1>1 DEF Accept
  <1>2. ASSUME NEW r \in Runs, RequestStart(h, r) PROVE Moves(h)
    BY <1>1, <1>2, LeavesSteps DEF RequestStart
  <1>3. ASSUME NEW r \in Runs, RequestStop(h, r) PROVE Moves(h)
    BY <1>0, <1>1, <1>3, LeavesSteps DEF RequestStop
  <1>4. ASSUME NEW r \in Runs, StopUnstarted(h, r) PROVE Moves(h)
    BY <1>0, <1>1, <1>4, LeavesTypes DEF StopUnstarted
  <1>5. ASSUME NEW r \in Runs, RequestKill(h, r) PROVE Moves(h)
    BY <1>0, <1>1, <1>5, LeavesTypes DEF RequestKill
  <1>6. ASSUME NEW r \in Runs, RequestRestart(h, r) PROVE Moves(h)
    BY <1>0, <1>1, <1>6, LeavesSteps DEF RequestRestart
  <1>7. ASSUME NEW r \in Runs, RequestDispatch(h, r) PROVE Moves(h)
    BY <1>1, <1>7, LeavesSteps DEF RequestDispatch
  <1>8. ASSUME StopUnlinkedAgent(h) PROVE Moves(h)
    BY <1>0, <1>1, <1>8, LeavesTypes DEF StopUnlinkedAgent
  <1>9. ASSUME RequestReplace(h) PROVE Moves(h)
    BY <1>0, <1>1, <1>9, LeavesSteps DEF RequestReplace, Attempted
  <1>10. ASSUME RequestReject(h) PROVE Moves(h)
    BY <1>0, <1>1, <1>10, LeavesSteps, LeavesTypes DEF RequestReject
  <1> QED
    BY <1>2, <1>3, <1>4, <1>5, <1>6, <1>7, <1>8, <1>9, <1>10 DEF Operator

LEMMA ContinueMoves ==
  ASSUME TInv, NEW h \in Handlers, Continue(h)
  PROVE  Moves(h)
  <1> USE DEF Moves, Leaves
  <1>0. ControlOK
    BY TInvParts
  <1>1. CASE LaunchWorker(h)
    BY <1>0, <1>1, LeavesTypes DEF LaunchWorker
  <1>2. CASE LaunchCancelled(h)
    BY <1>0, <1>2, LeavesTypes DEF LaunchCancelled
  <1>3. CASE LaunchFails(h)
    BY <1>0, <1>3, LeavesTypes
    DEF LaunchFails, PreparationFails, SpawnFails, AttemptNotStored
  <1>4. CASE PrepareFailureLogged(h)
    BY <1>0, <1>4, LeavesTypes DEF PrepareFailureLogged
  <1>5. CASE SpawnFailureLogged(h)
    BY <1>0, <1>5, LeavesTypes DEF SpawnFailureLogged
  <1>6. CASE StartLogged(h)
    BY <1>0, <1>6, LeavesTypes DEF StartLogged
  <1>7. CASE DispatchLogged(h)
    BY <1>0, <1>7, LeavesTypes DEF DispatchLogged
  <1>8. CASE UndoRejectedStart(h)
    <2>1. /\ req[h].run \in Runs
          /\ (IF pc[h] = "caught" THEN "undo" ELSE req[h].op) \in Operations
      BY <1>8, BusyType DEF UndoRejectedStart, Operations
    <2> QED
      BY <1>0, <1>8, <2>1, LeavesTypes, LeavesSteps DEF UndoRejectedStart
  <1>9. CASE StartReturned(h)
    BY <1>0, <1>9, LeavesTypes DEF StartReturned
  <1>10. CASE DispatchThrew(h)
    BY <1>0, <1>10, LeavesTypes DEF DispatchThrew
  <1>11. CASE StartThrew(h)
    BY <1>0, <1>11, LeavesTypes DEF StartThrew
  <1>12. CASE StartFailureLogged(h)
    BY <1>0, <1>12, LeavesTypes DEF StartFailureLogged
  <1>13. CASE StopReturned(h)
    BY <1>0, <1>13, LeavesTypes, LeavesSteps DEF StopReturned
  <1> QED
    BY <1>1, <1>2, <1>3, <1>4, <1>5, <1>6, <1>7, <1>8, <1>9, <1>10, <1>11, <1>12, <1>13
    DEF Continue

\* The maps of the executor after a step that moves request h.
LEMMA MovesPromises ==
  ASSUME TInv, PromiseHolderWaits, NEW h \in Handlers, Moves(h)
  PROVE  PromiseHolderWaits'
  <1>0. ControlOK /\ ExitsOK
    BY TInvParts
  <1>1. CASE UNCHANGED exits
    BY <1>0, <1>1 DEF Moves, Alone, PromiseHolderWaits, Stopping, exits
  <1>2. ASSUME NEW r \in Runs, NEW op \in Operations, run[r].cur # None, BeginStop(h, r, op)
        PROVE  PromiseHolderWaits'
    <2> DEFINE n == run[r].cur
    <2>1. ASSUME NEW s \in Runs, NEW m \in Numbers, waiter'[s][m] \in Handlers,
                 waiter'[s][m] = waiter[s][m]
          PROVE  Stopping(waiter[s][m], s, m)'
      BY <1>0, <2>1 DEF Moves, Alone, PromiseHolderWaits, Stopping
    <2>2. CASE /\ waiter' = [waiter EXCEPT ![r][n] = h]
               /\ pc' = [pc EXCEPT ![h] = "stopWait"]
               /\ req' = [req EXCEPT ![h] = [op |-> op, run |-> r, att |-> n, prior |-> run[r]]]
      BY <1>0, <2>1, <2>2 DEF ExitsOK, ControlOK, PromiseHolderWaits, Stopping
    <2>3. CASE waiter' = [waiter EXCEPT ![r][n] = NoHandler]
      BY <1>0, <2>1, <2>3, NoHandlerAssumption DEF ExitsOK, PromiseHolderWaits
    <2> QED
      BY <1>2, <2>2, <2>3 DEF BeginStop
  <1> QED
    BY <1>1, <1>2 DEF Moves

LEMMA TimeoutPromises ==
  ASSUME TInv, PromiseHolderWaits, NEW h \in Handlers, StopTimedOut(h)
  PROVE  /\ Alone(h)
         /\ PromiseHolderWaits'
  <1> DEFINE r == req[h].run
             n == req[h].att
  <1>0. ControlOK /\ ExitsOK
    BY TInvParts
  <1>1. Alone(h)
    BY <1>0, LeavesTypes DEF StopTimedOut, Refused, Leaves
  <1>2. waiter' = [waiter EXCEPT ![r][n] = NoHandler]
    BY DEF StopTimedOut
  <1>3. ASSUME NEW s \in Runs, NEW m \in Numbers, waiter'[s][m] \in Handlers
        PROVE  Stopping(waiter[s][m], s, m)'
    <2>0. r \in Runs
      BY BusyType DEF StopTimedOut
    <2>1. ~(s = r /\ m = n)
      BY <1>0, <1>2, <1>3, <2>0, NoHandlerAssumption DEF ExitsOK
    <2>2. waiter'[s][m] = waiter[s][m]
      BY <1>0, <1>2, <2>0, <2>1 DEF ExitsOK
    <2>3. Stopping(waiter[s][m], s, m)
      BY <1>3, <2>2 DEF PromiseHolderWaits
    <2>4. waiter[s][m] # h
      <3> SUFFICES ASSUME waiter[s][m] = h PROVE FALSE
        OBVIOUS
      <3>1. Stopping(h, s, m)
        BY <2>3
      <3> QED
        BY <2>1, <3>1 DEF Stopping
    <2> QED
      BY <1>1, <1>3, <2>2, <2>3, <2>4 DEF Alone, Stopping
  <1> QED
    BY <1>1, <1>3 DEF PromiseHolderWaits

LEMMA ExitPromises ==
  ASSUME TInv, PromiseHolderWaits, NEW r \in Runs, NEW n \in Numbers, Exit(r, n)
  PROVE  PromiseHolderWaits'
  <1>0. ControlOK /\ ExitsOK
    BY TInvParts
  <1>1. ASSUME NEW status, WorkerExit(r, n, status)
        PROVE  PromiseHolderWaits'
    <2>1. /\ waiter' = [waiter EXCEPT ![r][n] = NoHandler]
          /\ req' = req
          /\ \A g \in Handlers : g # waiter[r][n] => pc'[g] = pc[g]
      BY <1>0, <1>1, NoHandlerAssumption DEF WorkerExit, ControlOK
    <2>2. ASSUME NEW s \in Runs, NEW m \in Numbers, waiter'[s][m] \in Handlers
          PROVE  Stopping(waiter[s][m], s, m)'
      <3>1. ~(s = r /\ m = n)
        BY <1>0, <2>1, <2>2, NoHandlerAssumption DEF ExitsOK
      <3>2. waiter'[s][m] = waiter[s][m]
        BY <1>0, <2>1, <3>1 DEF ExitsOK
      <3>3. Stopping(waiter[s][m], s, m)
        BY <2>2, <3>2 DEF PromiseHolderWaits
      <3>4. waiter[s][m] # waiter[r][n]
        <4> SUFFICES ASSUME waiter[s][m] = waiter[r][n] PROVE FALSE
          OBVIOUS
        <4>1. Stopping(waiter[s][m], r, n)
          BY <2>2, <3>2 DEF PromiseHolderWaits
        <4> QED
          BY <3>1, <3>3, <4>1 DEF Stopping
      <3> QED
        BY <2>1, <2>2, <3>2, <3>3, <3>4 DEF Stopping
    <2> QED
      BY <2>2 DEF PromiseHolderWaits
  <1>2. CASE UnwatchedExit(r, n)
    BY <1>2 DEF UnwatchedExit, PromiseHolderWaits, Stopping, exits, control
  <1> QED
    BY <1>1, <1>2 DEF Exit

-----------------------------------------------------------------------------
(* The first inductive invariant                                           *)

LEMMA InitialTypes == Init => TInv /\ PromiseHolderWaits
  <1> SUFFICES ASSUME Init PROVE TInv /\ PromiseHolderWaits
    OBVIOUS
  <1>1. StoreOK
    BY AbsentRunType DEF Init, StoreOK, AttemptStatus
  <1>2. agent \in AgentRecord
    BY DEF Init, AgentRecord, AgentStatus
  <1>3. WorkersOK /\ ExitsOK /\ ControlOK /\ EnvOK
    BY DEF Init, WorkersOK, ExitsOK, ControlOK, EnvOK, ProcStatus, BusyRequests
  <1>4. PromiseHolderWaits
    BY NoHandlerAssumption DEF Init, PromiseHolderWaits
  <1> QED
    BY <1>1, <1>2, <1>3, <1>4, TInvParts

LEMMA StepTypes == TInv /\ PromiseHolderWaits /\ [Next]_vars => TInv' /\ PromiseHolderWaits'
  <1> SUFFICES ASSUME TInv, PromiseHolderWaits, [Next]_vars
               PROVE  TInv' /\ PromiseHolderWaits'
    OBVIOUS
  <1>0. /\ StoreOK /\ agent \in AgentRecord /\ WorkersOK /\ ExitsOK /\ ControlOK /\ EnvOK
    BY TInvParts
  <1>1. ASSUME NEW h \in Handlers, Operator(h) PROVE TInv' /\ PromiseHolderWaits'
    BY <1>1, OperatorType, OperatorMoves, MovesPromises
  <1>2. ASSUME NEW h \in Handlers, Continue(h) PROVE TInv' /\ PromiseHolderWaits'
    BY <1>2, ContinueType, ContinueMoves, MovesPromises
  <1>3. ASSUME NEW h \in Handlers, StopTimedOut(h) PROVE TInv' /\ PromiseHolderWaits'
    BY <1>3, TimeoutType, TimeoutPromises
  <1>4. ASSUME NEW r \in Runs, NEW n \in Numbers, Exit(r, n)
        PROVE  TInv' /\ PromiseHolderWaits'
    BY <1>4, ExitType, ExitPromises
  <1>5. CASE DeleteAgent
    <2>1. agent' \in AgentRecord
      BY <1>0, <1>5, AgentStatusType DEF DeleteAgent, AgentStatus
    <2>2. TInv'
      BY <1>0, <1>5, <2>1, UnchangedParts, TInvPartsPrimed DEF DeleteAgent
    <2> QED
      BY <1>5, <2>2 DEF DeleteAgent, PromiseHolderWaits, Stopping, exits, control
  <1>6. CASE Failure
    <2>1. MemoryLost
      BY <1>6 DEF Failure, Crash, CrashWhileLaunching, CrashWhileFinishing, GoDown
    <2>2. PromiseHolderWaits'
      BY <2>1, NoHandlerAssumption DEF MemoryLost, PromiseHolderWaits
    <2> QED
      BY <1>6, <2>2, FailureType
  <1>7. CASE Restart
    BY <1>7, RestartType DEF Restart, PromiseHolderWaits, Stopping, exits, control
  <1>8. CASE UNCHANGED vars
    BY <1>0, <1>8, UnchangedParts, TInvPartsPrimed
    DEF vars, PromiseHolderWaits, Stopping, store, workers, exits, control, env
  <1>9. ASSUME NEW s \in strays, StrayExits(s)
        PROVE  TInv' /\ PromiseHolderWaits'
    <2>1. EnvOK'
      BY <1>0, <1>9, StraysType DEF StrayExits, EnvOK
    <2>2. TInv'
      BY <1>0, <1>9, <2>1, UnchangedParts, TInvPartsPrimed DEF StrayExits
    <2> QED
      BY <1>9, <2>2 DEF StrayExits, PromiseHolderWaits, Stopping, exits, control
  <1> QED
    BY <1>1, <1>2, <1>3, <1>4, <1>5, <1>6, <1>7, <1>8, <1>9 DEF Next

\* Every variable keeps its type, and every entry of exitPromises belongs to a
\* stop that still waits for that attempt, however many stops overlap.
THEOREM TypesAndPromises == Spec => [](TypeOK /\ PromiseHolderWaits)
  <1>1. TInv /\ PromiseHolderWaits => TypeOK /\ PromiseHolderWaits
    BY DEF TInv
  <1> QED
    BY <1>1, InitialTypes, StepTypes, PTL DEF Spec

\* The types alone: the agent never carries a status of a run's vocabulary.
THEOREM TypesHold == Spec => []TypeOK
BY TypesAndPromises, PTL
=============================================================================

----------------------------- MODULE ConsoleProofs -----------------------------
(***************************************************************************)
(* What an operator sees who sends one request at a time through the agent *)
(* routes: the tracked agent never has two workers, but for those that a   *)
(* daemon had spawned and not stored when it died; and between requests    *)
(* the rows of the agent, of its run and of the run's attempts agree with  *)
(* each other and with the processes.  Proved for any number of runs,      *)
(* attempts, requests and crashes, with or without a capacity policy.      *)
(*                                                                         *)
(* None of it is inductive alone.  Two workers are ruled out because the   *)
(* routes read the agent's status, which is worth something only because   *)
(* it agrees with the run's, which in turn means something only because an *)
(* open attempt is always the current one of the linked run; and all three *)
(* are broken for a while by a request in flight.                          *)
(***************************************************************************)
EXTENDS BeastRunLedgerProofs, FiniteSetTheorems

\* Operators wait for an answer before they send the next request, use the
\* agent routes, and the line that reports a started worker can be written.
Console ==
  /\ \A g, h \in Handlers : g = h
  /\ "run" \notin Routes
  /\ ~LogFaults

-----------------------------------------------------------------------------
(* The invariant                                                           *)

NothingOpen == \A r \in Runs, n \in Numbers : attempt[r][n] # "running"

\* An open attempt is the current one of the agent's run, which is running.
OpenIsCurrent ==
  \A r \in Runs, n \in Numbers : attempt[r][n] = "running" =>
    agent.run = r /\ run[r].status = "running" /\ run[r].cur = n

\* A rejected agent has no open attempt, even while a request is in flight.
RejectedClosed == agent.status = "rejected" => NothingOpen

LinkExists == agent.run \in Runs => run[agent.run].status # "absent"

\* A run that was not started yet has no current attempt.
Unstarted == \A r \in Runs : run[r].status \in {"absent", "queued"} => run[r].cur = None

StoreAgrees == OpenIsCurrent /\ RejectedClosed /\ LinkExists /\ Unstarted

\* A start between its launch and the moment it synchronises the agent.
Unsynced == {"startLog", "started"}

Starting == Unsynced \cup {"dispLog", "launch", "prepLog", "spawnLog", "caught",
                           "failLog"}

StopOperations == {"stop", "restart", "replace", "reject"}

\* What the request in flight may rely on.  A start that has launched nothing
\* found no open attempt; a stop waits for the current attempt, and when it
\* goes on no attempt is open.
InFlight(h) ==
  /\ up
  /\ req[h].run = agent.run
  /\ pc[h] \in Starting => agent.status # "rejected"
     /\ req[h].op \in {"start", "dispatch"}
  /\ pc[h] \notin Starting => req[h].op \in StopOperations
  /\ pc[h] \notin Unsynced \cup {"stopWait"} => NothingOpen
  /\ pc[h] = "stopWait" => req[h].att = run[req[h].run].cur /\ req[h].att # None
  /\ pc[h] \in Unsynced \cup {"stopDone"} =>
       run[req[h].run].status \notin {"absent", "queued"}
  /\ pc[h] = "failLog" => run[req[h].run].status = "failed"

\* A settled agent status is the outcome of the run.
Agrees(ag, runs) ==
  ag.run \in Runs /\ ag.status \in {"running", "completed", "failed", "stopped"} =>
    SameOutcome(ag.status, runs[ag.run].status)

Settled == up /\ \A h \in Handlers : pc[h] \notin Unsynced

SettledAgrees == Settled => Agrees(agent, run)

CInv ==
  /\ StoreAgrees
  /\ \A h \in Handlers : pc[h] # "idle" => InFlight(h)
  /\ SettledAgrees

KInv == LInv /\ CInv

-----------------------------------------------------------------------------
(* The operators that update the agent                                     *)

LEMMA ConsoleTypes ==
  ASSUME TInv
  PROVE  /\ run \in [Runs -> RunRecord] /\ attempt \in [Runs -> [Numbers -> AttemptStatus]]
         /\ agent \in AgentRecord
         /\ agent.run \in Runs \cup {NoRun} /\ agent.status \in AgentStatus
         /\ \A r \in Runs : run[r].status \in RunStatus
         /\ pc \in [Handlers -> {"idle"} \cup Suspended \cup MicroSteps]
         /\ DOMAIN req = Handlers
  BY TInvParts DEF StoreOK, ControlOK, RunRecord, AgentRecord

\* syncTrackedAgent leaves a deleted or rejected agent alone, and gives any
\* other the outcome of the run.
LEMMA SyncedFacts ==
  ASSUME NEW ag \in AgentRecord, NEW r \in Runs, ag.run = r, NEW status \in RunStatus
  PROVE  /\ Synced(ag, r, status).run = r
         /\ Synced(ag, r, status).status = "rejected" <=> ag.status = "rejected"
         /\ Synced(ag, r, status).status = "deleted" <=> ag.status = "deleted"
         /\ status \in {"running"} \cup TerminalStatus
              /\ Synced(ag, r, status).status \notin {"deleted", "rejected"} =>
            SameOutcome(Synced(ag, r, status).status, status)
  BY DEF Synced, AgentStatusOf, AgentRecord, TerminalStatus, SameOutcome

LEMMA ReservedFacts ==
  ASSUME NEW ag \in AgentRecord, NEW r \in Runs, ag.run = r
  PROVE  /\ Reserved(ag, r).run = r
         /\ Reserved(ag, r).status \in {ag.status, "dispatching"}
  BY DEF Reserved, AgentRecord

LEMMA AgentFailedFacts ==
  ASSUME NEW ag \in AgentRecord, NEW r \in Runs, ag.run = r
  PROVE  /\ AgentFailed(ag, r).run = r
         /\ AgentFailed(ag, r).status = "rejected" <=> ag.status = "rejected"
         /\ AgentFailed(ag, r).status \in {"deleted", "rejected", "failed"}
         /\ AgentFailedOnce(ag, r) = AgentFailed(ag, r)
  BY DEF AgentFailed, AgentFailedOnce, AgentRecord

-----------------------------------------------------------------------------
(* How the parts of the invariant are kept                                 *)

\* There is one request: the invariant speaks of it alone.
LEMMA OneFlight ==
  ASSUME Console, NEW h \in Handlers, StoreAgrees', pc'[h] = "idle" \/ InFlight(h)',
         up' /\ pc'[h] \notin Unsynced => Agrees(agent', run')
  PROVE  CInv'
  BY DEF Console, CInv, SettledAgrees, Settled, Agrees

\* Runs that have no open attempt need only exist and be started properly.
LEMMA ClosedStore ==
  ASSUME NothingOpen', LinkExists', Unstarted'
  PROVE  StoreAgrees'
  BY DEF StoreAgrees, NothingOpen, OpenIsCurrent, RejectedClosed

LEMMA SameStore ==
  ASSUME StoreAgrees, UNCHANGED <<run, attempt, agent>>
  PROVE  StoreAgrees'
  BY DEF StoreAgrees, NothingOpen, OpenIsCurrent, RejectedClosed, LinkExists, Unstarted

\* The linked run is finished, and the agent stays linked to it.
LEMMA FinishedStore ==
  ASSUME TInv, StoreAgrees, NEW r \in Runs, agent.run = r, agent'.run = r,
         NEW status \in TerminalStatus, run' = [run EXCEPT ![r] = Finished(@, status)]
  PROVE  /\ LinkExists' /\ Unstarted'
         /\ run'[r].status = status /\ run'[r].cur = run[r].cur
  <1>1. run'[r] = Finished(run[r], status) /\ \A s \in Runs \ {r} : run'[s] = run[s]
    BY ConsoleTypes
  <1>2. run'[r].status = status /\ run'[r].cur = run[r].cur
    BY <1>1, CountTypes, FinishedType
  <1> QED
    BY <1>1, <1>2 DEF StoreAgrees, LinkExists, Unstarted, TerminalStatus

\* The current attempt of the linked run is closed: none is open.
LEMMA ClosingCurrent ==
  ASSUME TInv, OpenIsCurrent, NEW r \in Runs, agent.run = r, run[r].cur # None,
         NEW status \in TerminalStatus,
         attempt' = [attempt EXCEPT ![r][run[r].cur] = status]
  PROVE  NothingOpen'
  <1>1. run[r].cur \in Numbers
    BY CountTypes, BoundsAssumption DEF Numbers, None
  <1> QED
    BY <1>1, ConsoleTypes DEF NothingOpen, OpenIsCurrent, TerminalStatus

\* With no current attempt, or with a run that is not running, none is open.
LEMMA NothingIsOpen ==
  ASSUME OpenIsCurrent,
         \/ agent.run \notin Runs
         \/ run[agent.run].status # "running"
         \/ run[agent.run].cur = None
  PROVE  NothingOpen
  BY BoundsAssumption DEF OpenIsCurrent, NothingOpen, Numbers, None

-----------------------------------------------------------------------------
(* Beginnings of requests                                                  *)

LEMMA BeginStopConsole ==
  ASSUME KInv, Console, NEW h \in Handlers, pc[h] = "idle", up, up',
         UNCHANGED <<store, agent>>,
         agent.run \in Runs, run[agent.run].cur # None,
         NEW op \in StopOperations, BeginStop(h, agent.run, op)
  PROVE  CInv'
  <1>0. TInv /\ StoreAgrees /\ SettledAgrees
    BY DEF KInv, LInv, CInv
  <1>1. StoreAgrees'
    BY <1>0, SameStore DEF store
  <1>2. Agrees(agent', run')
    BY <1>0 DEF SettledAgrees, Settled, Console, Unsynced, Agrees, store
  <1>3. CASE /\ pc' = [pc EXCEPT ![h] = "stopWait"]
             /\ req' = [req EXCEPT ![h] = [op |-> op, run |-> agent.run,
                                           att |-> run[agent.run].cur,
                                           prior |-> run[agent.run]]]
    <2>1. /\ pc'[h] = "stopWait" /\ req'[h].op = op /\ req'[h].run = agent.run
          /\ req'[h].att = run[agent.run].cur
      BY <1>0, <1>3, ConsoleTypes
    <2>2. InFlight(h)'
      BY <2>1 DEF InFlight, Starting, Unsynced, store
    <2> QED
      BY <1>1, <1>2, <2>2, OneFlight
  <1>4. CASE Refused(h, op)
    <2>1. pc'[h] = "idle"
      BY <1>0, <1>4, ConsoleTypes DEF Refused, Done, StopOperations
    <2> QED
      BY <1>1, <1>2, <2>1, OneFlight
  <1> QED
    BY <1>3, <1>4 DEF BeginStop

LEMMA BeginStartConsole ==
  ASSUME KInv, Console, NEW h \in Handlers, up', UNCHANGED attempt, NothingOpen,
         NEW ag \in AgentRecord, ag.run \in Runs, ag.status # "rejected", NEW rec,
         BeginStart(h, ag.run, rec, ag), run'[ag.run].status # "absent", Unstarted',
         Agrees(ag, run')
  PROVE  CInv'
  <1>0. TInv
    BY DEF KInv, LInv
  <1>1. /\ agent'.run = ag.run
        /\ agent'.status \in {ag.status, "dispatching"}
    BY ReservedFacts DEF BeginStart
  <1>2. NothingOpen'
    BY DEF NothingOpen
  <1>3. StoreAgrees'
    BY <1>1, <1>2, ClosedStore DEF LinkExists
  <1>4. pc'[h] = "launch" /\ req'[h].run = ag.run /\ req'[h].op = "start"
    BY <1>0, ConsoleTypes DEF BeginStart
  <1>5. InFlight(h)'
    BY <1>1, <1>2, <1>4 DEF InFlight, Starting, Unsynced
  <1>6. Agrees(agent', run')
    BY <1>1 DEF Agrees
  <1> QED
    BY <1>3, <1>5, <1>6, OneFlight

LEMMA CreateRunConsole ==
  ASSUME KInv, Console, NEW h \in Handlers, up', UNCHANGED attempt, NothingOpen,
         NEW r \in Runs, NEW runs \in [Runs -> RunRecord], CreateRun(h, r, runs),
         \A s \in Runs : runs[s].status \in {"absent", "queued"} => runs[s].cur = None
  PROVE  CInv'
  <1>0. TInv
    BY DEF KInv, LInv
  <1>1. /\ run'[r].status = "queued" /\ run'[r].cur = 0
        /\ \A s \in Runs \ {r} : run'[s] = runs[s]
    BY AbsentRunType DEF CreateRun
  <1>2. agent'.run = r /\ agent'.status = "dispatching"
    BY DEF CreateRun
  <1>3. NothingOpen'
    BY DEF NothingOpen
  <1>4. LinkExists' /\ Unstarted'
    BY <1>1, <1>2 DEF LinkExists, Unstarted, None
  <1>5. StoreAgrees'
    BY <1>3, <1>4, ClosedStore
  <1>6. pc'[h] = "dispLog" /\ req'[h].run = r /\ req'[h].op = "dispatch"
    BY <1>0, ConsoleTypes DEF CreateRun, Console
  <1>7. InFlight(h)'
    BY <1>2, <1>3, <1>6 DEF InFlight, Starting, Unsynced
  <1>8. Agrees(agent', run')
    BY <1>2 DEF Agrees
  <1> QED
    BY <1>5, <1>7, <1>8, OneFlight

-----------------------------------------------------------------------------
(* The requests of an operator                                             *)

\* What every operator request finds: nothing else is in flight, and the agent
\* agrees with its run.
LEMMA AcceptFinds ==
  ASSUME KInv, Console, NEW h \in Handlers, Accept(h)
  PROVE  /\ TInv /\ StoreAgrees /\ up /\ up' /\ pc[h] = "idle"
         /\ Agrees(agent, run)
  BY DEF KInv, LInv, CInv, Accept, Turn, SettledAgrees, Settled, Console, Unsynced

\* The routes of a start are those of an agent that has no worker.
LEMMA StartableIsClosed ==
  ASSUME StoreAgrees, Agrees(agent, run),
         agent.status \in Startable
  PROVE  NothingOpen
  BY DEF StoreAgrees, OpenIsCurrent, Agrees, SameOutcome, Startable, NothingOpen

LEMMA OperatorConsole ==
  ASSUME KInv, Console, NEW h \in Handlers, Operator(h)
  PROVE  CInv'
  <1>0. Accept(h)
    BY DEF Operator, RequestStart, RequestStop, StopUnstarted, RequestKill,
        RequestRestart,
       RequestDispatch, StopUnlinkedAgent, RequestReplace, RequestReject
  <1> USE DEF Exists
  <1>a. /\ TInv /\ StoreAgrees /\ up /\ up' /\ pc[h] = "idle" /\ Agrees(agent, run)
        /\ OpenIsCurrent /\ LinkExists /\ Unstarted /\ run \in [Runs -> RunRecord]
        /\ agent \in AgentRecord /\ agent.run \in Runs \cup {NoRun}
    BY <1>0, AcceptFinds, ConsoleTypes DEF StoreAgrees
  <1>b. "run" \notin Routes
    BY DEF Console
  <1>c. {"stopped", "killed"} \subseteq TerminalStatus
        /\ TerminalStatus \subseteq RunStatus
    BY DEF TerminalStatus, RunStatus
  <1>1. ASSUME NEW r \in Runs, RequestStart(h, r) PROVE CInv'
    <2>1. agent.run = r /\ agent.status # "rejected" /\ agent.status \in Startable
      BY <1>1, <1>b DEF RequestStart, StartRoute, ResumeRoute, Linked, Startable
    <2>2. NothingOpen
      BY <1>a, <2>1, StartableIsClosed
    <2>3. BeginStart(h, r, run[r], agent) /\ UNCHANGED <<run, attempt>>
      BY <1>1 DEF RequestStart, store
    <2>4. run'[agent.run].status # "absent" /\ Unstarted' /\ Agrees(agent, run')
      BY <1>a, <2>1, <2>3 DEF LinkExists, Unstarted, Agrees
    <2> QED
      BY <1>a, <2>1, <2>2, <2>3, <2>4, BeginStartConsole
  <1>2. ASSUME NEW r \in Runs, RequestStop(h, r) PROVE CInv'
    <2>1. agent.run = r
      BY <1>2, <1>b DEF RequestStop, StopRoute, Linked
    <2> QED
      BY <1>a, <1>2, <2>1, BeginStopConsole DEF RequestStop, StopOperations
  <1>3. ASSUME NEW r \in Runs, StopUnstarted(h, r) PROVE CInv'
    <2>1. agent.run = r /\ run[r].cur = None /\ agent' = Synced(agent, r, "stopped")
      BY <1>3, <1>b DEF StopUnstarted, StopRoute, Linked
    <2>2. NothingOpen'
      BY <1>a, <1>3, <2>1, NothingIsOpen DEF StopUnstarted, NothingOpen
    <2>s. agent'.run = r
      BY <1>a, <1>c, <2>1, SyncedFacts
    <2>3. LinkExists' /\ Unstarted' /\ run'[r].status = "stopped"
      BY <1>a, <1>c, <1>3, <2>1, <2>s, FinishedStore DEF StopUnstarted
    <2>4. Agrees(agent', run')
      BY <1>a, <1>c, <2>1, <2>3, SyncedFacts DEF Agrees
    <2>5. pc'[h] = "idle"
      BY <1>a, <1>3 DEF StopUnstarted, control
    <2> QED
      BY <2>2, <2>3, <2>4, <2>5, ClosedStore, OneFlight
  <1>4. ASSUME NEW r \in Runs, RequestKill(h, r) PROVE CInv'
    <2>1. /\ agent.run = r /\ run[r].cur # None /\ agent' = Synced(agent, r, "killed")
          /\ run' = [run EXCEPT ![r] = Finished(@, "killed")]
          /\ attempt' = [attempt EXCEPT ![r][run[r].cur] = "killed"]
      BY <1>4, <1>b DEF RequestKill, KillRoute, Linked
    <2>2. NothingOpen'
      BY <1>a, <1>c, <2>1, ClosingCurrent
    <2>s. agent'.run = r
      BY <1>a, <1>c, <2>1, SyncedFacts
    <2>3. LinkExists' /\ Unstarted' /\ run'[r].status = "killed"
      BY <1>a, <1>c, <2>1, <2>s, FinishedStore
    <2>4. Agrees(agent', run')
      BY <1>a, <1>c, <2>1, <2>3, SyncedFacts DEF Agrees
    <2>5. pc'[h] = "idle"
      BY <1>a, <1>4 DEF RequestKill, control
    <2> QED
      BY <2>2, <2>3, <2>4, <2>5, ClosedStore, OneFlight
  <1>5. ASSUME NEW r \in Runs, RequestRestart(h, r) PROVE CInv'
    <2>1. agent.run = r
      BY <1>5, <1>b DEF RequestRestart, RestartRoute, Linked
    <2>2. CASE BeginStop(h, r, "restart") /\ run[r].cur # None
               /\ UNCHANGED <<store, agent>>
      BY <1>a, <2>1, <2>2, BeginStopConsole DEF StopOperations
    <2>3. CASE /\ run[r].cur = None /\ agent.status # "rejected" /\ UNCHANGED attempt
               /\ run' = [run EXCEPT ![r] = Finished(@, "stopped")]
               /\ BeginStart(h, r, Finished(run[r], "stopped"), Synced(agent, r,
                                                                       "stopped"))
      <3> DEFINE ag == Synced(agent, r, "stopped")
      <3>1. NothingOpen
        BY <1>a, <2>1, <2>3, NothingIsOpen
      <3>2. ag \in AgentRecord /\ ag.run = r /\ ag.status # "rejected"
        <4>1. ag \in AgentRecord
          BY <1>a, SyncedType
        <4>2. ag.run = r /\ ag.status # "rejected"
          BY <1>a, <1>c, <2>1, <2>3, SyncedFacts
        <4> QED
          BY <4>1, <4>2
      <3>3. agent'.run = r
        BY <2>3, <3>2, ReservedFacts DEF BeginStart
      <3>4. Unstarted' /\ run'[r].status = "stopped"
        BY <1>a, <1>c, <2>1, <2>3, <3>3, FinishedStore
      <3>5. Agrees(ag, run')
        BY <1>a, <1>c, <2>1, <3>2, <3>4, SyncedFacts DEF Agrees
      <3> HIDE DEF ag
      <3>6. BeginStart(h, ag.run, Finished(run[r], "stopped"), ag)
        BY <2>3, <3>2 DEF ag
      <3> QED
        BY <1>a, <2>3, <3>1, <3>2, <3>4, <3>5, <3>6, BeginStartConsole
    <2>4. CASE /\ run[r].status # "running" /\ agent.status # "rejected"
               /\ BeginStart(h, r, run[r], agent) /\ UNCHANGED <<run, attempt>>
      <3>1. NothingOpen
        BY <1>a, <2>1, <2>4, NothingIsOpen
      <3>2. run'[agent.run].status # "absent" /\ Unstarted' /\ Agrees(agent, run')
        BY <1>a, <2>1, <2>4 DEF LinkExists, Unstarted, Agrees
      <3> QED
        BY <1>a, <2>1, <2>4, <3>1, <3>2, BeginStartConsole
    <2> QED
      BY <1>5, <2>2, <2>3, <2>4 DEF RequestRestart, store
  <1>6. ASSUME NEW r \in Runs, RequestDispatch(h, r) PROVE CInv'
    <2>1. NothingOpen
      <3>1. CASE agent.run = NoRun
        BY <1>a, <3>1, NoRunAssumption, NothingIsOpen
      <3>2. CASE agent.status \in Startable
        BY <1>a, <3>2, StartableIsClosed
      <3>3. CASE run[agent.run].status # "running"
        BY <1>a, <3>3, NothingIsOpen
      <3> QED
        BY <1>6, <1>b, <3>1, <3>2, <3>3 DEF RequestDispatch, DispatchRoute
    <2> QED
      BY <1>a, <1>6, <2>1, CreateRunConsole DEF RequestDispatch, Unstarted
  <1>7. CASE StopUnlinkedAgent(h)
    <2>1. /\ agent.run = NoRun /\ agent'.run = NoRun /\ agent'.status = "stopped"
          /\ UNCHANGED <<run, attempt, pc>>
      BY <1>a, <1>7 DEF StopUnlinkedAgent, store, control, AgentRecord
    <2>2. NothingOpen'
      BY <1>a, <2>1, NoRunAssumption, NothingIsOpen DEF NothingOpen
    <2>3. LinkExists' /\ Unstarted' /\ Agrees(agent', run')
      BY <1>a, <2>1, NoRunAssumption DEF LinkExists, Unstarted, Agrees
    <2> QED
      BY <1>a, <2>1, <2>2, <2>3, ClosedStore, OneFlight
  <1>8. CASE RequestReplace(h)
    <2> DEFINE r == agent.run
               runs == [run EXCEPT ![r] = Finished(@, "stopped")]
    <2>1. r \in Runs
      BY <1>8 DEF RequestReplace, Attempted
    <2>2. CASE BeginStop(h, r, "replace") /\ run[r].cur # None
               /\ UNCHANGED <<store, agent>>
      BY <1>a, <2>1, <2>2, BeginStopConsole DEF StopOperations
    <2>3. ASSUME run[r].cur = None, UNCHANGED attempt,
                 NEW fresh \in Runs, CreateRun(h, fresh, runs)
          PROVE  CInv'
      <3>1. NothingOpen
        BY <1>a, <2>1, <2>3, NothingIsOpen
      <3>2. /\ runs \in [Runs -> RunRecord]
            /\ \A s \in Runs : runs[s].status \in {"absent", "queued"}
               => runs[s].cur = None
        BY <1>a, <1>c, <2>1, <2>3, FinishedType, ConsoleTypes DEF Unstarted
      <3> HIDE DEF runs
      <3> QED
        BY <1>a, <2>3, <3>1, <3>2, CreateRunConsole
    <2> QED
      BY <1>8, <2>2, <2>3 DEF RequestReplace
  <1>9. CASE RequestReject(h)
    <2> DEFINE r == agent.run
    <2>1. CASE r \in Runs /\ run[r].cur # None /\ BeginStop(h, r, "reject")
               /\ UNCHANGED <<store, agent>>
      BY <1>a, <2>1, BeginStopConsole DEF StopOperations
    <2>2. CASE /\ agent' = [agent EXCEPT !.status = "rejected"]
               /\ UNCHANGED <<attempt, pc>>
               /\ \/ /\ r \in Runs /\ run[r].cur = None
                     /\ run' = [run EXCEPT ![r] = Finished(@, "stopped")]
                  \/ r = NoRun /\ UNCHANGED run
      <3>1. agent'.run = r /\ agent'.status = "rejected"
        BY <1>a, <2>2 DEF AgentRecord
      <3>2. NothingOpen'
        BY <1>a, <2>2, NoRunAssumption, NothingIsOpen DEF NothingOpen
      <3>3. LinkExists' /\ Unstarted'
        BY <1>a, <1>c, <2>2, <3>1, NoRunAssumption, FinishedStore DEF LinkExists,
            Unstarted
      <3> QED
        BY <1>a, <2>2, <3>1, <3>2, <3>3, ClosedStore, OneFlight DEF Agrees
    <2> QED
      BY <1>9, <2>1, <2>2 DEF RequestReject, store, control
  <1> QED
    BY <1>1, <1>2, <1>3, <1>4, <1>5, <1>6, <1>7, <1>8, <1>9 DEF Operator

-----------------------------------------------------------------------------
(* The continuations of a request                                          *)

\* What every continuation finds.
LEMMA FlightFinds ==
  ASSUME KInv, Console, NEW h \in Handlers, pc[h] # "idle"
  PROVE  /\ TInv /\ StoreAgrees /\ up /\ InFlight(h)
         /\ req[h].run = agent.run /\ agent.run \in Runs
         /\ pc[h] \notin Unsynced => Agrees(agent, run)
  <1>1. TInv /\ StoreAgrees /\ InFlight(h) /\ SettledAgrees
    BY DEF KInv, LInv, CInv
  <1>2. req[h].run \in Runs
    BY <1>1, BusyType
  <1>3. pc[h] \notin Unsynced => \A g \in Handlers : pc[g] \notin Unsynced
    BY DEF Console
  <1> QED
    BY <1>1, <1>2, <1>3 DEF InFlight, SettledAgrees, Settled

\* Only the agent's status is written.
LEMMA AgentOnly ==
  ASSUME StoreAgrees, UNCHANGED <<run, attempt>>, agent'.run = agent.run,
         agent'.status = "rejected" => NothingOpen
  PROVE  StoreAgrees'
  BY DEF StoreAgrees, OpenIsCurrent, RejectedClosed, LinkExists, Unstarted, NothingOpen

\* A step that only moves the request on.
LEMMA MovedOn ==
  ASSUME KInv, Console, NEW h \in Handlers, pc[h] # "idle", NEW label, Goto(h, label),
         UNCHANGED <<store, agent, up>>, label = "idle" \/ InFlight(h)',
         pc[h] \in Unsynced => label \in Unsynced
  PROVE  CInv'
  <1>1. pc'[h] = label
    BY ConsoleTypes DEF Goto, KInv, LInv
  <1>2. StoreAgrees'
    BY FlightFinds, SameStore DEF store
  <1>3. up' /\ pc'[h] \notin Unsynced => Agrees(agent', run')
    BY <1>1, FlightFinds DEF store, Agrees
  <1> QED
    BY <1>1, <1>2, <1>3, OneFlight

LEMMA LaunchConsole ==
  ASSUME KInv, Console, NEW h \in Handlers, LaunchWorker(h)
  PROVE  CInv'
  <1> DEFINE r == agent.run
             n == run[r].count + 1
  <1>0. pc[h] = "launch" /\ UNCHANGED <<agent, up, req>>
        /\ pc' = [pc EXCEPT ![h] = "startLog"]
    BY DEF LaunchWorker, Goto, env
  <1>1. /\ TInv /\ r \in Runs /\ req[h].run = r /\ NothingOpen /\ agent.status # "rejected"
        /\ req[h].op \in {"start", "dispatch"} /\ Unstarted /\ up
    BY <1>0, FlightFinds DEF InFlight, Starting, Unsynced, StoreAgrees
  <1>2. /\ n \in Numbers
        /\ attempt' = [attempt EXCEPT ![r][n] = "running"]
        /\ run' = [run EXCEPT ![r] = [@ EXCEPT !.status = "running", !.cur = n,
                                      !.count = n]]
    BY <1>1 DEF LaunchWorker
  <1> HIDE DEF n
  <1>3. /\ run'[r].cur = n /\ run'[r].status = "running"
        /\ \A s \in Runs \ {r} : run'[s] = run[s]
    BY <1>1, <1>2, CountTypes DEF RunRecord
  <1>4. \A s \in Runs, m \in Numbers : attempt'[s][m] = "running" => s = r /\ m = n
    BY <1>1, <1>2, ConsoleTypes DEF NothingOpen
  <1>5. StoreAgrees'
    BY <1>0, <1>1, <1>3, <1>4 DEF StoreAgrees, OpenIsCurrent, RejectedClosed, LinkExists,
       Unstarted
  <1>6. pc'[h] = "startLog"
    BY <1>0, <1>1, ConsoleTypes
  <1>7. InFlight(h)'
    BY <1>0, <1>1, <1>3, <1>6 DEF InFlight, Starting, Unsynced
  <1> QED
    BY <1>5, <1>6, <1>7, OneFlight DEF Unsynced

\* Continuations that end a request, with the agent in agreement.
LEMMA EndsInAgreement ==
  ASSUME KInv, Console, NEW h \in Handlers, Done(h), StoreAgrees', Agrees(agent', run')
  PROVE  CInv'
  BY ConsoleTypes, OneFlight DEF Done, KInv, LInv

LEMMA StartConsole ==
  ASSUME KInv, Console, NEW h \in Handlers,
         \/ LaunchCancelled(h) \/ LaunchFails(h) \/ PrepareFailureLogged(h)
         \/ SpawnFailureLogged(h) \/ StartLogged(h) \/ DispatchLogged(h)
         \/ UndoRejectedStart(h)
  PROVE  CInv'
  <1>0. pc[h] # "idle" /\ UNCHANGED <<attempt, up>>
    BY DEF LaunchCancelled, LaunchFails, PrepareFailureLogged, SpawnFailureLogged,
       StartLogged, DispatchLogged, UndoRejectedStart, store, env
  <1>a. /\ TInv /\ StoreAgrees /\ up /\ InFlight(h) /\ agent.run \in Runs
        /\ req[h].run = agent.run /\ agent \in AgentRecord
        /\ \A label : Goto(h, label) => pc'[h] = label /\ UNCHANGED req
    BY <1>0, FlightFinds, ConsoleTypes DEF Goto
  <1>b. ~LogFaults
    BY DEF Console
  <1>1. CASE LaunchCancelled(h)
    <2>1. InFlight(h)'
      BY <1>a, <1>1 DEF LaunchCancelled, InFlight, Starting, Unsynced, store, env
    <2> QED
      BY <1>0, <1>1, <2>1, MovedOn DEF LaunchCancelled, store, env, Unsynced
  <1>2. CASE LaunchFails(h)
    <2>1. PICK label \in {"prepLog", "spawnLog", "caught"} : Goto(h, label)
      BY <1>2 DEF LaunchFails, PreparationFails, SpawnFails, AttemptNotStored
    <2>2. pc[h] = "launch" /\ UNCHANGED <<store, agent, up>>
      BY <1>2 DEF LaunchFails, env
    <2>3. InFlight(h)'
      BY <1>a, <2>1, <2>2 DEF InFlight, Starting, Unsynced, store, NothingOpen
    <2> QED
      BY <1>0, <2>1, <2>2, <2>3, MovedOn DEF Unsynced
  <1>3. CASE PrepareFailureLogged(h)
    <2>1. InFlight(h)'
      BY <1>a, <1>3 DEF PrepareFailureLogged, InFlight, Starting, Unsynced, store, env,
         NothingOpen
    <2> QED
      BY <1>0, <1>3, <2>1, MovedOn DEF PrepareFailureLogged, store, env, Unsynced
  <1>4. CASE SpawnFailureLogged(h)
    <2>1. /\ pc[h] = "spawnLog" /\ Goto(h, "caught")
          /\ run' = [run EXCEPT ![agent.run] = Finished(@, "failed")]
          /\ agent' = Synced(agent, agent.run, "failed")
      BY <1>a, <1>4 DEF SpawnFailureLogged
    <2>2. "failed" \in TerminalStatus /\ "failed" \in RunStatus
      BY DEF TerminalStatus, RunStatus
    <2>3. agent'.run = agent.run /\ (agent'.status = "rejected" <=> agent.status = "rejected")
      BY <1>a, <2>1, <2>2, SyncedFacts
    <2>4. NothingOpen'
      BY <1>0, <1>a, <2>1 DEF InFlight, Unsynced, NothingOpen
    <2>5. LinkExists' /\ Unstarted' /\ run'[agent.run].status = "failed"
      BY <1>a, <2>1, <2>2, <2>3, FinishedStore
    <2>6. InFlight(h)'
      BY <1>0, <1>a, <2>1, <2>3, <2>4 DEF InFlight, Starting, Unsynced
    <2>7. Agrees(agent', run')
      BY <1>a, <2>1, <2>2, <2>3, <2>5, SyncedFacts DEF Agrees
    <2> QED
      BY <2>4, <2>5, <2>6, <2>7, ClosedStore, OneFlight
  <1>5. CASE StartLogged(h)
    <2>1. InFlight(h)'
      BY <1>a, <1>b, <1>5 DEF StartLogged, InFlight, Starting, Unsynced, store, env
    <2> QED
      BY <1>0, <1>b, <1>5, <2>1, MovedOn DEF StartLogged, store, env, Unsynced
  <1>6. CASE DispatchLogged(h)
    <2>1. /\ pc[h] = "dispLog" /\ UNCHANGED <<run, agent>> /\ agent.status # "rejected"
          /\ Done(h) \/ Goto(h, "launch")
      BY <1>a, <1>6 DEF DispatchLogged, InFlight, Starting
    <2>2. StoreAgrees' /\ Agrees(agent', run')
      BY <1>0, <1>a, <2>1, FlightFinds, SameStore DEF Agrees, Unsynced
    <2>3. CASE Done(h)
      BY <2>2, <2>3, EndsInAgreement
    <2>4. CASE Goto(h, "launch")
      <3>1. InFlight(h)'
        BY <1>0, <1>a, <2>1, <2>4 DEF InFlight, Starting, Unsynced, NothingOpen
      <3> QED
        BY <1>0, <2>1, <2>4, <3>1, MovedOn DEF store, Unsynced
    <2> QED
      BY <2>1, <2>3, <2>4
  <1>7. CASE UndoRejectedStart(h)
    BY <1>a, <1>7 DEF UndoRejectedStart, InFlight, Starting, Unsynced
  <1> QED
    BY <1>1, <1>2, <1>3, <1>4, <1>5, <1>6, <1>7

\* The ends of a start, after the executor.
LEMMA ReturnConsole ==
  ASSUME KInv, Console, NEW h \in Handlers,
         \/ StartReturned(h) \/ DispatchThrew(h) \/ StartThrew(h) \/ StartFailureLogged(h)
  PROVE  CInv'
  <1> DEFINE r == agent.run
  <1>0. pc[h] # "idle" /\ UNCHANGED <<attempt, up>>
    BY DEF StartReturned, DispatchThrew, StartThrew, StartFailureLogged, store, env
  <1>a. /\ TInv /\ StoreAgrees /\ up /\ InFlight(h) /\ agent.run \in Runs
        /\ req[h].run = agent.run /\ agent \in AgentRecord /\ Unstarted /\ LinkExists
        /\ run[r] \in RunRecord /\ run \in [Runs -> RunRecord] /\ r \in Runs
        /\ pc[h] \notin Unsynced => Agrees(agent, run)
    BY <1>0, FlightFinds, ConsoleTypes DEF StoreAgrees
  <1>b. "failed" \in TerminalStatus /\ TerminalStatus \subseteq RunStatus
    BY DEF TerminalStatus, RunStatus
  <1>c. ASSUME pc[h] \in {"caught", "failLog"}, agent'.run = r,
               agent'.status \in {"failed", "deleted"},
               run'[r].status = "failed", LinkExists', Unstarted', Done(h)
        PROVE  CInv'
    <2>1. StoreAgrees'
      BY <1>0, <1>a, <1>c, ClosedStore DEF InFlight, Unsynced, NothingOpen
    <2>2. Agrees(agent', run')
      BY <1>c DEF Agrees, SameOutcome
    <2> QED
      BY <1>c, <2>1, <2>2, EndsInAgreement
  <1>1. CASE StartReturned(h)
    <2>1. /\ pc[h] = "started" /\ UNCHANGED run /\ agent.status # "rejected" /\ Done(h)
          /\ run[r].status \in {"running"} \cup TerminalStatus
      BY <1>a, <1>1, ConsoleTypes DEF StartReturned, store, InFlight, Unsynced, RunStatus
    <2>2. \/ agent' = [agent EXCEPT !.status = DispatchedStatus(run[r].status)]
          \/ agent' = Synced(agent, r, run[r].status)
      BY <1>a, <1>1 DEF StartReturned
    <2>3. agent'.run = r /\ agent'.status # "rejected" /\ Agrees(agent', run')
      <3>1. CASE agent' = [agent EXCEPT !.status = DispatchedStatus(run[r].status)]
        <4>1. agent'.run = r /\ agent'.status = DispatchedStatus(run[r].status)
          BY <1>a, <3>1 DEF AgentRecord
        <4> QED
          BY <2>1, <4>1 DEF DispatchedStatus, Agrees, SameOutcome
      <3>2. CASE agent' = Synced(agent, r, run[r].status)
        BY <1>a, <1>b, <2>1, <3>2, SyncedFacts, ConsoleTypes DEF Agrees
      <3> QED
        BY <2>2, <3>1, <3>2
    <2>4. StoreAgrees'
      BY <1>0, <1>a, <2>1, <2>3, AgentOnly
    <2> QED
      BY <2>1, <2>3, <2>4, EndsInAgreement
  <1>2. CASE DispatchThrew(h)
    <2>1. pc[h] = "caught" /\ Done(h) /\ agent' = [agent EXCEPT !.status = "failed"]
      BY <1>2 DEF DispatchThrew
    <2>2. agent'.run = r /\ agent'.status = "failed"
      BY <1>a, <2>1 DEF AgentRecord
    <2>3. \/ run' = [run EXCEPT ![r] = Finished(@, "failed")]
          \/ run[r].status = "failed" /\ UNCHANGED run
      BY <1>a, <1>2 DEF DispatchThrew
    <2>4. run'[r].status = "failed" /\ LinkExists' /\ Unstarted'
      <3>1. CASE run' = [run EXCEPT ![r] = Finished(@, "failed")]
        BY <1>a, <1>b, <2>2, <3>1, FinishedStore
      <3>2. CASE run[r].status = "failed" /\ UNCHANGED run
        BY <1>a, <2>2, <3>2 DEF LinkExists, Unstarted
      <3> QED
        BY <2>3, <3>1, <3>2
    <2> QED
      BY <1>c, <2>1, <2>2, <2>4
  <1>3. CASE StartThrew(h)
    <2> DEFINE prior == req[h].prior
    <2>0. /\ pc[h] = "caught" /\ agent.status # "rejected" /\ NothingOpen
          /\ Agrees(agent, run)
      BY <1>a, <1>3 DEF StartThrew, InFlight, Unsynced
    <2>1. ~PriorStillRunning(r, prior)
      <3>1. prior.cur \in 0..MaxAttempts
        BY <1>0, <1>a, BusyType DEF RunRecord
      <3> QED
        BY <1>a, <2>0, <3>1, BoundsAssumption DEF PriorStillRunning, NothingOpen,
            Numbers, None
    <2>2. CASE Done(h) /\ UNCHANGED <<run, agent>>
      <3>1. StoreAgrees' /\ Agrees(agent', run')
        BY <1>0, <1>a, <2>0, <2>2, SameStore DEF Agrees
      <3> QED
        BY <2>2, <3>1, EndsInAgreement
    <2>3. CASE Goto(h, "failLog") /\ UNCHANGED <<run, agent>> /\ run[r].status = "failed"
      <3>1. pc'[h] = "failLog" /\ UNCHANGED req
        BY <1>a, <2>3, ConsoleTypes DEF Goto
      <3>2. InFlight(h)'
        BY <1>0, <1>a, <2>0, <2>3, <3>1 DEF InFlight, Starting, Unsynced, NothingOpen
      <3> QED
        BY <1>0, <2>0, <2>3, <3>2, MovedOn DEF store, Unsynced
    <2>4. CASE /\ run' = [run EXCEPT ![r] = [Finished(@, "failed") EXCEPT !.cur = None]]
               /\ agent' = AgentFailed(agent, r) /\ Done(h)
      <3>1. agent'.run = r /\ agent'.status \in {"deleted", "failed"}
        BY <1>a, <2>0, <2>4, AgentFailedFacts
      <3>2. Finished(run[r], "failed") \in RunRecord
            /\ Finished(run[r], "failed").status = "failed"
        BY <1>a, <1>b, FinishedType
      <3>3. /\ run'[r].status = "failed" /\ run'[r].cur = None
            /\ \A s \in Runs \ {r} : run'[s] = run[s]
        BY <1>a, <2>4, <3>2 DEF RunRecord
      <3>4. LinkExists' /\ Unstarted'
        BY <1>a, <3>1, <3>3 DEF LinkExists, Unstarted
      <3> QED
        BY <1>c, <2>0, <2>4, <3>1, <3>3, <3>4
    <2> QED
      BY <1>a, <1>3, <2>1, <2>2, <2>3, <2>4 DEF StartThrew, ExecutorRecordedFailure
  <1>4. CASE StartFailureLogged(h)
    <2>1. /\ pc[h] = "failLog" /\ Done(h) /\ agent' = AgentFailedOnce(agent, r)
          /\ run' = [run EXCEPT ![r].cur = None]
          /\ run[r].status = "failed" /\ agent.status # "rejected"
      BY <1>a, <1>4 DEF StartFailureLogged, InFlight, Starting
    <2>2. agent'.run = r /\ agent'.status \in {"deleted", "failed"}
      BY <1>a, <2>1, AgentFailedFacts
    <2>3. /\ run'[r].status = "failed" /\ run'[r].cur = None
          /\ \A s \in Runs \ {r} : run'[s] = run[s]
      BY <1>a, <2>1 DEF RunRecord
    <2>4. LinkExists' /\ Unstarted'
      BY <1>a, <2>2, <2>3 DEF LinkExists, Unstarted
    <2> QED
      BY <1>c, <2>1, <2>2, <2>3, <2>4
  <1> QED
    BY <1>1, <1>2, <1>3, <1>4

\* What follows a stop, depending on the request that asked for it.
LEMMA StopReturnedConsole ==
  ASSUME KInv, Console, NEW h \in Handlers, StopReturned(h)
  PROVE  CInv'
  <1> DEFINE r == agent.run
             synced == Synced(agent, r, run[r].status)
  <1>0. pc[h] = "stopDone" /\ UNCHANGED <<attempt, up>>
    BY DEF StopReturned, env
  <1>a. /\ TInv /\ StoreAgrees /\ up /\ InFlight(h) /\ agent.run \in Runs
        /\ req[h].run = agent.run /\ agent \in AgentRecord /\ Unstarted /\ LinkExists
        /\ run \in [Runs -> RunRecord] /\ r \in Runs
    BY <1>0, FlightFinds, ConsoleTypes DEF StoreAgrees
  <1>b. /\ NothingOpen /\ req[h].op \in StopOperations
        /\ run[r].status \in {"running"} \cup TerminalStatus /\ run[r].status \in RunStatus
    BY <1>0, <1>a, ConsoleTypes DEF InFlight, Starting, Unsynced, RunStatus
  <1>c. /\ synced \in AgentRecord /\ synced.run = r
        /\ synced.status = "rejected" <=> agent.status = "rejected"
        /\ Agrees(synced, run)
    <2>1. synced \in AgentRecord
      BY <1>a, SyncedType
    <2>2. /\ synced.run = r
          /\ synced.status = "rejected" <=> agent.status = "rejected"
          /\ synced.status \notin {"deleted", "rejected"} =>
               SameOutcome(synced.status, run[r].status)
      BY <1>a, <1>b, SyncedFacts
    <2> QED
      BY <2>1, <2>2 DEF Agrees
  <1> HIDE DEF synced
  <1>1. CASE agent' = synced /\ Done(h) /\ UNCHANGED run
    <2>1. StoreAgrees'
      BY <1>0, <1>a, <1>b, <1>c, <1>1, AgentOnly
    <2> QED
      BY <1>c, <1>1, <2>1, EndsInAgreement DEF Agrees
  <1>2. CASE agent' = [synced EXCEPT !.status = "rejected"] /\ Done(h) /\ UNCHANGED run
    <2>1. agent'.run = r /\ agent'.status = "rejected"
      BY <1>c, <1>2 DEF AgentRecord
    <2>2. StoreAgrees'
      BY <1>0, <1>a, <1>b, <1>2, <2>1, AgentOnly
    <2> QED
      BY <1>2, <2>1, <2>2, EndsInAgreement DEF Agrees
  <1>3. CASE BeginStart(h, r, run[r], synced) /\ agent.status # "rejected"
             /\ UNCHANGED run
    <2>1. run'[r].status # "absent" /\ Unstarted' /\ Agrees(synced, run')
      BY <1>a, <1>c, <1>3 DEF LinkExists, Unstarted, Agrees
    <2> QED
      BY <1>0, <1>a, <1>b, <1>c, <1>3, <2>1, BeginStartConsole
  <1>4. ASSUME NEW fresh \in Runs, CreateRun(h, fresh, run) PROVE CInv'
    BY <1>0, <1>a, <1>b, <1>4, CreateRunConsole DEF Unstarted
  <1> QED
    BY <1>a, <1>b, <1>1, <1>2, <1>3, <1>4 DEF StopReturned, StopOperations, synced

LEMMA ContinueConsole ==
  ASSUME KInv, Console, NEW h \in Handlers, Continue(h)
  PROVE  CInv'
  BY LaunchConsole, StartConsole, ReturnConsole, StopReturnedConsole DEF Continue

-----------------------------------------------------------------------------
(* Grace timers and exits                                                  *)

LEMMA TimeoutConsole ==
  ASSUME KInv, Console, NEW h \in Handlers, StopTimedOut(h)
  PROVE  CInv'
  <1> DEFINE r == agent.run
             n == run[r].cur
  <1>0. pc[h] = "stopWait" /\ UNCHANGED up
    BY DEF StopTimedOut, env
  <1>a. /\ TInv /\ StoreAgrees /\ up /\ InFlight(h) /\ agent.run \in Runs
        /\ req[h].run = r /\ req[h].att = n /\ n # None /\ req[h].op \in StopOperations
        /\ agent \in AgentRecord /\ Unstarted /\ LinkExists /\ OpenIsCurrent
        /\ run[r].status \notin {"absent", "queued"} /\ Agrees(agent, run)
    BY <1>0, FlightFinds, ConsoleTypes
    DEF StoreAgrees, InFlight, Starting, Unsynced, Unstarted
  <1>b. "stopped" \in TerminalStatus /\ TerminalStatus \subseteq RunStatus
    BY DEF TerminalStatus, RunStatus
  <1>1. CASE /\ attempt' = [attempt EXCEPT ![r][n] = "stopped"]
             /\ run' = [run EXCEPT ![r] = Finished(@, "stopped")]
             /\ agent' = Synced(agent, r, "stopped")
             /\ Goto(h, "stopDone")
    <2>1. NothingOpen'
      BY <1>a, <1>b, <1>1, ClosingCurrent
    <2>2. agent'.run = r
      BY <1>a, <1>b, <1>1, SyncedFacts
    <2>3. LinkExists' /\ Unstarted' /\ run'[r].status = "stopped"
      BY <1>a, <1>b, <1>1, <2>2, FinishedStore
    <2>4. pc'[h] = "stopDone" /\ UNCHANGED req
      BY <1>a, <1>1, ConsoleTypes DEF Goto
    <2>5. InFlight(h)'
      BY <1>0, <1>a, <2>1, <2>2, <2>3, <2>4 DEF InFlight, Starting, Unsynced
    <2>6. Agrees(agent', run')
      BY <1>a, <1>b, <1>1, <2>2, <2>3, SyncedFacts DEF Agrees
    <2> QED
      BY <2>1, <2>3, <2>5, <2>6, ClosedStore, OneFlight
  <1>2. CASE Refused(h, req[h].op) /\ UNCHANGED <<store, agent>>
    <2>1. Done(h)
      BY <1>a, <1>2 DEF Refused, StopOperations
    <2> QED
      BY <1>a, <1>2, <2>1, SameStore, EndsInAgreement DEF store, Agrees
  <1> QED
    BY <1>a, <1>1, <1>2 DEF StopTimedOut

\* The row of an attempt is closed when its worker exits, and the linked run
\* with it; the request waiting for the exit goes on.
LEMMA WorkerExitConsole ==
  ASSUME KInv, Console, NEW r \in Runs, NEW n \in Numbers,
         NEW status \in {"completed", "failed"}, WorkerExit(r, n, status)
  PROVE  CInv'
  <1> DEFINE outcome == IF n \in stopping[r] THEN "stopped" ELSE status
  <1>a. /\ TInv /\ StoreAgrees /\ SettledAgrees /\ Unstarted /\ LinkExists /\ OpenIsCurrent
        /\ PromiseHolderWaits /\ Numbered /\ agent \in AgentRecord
        /\ \A h \in Handlers : pc[h] # "idle" => InFlight(h)
        /\ run \in [Runs -> RunRecord] /\ attempt[r][n] \in AttemptStatus
        /\ pc \in [Handlers -> {"idle"} \cup Suspended \cup MicroSteps]
    BY ConsoleTypes DEF KInv, LInv, CInv, StoreAgrees
  <1>b. /\ up /\ UNCHANGED <<up, req>> /\ proc[r][n] # "none"
        /\ pc' = IF waiter[r][n] = NoHandler THEN pc ELSE [pc EXCEPT ![waiter[r][n]] = "stopDone"]
    BY DEF WorkerExit, Turn, env, Working
  <1>c. outcome \in TerminalStatus /\ TerminalStatus \subseteq RunStatus
    BY DEF TerminalStatus, RunStatus
  <1> HIDE DEF outcome
  <1>1. \A h \in Handlers : \/ pc'[h] = pc[h]
                            \/ /\ pc'[h] = "stopDone" /\ pc[h] = "stopWait"
                               /\ req[h].run = r /\ req[h].att = n
    BY <1>a, <1>b DEF PromiseHolderWaits, Stopping
  <1>2. CASE attempt[r][n] \in TerminalStatus /\ UNCHANGED <<store, agent>>
    <2>1. StoreAgrees'
      BY <1>a, <1>2, SameStore DEF store
    <2>2. ASSUME NEW h \in Handlers, pc'[h] # "idle" PROVE InFlight(h)'
      <3>1. CASE pc'[h] = pc[h]
        BY <1>a, <1>b, <1>2, <2>2, <3>1 DEF InFlight, Starting, Unsynced, NothingOpen,
            store
      <3>2. CASE pc'[h] = "stopDone" /\ pc[h] = "stopWait" /\ req[h].run = r /\ req[h].att = n
        <4>1. /\ up /\ agent.run = r /\ n = run[r].cur /\ n # None
              /\ req[h].op \in StopOperations
          BY <1>a, <3>2 DEF InFlight, Starting, Unsynced
        <4>2. NothingOpen
          BY <1>a, <1>2, <4>1 DEF OpenIsCurrent, NothingOpen, TerminalStatus
        <4>3. run[r].status \notin {"absent", "queued"}
          BY <1>a, <4>1 DEF Unstarted
        <4> QED
          BY <1>b, <1>2, <3>2, <4>1, <4>2, <4>3
          DEF InFlight, Starting, Unsynced, NothingOpen, store
      <3> QED
        BY <1>1, <3>1, <3>2
    <2>3. SettledAgrees'
      BY <1>a, <1>b, <1>1, <1>2 DEF SettledAgrees, Settled, Agrees, Unsynced, store
    <2> QED
      BY <2>1, <2>2, <2>3 DEF CInv
  <1>3. CASE /\ attempt[r][n] \notin TerminalStatus
             /\ attempt' = [attempt EXCEPT ![r][n] = outcome]
             /\ run' = [run EXCEPT ![r] = Finished(@, outcome)]
             /\ agent' = Synced(agent, r, outcome)
    <2>1. attempt[r][n] = "running"
      BY <1>a, <1>b, <1>3 DEF Numbered, AttemptStatus
    <2>2. agent.run = r /\ run[r].cur = n /\ n # None
      BY <1>a, <2>1, BoundsAssumption DEF OpenIsCurrent, Numbers, None
    <2>3. NothingOpen'
      BY <1>a, <1>c, <1>3, <2>2, ClosingCurrent
    <2>4. agent'.run = r /\ (agent'.status = "rejected" <=> agent.status = "rejected")
      BY <1>a, <1>c, <1>3, <2>2, SyncedFacts
    <2>5. /\ LinkExists' /\ Unstarted'
          /\ run'[r].status = outcome /\ run'[r].cur = run[r].cur
      BY <1>a, <1>c, <1>3, <2>2, <2>4, FinishedStore
    <2>6. Agrees(agent', run')
      BY <1>a, <1>c, <1>3, <2>2, <2>4, <2>5, SyncedFacts DEF Agrees
    <2>7. ASSUME NEW h \in Handlers, pc'[h] # "idle" PROVE InFlight(h)'
      <3>1. pc[h] # "failLog"
        BY <1>a, <2>1 DEF InFlight, Unsynced, NothingOpen
      <3>2. InFlight(h) /\ (pc'[h] = pc[h] \/ (pc'[h] = "stopDone" /\ pc[h] = "stopWait"))
        BY <1>a, <1>1, <2>7
      <3>3. run'[r].status \notin {"absent", "queued"}
        BY <1>c, <2>5 DEF TerminalStatus
      <3> QED
        BY <1>b, <2>2, <2>3, <2>4, <2>5, <3>1, <3>2, <3>3 DEF InFlight, Starting, Unsynced
    <2> QED
      BY <2>3, <2>5, <2>6, <2>7, ClosedStore DEF CInv, SettledAgrees
  <1> QED
    BY <1>2, <1>3 DEF WorkerExit, outcome

-----------------------------------------------------------------------------
(* Deletion, crash and restart                                             *)

\* What does not touch the rows, the agent, or the requests.
LEMMA OutsideConsole ==
  ASSUME CInv, UNCHANGED <<store, agent, control, up>>
  PROVE  CInv'
  <1>1. StoreAgrees'
    BY SameStore DEF CInv, store
  <1>2. \A h \in Handlers : pc'[h] # "idle" => InFlight(h)'
    BY DEF CInv, InFlight, store, control, NothingOpen
  <1>3. SettledAgrees'
    BY DEF CInv, SettledAgrees, Settled, Agrees, store, control
  <1> QED
    BY <1>1, <1>2, <1>3 DEF CInv

LEMMA DeleteConsole ==
  ASSUME KInv, Console, DeleteAgent
  PROVE  CInv'
  <1>1. /\ agent'.run = agent.run /\ agent'.status = "deleted" /\ agent.status # "rejected"
        /\ UNCHANGED <<run, attempt, pc, req, up>> /\ CInv
    BY ConsoleTypes DEF DeleteAgent, KInv, LInv, AgentRecord, Startable, store,
        control, env
  <1>2. StoreAgrees'
    BY <1>1, AgentOnly DEF CInv
  <1>3. \A h \in Handlers : pc'[h] # "idle" => InFlight(h)'
    BY <1>1 DEF CInv, InFlight, NothingOpen
  <1>4. SettledAgrees'
    BY <1>1 DEF SettledAgrees, Agrees
  <1> QED
    BY <1>2, <1>3, <1>4 DEF CInv

LEMMA FailureConsole ==
  ASSUME KInv, Console, Failure
  PROVE  CInv'
  <1>1. ~up' /\ (\A h \in Handlers : pc'[h] = "idle") /\ UNCHANGED <<run, agent>>
    BY DEF Failure, Crash, CrashWhileLaunching, CrashWhileFinishing, GoDown, MemoryLost, store
  <1>2. \A r \in Runs, n \in Numbers :
          attempt'[r][n] = "running" => attempt[r][n] = "running"
    <2>1. CASE Crash \/ \E h \in Handlers : CrashWhileLaunching(h)
      BY <2>1 DEF Crash, CrashWhileLaunching, store
    <2>2. ASSUME NEW s \in Runs, NEW m \in Numbers, NEW status \in TerminalStatus,
                 CrashWhileFinishing(s, m, status)
          PROVE  \A r \in Runs, n \in Numbers :
                   attempt'[r][n] = "running" => attempt[r][n] = "running"
      BY <2>2, ConsoleTypes DEF CrashWhileFinishing, KInv, LInv, TerminalStatus
    <2> QED
      BY <2>1, <2>2 DEF Failure
  <1>3. StoreAgrees'
    BY <1>1, <1>2 DEF KInv, CInv, StoreAgrees, OpenIsCurrent, RejectedClosed, NothingOpen,
       LinkExists, Unstarted
  <1> QED
    BY <1>1, <1>3 DEF CInv, SettledAgrees, Settled

\* The restart reconciliation gives the run and the agent the same outcome.
LEMMA RestartConsole ==
  ASSUME KInv, Console, Restart
  PROVE  CInv'
  <1>a. /\ TInv /\ StoreAgrees /\ OpenIsCurrent /\ RejectedClosed /\ LinkExists /\ Unstarted
        /\ run \in [Runs -> RunRecord] /\ agent \in AgentRecord
        /\ attempt \in [Runs -> [Numbers -> AttemptStatus]]
    BY ConsoleTypes DEF KInv, LInv, CInv, StoreAgrees
  <1>b. \A h \in Handlers : pc'[h] = "idle"
    BY DEF Restart, KInv, CInv, InFlight, control
  <1>1. \A r \in Runs : run'[r].status = ReconciledStatus(r) /\ run'[r].cur = run[r].cur
    BY <1>a DEF Restart, RunRecord
  <1>2. \A r \in Runs, n \in Numbers : attempt'[r][n] = "running" =>
          attempt[r][n] = "running" /\ ~(Orphaned(r) /\ n = run[r].cur)
    BY <1>a DEF Restart
  <1>3. agent'.run = agent.run
    BY <1>a DEF Restart, ReconciledAgent, AgentRecord
  <1>4. \A r \in Runs :
          /\ run[r].status # "absent" => ReconciledStatus(r) # "absent"
          /\ ReconciledStatus(r) \in {"absent", "queued"} =>
               run[r].status \in {"absent", "queued"}
    BY <1>a, ConsoleTypes DEF ReconciledStatus, TerminalStatus, RunStatus
  <1>5. OpenIsCurrent'
    <2> SUFFICES ASSUME NEW r \in Runs, NEW n \in Numbers, attempt'[r][n] = "running"
                 PROVE  agent'.run = r /\ run'[r].status = "running" /\ run'[r].cur = n
      BY DEF OpenIsCurrent
    <2>1. /\ agent.run = r /\ run[r].status = "running" /\ run[r].cur = n
          /\ attempt[r][n] = "running" /\ ~Orphaned(r)
      BY <1>a, <1>2 DEF OpenIsCurrent
    <2>2. n # None
      BY BoundsAssumption DEF Numbers, None
    <2>3. ReconciledStatus(r) = "running"
      BY <2>1, <2>2 DEF ReconciledStatus, TerminalStatus
    <2> QED
      BY <1>1, <1>3, <2>1, <2>3
  <1>6. RejectedClosed'
    <2>1. CASE agent.run = NoRun
      BY <1>3, <1>5, <2>1, NoRunAssumption DEF OpenIsCurrent, RejectedClosed, NothingOpen
    <2>2. CASE agent.run # NoRun
      BY <1>a, <2>2 DEF Restart, ReconciledAgent, ReconciledAgentStatus, AgentStatusOf,
         AgentRecord, RejectedClosed
    <2> QED
      BY <2>1, <2>2
  <1>7. LinkExists' /\ Unstarted'
    BY <1>a, <1>1, <1>3, <1>4 DEF LinkExists, Unstarted
  <1>8. Agrees(agent', run')
    <2> DEFINE r == agent.run
    <2>1. SUFFICES ASSUME r \in Runs, agent.status # "deleted"
                   PROVE  Agrees(agent', run')
      BY <1>3 DEF Restart, ReconciledAgent, Agrees
    <2>2. /\ agent'.status = ReconciledAgentStatus(ReconciledStatus(r))
          /\ run'[r].status = ReconciledStatus(r) /\ ReconciledStatus(r) # "absent"
      BY <1>a, <1>1, <1>4, <2>1, NoRunAssumption
      DEF Restart, ReconciledAgent, AgentRecord, LinkExists
    <2>3. ReconciledStatus(r) \in RunStatus
      BY <1>a, <2>1, ConsoleTypes
      DEF ReconciledStatus, RunStatus, TerminalStatus, AttemptStatus
    <2> QED
      BY <1>3, <2>2, <2>3 DEF Agrees, ReconciledAgentStatus, AgentStatusOf, SameOutcome,
         RunStatus, TerminalStatus
  <1> QED
    BY <1>b, <1>5, <1>6, <1>7, <1>8 DEF CInv, StoreAgrees, SettledAgrees

-----------------------------------------------------------------------------
(* The inductive invariant                                                 *)

LEMMA InitialConsole == Init => KInv
  <1> SUFFICES ASSUME Init PROVE KInv
    OBVIOUS
  <1>1. LInv
    BY InitialLedger
  <1>2. /\ \A r \in Runs : run[r].status = "absent" /\ run[r].cur = None
        /\ \A r \in Runs, n \in Numbers : attempt[r][n] = "none"
        /\ agent.run = NoRun
        /\ \A h \in Handlers : pc[h] = "idle"
    BY DEF Init, AbsentRun
  <1>3. CInv
    BY <1>2, NoRunAssumption DEF CInv, StoreAgrees, OpenIsCurrent, RejectedClosed,
       NothingOpen, LinkExists, Unstarted, SettledAgrees, Agrees
  <1> QED
    BY <1>1, <1>3 DEF KInv

LEMMA StepConsole ==
  ASSUME Console, KInv, [Next]_vars
  PROVE  KInv'
  <1>0. LInv'
    BY StepLedger DEF KInv
  <1>1. ASSUME NEW h \in Handlers, Operator(h) \/ Continue(h) \/ StopTimedOut(h)
        PROVE  CInv'
    BY <1>1, OperatorConsole, ContinueConsole, TimeoutConsole
  <1>2. ASSUME NEW r \in Runs, NEW n \in Numbers, Exit(r, n) PROVE CInv'
    <2>1. CASE UnwatchedExit(r, n)
      BY <2>1, OutsideConsole DEF UnwatchedExit, KInv, env
    <2> QED
      BY <1>2, <2>1, WorkerExitConsole DEF Exit
  <1>3. ASSUME UNCHANGED vars PROVE CInv'
    BY <1>3, OutsideConsole DEF vars, KInv, store, control
  <1>4. ASSUME NEW s \in strays, StrayExits(s) PROVE CInv'
    BY <1>4, OutsideConsole DEF StrayExits, KInv
  <1>5. CInv'
    BY <1>1, <1>2, <1>3, <1>4, DeleteConsole, FailureConsole, RestartConsole DEF Next
  <1> QED
    BY <1>0, <1>5 DEF KInv

LEMMA ConsoleInvariant ==
  ASSUME Console
  PROVE  Spec => []KInv
  <1>1. KInv /\ [Next]_vars => KInv'
    BY StepConsole
  <1> QED
    BY <1>1, InitialConsole, PTL DEF Spec

-----------------------------------------------------------------------------
(* What follows from it                                                    *)

\* A worker that could run for ever is the one of the linked run's current
\* attempt, and that run is running.
LEMMA WorkerIsCurrent ==
  ASSUME KInv, NEW r \in Runs, NEW n \in Workers(r)
  PROVE  /\ n \in Numbers /\ attempt[r][n] = "running"
         /\ agent.run = r /\ run[r].status = "running" /\ run[r].cur = n
  <1>1. n \in Numbers /\ proc[r][n] \in Working
    BY DEF Workers
  <1>2. attempt[r][n] # "none" /\ attempt[r][n] \notin TerminalStatus
    BY <1>1 DEF KInv, LInv, Numbered, NoForgottenWorker, Working
  <1>3. attempt[r][n] = "running"
    BY <1>1, <1>2, ConsoleTypes DEF KInv, LInv, AttemptStatus
  <1> QED
    BY <1>1, <1>3 DEF KInv, CInv, StoreAgrees, OpenIsCurrent

\* A worker that no attempt names was spawned by a daemon that died since.
StraysOrphaned == \A s \in strays : s[2] < crashes

LEMMA StraysOrphanedStep ==
  ASSUME ~KillFaults, TInv, StraysOrphaned, [Next]_vars
  PROVE  StraysOrphaned'
  <1>0. crashes \in Nat /\ \A s \in strays : s \in Runs \X Nat
    BY DEF TInv, TypeOK
  <1>1. CASE UNCHANGED crashes /\ strays' \subseteq strays
    BY <1>1 DEF StraysOrphaned
  <1>2. ASSUME NEW h \in Handlers, LaunchFails(h) PROVE StraysOrphaned'
    BY <1>1, <1>2 DEF LaunchFails, AttemptNotStored
  <1>3. ASSUME NEW h \in Handlers, Operator(h) \/ Continue(h) \/ StopTimedOut(h)
        PROVE  StraysOrphaned'
    <2>1. ~LaunchFails(h) => UNCHANGED <<strays, crashes>>
      BY <1>3 DEF Operator, Accept, RequestStart, RequestStop, StopUnstarted, RequestKill,
         RequestRestart, RequestDispatch, StopUnlinkedAgent, RequestReplace, RequestReject,
         Continue, LaunchWorker, LaunchCancelled, PrepareFailureLogged, SpawnFailureLogged,
         StartLogged, DispatchLogged, UndoRejectedStart, StartReturned, DispatchThrew,
         StartThrew, StartFailureLogged, StopReturned, StopTimedOut, env
    <2> QED
      BY <1>1, <1>2, <2>1
  <1>4. CASE Failure
    <2>1. crashes' = crashes + 1
      BY <1>4 DEF Failure, Crash, CrashWhileLaunching, CrashWhileFinishing, GoDown
    <2>2. strays' = strays \/ \E r \in Runs : Strayed(r)
      BY <1>4, BusyType DEF Failure, Crash, CrashWhileLaunching, CrashWhileFinishing
    <2>3. \A s \in strays' : s \in strays \/ s[2] = crashes
      BY <2>2 DEF Strayed
    <2>4. \A s \in strays' : s[2] <= crashes /\ s[2] \in Nat
      BY <1>0, <2>3 DEF StraysOrphaned
    <2> QED
      BY <1>0, <2>1, <2>4 DEF StraysOrphaned
  <1> QED
    BY <1>1, <1>3, <1>4 DEF Next, Exit, WorkerExit, UnwatchedExit, StrayExits, DeleteAgent,
       Restart, vars, env

\* What an operator of the agent routes can rely on, as long as the daemon can
\* kill a worker that it could not store.
WInv == KInv /\ StraysOrphaned

LEMMA WorkerInvariant ==
  ASSUME Console, ~KillFaults
  PROVE  Spec => []WInv
  <1>1. Init => WInv
    BY InitialConsole DEF WInv, StraysOrphaned, Init
  <1>2. WInv /\ [Next]_vars => WInv'
    BY StepConsole, StraysOrphanedStep DEF WInv, KInv, LInv
  <1> QED
    BY <1>1, <1>2, PTL DEF Spec

\* Then a worker is one of an attempt.
LEMMA EveryWorkerEntered ==
  ASSUME WInv
  PROVE  /\ {s \in strays : s[2] = crashes} = {}
         /\ \A r \in Runs : HasWorker(r) <=> Workers(r) # {}
  <1>1. \A s \in strays : s[2] # crashes
    BY DEF WInv, StraysOrphaned, KInv, LInv, TInv, TypeOK
  <1> QED
    BY <1>1 DEF HasWorker, Unentered

LEMMA AtMostOneWorker == WInv => OneWorkerPerAgent
  <1> SUFFICES ASSUME WInv PROVE OneWorkerPerAgent
    OBVIOUS
  <1> DEFINE S == {s \in Runs \X Numbers : s[2] \in Workers(s[1])}
             a == <<agent.run, run[agent.run].cur>>
  <1>1. ASSUME NEW s \in S PROVE s = a
    <2>1. s \in Runs \X Numbers /\ s[2] \in Workers(s[1])
      BY <1>1
    <2>2. PICK r \in Runs, n \in Numbers : s = <<r, n>>
      BY <2>1
    <2>3. agent.run = r /\ run[r].cur = n
      BY <2>1, <2>2, WorkerIsCurrent DEF WInv
    <2> QED
      BY <2>2, <2>3
  <1> HIDE DEF S, a
  <1>2. IsFiniteSet({a}) /\ Cardinality({a}) = 1
    BY FS_Singleton
  <1>3. Cardinality(S) <= 1 /\ Cardinality(S) \in Nat
    <2>1. S \in SUBSET {a}
      BY <1>1
    <2> QED
      BY <1>2, <2>1, FS_Subset, FS_CardinalityType
  <1>4. Cardinality({s \in strays : s[2] = crashes}) = 0
    BY EveryWorkerEntered, FS_EmptySet
  <1> QED
    BY <1>3, <1>4 DEF OneWorkerPerAgent, S

\* A start, restart or replacement that an operator asks for on the agent never
\* launches a worker next to another that the present daemon spawned or that an
\* attempt names, over crashes, failed stops, failed launches and new runs of
\* the agent.
THEOREM SingleWorker ==
  ASSUME Console, ~KillFaults
  PROVE  Spec => []OneWorkerPerAgent
  <1> QED
    BY WorkerInvariant, AtMostOneWorker, PTL

\* A fresh run is dispatched only when its predecessor's worker is condemned, or
\* is one that a daemon left without an attempt when it died.
THEOREM NoStrayWorker ==
  ASSUME Console, ~KillFaults
  PROVE  Spec => []UnlinkedRunHasNoWorker
  <1>1. WInv => UnlinkedRunHasNoWorker
    BY WorkerIsCurrent, EveryWorkerEntered DEF WInv, UnlinkedRunHasNoWorker
  <1> QED
    BY <1>1, WorkerInvariant, PTL

\* A run in a terminal state left no worker that nobody would stop, whichever
\* of BeastRunService's failure transactions wrote that state: none of the
\* present daemon, and none that an attempt names.
THEOREM NoWorkerAfterTheEnd ==
  ASSUME Console, ~KillFaults
  PROVE  Spec => []FinishedRunHasNoWorker
  <1>1. WInv => FinishedRunHasNoWorker
    BY WorkerIsCurrent, EveryWorkerEntered DEF WInv, FinishedRunHasNoWorker, TerminalStatus
  <1> QED
    BY <1>1, WorkerInvariant, PTL

\* Between requests the agent's status is the outcome of its run: the service,
\* the exit callbacks and the restart reconciliation never drift apart.
THEOREM AgentAndRunAgree ==
  ASSUME Console
  PROVE  Spec => []AgentAgreesWithRun
  <1>1. KInv => AgentAgreesWithRun
    BY DEF KInv, CInv, SettledAgrees, Settled, Agrees, AgentAgreesWithRun, Calm, Idle,
        Unsynced
  <1> QED
    BY <1>1, ConsoleInvariant, PTL

-----------------------------------------------------------------------------
(* A running run can be reached                                             *)

\* Not only between requests: a running run has a current attempt.
Reachable == \A r \in Runs : run[r].status = "running" => run[r].cur # None

\* A run may finish, no other changes.
LEMMA FinishReachable ==
  ASSUME TInv, Reachable,
         \/ UNCHANGED run
         \/ \E r \in Runs, status \in TerminalStatus :
              run' = [run EXCEPT ![r] = Finished(@, status)]
  PROVE  Reachable'
  <1>1. CASE UNCHANGED run
    BY <1>1 DEF Reachable
  <1>2. ASSUME NEW r \in Runs, NEW status \in TerminalStatus,
               run' = [run EXCEPT ![r] = Finished(@, status)]
        PROVE  Reachable'
    <2>1. Finished(run[r], status).status # "running"
      BY <1>2, CountTypes, FinishedType DEF TerminalStatus
    <2>2. run'[r] = Finished(run[r], status) /\ \A s \in Runs \ {r} : run'[s] = run[s]
      BY <1>2, CountTypes
    <2> QED
      BY <2>1, <2>2 DEF Reachable
  <1> QED
    BY <1>1, <1>2

\* A run of its own is dispatched.
LEMMA CreateReachable ==
  ASSUME NEW h \in Handlers, NEW fresh \in Runs, NEW runs \in [Runs -> RunRecord],
         CreateRun(h, fresh, runs),
         \A r \in Runs : runs[r].status = "running" => runs[r].cur # None
  PROVE  Reachable'
  <1>1. run'[fresh].status = "queued" /\ \A s \in Runs \ {fresh} : run'[s] = runs[s]
    BY AbsentRunType DEF CreateRun
  <1> QED
    BY <1>1 DEF Reachable

LEMMA OperatorReachable ==
  ASSUME TInv, Reachable, NEW h \in Handlers, Operator(h)
  PROVE  Reachable'
  <1>a. run \in [Runs -> RunRecord] /\ {"stopped", "killed"} \subseteq TerminalStatus
    BY ConsoleTypes DEF TerminalStatus
  <1>1. ASSUME NEW r \in Runs,
               \/ RequestStart(h, r) \/ RequestStop(h, r) \/ StopUnstarted(h, r)
               \/ RequestKill(h, r) \/ RequestRestart(h, r)
        PROVE  Reachable'
    BY <1>1, <1>a, FinishReachable
    DEF RequestStart, RequestStop, StopUnstarted, RequestKill, RequestRestart, store
  <1>2. ASSUME NEW r \in Runs, RequestDispatch(h, r)
        PROVE  Reachable'
    BY <1>2, <1>a, CreateReachable DEF RequestDispatch, Reachable
  <1>3. CASE RequestReplace(h)
    <2> DEFINE r == agent.run
               runs == [run EXCEPT ![r] = Finished(@, "stopped")]
    <2>1. r \in Runs
      BY <1>3 DEF RequestReplace, Attempted
    <2>2. /\ runs \in [Runs -> RunRecord]
          /\ runs[r].status = "stopped" /\ \A s \in Runs \ {r} : runs[s] = run[s]
      BY <1>a, <2>1, FinishedType
    <2>3. \A s \in Runs : runs[s].status = "running" => runs[s].cur # None
      BY <2>2 DEF Reachable
    <2>4. UNCHANGED run \/ \E fresh \in Runs : CreateRun(h, fresh, runs)
      BY <1>3 DEF RequestReplace, store
    <2> HIDE DEF runs
    <2> QED
      BY <2>2, <2>3, <2>4, CreateReachable, FinishReachable
  <1>4. CASE StopUnlinkedAgent(h) \/ RequestReject(h)
    BY <1>4, <1>a, FinishReachable DEF StopUnlinkedAgent, RequestReject, store
  <1> QED
    BY <1>1, <1>2, <1>3, <1>4 DEF Operator

LEMMA ContinueReachable ==
  ASSUME KInv, Console, Reachable, NEW h \in Handlers, Continue(h) \/ StopTimedOut(h)
  PROVE  Reachable'
  <1>0. pc[h] # "idle"
    BY DEF Continue, StopTimedOut, LaunchWorker, LaunchCancelled, LaunchFails,
       PrepareFailureLogged, SpawnFailureLogged, StartLogged, DispatchLogged,
       UndoRejectedStart, StartReturned, DispatchThrew, StartThrew, StartFailureLogged,
       StopReturned
  <1> DEFINE r == req[h].run
  <1>a. /\ TInv /\ InFlight(h) /\ r \in Runs /\ run \in [Runs -> RunRecord]
        /\ {"stopped", "failed"} \subseteq TerminalStatus
    BY <1>0, FlightFinds, ConsoleTypes DEF TerminalStatus
  <1>1. CASE LaunchWorker(h)
    <2>1. PICK n \in Numbers :
            run' = [run EXCEPT ![r] = [@ EXCEPT !.status = "running", !.cur = n,
                                                !.count = n]]
      BY <1>1 DEF LaunchWorker
    <2>2. run'[r].cur = n /\ \A s \in Runs \ {r} : run'[s] = run[s]
      BY <1>a, <2>1 DEF RunRecord
    <2>3. n # None
      BY BoundsAssumption DEF Numbers, None
    <2> QED
      BY <2>2, <2>3 DEF Reachable
  <1>2. CASE StartThrew(h)
    <2> DEFINE prior == req[h].prior
    <2>1. ~PriorStillRunning(r, prior)
      <3>1. prior.cur \in 0..MaxAttempts
        BY <1>0, <1>a, BusyType DEF RunRecord
      <3>2. NothingOpen
        BY <1>a, <1>2 DEF StartThrew, InFlight, Unsynced
      <3> QED
        BY <1>a, <3>1, <3>2, BoundsAssumption DEF PriorStillRunning, NothingOpen,
           Numbers, None
    <2>2. \/ UNCHANGED run
          \/ run' = [run EXCEPT ![r] = [Finished(@, "failed") EXCEPT !.cur = None]]
      BY <1>2, <2>1 DEF StartThrew
    <2>3. ASSUME run' = [run EXCEPT ![r] = [Finished(@, "failed") EXCEPT !.cur = None]]
          PROVE  Reachable'
      <3>1. Finished(run[r], "failed") \in RunRecord
            /\ Finished(run[r], "failed").status = "failed"
        BY <1>a, FinishedType
      <3>2. run'[r].status = "failed" /\ \A s \in Runs \ {r} : run'[s] = run[s]
        BY <1>a, <2>3, <3>1 DEF RunRecord
      <3> QED
        BY <3>2 DEF Reachable
    <2> QED
      BY <1>a, <2>2, <2>3, FinishReachable
  <1>3. CASE StartFailureLogged(h)
    <2>1. run[r].status = "failed" /\ run' = [run EXCEPT ![r].cur = None]
      BY <1>a, <1>3 DEF StartFailureLogged, InFlight
    <2>2. run'[r].status = "failed" /\ \A s \in Runs \ {r} : run'[s] = run[s]
      BY <1>a, <2>1 DEF RunRecord
    <2> QED
      BY <2>2 DEF Reachable
  <1>4. CASE StopReturned(h)
    <2>1. UNCHANGED run \/ \E fresh \in Runs : CreateRun(h, fresh, run)
      BY <1>4 DEF StopReturned
    <2> QED
      BY <1>a, <2>1, CreateReachable, FinishReachable DEF Reachable
  <1>5. CASE \/ LaunchCancelled(h) \/ LaunchFails(h) \/ PrepareFailureLogged(h)
             \/ SpawnFailureLogged(h) \/ StartLogged(h) \/ DispatchLogged(h)
             \/ UndoRejectedStart(h) \/ StartReturned(h) \/ DispatchThrew(h)
             \/ StopTimedOut(h)
    BY <1>a, <1>5, FinishReachable
    DEF LaunchCancelled, LaunchFails, PrepareFailureLogged, SpawnFailureLogged,
        StartLogged, DispatchLogged, UndoRejectedStart, StartReturned, DispatchThrew,
        StopTimedOut, store
  <1> QED
    BY <1>1, <1>2, <1>3, <1>4, <1>5 DEF Continue

LEMMA StepReachable ==
  ASSUME Console, KInv, Reachable, [Next]_vars
  PROVE  Reachable'
  <1>a. TInv /\ run \in [Runs -> RunRecord]
    BY ConsoleTypes DEF KInv, LInv
  <1>1. ASSUME NEW r \in Runs, NEW n \in Numbers, Exit(r, n)
        PROVE  Reachable'
    <2>1. ASSUME NEW status \in {"completed", "failed"}, WorkerExit(r, n, status)
          PROVE  Reachable'
      BY <1>a, <2>1, FinishReachable DEF WorkerExit, store, TerminalStatus
    <2> QED
      BY <1>1, <1>a, <2>1, FinishReachable DEF Exit, UnwatchedExit, store
  <1>2. CASE UNCHANGED run
    BY <1>2, <1>a, FinishReachable
  <1>3. CASE Restart
    <2>1. \A r \in Runs : run'[r].status = ReconciledStatus(r) /\ run'[r].cur = run[r].cur
      BY <1>3, <1>a DEF Restart, RunRecord
    <2>2. \A r \in Runs : run[r].cur = None => ReconciledStatus(r) # "running"
      BY <1>a, ConsoleTypes DEF ReconciledStatus, Reachable, TerminalStatus
    <2> QED
      BY <2>1, <2>2 DEF Reachable
  <1> QED
    BY <1>a, <1>1, <1>2, <1>3, OperatorReachable, ContinueReachable
    DEF Next, vars, DeleteAgent, Failure, Crash, CrashWhileLaunching, CrashWhileFinishing,
        StrayExits, store

\* A running run has an attempt that stop, kill and restart can reach: the start
\* that loses it, in BeastRunService's failure transactions, needs a second
\* request that overlaps the first.
THEOREM NoRunOutOfReach ==
  ASSUME Console
  PROVE  Spec => []RunningRunHasAttempt
  <1>1. Init => Reachable
    BY DEF Init, AbsentRun, Reachable
  <1>2. Reachable => RunningRunHasAttempt
    BY DEF Reachable, RunningRunHasAttempt
  <1>3. KInv /\ Reachable /\ [Next]_vars => Reachable'
    BY StepReachable
  <1> QED
    BY <1>1, <1>2, <1>3, ConsoleInvariant, PTL DEF Spec
=============================================================================

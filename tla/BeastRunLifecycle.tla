-------------------------- MODULE BeastRunLifecycle --------------------------
(***************************************************************************)
(* The life of Beast runs and their worker processes inside the daemon:    *)
(* BeastRunService, BeastDispatchService, ProcessBeastExecutor, the        *)
(* ProcessSupervisor, the run repository and the agent routes, all of      *)
(* packages/franken-orchestrator/src.                                      *)
(*                                                                         *)
(* The daemon is one JavaScript thread.  A request runs until it awaits    *)
(* file I/O, a timer or a process event; anything else may run then.  An   *)
(* await that is already settled resumes before the event loop takes its   *)
(* next event, so the steps in MicroSteps have priority over every other   *)
(* action of the daemon (`Quiet').  The repository is synchronous SQLite   *)
(* and survives a crash; the executor's maps do not; workers are detached  *)
(* process groups and survive too.                                         *)
(***************************************************************************)
EXTENDS Naturals, FiniteSets

CONSTANTS
  Runs,                \* run ids the daemon may create for the one agent
  NoRun,
  Handlers,            \* requests the daemon can have in flight at once
  NoHandler,
  MaxAttempts,         \* bound: attempts per run
  MaxRequests,         \* bound: operator requests in a behaviour
  MaxCrashes,          \* bound: daemon crashes in a behaviour
  Routes,              \* route families operators use: "agent", "run"
  CapacityConfigured,  \* a capacity reservation policy is configured
  LogFaults,           \* the append of the "started pid" line may reject
  KillFaults           \* the kill of a worker that was not stored may fail

ASSUME NoRunAssumption == NoRun \notin Runs
ASSUME NoHandlerAssumption == NoHandler \notin Handlers
ASSUME BoundsAssumption ==
  MaxAttempts \in Nat /\ MaxRequests \in Nat /\ MaxCrashes \in Nat
ASSUME SwitchesAssumption ==
  /\ Routes \subseteq {"agent", "run"}
  /\ CapacityConfigured \in BOOLEAN
  /\ LogFaults \in BOOLEAN
  /\ KillFaults \in BOOLEAN

VARIABLES
  run,        \* beast_runs: status, current attempt, attempt count, finish stamp
  attempt,    \* beast_run_attempts: status of the n-th attempt of a run
  agent,      \* tracked_agents: status and dispatchRunId of the one agent
  proc,       \* the worker process of each attempt, as the operating system has it
  watched,    \* attempts whose child process this daemon holds callbacks for
  stopping,   \* ProcessBeastExecutor.stoppingAttempts
  waiter,     \* ProcessBeastExecutor.exitPromises: who awaits an attempt's exit
  pc,         \* where each request is suspended
  req,        \* what each request remembers across its awaits
  up,         \* the daemon is running
  requests,   \* operator requests so far
  crashes,    \* daemon crashes so far
  strays      \* workers no attempt names: their run, and the crashes before them

store == <<run, attempt>>
workers == <<proc, watched>>
exits == <<stopping, waiter>>
control == <<pc, req>>
env == <<up, requests, crashes, strays>>
vars == <<run, attempt, agent, proc, watched, stopping, waiter, pc, req,
          up, requests, crashes, strays>>

None == 0
Numbers == 1..MaxAttempts

\* killed: stopped, with the stop reason operator_kill.
TerminalStatus == {"completed", "failed", "stopped", "killed"}
RunStatus == {"absent", "queued", "running"} \cup TerminalStatus
AttemptStatus == {"none", "running"} \cup TerminalStatus
AgentStatus == {"initializing", "dispatching", "running", "completed",
                "failed", "stopped", "rejected", "deleted"}

\* live: untouched; term: signalled SIGTERM, which it may ignore; killed:
\* signalled SIGKILL; dead: gone.
ProcStatus == {"none", "live", "term", "killed", "dead"}

\* A worker that nothing has condemned: it may run for ever.
Working == {"live", "term"}

Suspended == {"dispLog", "prepLog", "spawnLog", "startLog", "failLog", "stopWait"}
MicroSteps == {"launch", "started", "caught", "stopDone"}
Operations == {"start", "stop", "restart", "reject", "replace", "dispatch", "undo"}

RunRecord == [status : RunStatus, cur : 0..MaxAttempts,
              count : 0..MaxAttempts, fin : Nat]
AgentRecord == [status : AgentStatus, run : Runs \cup {NoRun}]
Request == [op : Operations, run : Runs, att : 0..MaxAttempts, prior : RunRecord]

AbsentRun == [status |-> "absent", cur |-> None, count |-> 0, fin |-> 0]
NoRequest == [op |-> "none"]

-----------------------------------------------------------------------------
(* Updates of the stored records                                           *)

Finished(rec, status) == [rec EXCEPT !.status = status, !.fin = @ + 1]

\* Mutant of AgentStatusOf: only a run that goes well has a status of its own.
FailedRunStopsAgent(status) ==
  IF status \in {"running", "completed"} THEN status ELSE "stopped"

\* BeastRunService.syncTrackedAgent: the agent takes the run's status, unless
\* it is deleted, rejected or already there.
AgentStatusOf(status) ==
  IF status \in {"running", "completed", "failed"} THEN status ELSE "stopped"

Synced(ag, r, status) ==
  IF ag.status \in {"deleted", "rejected", AgentStatusOf(status)}
    THEN ag
    ELSE [status |-> AgentStatusOf(status), run |-> r]

\* reserveTrackedAgentCapacityForStart
Reserved(ag, r) ==
  IF CapacityConfigured /\ ag.status # "deleted"
    THEN [status |-> "dispatching", run |-> r]
    ELSE ag

\* The failure transactions of BeastRunService.start.  The one for a failure
\* the executor has recorded leaves an agent that already is failed linked to
\* whatever run it has.
AgentFailed(ag, r) ==
  IF ag.status \in {"deleted", "rejected"} THEN ag
  ELSE [status |-> "failed", run |-> r]

AgentFailedOnce(ag, r) == IF ag.status = "failed" THEN ag ELSE AgentFailed(ag, r)

\* BeastDispatchService.createRun, after a start that returned.
DispatchedStatus(status) ==
  IF status \in {"running", "completed"} THEN status ELSE "dispatching"

-----------------------------------------------------------------------------
(* The event loop                                                          *)

Quiet == \A h \in Handlers : pc[h] \notin MicroSteps
Idle == \A h \in Handlers : pc[h] = "idle"

Turn == up /\ Quiet

Done(h) ==
  /\ pc' = [pc EXCEPT ![h] = "idle"]
  /\ req' = [req EXCEPT ![h] = NoRequest]

Goto(h, label) == pc' = [pc EXCEPT ![h] = label] /\ UNCHANGED req

Accept(h) ==
  /\ Turn
  /\ pc[h] = "idle"
  /\ requests < MaxRequests
  /\ requests' = requests + 1
  /\ UNCHANGED <<up, crashes, strays>>

-----------------------------------------------------------------------------
(* Routes: which requests the HTTP handlers let through                    *)

Startable == {"stopped", "failed", "completed"}

Exists(r) == run[r].status # "absent"
Linked(r) == "agent" \in Routes /\ agent.run = r /\ agent.status # "deleted"

StartRoute(r) == "run" \in Routes \/ (Linked(r) /\ agent.status \in Startable)
ResumeRoute(r) == Linked(r) /\ agent.status = "stopped"
RestartRoute(r) == "run" \in Routes \/ (Linked(r) /\ agent.status # "rejected")
StopRoute(r) == "run" \in Routes \/ Linked(r)
KillRoute(r) == "run" \in Routes \/ (Linked(r) /\ agent.status = "running")

\* An agent route dispatches a new run for an agent that has none, or whose
\* module configuration no longer is the one its run was made with.
Attempted == agent.run \in Runs /\ run[agent.run].count > 0

DispatchRoute ==
  \/ "run" \in Routes
  \/ /\ "agent" \in Routes
     /\ agent.run = NoRun
     /\ agent.status \in Startable \cup {"initializing"}
  \/ "agent" \in Routes /\ Attempted /\ agent.status \in Startable
  \/ "agent" \in Routes /\ Attempted /\ run[agent.run].status # "running"

-----------------------------------------------------------------------------
(* ProcessBeastExecutor.stop: up to its await                              *)

\* The supervisor refuses to signal a pid it holds no child for, when the
\* process that now has the pid is not the recorded one.  The request ends
\* then, but a start that was undoing itself falls into its catch block.  That
\* it may refuse a live worker, whose identity it cannot read, is left out: the
\* start times of processes are taken to be readable, as on Linux.
MayRefuse(r, n) == n \notin watched[r] /\ proc[r][n] = "dead"

\* Mutant of Killed: a worker that was sent SIGTERM is taken to be gone.
KilledUnlessSignalled(p) == IF p = "live" THEN "killed" ELSE p

Terminated(p) == IF p = "live" THEN "term" ELSE p
Killed(p) == IF p \in Working THEN "killed" ELSE p

Refused(h, op) ==
  IF op \in {"start", "dispatch"} THEN Goto(h, "caught") ELSE Done(h)

\* Mutant of BeginStop: a refused stop leaves its promise behind.
BeginStopLeavingPromise(h, r, op) ==
  LET n == run[r].cur IN
  /\ waiter' = [waiter EXCEPT ![r][n] = h]
  /\ \/ /\ stopping' = [stopping EXCEPT ![r] = @ \cup {n}]
        /\ proc' = [proc EXCEPT ![r][n] = Terminated(@)]
        /\ pc' = [pc EXCEPT ![h] = "stopWait"]
        /\ req' = [req EXCEPT ![h] = [op |-> op, run |-> r, att |-> n, prior |-> run[r]]]
        /\ UNCHANGED watched
     \/ /\ MayRefuse(r, n)
        /\ stopping' = [stopping EXCEPT ![r] = @ \ {n}]
        /\ Refused(h, op)
        /\ UNCHANGED workers

BeginStop(h, r, op) ==
  LET n == run[r].cur IN
  \/ /\ waiter' = [waiter EXCEPT ![r][n] = h]
     /\ stopping' = [stopping EXCEPT ![r] = @ \cup {n}]
     /\ proc' = [proc EXCEPT ![r][n] = Terminated(@)]
     /\ pc' = [pc EXCEPT ![h] = "stopWait"]
     /\ req' = [req EXCEPT ![h] = [op |-> op, run |-> r, att |-> n, prior |-> run[r]]]
     /\ UNCHANGED watched
  \/ /\ MayRefuse(r, n)
     /\ waiter' = [waiter EXCEPT ![r][n] = NoHandler]
     /\ stopping' = [stopping EXCEPT ![r] = @ \ {n}]
     /\ Refused(h, op)
     /\ UNCHANGED workers

\* BeastRunService.start up to the executor: `rec' is the run as it is read.
BeginStart(h, r, rec, ag) ==
  /\ agent' = Reserved(ag, r)
  /\ pc' = [pc EXCEPT ![h] = "launch"]
  /\ req' = [req EXCEPT ![h] = [op |-> "start", run |-> r, att |-> None, prior |-> rec]]

\* BeastDispatchService.createRun up to its first await.  Only the run route
\* can ask for a run that is not started now.
CreateRun(h, r, runs) ==
  /\ run' = [runs EXCEPT ![r] = [AbsentRun EXCEPT !.status = "queued"]]
  /\ agent' = [status |-> "dispatching", run |-> r]
  /\ \/ /\ pc' = [pc EXCEPT ![h] = "dispLog"]
        /\ req' = [req EXCEPT ![h] = [op |-> "dispatch", run |-> r, att |-> None,
                                      prior |-> [AbsentRun EXCEPT !.status = "queued"]]]
     \/ "run" \in Routes /\ Done(h)

-----------------------------------------------------------------------------
(* Requests                                                                *)

RequestStart(h, r) ==
  /\ Accept(h)
  /\ Exists(r) /\ (StartRoute(r) \/ ResumeRoute(r))
  /\ run[r].count < MaxAttempts
  /\ agent.status # "rejected"
  /\ BeginStart(h, r, run[r], agent)
  /\ UNCHANGED <<store, workers, exits>>

RequestStop(h, r) ==
  /\ Accept(h)
  /\ Exists(r) /\ StopRoute(r) /\ run[r].cur # None
  /\ BeginStop(h, r, "stop")
  /\ UNCHANGED <<store, agent>>

\* BeastRunService.stop of a run that has no attempt: it awaits nothing.
\* BeastRunService.kill reaches it too, unless the run is terminal, and so does
\* the restart of a running one whose agent is rejected, which then throws.
StopUnstarted(h, r) ==
  /\ Accept(h)
  /\ Exists(r) /\ StopRoute(r) /\ run[r].cur = None
  /\ run' = [run EXCEPT ![r] = Finished(@, "stopped")]
  /\ agent' = Synced(agent, r, "stopped")
  /\ UNCHANGED <<attempt, workers, exits, control>>

\* The stop route of an agent that was never dispatched.
StopUnlinkedAgent(h) ==
  /\ Accept(h)
  /\ agent.run = NoRun /\ agent.status # "deleted"
  /\ agent' = [agent EXCEPT !.status = "stopped"]
  /\ UNCHANGED <<store, workers, exits, control>>

\* BeastRunService.kill: SIGKILL and the record of it are one step, since
\* supervisor.kill awaits nothing.
RequestKill(h, r) ==
  LET n == run[r].cur IN
  /\ Accept(h)
  /\ Exists(r) /\ KillRoute(r) /\ n # None
  /\ proc' = [proc EXCEPT ![r][n] = Killed(@)]
  /\ attempt' = [attempt EXCEPT ![r][n] = "killed"]
  /\ run' = [run EXCEPT ![r] = Finished(@, "killed")]
  /\ agent' = Synced(agent, r, "killed")
  /\ UNCHANGED <<watched, exits, control>>

RequestRestart(h, r) ==
  /\ Accept(h)
  /\ Exists(r) /\ RestartRoute(r) /\ run[r].count < MaxAttempts
  /\ \/ /\ run[r].status = "running" /\ run[r].cur # None
        /\ BeginStop(h, r, "restart")
        /\ UNCHANGED <<store, agent>>
     \/ /\ run[r].status = "running" /\ run[r].cur = None
        /\ run' = [run EXCEPT ![r] = Finished(@, "stopped")]
        /\ agent.status # "rejected"
        /\ BeginStart(h, r, Finished(run[r], "stopped"), Synced(agent, r, "stopped"))
        /\ UNCHANGED <<attempt, workers, exits>>
     \/ /\ run[r].status # "running"
        /\ agent.status # "rejected"
        /\ BeginStart(h, r, run[r], agent)
        /\ UNCHANGED <<store, workers, exits>>

RequestDispatch(h, r) ==
  /\ Accept(h)
  /\ ~Exists(r) /\ DispatchRoute
  /\ agent.status # "rejected"
  /\ agent.status = "deleted" => "run" \in Routes
  /\ CreateRun(h, r, run)
  /\ UNCHANGED <<attempt, workers, exits>>

\* Mutant of RequestReplace: the fresh run is created without stopping the old.
ReplaceUnstopped(h) ==
  /\ Accept(h)
  /\ "agent" \in Routes /\ Attempted
  /\ agent.status \notin {"rejected", "deleted"}
  /\ run[agent.run].status = "running"
  /\ \E fresh \in Runs : ~Exists(fresh) /\ CreateRun(h, fresh, run)
  /\ UNCHANGED <<attempt, workers, exits>>

\* dispatchReplacementAgentRun while the linked run is running.
RequestReplace(h) ==
  LET r == agent.run IN
  /\ Accept(h)
  /\ "agent" \in Routes /\ Attempted
  /\ agent.status \notin {"rejected", "deleted"}
  /\ run[r].status = "running"
  /\ \/ /\ run[r].cur # None
        /\ BeginStop(h, r, "replace")
        /\ UNCHANGED <<store, agent>>
     \/ /\ run[r].cur = None
        /\ \E fresh \in Runs :
             /\ ~Exists(fresh)
             /\ CreateRun(h, fresh, [run EXCEPT ![r] = Finished(@, "stopped")])
        /\ UNCHANGED <<attempt, workers, exits>>

\* The reject route: stop the linked run, then mark the agent.
RequestReject(h) ==
  LET r == agent.run IN
  /\ Accept(h)
  /\ agent.status # "deleted"
  /\ \/ /\ r \in Runs /\ run[r].cur # None
        /\ BeginStop(h, r, "reject")
        /\ UNCHANGED <<store, agent>>
     \/ /\ r \in Runs /\ run[r].cur = None
        /\ run' = [run EXCEPT ![r] = Finished(@, "stopped")]
        /\ agent' = [agent EXCEPT !.status = "rejected"]
        /\ UNCHANGED <<attempt, workers, exits, control>>
     \/ /\ r = NoRun
        /\ agent' = [agent EXCEPT !.status = "rejected"]
        /\ UNCHANGED <<store, workers, exits, control>>

DeleteAgent ==
  /\ Turn
  /\ agent.status \in Startable
  /\ agent' = [agent EXCEPT !.status = "deleted"]
  /\ UNCHANGED <<store, workers, exits, control, env>>

-----------------------------------------------------------------------------
(* ProcessBeastExecutor.start                                              *)

\* ProcessSupervisor.spawn: a child with a pid, and the callbacks of its exit.
Spawned(r, n) ==
  /\ proc' = [proc EXCEPT ![r][n] = "live"]
  /\ watched' = [watched EXCEPT ![r] = @ \cup {n}]

\* Mutant of LaunchWorker: attempts are numbered from the current one, which
\* the record of a failed start has reset.
LaunchReusingNumber(h) ==
  LET r == req[h].run
      n == run[r].cur + 1 IN
  /\ up /\ pc[h] = "launch"
  /\ run[r].status # "killed" /\ n \in Numbers
  /\ attempt' = [attempt EXCEPT ![r][n] = "running"]
  /\ run' = [run EXCEPT ![r] = [@ EXCEPT !.status = "running", !.cur = n, !.count = n]]
  /\ Spawned(r, n)
  /\ Goto(h, "startLog")
  /\ UNCHANGED <<agent, exits, env>>

\* The spawned process and its attempt row are one step for other requests: the
\* supervisor returns a child that has a pid without giving up the thread.  A
\* daemon that dies between the two is CrashWhileLaunching.
LaunchWorker(h) ==
  LET r == req[h].run
      n == run[r].count + 1 IN
  /\ up /\ pc[h] = "launch"
  /\ run[r].status # "killed" /\ n \in Numbers
  /\ attempt' = [attempt EXCEPT ![r][n] = "running"]
  /\ run' = [run EXCEPT ![r] = [@ EXCEPT !.status = "running", !.cur = n, !.count = n]]
  /\ Spawned(r, n)
  /\ Goto(h, "startLog")
  /\ UNCHANGED <<agent, exits, env>>

\* A run found stopped with the reason operator_kill counts as cancelled while
\* its process was spawned: the process is killed, no attempt is stored, and
\* the start returns.  If the kill fails it is AttemptNotStored.
LaunchCancelled(h) ==
  /\ up /\ pc[h] = "launch"
  /\ run[req[h].run].status = "killed"
  /\ Goto(h, "started")
  /\ UNCHANGED <<store, agent, workers, exits, env>>

\* The process spec, the worktree or the configuration files cannot be made.
PreparationFails(h) == Goto(h, "prepLog")

SpawnFails(h) == Goto(h, "spawnLog")

\* A worker runs that no attempt names.
Strayed(r) == strays' = strays \cup {<<r, crashes>>}

\* Mutant of AttemptNotStored: the process just spawned is left to run.
SpawnedAndLeft(h) == Goto(h, "caught") /\ Strayed(req[h].run)

\* The attempt cannot be stored: the process just spawned is killed again, and
\* a kill that fails is swallowed.
AttemptNotStored(h) ==
  /\ Goto(h, "caught")
  /\ UNCHANGED strays \/ (KillFaults /\ Strayed(req[h].run))

LaunchFails(h) ==
  /\ up /\ pc[h] = "launch"
  /\ \/ PreparationFails(h) /\ UNCHANGED strays
     \/ SpawnFails(h) /\ UNCHANGED strays
     \/ AttemptNotStored(h)
  /\ UNCHANGED <<store, agent, workers, exits, up, requests, crashes>>

PrepareFailureLogged(h) ==
  /\ Turn /\ pc[h] = "prepLog"
  /\ Goto(h, "caught")
  /\ UNCHANGED <<store, agent, workers, exits, env>>

SpawnFailureLogged(h) ==
  LET r == req[h].run IN
  /\ Turn /\ pc[h] = "spawnLog"
  /\ run' = [run EXCEPT ![r] = Finished(@, "failed")]
  /\ agent' = Synced(agent, r, "failed")
  /\ Goto(h, "caught")
  /\ UNCHANGED <<attempt, workers, exits, env>>

StartLogged(h) ==
  /\ Turn /\ pc[h] = "startLog"
  /\ \/ Goto(h, "started")
     \/ LogFaults /\ Goto(h, "caught")
  /\ UNCHANGED <<store, agent, workers, exits, env>>

-----------------------------------------------------------------------------
(* After the executor: BeastRunService.start and BeastDispatchService.createRun *)

DispatchLogged(h) ==
  LET r == req[h].run IN
  /\ Turn /\ pc[h] = "dispLog"
  /\ \/ /\ agent.status = "rejected"
        /\ run' = [run EXCEPT ![r] = Finished(@, "stopped")]
        /\ Done(h)
     \/ /\ agent.status # "rejected" /\ run[r].status # "queued"
        /\ Done(h)
        /\ UNCHANGED run
     \/ /\ agent.status # "rejected" /\ run[r].status = "queued"
        /\ Goto(h, "launch")
        /\ UNCHANGED run
  /\ UNCHANGED <<attempt, agent, workers, exits, env>>

\* Mutant of UndoRejectedStart: the start returns and leaves its worker to the
\* rejection, which has stopped the attempt before it.
UndoLeftToRejection(h) ==
  /\ up /\ pc[h] \in {"started", "caught"}
  /\ agent.status = "rejected"
  /\ Done(h)
  /\ UNCHANGED <<store, agent, workers, exits, env>>

\* Both callers, whether the executor returned or threw, look at the agent
\* again and undo the start if it was rejected meanwhile.
UndoRejectedStart(h) ==
  LET r == req[h].run IN
  /\ up /\ pc[h] \in {"started", "caught"}
  /\ agent.status = "rejected"
  /\ \/ /\ run[r].cur # None
        /\ BeginStop(h, r, IF pc[h] = "caught" THEN "undo" ELSE req[h].op)
        /\ UNCHANGED run
     \/ /\ run[r].cur = None
        /\ run' = [run EXCEPT ![r] = Finished(@, "stopped")]
        /\ Done(h)
        /\ UNCHANGED <<workers, exits>>
  /\ UNCHANGED <<attempt, agent, env>>

StartReturned(h) ==
  LET r == req[h].run IN
  /\ up /\ pc[h] = "started"
  /\ agent.status # "rejected"
  /\ agent' = IF req[h].op = "dispatch"
                THEN [agent EXCEPT !.status = DispatchedStatus(run[r].status)]
                ELSE Synced(agent, r, run[r].status)
  /\ Done(h)
  /\ UNCHANGED <<store, workers, exits, env>>

DispatchThrew(h) ==
  LET r == req[h].run IN
  /\ up /\ pc[h] = "caught" /\ req[h].op = "dispatch"
  /\ agent.status # "rejected"
  /\ \/ run' = [run EXCEPT ![r] = Finished(@, "failed")]
     \/ run[r].status = "failed" /\ UNCHANGED run  \* a recorded spawn failure
  /\ agent' = [agent EXCEPT !.status = "failed"]
  /\ Done(h)
  /\ UNCHANGED <<attempt, workers, exits, env>>

\* The catch block of BeastRunService.start compares the run with what it
\* was before the executor was called.
HasNewAttempt(rec, prior) ==
  (rec.cur # None /\ rec.cur # prior.cur) \/ rec.count > prior.count

PriorStillRunning(r, prior) == prior.cur # None /\ attempt[r][prior.cur] = "running"

ExecutorRecordedFailure(rec, prior) == rec.status = "failed" /\ rec.fin # prior.fin

StartThrew(h) ==
  LET r == req[h].run
      prior == req[h].prior IN
  /\ up /\ pc[h] = "caught" /\ req[h].op = "start"
  /\ agent.status # "rejected"
  /\ \/ /\ HasNewAttempt(run[r], prior)
        /\ Done(h)
        /\ UNCHANGED <<run, agent>>
     \/ /\ ~HasNewAttempt(run[r], prior)
        /\ PriorStillRunning(r, prior)
        /\ run' = [run EXCEPT ![r] = [@ EXCEPT !.status = prior.status,
                                               !.cur = prior.cur, !.fin = prior.fin]]
        /\ agent' = Synced(agent, r, prior.status)
        /\ Done(h)
     \/ /\ ~HasNewAttempt(run[r], prior)
        /\ ~PriorStillRunning(r, prior)
        /\ ExecutorRecordedFailure(run[r], prior)
        /\ Goto(h, "failLog")
        /\ UNCHANGED <<run, agent>>
     \/ /\ ~HasNewAttempt(run[r], prior)
        /\ ~PriorStillRunning(r, prior)
        /\ ~ExecutorRecordedFailure(run[r], prior)
        /\ run' = [run EXCEPT ![r] = [Finished(@, "failed") EXCEPT !.cur = None]]
        /\ agent' = AgentFailed(agent, r)
        /\ Done(h)
  /\ UNCHANGED <<attempt, workers, exits, env>>

\* The executor-recorded failure is normalised after its log line is written.
StartFailureLogged(h) ==
  LET r == req[h].run IN
  /\ Turn /\ pc[h] = "failLog"
  /\ run' = [run EXCEPT ![r].cur = None]
  /\ agent' = AgentFailedOnce(agent, r)
  /\ Done(h)
  /\ UNCHANGED <<attempt, workers, exits, env>>

-----------------------------------------------------------------------------
(* The end of a stop                                                       *)

\* Mutant of KillOverdue: SIGTERM is taken to be enough.
KillForgotten(r, n) == UNCHANGED proc

\* The grace period of ProcessBeastExecutor.stop is over.  It kills the
\* worker only if some stop of the attempt still has its exit promise.
KillOverdue(r, n) ==
  proc' = IF waiter[r][n] # NoHandler THEN [proc EXCEPT ![r][n] = Killed(@)] ELSE proc

Stopping(h, r, n) == pc[h] = "stopWait" /\ req[h].run = r /\ req[h].att = n

\* Mutant of StopTimedOut: only the stop that registered last has a timer.
StopTimedOutIfLast(h) ==
  LET r == req[h].run
      n == req[h].att IN
  /\ Turn /\ pc[h] = "stopWait"
  /\ waiter[r][n] = h
  /\ waiter' = [waiter EXCEPT ![r][n] = NoHandler]
  /\ stopping' = [stopping EXCEPT ![r] = @ \ {n}]
  /\ KillOverdue(r, n)
  /\ attempt' = [attempt EXCEPT ![r][n] = "stopped"]
  /\ run' = [run EXCEPT ![r] = Finished(@, "stopped")]
  /\ agent' = Synced(agent, r, "stopped")
  /\ Goto(h, "stopDone")
  /\ UNCHANGED <<watched, env>>

StopTimedOut(h) ==
  LET r == req[h].run
      n == req[h].att IN
  /\ Turn /\ pc[h] = "stopWait"
  /\ waiter' = [waiter EXCEPT ![r][n] = NoHandler]
  /\ stopping' = [stopping EXCEPT ![r] = @ \ {n}]
  /\ \/ /\ KillOverdue(r, n)
        /\ attempt' = [attempt EXCEPT ![r][n] = "stopped"]
        /\ run' = [run EXCEPT ![r] = Finished(@, "stopped")]
        /\ agent' = Synced(agent, r, "stopped")
        /\ Goto(h, "stopDone")
     \/ /\ waiter[r][n] # NoHandler /\ MayRefuse(r, n)
        /\ Refused(h, req[h].op)
        /\ UNCHANGED <<store, agent, proc>>
  /\ UNCHANGED <<watched, env>>

StopReturned(h) ==
  LET r == req[h].run
      synced == Synced(agent, r, run[r].status) IN
  /\ up /\ pc[h] = "stopDone"
  /\ \/ /\ req[h].op = "stop"
        /\ agent' = synced
        /\ Done(h)
        /\ UNCHANGED run
     \/ /\ req[h].op \in {"start", "dispatch", "undo"}
        /\ Done(h)
        /\ UNCHANGED <<run, agent>>
     \/ /\ req[h].op = "reject"
        /\ agent' = [synced EXCEPT !.status = "rejected"]
        /\ Done(h)
        /\ UNCHANGED run
     \/ /\ req[h].op = "restart" /\ agent.status # "rejected"
        /\ BeginStart(h, r, run[r], synced)
        /\ UNCHANGED run
     \/ /\ req[h].op = "restart"
        /\ agent.status = "rejected" \/ CapacityConfigured  \* refused
        /\ agent' = synced
        /\ Done(h)
        /\ UNCHANGED run
     \/ /\ req[h].op = "replace" /\ agent.status \notin {"rejected", "deleted"}
        /\ \E fresh \in Runs : ~Exists(fresh) /\ CreateRun(h, fresh, run)
     \/ /\ req[h].op = "replace"
        /\ \/ agent.status \in {"rejected", "deleted"}
           \/ CapacityConfigured
           \/ \A fresh \in Runs : Exists(fresh)
        /\ agent' = synced
        /\ Done(h)
        /\ UNCHANGED run
  /\ UNCHANGED <<attempt, workers, exits, env>>

-----------------------------------------------------------------------------
(* Worker exits                                                            *)

\* The exit of a child, reported once its output is closed as well.
Exited(r, n) ==
  /\ proc' = [proc EXCEPT ![r][n] = "dead"]
  /\ watched' = [watched EXCEPT ![r] = @ \ {n}]

\* ProcessBeastExecutor.handleProcessExit of a worker this daemon watches.
\* The run of the attempt is written, whichever attempt is its current one.
WorkerExit(r, n, status) ==
  LET outcome == IF n \in stopping[r] THEN "stopped" ELSE status
      h == waiter[r][n] IN
  /\ Turn
  /\ n \in watched[r] /\ proc[r][n] \in Working \cup {"killed"}
  /\ proc[r][n] = "killed" => status = "failed"
  /\ Exited(r, n)
  /\ waiter' = [waiter EXCEPT ![r][n] = NoHandler]
  /\ pc' = IF h = NoHandler THEN pc ELSE [pc EXCEPT ![h] = "stopDone"]
  /\ \/ /\ attempt[r][n] \in TerminalStatus
        /\ UNCHANGED <<store, agent, stopping>>
     \/ /\ attempt[r][n] \notin TerminalStatus
        /\ attempt' = [attempt EXCEPT ![r][n] = outcome]
        /\ run' = [run EXCEPT ![r] = Finished(@, outcome)]
        /\ agent' = Synced(agent, r, outcome)
        /\ stopping' = [stopping EXCEPT ![r] = @ \ {n}]
  /\ UNCHANGED <<req, env>>

\* A worker spawned by an earlier daemon, or one whose daemon is down, exits:
\* nobody is told.
UnwatchedExit(r, n) ==
  /\ n \notin watched[r] /\ proc[r][n] \in Working \cup {"killed"}
  /\ proc' = [proc EXCEPT ![r][n] = "dead"]
  /\ UNCHANGED <<store, agent, watched, exits, control, env>>

-----------------------------------------------------------------------------
(* Crash and restart                                                       *)

MemoryLost ==
  /\ watched' = [r \in Runs |-> {}]
  /\ stopping' = [r \in Runs |-> {}]
  /\ waiter' = [r \in Runs |-> [n \in Numbers |-> NoHandler]]
  /\ pc' = [h \in Handlers |-> "idle"]
  /\ req' = [h \in Handlers |-> NoRequest]

GoDown ==
  /\ up /\ crashes < MaxCrashes
  /\ up' = FALSE
  /\ crashes' = crashes + 1
  /\ MemoryLost
  /\ UNCHANGED requests

Crash == GoDown /\ UNCHANGED <<store, agent, proc, strays>>

\* The daemon dies when it has spawned a worker and not stored an attempt of
\* it, nor killed it.  The worker is a process group of its own and lives on.
CrashWhileLaunching(h) ==
  /\ GoDown
  /\ pc[h] = "launch"
  /\ Strayed(req[h].run)
  /\ UNCHANGED <<store, agent, proc>>

\* Nobody is told of the end of a worker that no attempt names.
StrayExits(s) ==
  /\ strays' = strays \ {s}
  /\ UNCHANGED <<store, agent, workers, exits, control, up, requests, crashes>>

\* The attempt row and the run row of a finished attempt are two writes; the
\* daemon dies between them, on an exit, at the end of a stop or in a kill.
CrashWhileFinishing(r, n, status) ==
  /\ GoDown
  /\ \/ /\ n \in watched[r] /\ attempt[r][n] = "running"
        /\ status # "killed" /\ (status = "stopped") = (n \in stopping[r])
        /\ proc' = [proc EXCEPT ![r][n] = "dead"]
     \/ /\ status = "stopped"
        /\ \E h \in Handlers : Stopping(h, r, n)
        /\ KillOverdue(r, n)
     \/ /\ status = "killed"
        /\ Exists(r) /\ KillRoute(r) /\ run[r].cur = n
        /\ proc' = [proc EXCEPT ![r][n] = Killed(@)]
  /\ attempt' = [attempt EXCEPT ![r][n] = status]
  /\ UNCHANGED <<run, agent, strays>>

\* Mutant of OwnsLiveProcess: no worker survives its daemon.
OwnsNothing(r, n) == FALSE

\* reconcileDispatcherQueueAfterRestart: one transaction over all runs.
OwnsLiveProcess(r, n) == proc[r][n] \in Working \cup {"killed"}

Orphaned(r) ==
  /\ run[r].status = "running" /\ run[r].cur # None
  /\ attempt[r][run[r].cur] = "running"
  /\ ~OwnsLiveProcess(r, run[r].cur)

ReconciledStatus(r) ==
  LET rec == run[r] IN
  IF rec.status \in TerminalStatus \cup {"absent"} THEN rec.status
  ELSE IF rec.cur # None /\ attempt[r][rec.cur] \in TerminalStatus
         THEN attempt[r][rec.cur]
  ELSE IF rec.status = "running" /\ (rec.cur = None \/ Orphaned(r)) THEN "failed"
  ELSE rec.status

\* Mutant of ReconciledAgentStatus: the agent gets the status of its run.
RunStatusAsAgentStatus(status) == status

ReconciledAgentStatus(status) ==
  IF status = "queued" THEN "dispatching" ELSE AgentStatusOf(status)

\* The run that owns the agent's dispatch gives it its status.
ReconciledAgent ==
  IF agent.status = "deleted" \/ agent.run = NoRun THEN agent
  ELSE [agent EXCEPT !.status = ReconciledAgentStatus(ReconciledStatus(agent.run))]

Restart ==
  /\ ~up /\ up' = TRUE
  /\ run' = [r \in Runs |-> [run[r] EXCEPT !.status = ReconciledStatus(r)]]
  /\ attempt' = [r \in Runs |-> [n \in Numbers |->
                   IF Orphaned(r) /\ n = run[r].cur THEN "failed" ELSE attempt[r][n]]]
  /\ agent' = ReconciledAgent
  /\ UNCHANGED <<workers, exits, control, requests, crashes, strays>>

-----------------------------------------------------------------------------
Init ==
  /\ run = [r \in Runs |-> AbsentRun]
  /\ attempt = [r \in Runs |-> [n \in Numbers |-> "none"]]
  /\ agent = [status |-> "initializing", run |-> NoRun]
  /\ proc = [r \in Runs |-> [n \in Numbers |-> "none"]]
  /\ watched = [r \in Runs |-> {}]
  /\ stopping = [r \in Runs |-> {}]
  /\ waiter = [r \in Runs |-> [n \in Numbers |-> NoHandler]]
  /\ pc = [h \in Handlers |-> "idle"]
  /\ req = [h \in Handlers |-> NoRequest]
  /\ up = TRUE
  /\ requests = 0
  /\ crashes = 0
  /\ strays = {}

Operator(h) ==
  \/ \E r \in Runs : \/ RequestStart(h, r) \/ RequestStop(h, r)
                     \/ StopUnstarted(h, r) \/ RequestKill(h, r)
                     \/ RequestRestart(h, r) \/ RequestDispatch(h, r)
  \/ StopUnlinkedAgent(h)
  \/ RequestReplace(h)
  \/ RequestReject(h)

\* Every continuation of a request but the grace timer of a stop.
Continue(h) ==
  \/ LaunchWorker(h) \/ LaunchCancelled(h) \/ LaunchFails(h)
  \/ PrepareFailureLogged(h) \/ SpawnFailureLogged(h) \/ StartLogged(h)
  \/ DispatchLogged(h) \/ UndoRejectedStart(h) \/ StartReturned(h)
  \/ DispatchThrew(h) \/ StartThrew(h) \/ StartFailureLogged(h)
  \/ StopReturned(h)

Exit(r, n) ==
  \/ \E status \in {"completed", "failed"} : WorkerExit(r, n, status)
  \/ UnwatchedExit(r, n)

Failure ==
  \/ Crash
  \/ \E h \in Handlers : CrashWhileLaunching(h)
  \/ \E r \in Runs, n \in Numbers, status \in TerminalStatus :
       CrashWhileFinishing(r, n, status)

Next ==
  \/ \E h \in Handlers : Operator(h) \/ Continue(h) \/ StopTimedOut(h)
  \/ \E r \in Runs, n \in Numbers : Exit(r, n)
  \/ \E s \in strays : StrayExits(s)
  \/ DeleteAgent
  \/ Failure
  \/ Restart

\* A request that can go on does; a grace timer fires; SIGKILL kills.  Nothing
\* makes a worker that was not killed exit, nor a crashed daemon restart.
Fairness ==
  /\ \A h \in Handlers : WF_vars(Continue(h)) /\ WF_vars(StopTimedOut(h))
  /\ \A r \in Runs, n \in Numbers : WF_vars(proc[r][n] = "killed" /\ Exit(r, n))

Spec == Init /\ [][Next]_vars
FairSpec == Spec /\ Fairness
=============================================================================

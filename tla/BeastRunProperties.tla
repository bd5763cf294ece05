-------------------------- MODULE BeastRunProperties --------------------------
(***************************************************************************)
(* What the run lifecycle must keep, whatever the interleaving.  Some of   *)
(* it holds only when operators send one request at a time, or use only    *)
(* the agent routes; the runs say which.                                   *)
(***************************************************************************)
EXTENDS BeastRunLifecycle

\* Every variable has its type: in particular the agent only ever carries a
\* status of the tracked agents' own vocabulary, never one of a run.
TypeOK ==
  /\ run \in [Runs -> RunRecord]
  /\ attempt \in [Runs -> [Numbers -> AttemptStatus]]
  /\ agent \in AgentRecord
  /\ proc \in [Runs -> [Numbers -> ProcStatus]]
  /\ watched \in [Runs -> SUBSET Numbers]
  /\ stopping \in [Runs -> SUBSET Numbers]
  /\ waiter \in [Runs -> [Numbers -> Handlers \cup {NoHandler}]]
  /\ pc \in [Handlers -> {"idle"} \cup Suspended \cup MicroSteps]
  /\ req \in [Handlers -> Request \cup {NoRequest}]
  /\ up \in BOOLEAN
  /\ requests \in Nat
  /\ crashes \in Nat
  /\ strays \subseteq Runs \X (0..crashes)

\* The repository never forgets a worker: when the attempts table says how an
\* attempt ended, its process is gone or was sent SIGKILL.  Overlapping stops,
\* exits during a grace period and restarts of the daemon all write that row.
NoForgottenWorker ==
  \A r \in Runs, n \in Numbers :
    attempt[r][n] \in TerminalStatus => proc[r][n] \notin Working

\* An entry of exitPromises belongs to a stop that is still waiting for just
\* that attempt: handleProcessExit never resolves the promise of a request
\* that has moved on, whichever of several stops registered last.
PromiseHolderWaits ==
  \A r \in Runs, n \in Numbers :
    waiter[r][n] \in Handlers => Stopping(waiter[r][n], r, n)

\* The daemon is up and no request is in flight.
Calm == up /\ Idle

Workers(r) == {n \in Numbers : proc[r][n] \in Working}

\* Workers of the present daemon that no attempt names.  One that an earlier
\* daemon had spawned and not stored when it died is out of everybody's reach,
\* the restart reconciliation's too: no property below speaks of it.
Unentered(r) == {s \in strays : s[1] = r /\ s[2] = crashes}

HasWorker(r) == Workers(r) # {} \/ Unentered(r) # {}

\* Over all the runs dispatched for the tracked agent there is never more than
\* one worker that could run for ever: a start, restart or replacement launches
\* none next to another, be it of an attempt or one that the present daemon
\* failed to store.  The restart reconciliation would otherwise report
\* duplicate-live-agent-run.
OneWorkerPerAgent ==
  LET entered == {s \in Runs \X Numbers : s[2] \in Workers(s[1])}
      unentered == {s \in strays : s[2] = crashes} IN
  Cardinality(entered) + Cardinality(unentered) <= 1

\* Between requests, a run in a terminal state has no worker left that nobody
\* would stop: not after a stop that timed out, nor after a start whose attempt
\* could not be stored.
FinishedRunHasNoWorker ==
  Calm => \A r \in Runs : run[r].status \in TerminalStatus => ~HasWorker(r)

\* Between requests, a running run has a current attempt, without which stop,
\* kill and restart cannot reach its worker.
RunningRunHasAttempt ==
  Calm => \A r \in Runs : run[r].status = "running" => run[r].cur # None

\* Between requests, only the run the agent is linked to can have a worker: a
\* fresh run is dispatched only when its predecessor's worker is condemned.
UnlinkedRunHasNoWorker ==
  Calm => \A r \in Runs : r # agent.run => ~HasWorker(r)

SameOutcome(agentStatus, runStatus) ==
  \/ agentStatus = runStatus
  \/ agentStatus = "stopped" /\ runStatus = "killed"

\* Between requests, an agent that says its run is running or how it ended is
\* right about it: syncTrackedAgent and the restart reconciliation agree.
AgentAgreesWithRun ==
  Calm /\ agent.run \in Runs
       /\ agent.status \in {"running", "completed", "failed", "stopped"} =>
    SameOutcome(agent.status, run[agent.run].status)

\* A start that returns normally has made an attempt.
StartedRunGetsAttempt ==
  [][\A h \in Handlers :
       /\ pc[h] = "started" /\ pc'[h] = "idle"
       /\ req[h].op = "start" /\ agent.status # "rejected"
       => run[req[h].run].count > req[h].prior.count]_vars

\* The attempt that a start has to end, once a rejection has overtaken it.
Undoing(h, r, n) ==
  /\ req[h].op \in {"start", "dispatch", "undo"} /\ req[h].run = r
  /\ \/ pc[h] \in {"started", "caught"} /\ agent.status = "rejected" /\ run[r].cur = n
     \/ pc[h] \in {"stopWait", "stopDone"} /\ req[h].att = n

\* A start that a rejection of the agent overtakes does not return before the
\* worker it finds current is gone or was sent SIGKILL: not when the executor
\* threw, nor when other requests stop, kill or restart the run meanwhile.
RejectedStartUndone ==
  [][\A h \in Handlers, r \in Runs, n \in Numbers :
       Undoing(h, r, n) /\ pc'[h] = "idle" /\ up' => proc'[r][n] \notin Working]_vars

Slots == Runs \X Numbers

Ledger == INSTANCE WorkerLedger WITH
  open <- {s \in Slots : attempt[s[1]][s[2]] = "running"},
  closed <- {s \in Slots : attempt[s[1]][s[2]] \in TerminalStatus},
  working <- {s \in Slots : proc[s[1]][s[2]] \in Working},
  doomed <- {s \in Slots : proc[s[1]][s[2]] = "killed"},
  lost <- strays,
  deaths <- crashes,
  Owners <- Runs,
  KillMayFail <- KillFaults

\* The lifecycle keeps the worker ledger: a worker goes with a new attempt,
\* unless the daemon dies, or cannot kill it, between its spawn and its row; an
\* attempt is closed only once its worker is gone or condemned, in a crash and
\* in the restart too; and no attempt is ever reopened.
LedgerSpec == Ledger!Spec

\* A request the daemon accepted is answered, unless the daemon goes down: no
\* stop waits for an exit that another stop was told about.
RequestReturns ==
  \A h \in Handlers : pc[h] # "idle" ~> (pc[h] = "idle" \/ ~up)

\* Once a stop waits for a worker, that worker dies, even one that ignores
\* SIGTERM, unless the daemon goes down.
StopEndsWorker ==
  \A h \in Handlers, r \in Runs, n \in Numbers :
    Stopping(h, r, n) ~> (proc[r][n] = "dead" \/ ~up)
=============================================================================

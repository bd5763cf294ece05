----------------------------- MODULE BeastDaemon -----------------------------
(***************************************************************************)
(* The Beast daemon as a process among others: how startBeastDaemon takes  *)
(* and gives back the pid file, how close drains the mutating requests in  *)
(* flight, stops the live runs and disposes of the services, and what the  *)
(* next daemon finds when one dies anywhere on the way.  All of            *)
(* packages/franken-orchestrator/src/http/beast-daemon-server.ts, with the *)
(* drain gate of beast-daemon-app.ts and the signal handling of cli/run.ts.*)
(*                                                                         *)
(* What a run does in detail is the subject of BeastRunLifecycle.  Here    *)
(* three things are known of it: whether the repository says it has ended, *)
(* whether its current attempt has a live worker, and whether it has left  *)
(* a live worker that no current attempt leads to.                         *)
(***************************************************************************)
EXTENDS FiniteSets

CONSTANTS
  Daemons,        \* daemon processes, each with a pid of its own
  NoDaemon,
  Requests,       \* mutating requests that can be in flight at once
  Runs,
  StartsOverlap,  \* a daemon may be started while another takes the pid file
  ServiceFaults   \* the port may be taken; the services may fail to open, to
                  \* list their runs or to close

ASSUME NoDaemonAssumption == NoDaemon \notin Daemons
ASSUME SwitchesAssumption ==
  StartsOverlap \in BOOLEAN /\ ServiceFaults \in BOOLEAN

VARIABLES
  at,         \* where each daemon process is
  file,       \* the pid file: the process that created it, and whether it
              \* has been written or is still empty
  busy,       \* activeMutations: the daemon each request is being handled by
  open,       \* runs in the repository whose status is not terminal
  held,       \* runs whose current attempt has a live worker
  strays,     \* runs with a live worker besides that of their current attempt
  toStop,     \* the runs stopLiveRuns of each daemon still has to stop
  survivors   \* the runs it could neither stop nor kill

runs == <<open, held, strays>>
vars == <<at, file, busy, open, held, strays, toStop, survivors>>

NoFile == [by |-> NoDaemon, full |-> FALSE]

Claiming == {"reading", "removing", "creating", "writing"}
Opening == {"services", "binding"}
Draining == {"draining", "dropping", "late"}
Leaving == {"disposing", "releasing", "unlinking", "aborting"}
Gone == {"none", "ended", "dead"}
Places == Claiming \cup Opening \cup {"up", "stopping"} \cup Draining
            \cup Leaving \cup Gone

\* From the claim of the pid file to its release.
Owning == Opening \cup {"up", "stopping"} \cup Draining \cup Leaving

Alive(d) == at[d] \notin Gone
Goes(d, place) == at' = [at EXCEPT ![d] = place]
Mutations(d) == {q \in Requests : busy[q] = d}

Init ==
  /\ at = [d \in Daemons |-> "none"]
  /\ file = NoFile
  /\ busy = [q \in Requests |-> NoDaemon]
  /\ open = {} /\ held = {} /\ strays = {}
  /\ toStop = [d \in Daemons |-> {}]
  /\ survivors = [d \in Daemons |-> {}]

requests == <<busy, runs>>
shutdown == <<toStop, survivors>>
-----------------------------------------------------------------------------
(* claimPidFile                                                             *)

Launch(d) ==
  /\ at[d] = "none"
  /\ StartsOverlap \/ \A e \in Daemons : at[e] \notin Claiming
  /\ Goes(d, "reading")
  /\ UNCHANGED <<file, requests, shutdown>>

\* Mutant of AfterReading: a file that is no number stops the start.
RefuseEmptyFile(d) ==
  IF file = NoFile THEN "creating"
  ELSE IF ~file.full \/ Alive(file.by) THEN "ended"
  ELSE "removing"

\* Mutant of AfterReading: whoever is named in the file is replaced.
ReplaceOwner(d) == IF file = NoFile THEN "creating" ELSE "removing"

\* readExistingPidFile and the test of the pid in it: a file without a number
\* and one that names a dead process are removed.
AfterReading(d) ==
  IF file = NoFile THEN "creating"
  ELSE IF file.full /\ Alive(file.by) THEN "ended"
  ELSE "removing"

ReadFile(d) ==
  /\ at[d] = "reading"
  /\ Goes(d, AfterReading(d))
  /\ UNCHANGED <<file, requests, shutdown>>

RemoveFile(d) ==
  /\ at[d] = "removing"
  /\ file' = NoFile
  /\ Goes(d, "creating")
  /\ UNCHANGED <<requests, shutdown>>

\* writeFile with the flag wx: open the file, which must not exist ...
CreateFile(d) ==
  /\ at[d] = "creating"
  /\ IF file = NoFile
       THEN file' = [by |-> d, full |-> FALSE] /\ Goes(d, "writing")
       ELSE Goes(d, "ended") /\ UNCHANGED file
  /\ UNCHANGED <<requests, shutdown>>

\* ... and write into what was opened, which may have been removed since.
WritePid(d) ==
  /\ at[d] = "writing"
  /\ file' = IF file.by = d THEN [file EXCEPT !.full = TRUE] ELSE file
  /\ Goes(d, "services")
  /\ UNCHANGED <<requests, shutdown>>
-----------------------------------------------------------------------------
(* startBeastDaemon, after the claim                                        *)

\* createBeastServices opens the store and reconciles it: a run whose current
\* attempt has a live worker stays open, a queued one too, and any other ends.
OpenServices(d) ==
  /\ at[d] = "services"
  /\ \/ /\ Goes(d, "binding")
        /\ \E queued \in SUBSET (open \ held) : open' = (open \cap held) \cup queued
     \/ ServiceFaults /\ Goes(d, "aborting") /\ UNCHANGED open
  /\ UNCHANGED <<file, busy, held, strays, shutdown>>

\* server.listen succeeds, or its error makes the start dispose of the
\* services and, if that does not throw, give the file back.
Listen(d) ==
  /\ at[d] = "binding"
  /\ \/ Goes(d, "up")
     \/ ServiceFaults /\ (Goes(d, "aborting") \/ Goes(d, "ended"))
  /\ UNCHANGED <<file, requests, shutdown>>
-----------------------------------------------------------------------------
(* Requests                                                                 *)

\* Mutant of Accepts: the drain gate is missing.
AcceptsWhileListening(d) == at[d] \in {"up", "draining", "stopping"}

\* drainMutatingRequest: the test and beginMutation are one step.
Accepts(d) == at[d] = "up"

BeginMutation(q, d) ==
  /\ busy[q] = NoDaemon
  /\ Accepts(d)
  /\ busy' = [busy EXCEPT ![q] = d]
  /\ UNCHANGED <<at, file, runs, shutdown>>

\* The handler of a request starts a run, any time before it returns.  A worker
\* that the run has already is no longer that of its current attempt then.
StartRun(q, r) ==
  /\ busy[q] # NoDaemon
  /\ open' = open \cup {r}
  /\ strays' = strays \cup (held \cap {r})
  /\ held' = held \cup {r}
  /\ UNCHANGED <<at, file, busy, shutdown>>

\* A handler makes a run, or stops it: ProcessBeastExecutor.stop and kill reach
\* the worker of the current attempt.
RecordRun(q, r) ==
  /\ busy[q] # NoDaemon
  /\ \/ open' = open \cup {r} /\ UNCHANGED held
     \/ open' = open \ {r} /\ held' = held \ {r}
  /\ UNCHANGED <<at, file, busy, strays, shutdown>>

\* A handler whose start failed takes the current attempt of another start out
\* of the run, or records the failure although the worker is live.
LoseRun(q, r) ==
  /\ busy[q] # NoDaemon
  /\ r \in held
  /\ \/ held' = held \ {r} /\ strays' = strays \cup {r} /\ UNCHANGED open
     \/ open' = open \ {r} /\ UNCHANGED <<held, strays>>
  /\ UNCHANGED <<at, file, busy, shutdown>>

\* Whichever attempt the worker was of, its exit ends the run, unless the daemon
\* that spawned it is gone.
WorkerExits(r) ==
  /\ \/ r \in held /\ held' = held \ {r} /\ UNCHANGED strays
     \/ r \in strays /\ strays' = strays \ {r} /\ UNCHANGED held
  /\ open' \in {open, open \ {r}}
  /\ UNCHANGED <<at, file, busy, shutdown>>

\* stopLiveRuns begins with the runs the repository does not call ended.
ListRuns(d) == toStop' = [toStop EXCEPT ![d] = open]

\* If they cannot be read, close throws and the process exits.
BeginStopping(d) ==
  \/ Goes(d, "stopping") /\ ListRuns(d)
  \/ ServiceFaults /\ Goes(d, "ended") /\ UNCHANGED toStop

\* The handler has returned.  The last one wakes whoever waits in
\* waitForMutations or waitForMutationCompletion, which goes on to stop the runs.
FinishMutation(q) ==
  LET d == busy[q] IN
  /\ d # NoDaemon
  /\ busy' = [busy EXCEPT ![q] = NoDaemon]
  /\ IF Mutations(d) = {q} /\ at[d] \in {"draining", "late"}
       THEN BeginStopping(d)
       ELSE UNCHANGED <<at, toStop>>
  /\ UNCHANGED <<file, runs, survivors>>
-----------------------------------------------------------------------------
(* close                                                                    *)

StopOrWait(d, place) ==
  IF Mutations(d) = {} THEN BeginStopping(d)
  ELSE Goes(d, place) /\ UNCHANGED toStop

\* The first signal: the drain begins and waitForMutations looks at the requests
\* in flight.  The signal handlers are taken off, so that a second one kills.
Close(d) ==
  /\ at[d] = "up"
  /\ StopOrWait(d, "draining")
  /\ UNCHANGED <<file, requests, survivors>>

\* Its timer: the server and all connections are closed.
DrainTimesOut(d) ==
  /\ at[d] = "draining"
  /\ Goes(d, "dropping")
  /\ UNCHANGED <<file, requests, shutdown>>

\* Mutant of WaitOn: requests that have returned by now are waited for.
WaitWithoutLook(d) ==
  /\ at[d] = "dropping"
  /\ Goes(d, "late")
  /\ UNCHANGED <<file, requests, shutdown>>

\* Mutant of WaitOn: after the timeout the runs are stopped at once.
StopWithoutWait(d) ==
  /\ at[d] = "dropping"
  /\ BeginStopping(d)
  /\ UNCHANGED <<file, requests, survivors>>

\* waitForMutationCompletion: handlers go on after their connection is closed.
WaitOn(d) ==
  /\ at[d] = "dropping"
  /\ StopOrWait(d, "late")
  /\ UNCHANGED <<file, requests, survivors>>

\* stopLiveRuns: each run is stopped, or killed if that throws; if that throws
\* as well, the run is left.  The stop ends the worker of the current attempt, if
\* there is one, and closes the run; a worker that is not of the current attempt
\* is left alone, and nothing throws.
StopRun(d, r) ==
  /\ at[d] = "stopping"
  /\ r \in toStop[d]
  /\ toStop' = [toStop EXCEPT ![d] = @ \ {r}]
  /\ \/ open' = open \ {r} /\ held' = held \ {r} /\ UNCHANGED survivors
     \/ survivors' = [survivors EXCEPT ![d] = @ \cup {r}] /\ UNCHANGED <<open, held>>
  /\ UNCHANGED <<at, file, busy, strays>>

\* Mutant of RunsStopped: the first run that cannot be stopped ends the loop.
FirstFailureEndsLoop(d) ==
  /\ at[d] = "stopping"
  /\ toStop[d] = {} \/ survivors[d] # {}
  /\ Goes(d, "disposing")
  /\ UNCHANGED <<file, requests, shutdown>>

RunsStopped(d) ==
  /\ at[d] = "stopping"
  /\ toStop[d] = {}
  /\ Goes(d, "disposing")
  /\ UNCHANGED <<file, requests, shutdown>>

\* The services are disposed of and the server closed.  If that throws, or a run
\* is left over, close throws and the file is not given back.
Dispose(d) ==
  /\ at[d] = "disposing"
  /\ \/ survivors[d] = {} /\ Goes(d, "releasing")
     \/ (ServiceFaults \/ survivors[d] # {}) /\ Goes(d, "ended")
  /\ UNCHANGED <<file, requests, shutdown>>

\* releasePidFile: a file that names another process is left alone.
ReleaseFile(d) ==
  /\ at[d] \in {"releasing", "aborting"}
  /\ Goes(d, IF file.full /\ file.by # d THEN "ended" ELSE "unlinking")
  /\ UNCHANGED <<file, requests, shutdown>>

Unlink(d) ==
  /\ at[d] = "unlinking"
  /\ file' = NoFile
  /\ Goes(d, "ended")
  /\ UNCHANGED <<requests, shutdown>>

\* The process is killed, by a second signal or by the system; its workers are
\* not.
Die(d) ==
  /\ Alive(d)
  /\ Goes(d, "dead")
  /\ busy' = [q \in Requests |-> IF busy[q] = d THEN NoDaemon ELSE busy[q]]
  /\ UNCHANGED <<file, runs, shutdown>>
-----------------------------------------------------------------------------
Claim(d) == ReadFile(d) \/ RemoveFile(d) \/ CreateFile(d) \/ WritePid(d)
Open(d) == OpenServices(d) \/ Listen(d)
Shut(d) ==
  \/ DrainTimesOut(d) \/ WaitOn(d) \/ RunsStopped(d)
  \/ Dispose(d) \/ ReleaseFile(d) \/ Unlink(d)
  \/ \E r \in Runs : StopRun(d, r)

Next ==
  \/ \E d \in Daemons : Launch(d) \/ Claim(d) \/ Open(d) \/ Close(d) \/ Shut(d) \/ Die(d)
  \/ \E q \in Requests : \/ FinishMutation(q)
                         \/ \E d \in Daemons : BeginMutation(q, d)
                         \/ \E r \in Runs : StartRun(q, r) \/ RecordRun(q, r) \/ LoseRun(q, r)
  \/ \E r \in Runs : WorkerExits(r)

Spec == Init /\ [][Next]_vars

\* A process that is not killed goes on, and a handler returns in the end; nobody
\* has to launch a daemon, to close it or to send a request.
FairSpec ==
  /\ Spec
  /\ \A d \in Daemons : WF_vars(Claim(d)) /\ WF_vars(Open(d)) /\ WF_vars(Shut(d))
  /\ \A q \in Requests : WF_vars(FinishMutation(q))
=============================================================================

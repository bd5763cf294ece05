# Frankenbeast: a verification project

Frankenbeast is a TypeScript monorepo of agents that run other agents. A daemon
dispatches *Beasts* (agent runs) as detached worker processes on behalf of
*tracked agents*; inside a worker a loop plans, executes and critiques tasks;
risky actions wait for a human approval. This directory holds TLA+ models of
the parts whose correctness depends on the order in which things happen, the
TLC runs that check them on small instances, and TLAPS proofs of the main
results for every value of the constants.

Paths below are relative to the repository; `orchestrator` stands for
`packages/franken-orchestrator/src`.

## 1. Inventory

### Components that carry the core logic

| Component | State it keeps | Operations | What is hard about it | What makes it correct |
|---|---|---|---|---|
| `BeastRunService`, `BeastDispatchService` (`orchestrator/beasts/services`) | none of its own; rows of runs, attempts and agents | create, start, stop, kill, restart, sync the tracked agent | every operation awaits in the middle and then compares what it reads with what it read before | an agent has one live worker; agent and run agree; a rejected agent gets no worker |
| `ProcessBeastExecutor` (`orchestrator/beasts/execution`) | `exitPromises`, `stoppingAttempts`, `pendingSpawnHandles`, `cancelledPendingRunIds` | start, stop (SIGTERM, grace timer, SIGKILL), kill, `handleProcessExit`, `finishAttempt` | overlapping stops, an exit against a timer, failure after the process exists | a stop ends the worker and returns; the attempt row never says "ended" of a worker that runs on |
| `ProcessSupervisor` | children by pid | spawn, SIGTERM and SIGKILL to the process group, identity check of a pid it did not spawn | workers outlive the daemon; pids are reused | never loses or mistakes a worker |
| SQLite beast repository | runs, attempts, agents, events | synchronous transactions | two rows are written one after the other | survives a crash between any two writes |
| Dispatcher queue reconciliation | none | one transaction over all active runs at start-up | what is left of a crash at any point | rows agree with processes again |
| Agent and run routes (`orchestrator/http/routes`) | none | which requests reach the services, and in which agent status; reject, delete, replace | checks before awaits | guards hold when they are used |
| Daemon server and drain (`orchestrator/http/beast-daemon-server.ts`) | a pid file; active mutations, waiters, drain flag | claim and release the pid file; begin and end a mutation, enter drain, wait with a time limit, stop live runs | shutdown against mutations in flight; a death between any two file operations; two starts | one daemon; no mutation after the drain; no live run that the shutdown missed; shutdown ends; a dead daemon's file stops nobody |
| Capacity reservations, maintenance mode | derived from agent statuses | can this start? | check and act are apart | slots are not oversold |
| Event bus, SSE tickets | sequence, ring buffer; issued and consumed tickets (SQLite) | publish, subscribe, replay; issue, consume, refresh, clean up | two processes consume one ticket; replay against live events | a ticket is accepted once; no gap and no duplicate within the window |
| Governor approvals (`packages/franken-governor/src`) | pending waiters, early responses, tombstones, timers; session tokens; anomaly window | register, waitFor, resolve, expire, cancel; request an approval with a time limit | an answer races its time limit, arrives before its waiter, twice, or for a reused id | a decision wakes its own waiter once; nothing waits for ever; an expired request is never approved |
| Planner (`packages/franken-planner/src`) | a DAG of tasks; attempts per task | topological order, insertion of fix tasks, recovery, planners with executors of their own | plans that grow while they run | dependencies first; a fix task before its retry; the number of fix tasks is bounded |
| Critique loop (`packages/franken-critique/src`) | iterations, failure history, breakers | evaluate, check breakers before and after, correct | budget spent between checks, escalation | ends within its iterations; spend is checked on the last one too |
| Execution phase (`orchestrator/phases/execution.ts`) | the queue, the current wave, completed, skipped and failed tasks, recovery attempts | select a wave, run it, accept it, recover its failures, refresh the plan, resume | peers of a wave that fail, are blocked or are recovered while others succeeded; a crash between any two checkpoint writes | a task runs after what it needs; nothing finished runs again; every task is reported; the run ends |
| Checkpoint store (`orchestrator/checkpoint`) | a file of markers, a file per output with a stale copy, a lock file | write, writeTaskOutput, clear, each under the lock; removal of a lock whose owner is gone | several processes, each of which may die or fail anywhere | what is stored stays; a dead owner keeps nobody out |
| Martin loop and CLI skills (`orchestrator/skills`) | iterations, stale mates, rate-limit waits, active provider | iterate, fall back, sleep, resume | time-outs, rate limits of several providers at once | ends; never spins on an exhausted provider |
| Provider registry (`orchestrator/providers`) | health, cooldowns | fail over | all providers down | a healthy provider is used |
| Chunk sessions (`orchestrator/session`) | session files and snapshots | save, snapshot, restore, atomic replace | a crash between file operations | one complete version is always readable |
| Dead-letter queue, network supervisor (`orchestrator/dr`, `orchestrator/network`) | queued items; service states | enqueue, replay; start in order, roll back | replay of what was done; half-started groups | once; all or none |
| Batch and webhook export (`packages/franken-observer/src`) | a buffer and a flush in flight; retries | add, flush, retry, shut down | events added during a flush | nothing lost below the limit, nothing sent twice |
| Brain and hive mind (`packages/franken-brain/src`) | SQLite memory; shared lessons read by cursor | recall, record; publish, poll, recent, delete | a poll against a publish and a deletion of another process | a cursor passes each lesson once |

The other parts of the repository (interviews and definitions, the chat
runtime, communication gateways, issue runner, runtime adapters, pull-request
closure, CLI, MCP servers, web dashboard, live bench, types) are input and
output, wording, or wiring; `PROJECT.json` lists each with its reason.

### How the core interacts

```
 HTTP routes ──> BeastDispatchService.createRun ──> BeastRunService.start/stop/kill/restart
      │                                                  │              ▲ syncTrackedAgent
      │ reject/delete/replace                            ▼              │
      └───────────> tracked agents <──────── ProcessBeastExecutor ──> repository (SQLite)
                                                         │  ▲ handleProcessExit
                                                         ▼  │
                                                ProcessSupervisor ──> worker process groups
 daemon restart ──> reconcileDispatcherQueueAfterRestart ──> repository, pid probes
```

All of it is one JavaScript thread. Code runs until it awaits file I/O, a timer
or a process event. Workers are detached process groups: they survive a crash of
the daemon, whose maps do not; the database does.

Approvals are a second core, in another process and without storage:

```
 agent ──> ApprovalGateway.requestApproval ──> HttpApprovalChannel.requestApproval
                │ withTimeout                            │ waitFor            ▲ resolver
                └── onTimeout: cancel(id) ──> delete ──┐ ▼                    │
 POST /v1/approval/request ── register ──────> ApprovalWaiterRegistry ── resolve ── POST /v1/approval/respond,
 GET /health, /v1/approval/pending ── size ──>  pending, early answers,            POST /v1/webhook/slack
                                                tombstones, three kinds of timer
```

A caller inside the process and a client over HTTP name the same request by its
id, in any order; an answer may come before, between or after them, and an id may
be used again once its request has expired.

The execution phase runs inside a worker, or in the CLI:

```
 runExecution:  refresh ──> wave of ready tasks ──> all settled ──> accept: output, marker ──> reports
                   ▲          (run concurrently)         │ blocked: reject the wave               │
                   │                                     ▼ failed                                 ▼
                   └── requeue <── persist the plan <── RecoveryController.recover ──────> next round or end
                                        │                                                  
                FileCheckpointStore <───┴── markers, outputs, recovered definitions: each write under the lock
                        ▲
                        └── other processes on the same checkpoint; a later process that resumes it
```

Only the checkpoint outlives the process. A later process merges it with the
planner's tasks and goes on. The daemon is a process of its own too: a file with
its pid keeps a second one out, and is what a next one finds after it died.

## 2. Modules

| Module | What it is |
|---|---|
| `BeastRunLifecycle` | State and actions of the run lifecycle: routes, dispatch, start, stop, kill, restart, exits, crash and restart of the daemon. At the side of some definitions stands a *mutant*, a version with a plausible bug, which the checks use to see that a property can fail. |
| `BeastRunProperties` | The type invariant, the safety and liveness properties, and the mapping from the lifecycle to the ledger. |
| `WorkerLedger` | The abstract specification: what the attempts table promises about worker processes. |
| `MCBeastRunLifecycle` | Values of the constants for TLC, with the configurations `run_*.cfg` and `find_*.cfg`. |
| `BeastRunProofs` | `TypesAndPromises`: types and exit promises, proved for all constants. |
| `BeastRunLedgerProofs` | `NothingForgotten`, `ImplementsLedger` and `RejectionIsCarriedOut`: no worker is forgotten, the lifecycle implements the ledger, and a start that is rejected under way undoes itself. |
| `ConsoleProofs` | What holds of an operator who sends one request at a time through the agent routes: the properties `run_console` checks, and that a running run can be reached, proved for any number of runs, attempts and crashes. |
| `ApprovalWaiters` | State and actions of the governor's pending approvals: registry, gateway with its time limit, HTTP handlers, timers, the passing of time; with mutants at the side. |
| `ApprovalProperties` | Its type invariant, safety and liveness properties. |
| `MCApprovalWaiters` | Values of the constants for TLC, with `approvals.cfg` and `find_unwoken.cfg`. |
| `ApprovalProofs` | `ApprovalsAreSafe` and `DeadlinesHold`: its invariants and its action property on ages, proved for all constants. |
| `PlanExecution` | State and actions of the execution phase, with the planner's recovery and the checkpoint it writes, over several processes one after another. |
| `PlanProperties` | Its type invariant, safety and liveness properties, and the mapping to the ledger. |
| `PlanLedger` | The abstract specification: what the checkpoint promises about a plan across crashes. |
| `MCPlanExecution` | Values of the constants for TLC, with `execution.cfg` and `find_retried.cfg`. |
| `PlanProofs` | Types, order, markers and the refinement of `PlanLedger`, proved for all plans. |
| `PlanReportProofs` | What a process reports of its plan when its loop returns, proved for all plans. |
| `BeastDaemon` | State and actions of daemon processes around one pid file: start, requests, drain, shutdown, death. |
| `DaemonProperties`, `MCBeastDaemon` | Its properties; values for TLC, with `daemon.cfg`. |
| `DaemonProofs` | Its safety properties, proved for all sets of daemons, requests and runs. |
| `CheckpointFile` | State and actions of processes that share one checkpoint: lock, removal of a lock, time limit, writes, failures, death. |
| `CheckpointProperties`, `MCCheckpointFile` | Its properties; values for TLC, with `checkpoint.cfg` and `find_lost_marker.cfg`. |
| `CheckpointProofs` | Its safety properties, proved for all sets of processes, markers and outputs and all time limits. |

The last three groups share the daemon's and the checkpoint's code but not its
states: `PlanExecution` needs of the checkpoint that a write either happens or
not, which is what `CheckpointFile` shows of one with others around it;
`BeastDaemon` needs of a run that it is live or not, which `BeastRunLifecycle`
details.

### State of `BeastRunLifecycle` and the code

| Variable | In the code |
|---|---|
| `run` | row of `beast_runs`: `status`, `currentAttemptId` (`cur`), `attemptCount` (`count`), and a stamp `fin` that stands for `finishedAt`. `killed` is status `stopped` with stop reason `operator_kill`, which the executor tells apart. |
| `attempt` | rows of `beast_run_attempts`, by attempt number |
| `agent` | the row of one tracked agent: `status`, `dispatchRunId` |
| `proc` | the worker process of an attempt, as the operating system has it (external) |
| `watched` | children the `ProcessSupervisor` of this daemon holds callbacks for |
| `stopping`, `waiter` | `ProcessBeastExecutor.stoppingAttempts`, `exitPromises` |
| `pc`, `req` | where a request is suspended and what its closure remembers: operation, run, attempt and the run as it was before the await |
| `up`, `requests`, `crashes` | the daemon is running; two counters that bound a behaviour |
| `strays` | live workers that no attempt row names: the run each was spawned for, and how many crashes came before it (external, like `proc`) |

### Steps

A step of the model is what the code does between two awaits. `Accept` is a new
request; the labels in `Suspended` are awaits that take time (a log append, the
grace timer of a stop), those in `MicroSteps` awaits that are settled already, so
that they resume before any new event: every other step of the daemon has the
guard `Quiet`. Two effects in a row with no transaction around them are one step
to other requests, as the thread is not given up, but not to a crash. There are
two such places where it matters: `CrashWhileFinishing` dies between the attempt
row and the run row, and `CrashWhileLaunching` between the spawn of a detached
worker and its attempt row, which leaves a worker in `strays`. The other way
into `strays` is a worker whose attempt cannot be stored and whose kill fails
(`AttemptNotStored` with `KillFaults`): the code swallows that failure.

| Code | Actions |
|---|---|
| `agent-routes.ts`, `beast-routes.ts`: guards of start, resume, stop, kill, restart, dispatch | `StartRoute`, `ResumeRoute`, `StopRoute`, `KillRoute`, `RestartRoute`, `DispatchRoute` in the guards of `Request*` |
| reject, stop without a run, delete, replacement run | `RequestReject`, `StopUnlinkedAgent`, `DeleteAgent`, `RequestReplace` |
| `BeastDispatchService.createRun` | `RequestDispatch`, `DispatchLogged`, `StartReturned`, `DispatchThrew`, `UndoRejectedStart` |
| `BeastRunService.start` and its catch block | `RequestStart`, `StartReturned`, `StartThrew`, `StartFailureLogged`, `UndoRejectedStart` |
| `ProcessBeastExecutor.start` | `LaunchWorker`, `LaunchCancelled`, `LaunchFails`, `PrepareFailureLogged`, `SpawnFailureLogged`, `StartLogged` |
| `ProcessBeastExecutor.stop`, `BeastRunService.stop` | `RequestStop`, `BeginStop`, `StopTimedOut`, `StopReturned`, `StopUnstarted` |
| `BeastRunService.kill`, `restart` | `RequestKill`; `RequestRestart` and the "restart" branch of `StopReturned` |
| `handleProcessExit`, `finishAttempt` | `WorkerExit`; `UnwatchedExit` when no daemon watches |
| death of the daemon; `reconcileDispatcherQueueAfterRestart` | `Crash`, `CrashWhileFinishing`, `CrashWhileLaunching`; `Restart` |
| a worker that no attempt names exits | `StrayExits` |

### State of `ApprovalWaiters` and the code

| Variable | In the code |
|---|---|
| `pending`, `waiter`, `age` | `ApprovalWaiterRegistry.pending`: the ids that have an entry; whose resolver an entry holds (`NoCall`: the placeholder of an HTTP request); the time since its `createdAt`, counted up to `TTL`, which means "at the limit or beyond" |
| `purge` | `expiryTimers`: what is left of each |
| `early`, `earlyLeft` | `resolvedBeforeWaiter`, and the timer that clears an answer nobody fetched |
| `tomb` | `expiredTombstones`: what is left of each |
| `st`, `asks`, `left`, `got` | calls of `ApprovalGateway.requestApproval`: where each is, the id it asks about, what is left of `withTimeout`, the answer it got |
| `accepted` | which id an operator's answer was accepted for (a record of history, which no action but `Respond` reads) |

| Code | Actions |
|---|---|
| `POST /v1/approval/request`, `register` | `RequestAnswered`, `RequestRefreshed`, `RequestRegistered`, by what the registry holds for the id; a full queue is `SizeTaken` |
| `GET /health`, `GET /v1/approval/pending` | `SizeTaken`: reading the size drops what has expired |
| `HttpApprovalChannel.requestApproval`, `waitFor` | `AskAnswered`, `AskRefused`, `AskPlaceholder`, `AskFresh` |
| the microtask in `waitFor` that hands over an early answer | `Deliver` |
| `POST /v1/approval/respond`, `POST /v1/webhook/slack` | `OperatorAnswers`: `RespondExpired` (410) or `Respond`, once signature and decision are verified |
| `withTimeout` and `HttpApprovalChannel.cancel` | `GatewayTimer` |
| `scheduleExpiry`, the timers of `resolve` and `markExpired` | `PurgeTimer`, `EarlyTimer`, `TombTimer` |
| `Date.now()` and the event loop | `Tick` |

A handler runs to completion, and so does a timer callback, so each is one
action. Time is relative: ages and what is left of timers, so that behaviours
need no horizon. A timer that is due may fire late, after any number of handlers
and ticks.

### State of `PlanExecution` and the code

A task id is `<<t, 0>>`, its fix tasks are `<<t, k>>`: `isRecoveryFixTaskId` and
`rootRecoveryTaskId` by construction.

| Variable | In the code |
|---|---|
| `visible` | chunk files or planner tasks that `refreshTasks` finds |
| `done`, `written`, `recorded`, `recDeps` | the checkpoint: `:done` markers, outputs handed to the cache, `recovery-task-v2` entries and the `dependsOn` in them |
| `inPlan`, `planDeps` | `ctx.plan.tasks` and `knownTaskIds` |
| `pending`, `pendDeps` | the queue; a queued task object may have other dependencies than the plan's |
| `res`, `waveDeps` | the current wave: what each task of it came to, and its `dependsOn` |
| `completed`, `skipped`, `failed` | `completed`, `terminalSkipped`, `terminalFailures` |
| `attempts`, `unsaved` | `recoveryAttempts`; recovered definitions `persistRecoveryTasks` has yet to write |
| `outcomes` | the outcomes pushed for an id (what the phase returns) |
| `iterations`, `limit` | of the loop; `pc` is where `runExecution` is, `starts` how many processes there were |

| Code | Actions |
|---|---|
| `runExecution` up to the loop: merged plan, seeded attempts, limit | `Start` |
| head of the loop: `refreshPlanTasks`, `selectExecutableWave` | `Refresh`, `RefreshFails`, `StartWave`, `ReportUnmet`, `LoopEnds` |
| `executeTask` | `Settle` |
| the wave has settled; firewall and governor blocked one; acceptance in order | `WaveBlocked`, `AcceptWave`; `SaveOutput`, `MarkDone`, `RejectSuccess`, `AcceptFails` per task; `WaveAccepted` |
| the failures of the wave, one by one | `RejectTask`, `Counted` with `GiveUp` or `Recover`, `Persist`, `PersistFails`, `Requeue`, `FailTask`, `FailureTraceFails`, `WaveEnds` |
| a chunk file appears; the process dies, at any of these steps | `AddTask`; `Crash` |

A step ends where the code awaits or writes to disk. Where the code goes through
a wave or the queue in order, the model allows every order: the order of a plan
is an input.

### State of `BeastDaemon` and the code

| Variable | In the code |
|---|---|
| `at` | where each process is in `startBeastDaemon` or `close` |
| `file` | the pid file: who created it, and whether the number is in it yet (`writeFile` with `wx` is two system calls) |
| `busy` | `activeMutations`, by the daemon that handles each |
| `open`, `held`, `strays` | of each run, whether its status is not terminal, whether its current attempt has a live worker, whether it has a live worker that no current attempt leads to |
| `toStop`, `survivors` | runs `stopLiveRuns` has listed and not reached; those it could not stop |

`ReadFile`, `RemoveFile`, `CreateFile` and `WritePid` are `claimPidFile`;
`OpenServices` (with the reconciliation of the runs) and `Listen` the rest of the
start; `BeginMutation`, `StartRun`, `RecordRun`, `LoseRun` and `FinishMutation` a
request under `drainMutatingRequest`; `WorkerExits` the end of a worker; `Close`,
`DrainTimesOut`, `WaitOn`, `BeginStopping`, `StopRun`, `RunsStopped`, `Dispose`,
`ReleaseFile` and `Unlink` the shutdown in its order; `Die` a second signal, or
SIGKILL. `ServiceFaults` lets the port be taken and the services fail to open,
to list their runs or to close.

What a run has and what the repository says of it are three facts because the
shutdown goes by two of them: it lists the runs whose *status* is not terminal,
and stops the worker of their *current attempt*. `LoseRun` is what
`BeastRunLifecycle` shows a failed start may do: take the attempt of another
start out of the run (`find_lost_attempt`), or record a failure although the
worker lives (`LogFaults`). The stop of a run without a current attempt returns
normally and ends no worker.

### State of `CheckpointFile` and the code

| Variable | In the code |
|---|---|
| `at`, `op`, `read` | where each process is in `withLock` and its callback, what it writes (chosen once it has the lock, as it does not show before), and what `readEntries` returned to it |
| `lock`, `age` | the lock file: its creator, whether the owner record is in it; the time since it was last written |
| `wait`, `due` | how long each waiter has waited, and who has not tried again since time went on |
| `entries`, `primary`, `stale` | lines of the checkpoint; outputs; stale copies of outputs |
| `kept`, `contended` | history, which no step reads: what was stored since the last clear; waiters during whose wait a living process had the lock |

| Code | Actions |
|---|---|
| `write`, `writeTaskOutput`, `clear` | `Begin`, then the steps below |
| `withLock`: `openSync` with `wx`, the record, the deadline | `OpenLock`, `Sign`, `SignFails`, `Retry` |
| `tryReapLock` | `Look` reads and decides, `Reap` renames |
| `readEntries`, `atomicReplace` | `ReadEntries`, `Replace` |
| `copyTaskOutputToStale`, `atomicWriteFile`, `deleteTaskOutput` | `CopyToStale`, `Store`, `DeletePrimary` |
| `clear` | `ClearEntries`, `EmptyOutputs` |
| the `finally` block | `CheckOwner`, `Unlink`, `ReleaseFails`; `WriteFails` on the way to it |
| death of the process; `Date.now` and `sleepSync` | `Die`; `Tick` |

The code is synchronous, but the processes are not: each system call another
process can see is a step. Writing a temporary file is none. A unit of time is
long against a system call and the 5 ms between two attempts, so every waiter has
tried once before it passes (`due`), and nobody is between creating a lock and
signing it when it does, which is what the code says of "the create-to-write
window" (`orchestrator/checkpoint/file-checkpoint-store.ts:23`). The work under
the lock may take any time.

## 3. Runs

The lifecycle runs say `CHECK_DEADLOCK FALSE`: `MaxRequests`, `MaxCrashes` and
`MaxAttempts` bound a behaviour, so that it really stops when they are used up and
every worker has exited. So do those of the execution phase (the last process
has ended or died), the daemon (every daemon has ended or died) and the
checkpoint (every process may be dead). The approval runs check deadlock.

| Run | Instance | Question |
|---|---|---|
| `run_console` | two runs, one request at a time, two attempts, five requests, one crash, agent routes | With an operator who waits for each answer: does the agent ever have two workers, or a worker behind a finished or a replaced run, other than one whose daemon died before it could store it, and do the records agree between requests? |
| `run_overlap` | two runs, two requests at once, two attempts, four requests, one crash, agent routes, capacity policy on | Whatever overlaps: does the repository forget a worker, does an exit promise outlive its stop, does a start that is rejected under way end its worker, does the lifecycle implement `WorkerLedger`? |
| `run_liveness` | one run, two requests at once, three requests, one crash, every route, log and kill faults | Is every accepted request answered, and does every stop end its worker, even one that ignores SIGTERM? |
| `approvals` | two ids, two gateway calls, two answers, a queue of one, time limits of 3, 3, 2 and 2 | Does an answer wake one call of its own request or stay for a later one, does nothing shadow a live request, does the queue keep its limit, does every call return and every abandoned entry go? |
| `execution` | three tasks, two of which share a wave and one that runs alone, may be added late and waits for one of them; one recovery, two processes, every fault | In whatever order tasks settle, fail, are blocked, recovered and resumed: is every task run after what it needs, accepted with its wave, reported, and never done twice; does the run end; does the phase implement `PlanLedger`? |
| `daemon` | two daemons one after another, each of which may die anywhere; two requests, two runs, services that fail | Is there one daemon, is what a dead one left taken over, does shutdown wait for requests, miss no run that its record leads to, and end? |
| `checkpoint` | three processes, two markers, one output, clear, disk faults; removal of a lock at age 2, time limit 4 | Is anything stored lost, does anybody time out on the lock of a dead process? |
| `find_*` | one run; one id and one call; two tasks; three processes and two markers | Section 6 |

**Why these bounds.** Two runs are what a replacement needs (an old one and a
fresh one). Two attempts are what a restart needs, and the interplay of an old
attempt's exit with a new attempt. Two requests in flight are what an overlap
needs; a third could only repeat the second, as the executor keeps one promise
per attempt. One crash splits a behaviour into what the old daemon leaves behind
and what the new one makes of it; the rows a second crash finds are among those
a first one does. Four requests let two overlaps follow one another; five let a
sequence dispatch, replace, reject, start again. `run_overlap` declares runs and
requests symmetric: no definition names one, and it checks no liveness.

Two ids let one request be expired, refused or purged while another is live, and a
queue of one makes the second find no room. Two calls are what reuse of an id
needs: one that timed out or waits in vain, one that asks anew. Two answers are
what a second use of an answer needs. A limit of 3 leaves a tick before, between
and after the events of one request; shorter limits for early answers and
tombstones let both run out within the life of an entry.

Three tasks are what the execution phase needs: two peers of a wave, so that one
can be recovered, refused or blocked while the other succeeds, and a third that
depends on one of them, appears late and runs alone. One recovery gives fix
tasks, a retry and a refusal. Two processes: the second finds what the first
left at its death, and a third would find nothing else. `MinIterations` is 2
instead of the code's 10: with 10 the limit could not be reached in so small a
plan, and `EveryTaskReported` would say nothing about it. `find_retried` has the
limits of the code.

Two daemons: the second finds what the first left when it died, or is started
while the first lives. The pid file names one process, so a third could only
find what the second finds (`SoleDaemon` is proved for any number). Two requests
make one the last. Two runs let one be stopped and one fail; each of them may have
both a current worker and a stray one. Three processes are one that dies with
the lock and two that compete for it; two markers make a lost update visible; one
output has all the states its files can be in. A `ReapAge` of 2 and a limit of 4
are in the ratio of the code's formula, half the limit, with a tick before, at
and after the age.

**Fairness** (`FairSpec`, used by `run_liveness`). A settled or resolved await is
resumed and a log append ends: `WF(Continue(h))`. A timer fires:
`WF(StopTimedOut(h))`. SIGKILL cannot be ignored: `WF` of the exit of a killed
worker. Nothing makes another worker exit, an operator send a request or a
crashed daemon restart, so both liveness properties except a daemon that is down.
In `approvals` time goes on (`WF(Tick)`), timers fire and microtasks run; nobody
has to ask, answer or read the size. In `execution` a task that runs settles and
the phase goes on (`WF` of `Round`, `TaskSettles`, `Acceptance`, `Recovery`): each
is a promise the code awaits; nothing makes a chunk file appear, a process start
or die. In `daemon` a process that is not killed goes on (`WF` of `Claim`, `Open`,
`Shut`) and a handler returns in the end (`WF(FinishMutation)`: after its time limit `close` waits for handlers
without another, so a handler that never returned would hold the shutdown up);
nobody has to launch or close a daemon. `checkpoint` states no liveness:
`TimeoutBlamesLiving` is the safety side of it.

## 4. Properties

| Property | Why it could be wrong |
|---|---|
| `NoForgottenWorker` | The row of an attempt is closed by exits, stops, kills, grace timers, reconciliation, in any order, with the process signalled by yet another step. A closed row is never looked at again. |
| `LedgerSpec` | The same as an abstract specification, with what steps may do: a worker comes with its entry, under a number never used before, or is lost in a death of the daemon or a failed kill; a closed entry is never reopened nor closed twice. A failed start resets `currentAttemptId`; numbering from it would reuse a number. |
| `PromiseHolderWaits` | The promise map has one slot per attempt, stops may overlap, and a refused signal has to take its entry back. |
| `OneWorkerPerAgent`, `UnlinkedRunHasNoWorker` | Replacement stops one run, awaits, and dispatches another. |
| `FinishedRunHasNoWorker`, `AgentAgreesWithRun` | Three tables written one after the other with awaits and crashes between; a launch that fails after its process exists. |
| `RejectedStartUndone` | A rejection finds nothing to stop while a start is still launching; the start has to look again when the executor returns or throws, on two paths each, and its own stop may be refused or overlap with others. |
| `RequestReturns`, `StopEndsWorker` | The exit a stop awaits may never come, or be told to another stop. |
| `AnswerUsedOnce` | An answer may be kept, handed over in a microtask that another handler precedes, or given to a resolver; the entry may be deleted, expire or be taken over in between. |
| `ResolverHasListener`, `LiveRequestUnshadowed` | Entries, early answers and tombstones of one id live in three maps with a timer each, and the id may be used again. |
| `PlaceholdersBounded`, `RequestsNeverRejuvenate` | The limit is waived for known ids; a refresh replaces the entry and its timer. |
| `ApprovalReturns`, `AbandonedRequestPurged` | A call may lose its entry to another; a placeholder has nobody who waits for it. |
| `RunsAfterNeeds`, `DoneNeedsDone` | Three copies of a task's dependencies (file, plan, queue) are rewritten by recovery, by refresh and by the next process, and are compared with yet another set, `completed`. |
| `DoneHasOutput`, `WaveCommitsTogether` | Output and marker are two writes per task of a wave, and one task may be blocked when its peers have succeeded. |
| `SecondOutcomeOnlyAfterRejection`, `ReportsMatchCheckpoint` | Recovery of one task puts its failed peers back into the queue before it is known what becomes of them; a resumed process starts from the checkpoint only. |
| `EveryTaskReported`, `UnmetForCause`, `ExecutionEnds` | The iteration limit is computed once and moved by recovery; fix tasks are put into the middle of a queue others wait in. |
| `FreshFix` | The counter of fix tasks is in memory, the ids are on disk. |
| `PlanLedger` (`LedgerSpec`) | All of it together, as what may happen to the markers on disk. |
| `OneOwner`, `StaleFileTakenOver` | Reading, removing, creating and writing the pid file are separate steps, and a daemon may die after each. |
| `ShutdownAfterMutations`, `NoRunLeftBehind`, `ShutdownEnds` | `NoRunLeftBehind` is about `Reached`, the runs that are not called ended and whose current attempt has a live worker; of other workers the shutdown knows nothing (section 6). The wait for requests has a timer that races the last of them; a request that was let in may start a run after the list of runs was read. |
| `StoredSurvives` | Read and replace are apart; a lock may be removed by its age, by the death of its owner, by its owner; writers die and fail in between. |
| `TimeoutBlamesLiving` | The age of an unsigned lock and the time limit of the waiter are measured from different moments. |

The console properties hold for one request at a time (proved in `ConsoleProofs`),
and speak of the workers that an attempt names or the present daemon spawned:
one that an earlier daemon had not stored when it died is out of everybody's
reach, and the properties would be false of it (section 6).
With overlapping requests some do not, which section 6 lists; no property of the code's own tests or
documents says that they should, unless it is quoted there.

## 5. Proofs

TLC checks the instances of section 3. TLAPS proves the following for every
value of the constants that the assumptions named in each module allow.

**The run lifecycle** assumes that `NoRun` is no run and `NoHandler` no handler,
that bounds are naturals and switches Booleans. No set is assumed finite, although
`Runs` and `Handlers` are in a real daemon.

* **`TypesAndPromises`**: `Spec => [](TypeOK /\ PromiseHolderWaits)`. The
  inductive invariant is the conjunction itself, with the remark that a request
  which is not idle has a request record: otherwise a step could read fields of
  `NoRequest`. One lemma per action.
* **`NothingForgotten`**: `Spec => []NoForgottenWorker`. It is not inductive. Its
  invariant `LInv` adds to types and promises:
  - `Counted`: the current attempt is at most the attempt count; a stop in
    flight is for an attempt that was counted;
  - `Numbered`: exactly the attempts up to the count have a row, and exactly
    those have had a process: a launch cannot reopen a row;
  - `Remembered`: a request remembers a run with no more attempts than now;
  - `UnpromisedStops`: a stop that waits though nobody holds the promise of its
    attempt waits for a worker that is already condemned or gone. This is why
    the grace timer may skip SIGKILL and still close the row: whoever took the
    promise away, an exit or another stop's timer, has ended the worker.
* **`ImplementsLedger`**: `Spec => LedgerSpec`, from the same invariant: each
  action maps to `Launch`, to a closing of entries whose workers are not
  running, to `Condemn` or `Die` with or without a closing, to
  `KeeperDies` and `KillFails`, which may lose a worker that has no entry, to the
  end of a lost worker, or to a stutter.

**One request at a time** (`ConsoleProofs`): `SingleWorker`, `NoStrayWorker`,
`NoWorkerAfterTheEnd`, `AgentAndRunAgree` and `NoRunOutOfReach`. All assume
`Console`: one handler, no `"run"` route, no `LogFaults`; the first three, which
are about workers, also `~KillFaults`. Each is needed, as `find_lost_attempt` and
the notes of section 6 show; `CapacityConfigured`, the runs, attempts, requests
and crashes are arbitrary. A crash may come at any step, and in the two places
inside a step that section 2 names, so that the records it leaves and what the
restart makes of them are covered. What it leaves without any record is not: the
three theorems about workers are about those that an attempt names and those the
present daemon spawned (`EveryWorkerEntered`: of the latter each has an attempt).
The invariant `KInv` adds to `LInv`:

  - `OpenIsCurrent`: an attempt that is open belongs to the run the agent is
    linked to, is its current one, and the run is running. With it a guard on
    the agent's status says something about processes, of which `LInv` knows that
    each worker not yet condemned has an open attempt;
  - `RejectedClosed`, `LinkExists`, `Unstarted`: the rows agree even while a
    request is in flight;
  - `InFlight`: what the request may rely on at each await. A start that has
    launched nothing finds no open attempt, which is what keeps it from being
    the second; a stop that goes on finds none either;
  - `SettledAgrees`: the agent's status is the outcome of its run, except
    between a launch and the moment the agent is synchronised. It must hold at
    the end of every request and crash, as the next request's guard reads it.

  `NoRunOutOfReach` needs one fact more, `Reachable`: not only between requests a
  running run has a current attempt. It is the property `find_lost_attempt`
  violates with two handlers and everything else as in `Console`: what loses the
  attempt is the overlap.

**Rejection during a start** (`RejectionIsCarriedOut`, in `BeastRunLedgerProofs`):
`Spec => RejectedStartUndone`, for any number of requests in flight, every route
and every fault. To `LInv` it adds `StopsEnded`, that a stop which waits no more
has seen its worker gone or condemned: whoever ended the wait, an exit or a timer
whose promise another stop had taken, `UnpromisedStops` gives it. A stop that is
refused at once is so because the worker is gone. It does not say that a rejected
agent has no worker: an attempt that is not the current one of the run when the
start looks again is not its business (section 6).

**The approvals** assume what `ApprovalWaiters` states: the extra values are no
members of their sets, `Off` is no integer, limits and queue length are positive.

* **`ApprovalsAreSafe`**: `Spec => []` of the types, `ResolverHasListener`,
  `AnswerUsedOnce`, `LiveRequestUnshadowed` and `PlaceholdersBounded`, for all
  ids, calls, answers, limits and queue lengths. The invariant `IInv` adds:
  - `Alone`: an entry, *even an expired one*, has neither tombstone nor early
    answer beside it; for live entries alone the property is lost when a
    handler stores over an expired entry;
  - `Unburied`: an id with an early answer has no tombstone, so the answer may
    turn into an entry;
  - `Asked`: a call that is not idle knows its id, and an idle one has no answer;
  - `SingleHolder`: `AnswerUsedOnce` without its set of holders, in a form steps
    can be split over;
  - `Bounded`: `pending` is finite, without which a cardinality says nothing.
    `Ids` itself is not assumed finite. `RequestRegistered` is the one step that
    adds a placeholder: it has dropped what expired, and the live ones were
    fewer than the limit.
* **`DeadlinesHold`**: `Spec => RequestsNeverRejuvenate`, from the same invariant.

* The corollaries `TypesHold`, `RegistryTypes`, `ResolversListen`,
  `LiveRequestsVisible` and `PlaceholdersFit` state single conjuncts of the above.

**The execution phase** (`PlanProofs`), for all tasks, acyclic dependencies,
serial tasks, numbers of recoveries, processes and faults, as `PlanExecution`
assumes them; the tasks are finite, the dependencies may be partly undefined.
`TypeCorrect` is inductive. The invariant behind `TasksRunAfterNeeds`,
`MarkersClosed`, `WavesCommitTogether` and `LedgerImplemented` adds to it:

  - `Phase`: which results a wave may hold at which `pc`. A blocked wave has
    nothing accepted; a wave in acceptance has nothing running;
  - `Plan`: no task of a wave that is still to be done has a marker
    (`UndoneNotDone`), `completed` is what has one (`CompletedDone`), every id is
    in one place (`Placed`), what waits in the queue is in the plan
    (`QueueLive`), a fix task the plan needs has its entry in the file or is about
    to get it (`FixRecorded`);
  - `Covered`: the point of it. The dependencies in the file, in the plan, in
    the queue and in the wave differ, and for each the invariant says that whoever
    follows them also satisfies those in the file (`RunCovered`, `SettledCovered`,
    `QueueCovered`), with the definitions not yet written as the only exception
    (`UnsavedOK`). A crash in the middle of `persistRecoveryTasks` is safe because
    of the order in which that function writes.

`LedgerImplemented` maps `MarkDone` to `Complete`, `Persist` to `Revise` and every
other step to a stutter. `MarkersHaveOutput` and `FixNumbersFresh` are inductive
with one addition each. `ReportedOnce` needs `ReportsInOrder`: which reports a
process may have made of a task at each place the task can be in.

**What is reported** (`PlanReportProofs`): `UnmetNeedsHaveACause`,
`NoTaskForgotten` and `ReportsAreTheMarkers`, under no assumption but those of
`PlanExecution`, and `RejectionIsTheOnlyWay`, under `~TraceFaults`. They compare
what a whole process did with what it returns. Their invariant `Told` adds to that
of `PlanProofs`:

  - `DepsOrdered`: every dependency in the file, the plan, the queue and the
    wave goes down in one order of the ids (`Before`): planned tasks by a rank
    that the acyclic dependencies give, the fix tasks of a task before it, by
    number. Hence the queue has a least id (`Minimal`, from well-foundedness of
    the naturals), and if it may not run, what it waits for is over or nowhere;
  - `Spoken`: what is over has been reported, or will be by the acceptance that
    is under way, and only what has a marker was reported as a success;
  - `Orphans`: a fix task that is nowhere is the last one of a task that is
    being recovered or was given up;
  - `DoneParts`: what a marked task needs in the plan or the queue is marked, so
    that a task that already has its marker is never given up for unmet needs,
    not even in a process that resumes half a recovery.

  For the two about a loop that ended by its limit there is also `Budget`: the
  rounds so far and the rounds the tasks can still cost stay within the limit. A
  task costs one round (`Owed`), and a planned one another (`OwedMore`): its
  success may be refused and it runs again, or it is recovered and a fix task
  comes before it, for which the limit is raised. So the limit never ends a
  run with tasks queued, for any plan and any `MinIterations`; with the
  code's 10, TLC could not reach the limit.
  `RejectionIsTheOnlyWay` states the property of `find_retried`: with no success
  refused for want of a trace, no task is reported twice.

**The daemon** (`DaemonProofs`): `DaemonTypes` and `DrainIsComplete` hold of any
starts, from `Serving`: types, and that a daemon with requests in flight is one
that still serves (`BusyDaemonServes`). `SoleDaemon` and `ShutdownIsComplete`
assume `~StartsOverlap`, that no daemon is started while another takes the pid
file; section 6 says what happens otherwise. Their invariant adds that one daemon
at a time claims (`OneClaims`) and that what it found does not change under it
(`ClaimUndisputed`). `ShutdownIsComplete` is about `Reached` only: from the list of
open runs (`BeginStopping`) on no handler runs, so nothing is added to `open` or
`held`, and each run of the list is stopped or reported. Daemons, requests and
runs may be infinite sets.

**The checkpoint** (`CheckpointProofs`): `CheckpointTypes` holds whoever removes
locks; it needs `TriesInTime` and `KindsFit`, which say at what ages and for which
writes a process tries. `WritesSurvive` and `TimeoutsJustified` assume
`~ReapsOverlap`, that two processes are not between the decision to remove a
lock and the removal at once; section 6 again. Three groups are added:

  - `Locked`: who is past the creation of the lock is named in it
    (`OwnerHolds`), what is being removed is nobody's (`ReapsAbandoned`), a lock
    about to be signed is young (`FreshWhileSigning`), which is why its age may
    decide;
  - `Filed`: what a holder has read is what there is (`HolderCurrent`), and a
    primary output about to be deleted has its stale copy;
  - `Timed`: a waiter that met no living owner, nor a lock that a living process
    had failed to give back (`Taken`), has seen only a lock that grew
    older with its own wait, and has removed it by the time that age reached the
    limit (`Uncontended`); with the assumption that twice that age is at most
    the time limit it does so before it gives up (`TriesInTime`).

Each invariant was checked by TLC on the instances above before it was proved.

Every invariant and action property of a passing run is thus a theorem. Only
model-checked are the liveness properties (`RequestReturns`, `StopEndsWorker`,
`ApprovalReturns`, `AbandonedRequestPurged`, `ExecutionEnds`, `ShutdownEnds`,
`StaleFileTakenOver`), as fairness and ENABLED are beyond the prover. Of the
properties that the `find_*` runs violate, the causes of three have a constant
that leaves them out, and without it they are theorems: `NoRunOutOfReach` (one
handler), `RejectionIsTheOnlyWay` (`~TraceFaults`), `WritesSurvive`
(`~ReapsOverlap`). `find_killed` and `find_unwoken` need no such cause: the code
does it with one request, or with one id and one call.

## 6. Where code and its documents differ

| Run | What happens |
|---|---|
| `find_killed` | A run that was killed keeps its stop reason `operator_kill`. The executor reads that reason after every spawn to see whether the spawn was cancelled meanwhile, so a later start or restart kills its own worker and returns normally without an attempt. |
| `find_lost_attempt` | A start that failed logs its failure; meanwhile another start of the run succeeds. The first then clears `currentAttemptId` of the running run, whose worker no route can reach any more. |
| `find_unwoken` | A placeholder expires while the call that attached to it still waits (its own limit started later). A client refreshes the request; the fresh entry has no resolver. The operator's answer is reported as resolved and kept, and wakes nobody: the call times out. |
| `find_retried` | The recovery of one task of a wave puts its failed peers back into the queue. A peer whose success could not be traced is then a terminal failure and reported, but not taken out of the queue: it runs again and is reported twice. |
| `find_lost_marker` | A process died with the lock. Two others read its record; one renames and removes the lock and takes it, then the rename of the other takes that live lock away. Both write the file from what they read, and a marker is lost. |

Seen while modelling and part of the model, without a run of their own:

* A daemon that dies between the spawn of a detached worker
  (`orchestrator/beasts/execution/process-beast-executor.ts:540`) and its attempt
  row (`:704`) leaves a worker that no row names. The restart reconciles rows, so it
  cannot see it; the run is still queued or ended, and the next start adds a
  second worker. With such workers counted, `OneWorkerPerAgent`,
  `UnlinkedRunHasNoWorker` and `FinishedRunHasNoWorker` are violated after a
  dispatch, the crash and a restart. `LedgerSpec` records them as lost.
* The kill of a worker whose attempt cannot be stored may fail, and the failure
  is swallowed (`orchestrator/beasts/execution/process-beast-executor.ts:728`):
  with `KillFaults`, `FinishedRunHasNoWorker` is violated by one dispatch.
* A rejected agent can keep a worker when two requests overlap, without any crash:
  a dispatch fails to prepare its process and logs that; a restart of the same run
  launches a worker meanwhile; the dispatch then records the run as failed
  (`orchestrator/beasts/services/beast-dispatch-service.ts:464`), so that a fresh
  run may be dispatched, and the rejection stops the fresh one only.
* The shutdown ends the workers its records lead to. One whose run lost its
  current attempt, one whose run was recorded as failed, and the first worker of
  a run that was started while it ran, go on; nothing throws, and the pid file is
  given back (`orchestrator/http/beast-daemon-server.ts:301`,
  `orchestrator/beasts/services/beast-run-service.ts:402`).
* A failing read or unlink of the lock in the `finally` block is taken to mean
  that the lock is gone (`orchestrator/checkpoint/file-checkpoint-store.ts:571`).
  The lock then stays, signed by a living process that does not hold it, and every
  writer times out until that process ends, itself included.
* The append of the "started pid" line is awaited without a guard after the
  worker runs (`orchestrator/beasts/execution/process-beast-executor.ts:808`). If
  it rejects, dispatch records a failed run while the worker runs on: with
  `LogFaults`, `FinishedRunHasNoWorker` is violated. Line 829 calls startup
  logging best-effort.
* The stop route of an agent without a run replaces its status, a rejection
  included (`orchestrator/http/routes/agent-routes.ts:546`), and so does the
  reconciliation after a restart.
* With `StartsOverlap`, `OneOwner` is violated: a second daemon reads the pid file
  of a first between its creation and its write, takes the empty file for
  garbage, removes it and creates its own; both go on
  (`orchestrator/http/beast-daemon-server.ts:250`). ADR 027 relies on the file to
  prevent double starts.

* `createRun` writes the agent `dispatching` when the run ended during the
  dispatch with anything but `completed`
  (`orchestrator/beasts/services/beast-dispatch-service.ts:404`), and writes an
  agent that was deleted meanwhile (`:412`).
* The run routes do not look at the status: killing a run that completed
  rewrites its outcome (`orchestrator/http/routes/beast-routes.ts:567`), and
  starting one that runs launches a second worker
  (`orchestrator/beasts/services/beast-run-service.ts:201`). This is why
  `OneWorkerPerAgent` is stated for the agent routes.
* With overlapping stops the grace timer of one may fire after another caller
  restarted the run, and marks the new run stopped
  (`orchestrator/beasts/execution/process-beast-executor.ts:1022`).
* A call that times out cancels by id. If its entry expired and the id was used
  again, it removes the entry of the later call, which then can only time out
  (`packages/franken-governor/src/channels/http-channel.ts:46`).
* The purge timer is not set again when it finds its entry a moment too young
  (`packages/franken-governor/src/gateway/approval-waiter-registry.ts:376`); with
  two clocks that round differently such an entry stays until somebody looks.

## 7. Plan

The order is that of consequence: what can leave a worker, a task or a decision
in a wrong state first, what only delays next.

| Step | Modules | Questions | Proofs worth having |
|---|---|---|---|
| done | `BeastRunLifecycle`, `WorkerLedger`; `ApprovalWaiters`; `PlanExecution`, `PlanLedger`; `BeastDaemon`; `CheckpointFile` | section 4 | section 5 |
| 1 | `BeastDaemon` composed with `WorkerLedger`, with maintenance mode and a count of slots for capacity reservations | no worker is left behind that the daemon meant to stop; a paused dispatch leaves no agent in `initializing`; slots are not oversold | the composition implements the ledger |
| 2 | the execution phase over `CheckpointFile`, two processes at once on one plan | what the phase assumes of a write holds with another writer | `PlanExecution` from `WritesSurvive` |
| 3 | `SingleUseTokens` as the abstract specification, `SessionTokens` (file under a lock, several processes) and `SseTickets` (SQLite) as two implementations | a token is consumed at most once, across processes and crashes; expiry against consumption | both refine the abstract one |
| 4 | `EventReplay`: ring buffer, subscribers, `Last-Event-ID` | no gap and no duplicate within the window, a reported gap otherwise | delivered events are a prefix |
| 5 | `CritiqueLoop`, `MartinLoop`, `ProviderFailover` | ends within its iterations; the last spend is checked; no exhausted provider is called again before its cooldown | bounds on iterations |
| 6 | `ExportBuffer`, `HiveMindCursor`, `DeadLetters`, `ServiceGroup`, `AtomicReplace` | nothing lost, nothing twice; one complete version after a crash | cursor passes each lesson once |
| proofs | `DaemonProofs`, `ApprovalProofs` | which step of two overlapping starts breaks `OneOwner`, as an invariant that holds up to it; that an answer accepted for an entry with a resolver wakes its call | the findings of section 6 localised like the three of section 5 |

Dispatch under capacity reservations has no count of slots yet: it is only the
switch that makes a start write `dispatching` and may refuse a restart.

## 8. What is not modelled

* **Data**: configurations, prompts, log lines, events, metrics. Only their
  latency and failure matter to the lifecycle.
* **Signatures, anomaly detection and audit records** of approvals: checks
  before, or records after, the steps that are modelled.
* **Several agents**: an agent's runs touch another's only through capacity.
* **Two daemons on one database**: the lifecycle models one, as its executor keeps
  what it knows of workers in memory. That there is only one is what
  `BeastDaemon` shows, for starts that do not overlap.
* **A supervisor that awaits inside `spawn`** before it has a pid: the one in use
  awaits only on failure, so `pendingSpawnHandles` is never seen by another
  request. The container executor delegates to the same code.
* **The other phases of the loop** (ingestion, hydration, planning, closure),
  which run one after another around the execution phase.
* **The planner's own executors** (`LinearPlanner`, `ParallelPlanner`): the
  execution phase does not use them, and schedules its waves itself.
* **Damage to files**: corrupt lines and outputs of a checkpoint (dropped by the
  reader), a `clear` that removes only part of the outputs.
* **Process identity that cannot be read**: a system without start times, where the
  age of a lock of 60 s decides. For workers this leaves out that the supervisor
  refuses to signal a live worker of an earlier daemon
  (`orchestrator/beasts/execution/process-supervisor.ts:128`), and that
  reconciliation takes such a worker to be gone
  (`orchestrator/beasts/services/dispatcher-queue-reconciliation.ts:443`). Reading
  the code suggests that overlapping stops can then forget a live worker: the
  refused signal of the second clears the promise of the first, whose timer
  then skips SIGKILL and records `stopped`. `NoForgottenWorker` is not claimed there.
* **Single writes that do not show**: the definition and the entry of a recovered
  task are two writes and one step (`Persist`), since a definition is read only
  when both are there; the directory that `writeTaskOutput` makes before it has the
  lock, which a `clear` may remove, shows as a write that throws (`WriteFails`).
* **`detectCheckpointLock`**, which reports and changes nothing.
* **The availability mode of the daemon**, its health and read-only routes.
* **Components listed as `not_modelled`** in `PROJECT.json`, each with its reason.

# Formal model of Samurai Agent

TLA+ specifications of the parts of Samurai Agent that decide what happens to a
piece of agent work: whether it is started, who may execute it, how it ends, what
is asked of people about it, what is learned from it and how its files survive a
crash. TLC checks small instances of every module; TLAPS proves the most important
facts for every value of the constants.

* [1. The system](#1-the-system) – inventory of components
* [2. The modules](#2-the-modules) – what models which code
* [3. What TLC checks](#3-what-tlc-checks) – runs, bounds, fairness
* [4. What is proved](#4-what-is-proved)
* [5. Where code and documents disagree](#5-where-code-and-documents-disagree)
* [6. What is not modelled](#6-what-is-not-modelled)
* [7. Plan](#7-plan)

Run a model with `tlc -config MCRuntimeRun_sessions.cfg MCRuntimeRun`, check the
proofs of a module with `tlapm RuntimeRunProofs.tla`. File names without a
directory are in `packages/workspace-server/src`.

## 1. The system

Samurai Agent is a self-hosted workspace in which people and AI agents share
rooms. A chat message or a piece of Room work becomes a *Run*: one execution of
an external agent backend (Codex, Claude and others), whose events are streamed
into PostgreSQL. Around the Runs stand Room work, questions to humans, learning
from finished work, files, sharing, a gateway to outside channels, and a set of
workers.

### Components

**PostgreSQL Runtime** (`apps/server/src/adapters/runtime/postgres-runtime-chat.ts`).
State: the rows of `workspace_runtime_runs` (status, phase, provider session id,
idempotency key), `_reservations` (one Run per session), `_events`, and the
operation, activity, audit and message rows derived from a Run. Operations:
`runChatTurn`, `cancelBackendRun`, `resumeBackendRun`, `syncBackendRun`,
`recoverBackendRun`, `retryBackendRun`. Every handler is a chain of short
transactions with calls of the backend in between. Hard: handlers decide from
rows read several awaits ago; the stream, a cancel, a synchronisation, an
operator and a worker may all settle the same Run; a process may die between any
two transactions; a provider goes on when its connection breaks. Correct when one
ending stands, when the derived rows tell the same story, when a session executes
one Run at a time and is never reserved for ever, and when one request starts one
execution.

**Runtime recovery worker** (`apps/server/src/workers/postgres-runtime-execution-worker.ts`).
No state of its own. One lane settles Runs whose start never happened and frees
their sessions; a second lane projects settled Runs into completion activities.
It writes the rows of the Runtime with statements of its own.

**Session run queue** (`packages/runtime/src/execution/session-run-queue.ts`).
State: lanes of queued turns by session, active sessions, waiting sessions (live
or suspended), a slot counter, a closed flag. Operations: `enqueue`, abort,
`markWaiting`, `releaseSession`, `acquireControl`, `restoreSuspended`, `close`.
Synchronous code whose callbacks interleave with turns and with cancel, resume
and sync of `AgentHost`. Correct when turns of a session do not overlap, slots are
neither lost nor given twice, and no queued turn is forgotten.

**Agent Host** (`packages/runtime/src/host`, `.../execution/run-*.ts`,
`turn-executor.ts`, `backend-event-journal.ts`). The in-process twin of the
Runtime over an abstract store: admission, preparation, lifecycle transitions,
settlement with required and optional finalizers, cancel, resume, sync, recovery
after a restart, shutdown. Hard for the same reasons, and because it keeps Runs in
memory across awaits.

**Room work** (SQL functions of `schema.ts`, `workspace-server-store.ts`,
`apps/server/src/workers/postgres-room-work-worker.ts`). State: works with a stop
state and a control generation, assignments, launch reservations with leases, stop
controls with leases, Runs linked to reservations. The launch lane claims a
reservation, has a Run admitted, waits for it and settles; the stop lane claims a
stop, cancels what runs in its scope and reconciles. Hard: a lease that runs out
while its Run goes on (it is never renewed), a stop that races a settlement, claims
of an old generation, two rows that have to be written together by a dozen
functions. Correct when an assignment is given one Run, its rows agree, a completed
assignment was completed by its Run, a confirmed stop is quiet, every stop is
answered, and a claim whose worker died is recovered.

**Interaction requests** (`workspace-interaction-request-service.ts`,
`apps/server/src/workspace-server/interaction-request-workflow.ts`,
`postgres-generated-surface.ts`,
`workspace-interaction-request-maintenance-worker.ts`). A question to a person: the
record (status, version, claim, executions to look a result up for), a ledger of
operation ids, the action itself with its interaction record, and the events that
announce the outcome. The answering handler executes the action; a maintenance tick
executes what was left, recovers stale claims, expires and announces. Hard: answer,
retry, cancel, expiry and tick on one record; a death between the action and its
settlement; permission checks that cannot be answered; operation ids that are spent
by a refused write. Correct when the action is started at most once and only if
approved, and when what is recorded and announced is true and final.

**Completion and learning jobs** (`workspace-completion-jobs.ts`,
`workspace-completion-maintenance.ts`). Jobs with leases and attempts that review and
evaluate episodes of finished work and curate a Room. A tick claims a job, works
outside any transaction and closes it. Hard: a tick slower than its lease, worker
ids that are not unique, inputs edited meanwhile. Correct when one attempt completes
a job, on inputs that did not change, and every job settles.

**Workspace files and completion files** (`workspace-files.ts`,
`workspace-completion-files.ts`, the batches of `workspace-completion-service.ts`).
Rows and files on disk are kept in step by a ledger of transactions or batches:
stage, commit, move, mark; recovery repeats what is not marked. Hard: deaths between
any two of these, overlapping writes, retries, redaction. Correct when what a row
points to can be read, nothing acknowledged is lost, and an interrupted operation is
finished.

**Operation ledgers** (`runIdempotentResult` of `workspace-server-store.ts`,
`postgres-domain-operation-ledger.ts`). One row per idempotency key, written with or
before the action; unknown outcomes are closed by age.

**Worker supervisor** (`apps/server/src/workers/workspace-worker-supervisor.ts`). Runs
the lanes one after the other with back-off, and the stop lane on a timer of its
own. Hard: one lane that throws ends the tick for all.

**Share and import** (`workspace-share-service.ts`, its worker and adapters).
Shares with claims, imports as jobs with leases: fetch, stage, rename, commit.

**Gateway** (`packages/gateway`, `postgres-gateway.ts`,
`gateway-domain-service.ts`). Pairings, inbound messages, concurrency locks and
outgoing deliveries with leases and retries.

**External integration** (`packages/external-integration`), **notifications and
client events** (`workspace-notification-service.ts`,
`postgres-runtime-client-events.ts`): approvals, OAuth state, cursors, outboxes.

**Agent backends** (`packages/agent-backends`): adapters of external processes,
the environment of the Runtime. The remaining packages (HTTP routing, UI,
contracts, policies, bundles, memory, skills) keep little state of their own;
section 6 says why they are left out.

### How they interact

```
 HTTP handlers ──► PostgreSQL Runtime ──► agent backend (external process)
      │                  ▲   ▲
      │                  │   └── recovery worker ──► completion activities
      ▼                  │                              │
   Agent Host ── session run queue        review, evaluation, curator jobs
      ▲                                                 │
      │                                        learned resources: rows,
 Room work lanes ◄── works, replies, stops ◄── people   batches, files
                                                 │
                      interaction requests ◄─────┘ ──► generated surface, Run input
              (all lanes and maintenance ticks run under the supervisor)
```

Everything durable goes through PostgreSQL transactions; components do not call
each other inside a transaction. A handler that awaits lets every other handler,
and every other server process, run. That is why every module below takes one
transaction, one file-system step or one synchronous stretch of code as one action.

The modules meet in two places. `RunOutcome` is what the Runtime promises to those
who read a Run: `RuntimeRun` is checked and proved to implement it, and the Runs of
`RoomWork` move exactly as it allows. `InteractionRequests` takes the same view of a
Run that waits for input: its action is an external step that takes effect or not.

## 2. The modules

| module | models | state |
|---|---|---|
| `RuntimeRun` | Runtime handlers and the recovery lane | rows of a Run, reservations, the provider, the callers |
| `RunOutcome` | what the Runtime promises to readers of a Run | outcome and answer of each Run |
| `SessionRunQueue` | the queue and the turns and controls of `AgentHost` that use it | fields of the queue, turns, Runs, controls |
| `RoomWork` | one work: SQL functions, launch and stop lanes | work, assignments, reservations, controls, Runs, lanes |
| `InteractionRequests` | one request: calls, workflow, maintenance | record, spent operation ids, handlers, the action, events |
| `CompletionJobs` | jobs, attempts and the ticks that work on them | jobs, attempts, inputs, ticks |
| `WorkspaceFiles` | one path of a workspace's files | row, ledgers, disk, staging, calls |
| `CompletionFiles` | one learned resource, its versions and batches | rows, ledger, batches, staging, disk, actors |
| `MC…` | instances for TLC | |
| `…Proofs` | theorems about `RuntimeRun`, `SessionRunQueue`, `RoomWork`, `InteractionRequests`, `CompletionJobs`, `WorkspaceFiles`, `CompletionFiles` (`RoomWorkStopProofs` rests on `RoomWorkProofs`) | |

Every module abstracts data in the same way: texts, titles, payloads and hashes are
model values or members of a small set, and only the differences a property can see
are kept. Which lines each definition stands for is in `PROJECT.json`, "map".

### RuntimeRun

One database transaction is one action. What a handler keeps between two
transactions is the record `call[c]` of its caller: the operation, the Run, the
next point (`pc`), the terminal event it remembers, whether the provider was heard,
and the phase a cancel saw first. Handlers therefore interleave exactly at the
awaits of the code.

| action | code |
|---|---|
| `Admit`, `FailAdmission`, `Discard` | `admit`, `commitAdmissionFailure`, `discardUnstartedAdmission` |
| `StartRetry`, `Retry` | `retryBackendRun`: the read of the original, and a transaction later the admission of its retry |
| `Start`, `Launch` | `transitionToExternalRunning`, the call of `runTurn` or `resumeRun` |
| `StreamEvent`, `StreamTerminal`, `StreamLost`, `StreamEnd` | the loop of `executeBackendStream` and its `catch`; the fallback of a continuation in `runChatTurn` |
| `Commit`, `CommitDeclined` | `commitTerminal`, the only settlement of handlers |
| `StartCancel`, `CancelMark`, `CancelRequest`, `CancelVerify` | `cancelBackendRun`, `markCancelling` |
| `StartResume`, `PrepareResume` | `resumeBackendRun`, `prepareResumeRun` |
| `StartSync`, `SyncUnavailable`, `StartRecover` | `syncBackendRun`, `recoverBackendRun` |
| `WorkerRecover` | `runTick` of the recovery worker, for one row |
| `ProviderStep`, `Reports` | the backend (environment) |
| `Lose` | the process dies, or a statement outside the stream loop fails |

`FinalStatus`, `Accepts` and `Settlement` are the pure core of `commitTerminal`:
the ending that evidence means, whether the Run may still take it, and what the
derived rows become. `launches` and `provider` are the reality outside: a property
may compare what is recorded with what is true.

`StreamLost` is the exception a stream ends with, `StreamEnd` the end without one: a
continuation that throws before its first event is started over as a fresh turn, one
that ends without any is committed as failed.

Abstractions. Text, titles, attachments, policies and tool calls are left out;
a tool that fails shows as `StreamLost`. Two controls of one kind on one Run carry
different operation ids, so they share a `source_event_id` without sharing an id
(`SourceTaken`). Sessions hold no other state than their reservation. `discarded`
stands for the deleted row, so that a Run's identity is not used twice.

### RunOutcome

The promise to a reader: a Run is admitted, may pause and go on, and ends once;
only an unknown ending may still be resolved; an answer exists exactly for a
completed Run. `RuntimeRun` maps its status column and output to it
(`RefinesOutcome`).

### SessionRunQueue

JavaScript runs a callback to its end, so each synchronous stretch is one action.
`queue` holds the private fields. `Startable`, `Begin`, `Drain`, `DrainOthers`,
`FinishOf` and `Release` are the methods as functions from fields to fields, and
every action applies the whole method, drains included.

| action | code |
|---|---|
| `Enqueue`, `Abort`, `Close` | `enqueue`, its abort listener, `close` |
| `Admit` | `executeAdmitted` up to the stream: a Run of its own, the Run of another turn that is replayed (`serves`), or an exception |
| `Pause`, `MarkWaiting` | the Run waits in the store; the turn marks its session from the Run it holds in memory, live or suspended, whatever became of the Run since |
| `Finish` | the turn returns or throws: the Run may be settled by then, or left open by a guard or a settlement that threw |
| `StartControl`, `Acquire`, `Call`, `Stream`, `ReleaseSession`, `Restore` | `cancelRun`, `resumeRun`, `syncRun` at any moment and of any Run, settled ones included: the slot, the call, its stream (which may throw), the release or the return of the slot |

A task goes from `queued` over `running` (its stream is consumed), `paused` (its Run
waits) and `marked` to `parked` or `done`. Two history variables record what the
properties speak of: `early`, the sessions whose waiting entry a control moved while a
turn of it was still to return, and `stale`, the sessions that were marked last from a
Run which had ended before.

Which lane a drain visits first depends on the insertion order of a `Map`; the
model leaves it open. An abort takes the turn out of its lane as `lane.splice`
does; the branch of `drain` for a signal that is already aborted cannot be reached,
because the listener removes the turn in the same event, and is left out. The effect
of a control on the Run is what the queue can see of it (`Call`, `Stream`): settled,
resumed, unchanged, or an exception.

Nothing in the Host or the queue orders controls and turns, and the model does not
either: a control may come while its turn still executes. The queue is not exact then,
and the properties say how far: a lane is broken up and the counter is wrong only after
a control came early, and a lane outlives its Run only after such a control or a stale
mark. Section 5 has the traces.

### RoomWork

Every SQL function locks the row of the work before it does anything else, so one
call is one action; the lanes call several of them in a row and keep their own
record in between (`launch[w]`, `dispatch[w]`). A control is named by the generation
it starts. `Under[a]` is the scope of an assignment: those it continues.

| action | code |
|---|---|
| `StopRequest`, `StopConfirm`, `StopUnconfirmed`, `AssignmentStop`, `Reply` | the functions people call; `Issue`, `CancelBeforeRun`, `Regenerate` and the trigger that wakes a continuation (`Wake`) are part of them |
| `ClaimReservation` | the claim: takes an expired claim over (afresh, or its linked Run), abandons one that was overtaken, or claims the next reservation |
| `Admit`, `Start`, `Discard`, `Throw`, `Return`, `Recover`, `Settle` | the rest of the launch lane: admission with its generation and lease checks, the call of the Runtime, its answer, reconciliation of a Run taken over, settlement |
| `ClaimStop`, `CancelTarget`, `Reconcile` | the stop lane: one target after the other, then the evidence for the control |
| `RunStep` | the Run, as `RunOutcome` allows |
| `LaunchLeaseExpires`, `StopLeaseExpires`, `Crash` | time and the process |

### InteractionRequests

One request with every handler and tick that may hold it. `call[c]` is a handler
between two transactions: the version it read, the execution it holds, where it goes
next. `Put` is the write of the record store: it refuses when the version has moved
or the operation id is spent, and spends the id also when it refuses, which is what
makes a retry under a fixed id differ from a new attempt. `target` is the action
outside (started, took effect, its interaction record, by which execution).

| action | code |
|---|---|
| `Respond`, `Cancel` | the client's calls with their replay under the same operation id (`Replayed`, `AlreadyThere`, `AfterReplay`) |
| `PreAuthorize`, `ClaimExecution`, `AssertExecutionClaim`, `Reauthorize`, `ReleaseExecutionClaim` | the three permission checks around the claim, and giving the claim back |
| `Dispatch`, `RecordInteraction`, `SettleExecution` | the action, its record, the settlement |
| `ReauthorizeReplay`, `FindTargetResult`, `RecoverExecution`, `FailStaleExecution` | a claim whose handler is gone: look the result up, complete, fail or try again |
| `StartTick`, `Emit`, `MarkMaintenanceEventDelivered` | the maintenance worker and its events |
| `Die`, `TimeRunsOut`, `LeaseRunsOut` | a handler dies; `expires_at`; the age of a claim |

A commit whose answer is lost is the same as a handler that dies after its write,
and is not a separate fault.

### CompletionJobs

| action | code |
|---|---|
| `Enqueue`, `Change` | a job is asked for (again); what it reads is edited |
| `Recover`, `BlockQueuedReviews` | the start of a tick |
| `Look`, `Read`, `BlockSnapshot`, `Claim`, `ClaimCurator` | the job is chosen, its inputs are read (or found unfit), the claim looks again whether it is still queued (`Take`) |
| `Answer`, `Apply`, `Compare`, `Curate` | the work outside, and its result with the checks that it is still due |
| `CloseCompleted`, `Close`, `Expire`, `Die` | the end of the attempt; the lease and the tick |

### WorkspaceFiles

`file`, `log` and `applied` are rows and change in one transaction; `disk` and
`staged` are files and change one at a time; `lock` is the lock of the path.

| action | code |
|---|---|
| `Begin`, `Commit`, `Refuse` | `write` and `remove` up to the commit; a repeated operation answers from the ledger and finalizes what the first call left |
| `CallMoves`, `CallMarks`, `Cleanup` | `finalize` under the lock, and the removal of the staging file that a retry did not need |
| `Recover`, `RecoverMoves`, `RecoverMarks` | `recover`, at boot or from the command line, oldest transaction first |
| `Stop`, `CommitUnheard` | a call or the recovery dies; the answer of a COMMIT is lost |

### CompletionFiles

A learned resource keeps a current version at the target path, older ones in a
history and candidates beside it. `Entries` is what a batch writes where; a batch is
staged as a directory. An update that is repeated while the version it wrote is the
current one is answered 422 (`workspace_completion_file_batch_duplicate_path`): that
version's place in the history would be written twice, and `Preparable` refuses it. The
status that `finalizeBatch` acts on is read a moment before it locks the row; the model
reads both at once, because a call that acts on an older status only goes through files
that are in place.

| action | code |
|---|---|
| `Ask`, `Stage`, `Commit`, `Replay` | write, candidate, promotion and redaction up to the commit of rows and batch; a repeated operation |
| `FinalizeBegin`, `Move`, `Mark` | the second transaction: the conflict check (`Conflict`), one rename after the other, the mark |
| `Recover` | maintenance and boot, for one batch |
| `Die`, `Error` | an actor dies anywhere; an error after the commit, which drops the staging directory (`GiveUp`) |

## 3. What TLC checks

| run | instance | shows |
|---|---|---|
| `runtime_sessions` | 2 Runs of 1 session with keys of their own, 2 callers; retry, cancel, resume, continuations that start over; 1.5 million states | a held reservation names an active Run of its session; until a Run of it is resumed, a session has one Run under way; a retried Run is settled for good |
| `runtime_requests` | 2 admissions of 1 request, 2 callers; cancel, resume, sync, operator recovery; fair worker | at most one execution is launched, derived rows agree, completion is only recorded if the backend completed, every step is one of `RunOutcome`, a Run that never reaches its backend does not reserve its session for ever |
| `queue_controls` | 3 turns, 2 sessions, 1 slot, 1 control after the other at any time; turns end; 0.7 million states | the counter stays at or above zero and is exact, lanes are serial and a marked session has a Run, all unless a control came early (or the mark was stale); no wake-up is lost, a queued turn waits for ever only for Runs that wait for input or a slot lost to such a control |
| `room_claims` | an assignment and a continuation, 2 launch lanes, 1 stop lane, 1 stop, 1 crash, leases that expire at any moment | one Run per assignment, rows agree, completions are real, no continuation is left asleep |
| `room_stops` | 1 assignment, 1 lane of each kind, 2 controls, 1 crash; fair lanes | a confirmed stop is quiet, a requested stop is answered, the claim of a dead worker is recovered |
| `requests_faults` | an approval or a Run input; 1 client with 2 calls, 1 tick, 1 fault (death, refused write or unanswered check); fair handlers | started at most once and only when approved, completed means done, what is announced is true, one outage of a check is retried, the outcome stands, the request settles |
| `completion_jobs` | a review, an evaluation and a curator job, 2 ticks, 2 worker ids; one edit per kind, one slow and one dead tick; fair ticks | completed by one attempt, while its lease lasts a job is stopped only under its holder's worker id, results are applied to unchanged input only, every job settles |
| `files_faults` | 2 operations in 3 calls on one path, 2 contents, 2 faults; fair calls and recovery | acknowledged content is not lost, marked is readable, applied once, what is interrupted is finished |
| `completion_batches` | 3 operations in 3 calls by 2 actors, 1 fault; fair maintenance | what is pointed to and marked is readable, quiet means readable, acknowledged is kept, an interrupted batch is finished |
| `completion_redaction`, `requests_expiry`, `queue_serial` | one property each, no fault at all | section 5 |

Bounds. Every run is exhaustive within its constants. The races of `RuntimeRun` are
between callers of one Run or between two Runs of one session: a third Run adds no
new pair, and Runs of different sessions share no row; two callers suffice because a
caller that returns may serve again. The queue needs two turns of one session
(order), a turn of another (wake-ups across lanes) and one slot (contention).
`runtime_sessions` leaves out of what makes two states different (`SessionView`) what
neither its properties nor a later guard reads: the derived rows, the number of
launches, the provider of a Run whose outcome is final and how far a call that can only
return has come.
`RoomWork` needs a second assignment for continuations and a second launch lane for
claims that are taken over from a live worker; a second control for controls that
outdate each other, where one assignment suffices. `InteractionRequests` needs the
second call for a retry; `CompletionJobs` one job at a time, of any kind
(`MaxEnqueued` is 1: its jobs share nothing but the ticks), and two ticks;
`WorkspaceFiles` three calls for a retry with another operation in between, and two
faults for a recovery that dies too; `CompletionFiles` three operations for a
history. Faults are bounded by `MaxFaults`, `MaxCrashes`, `MaxSlow` and `MaxDeaths`,
calls by `MaxCalls` and `MaxRequests`, edits by `MaxChanges`, stops by
`MaxGeneration`; leases expire at any moment and any number of times.

Larger instances were checked once beside these runs, without a violation:
`InteractionRequests` with 2 faults (2.7 million states, every property), with 2 ticks
and with 2 clients (safety, without faults); `RoomWork` with 2 launch lanes, 2
generations and 2 crashes on one assignment (`ConfirmedIsQuiet`,
`ContinuationWakes`), and part of the state space with 3 assignments; `SessionRunQueue`
with 2 slots (968 thousand states) and with 2 controls (up to 909 thousand, the safety
properties); `CompletionJobs` with two jobs that compete for the ticks, a review and a
curator job under one worker id without edits (77 thousand states, every property).
`queue_controls` lists `TypeOK` for the bound of the counter; no other run lists a type
invariant: they are proved.

Deadlock is not checked: a Run, request, job or file that is settled and has no calls
left is a legal end of each of these models.

Fairness.

* `RuntimeRun`: weak fairness of `WorkerRecover` alone. The supervisor schedules the
  lane again after every tick, whether it succeeded or failed. Handlers, providers
  and clients get none; a caller may die at any point. The age of sixty seconds that
  an operator recovery asks for, and the worker's age check, are abstracted to *any
  time*, because a backend may take that long for every step.
* `SessionRunQueue`: a turn that was started returns in the end; the queue has no
  timeout, so without an end of the backend's stream nothing follows. Controls get no
  fairness.
* `RoomWork`: the lanes' own steps (weak), since both run on timers of the supervisor;
  the claim of each control (strong), because the stop lane takes the control touched
  longest ago; a dispatch that is, some time, faster than its lease (strong, while
  it holds it); leases run out. Runs and people get none.
* `InteractionRequests`: handlers go on unless they die, ticks are started again, time
  passes. Clients get none.
* `CompletionJobs`: ticks go on, leases of dead ticks run out, and each job is looked
  at again and again (strong: a tick takes the job that has waited longest).
* `WorkspaceFiles`, `CompletionFiles`: handlers go on and PostgreSQL queues those that
  wait for a row (strong, as others may hold it); recovery is run again, at the next
  boot, by hand or by the maintenance tick.

What all of this assumes of the supervisor is that the lane runs at all. A lane that
throws ends the tick of every lane after it
(`apps/server/src/workers/workspace-worker-supervisor.ts:443`): the lanes that
section 5 shows to throw for ever therefore starve those behind them, and none of the
liveness above holds then.

Each property of a passing run has a mutant in the module, marked *Mutant*
(`ReleaseNothing`, `WakeNobody`, `ConflictOnId`, `ClaimAnyway`, `WriteMovesLate` and
so on): a plausible bug in the definition named beside it, with which TLC finds the
property violated.

## 4. What is proved

For any values of the constants, from the assumptions each module names on them and
nothing else:

| module | theorem | statement |
|---|---|---|
| `RuntimeRunProofs` | `TypeCorrect` | `Spec => []TypeOK` |
| | `HolderCorrect` | `Spec => []HolderIsActive` |
| | `SessionsExclusive` | `~Continues /\ Spec => []SessionExclusive` |
| | `SettledStays` | `Spec => SettledIsStable` |
| | `RetriedRunsSettled` | `Spec => []RetriedRunIsSettled` |
| | `RecordsCorrect` | `Spec => []RecordsAgree` |
| | `LaunchesOnce` | `~Continues /\ Spec => []OneLaunchPerKey` |
| | `CompletionsReal` | `~Continues /\ Spec => []CompletionIsReal` |
| | `OutcomeRefined` | `Spec => RefinesOutcome` |
| `SessionRunQueueProofs` | `TypeCorrect`, `WorkConserved` | `Spec => []TypeOK`, `Spec => []WorkConserving` |
| | `TurnsSerial`, `SlotsCounted`, `LanesFreed` | `Spec => []` of `OverlapsAreEarly`, `SlotsExact`, `LaneKeptForRun` |
| `RoomWorkProofs` | `TypeCorrect`, `OneRun`, `RowsAgree`, `CompletionReal` | `Spec => []` of `TypeOK`, `OneRunPerAssignment`, `ClaimedIsRunning`, `CompletedIsReal` |
| | `EndsOnEvidence`, `RunsRefined` | `Spec => EndedByEvidence`, `Spec => Run!Spec` |
| `RoomWorkStopProofs` | `StopQuiet`, `NoneLeftAsleep` | `Spec => []` of `ConfirmedIsQuiet`, `ContinuationWakes` |
| `InteractionRequestsProofs` | `TypeCorrect`, `StartsOnce`, `OpenIsUntouched`, `CompletionsAreReal`, `EventsAreTrue`, `OutageRetried`, `OutcomesStand` | `Spec => []` of `TypeOK`, `StartedOnce`, `UnapprovedIsUntouched`, `CompletedTookEffect`, `ToldIsTrue`, `OneOutageIsRetried`; `Spec => OutcomeStands` |
| `CompletionJobsProofs` | `TypeCorrect`, `OneCompletes`, `AppliesFresh`, `HolderStops` | `Spec => []` of `TypeOK`, `CompletedByOne`; `Spec => AppliedIsFresh`, `Spec => StoppedByItsHolder` |
| `WorkspaceFilesProofs` | `TypeCorrect`, `AppliesOnce`, `MarkedReadable`, `LatestStays` | `Spec => []` of `TypeOK`, `AppliedOnce`, `MarkedIsReadable`, `LatestKept` |
| `CompletionFilesProofs` | `FilesTypeCorrect`, `PointedReadable`, `QuietReadable`, `AcknowledgedKept` | `Spec => []` of `TypeOK`, `PointedIsReadable`, `QuietIsReadable`, `AcknowledgedIsKept` |
| | `HistoryStays`, `RedactionsStick` | `Spec => HistoryKept`, `Spec => []RedactionStuck` |

The premise `~Continues`, no turn continues an external conversation, is real: a
continuation that was not heard may be launched twice, and when a synchronisation has
recorded the Run as waiting meanwhile (which frees the session) the second launch
executes beside the next Run (section 5). TLC meets neither `StartSync` nor that trace
in `runtime_sessions`, whose controls are retry, cancel and resume. The assumptions on the constants say
what they are: names that are not the placeholder, bounds that are numbers, endings and
kinds among those of the code. `CompletionFiles` also assumes that its operations are
finitely many, because a version number is bounded by their count.

### RuntimeRun

`EndsFrom` and `StepKinds` reduce a step of the thirty-odd disjuncts of `Next` to a
few kinds as seen from one Run: untouched, admitted, withdrawn, started, marked as
cancelling, resumed, or settled from an accepting state. The rest argues about kinds.

* `HolderIsActive` is inductive together with `TypeOK`: what takes a Run out of
  queued or running releases its reservation in the same transaction.
* `SessionExclusive` counts a Run as under way when it is queued or running, or not
  settled while its provider executes. It is not inductive. Its strengthening is
  `Reserved`, every queued or running Run holds the reservation of its session, and
  `Waited`, a Run that waits has a provider that does not go on, both as long as no Run
  of the session was resumed (`Resumed`, which stays: `ResumedStays`). What it leaves
  out is what the code leaves open: a session once resumed, and a Run settled as
  cancelled or unknown whose provider still executes (section 5).
* `RetriedRunIsSettled` needs `PhaseSettled`, status and phase are settled together, so
  that a settled original cannot become active again, and `RetriesSettled`: what a
  caller read as settled before its admission still is.
* `RecordsAgree` is inductive with `TypeOK`; `SettlementAgrees` proves it of the
  pure function `Settlement`, once for every ending.
* `OneLaunchPerKey` and `CompletionIsReal` need what every caller knows of its Run at
  each of its points (`Knows`): before its launch a turn is the only one of its Run,
  the Run is there and was not launched; evidence of a completion is true. With it
  each Run is launched at most once, not while it is missing, and one Run of a key
  is present (`Launched`).
* `OutcomeRefined` maps each kind to a step of `RunOutcome` or a stutter
  (`OutcomeStep`, `RefinementStep`), from the invariants above.

### SessionRunQueue

`Sane` (fields, the counter within the limit, what waits is active) and `Served` (a
lane with turns is occupied or all slots are taken) are kept by every drain:
`BeginDrains`, `DrainServes`, `OthersServed` and `BothServed` say what draining does
for any queue, so each action only has to say what it did before it drained. With
`Placed` and `Known` (types of turns, Runs and controls) they are the invariant of
`TypeOK` and `WorkConserving`.

`Exact` is what is true until a control comes early. `Alone`: in a session not in
`early` an executing turn is the only one and has its lane occupied. `Slots`: with
`early` empty the counter is the number of sessions that hold a slot (`Holding`: an
executing turn, or waiting live). `Lined`: each lane holds queued turns of its session,
each once, so that every lane a drain opens really begins a turn. Turns that execute and
the sessions they belong to are then in bijection, which turns `Slots` into
`SlotsExact`. `LaneKeptForRun` also needs `Followed`: whose Run a replayed turn answers
with, and that a control speaks of a Run which exists.

### RoomWork

`Paired` ties an assignment's row, its reservation, the generation and the number of
Runs it was given: an open reservation that was linked stays linked, so that nothing
can be admitted under it again. It is proved by one lemma per kind of change
(`EndedPairs`, `WokenPairs`, `CancelledPairs`, `RegeneratedPairs`, `TakenRow`,
`OwnedRow`, `RaisedPair`) and each SQL function is a composition of these. Completions
need what a lane is about to write to be true of its Run (`LanesOf`), and what is
linked later not to have been started (`Unstarted`).

`RunsRefined` composes the two models of a Run: the Runs that the lanes admit, withdraw
and cancel move only as `RunOutcome` promises (each is admitted once, because what is
not linked was given none), and `OutcomeRefined` shows that the Runtime keeps that
promise. `EndedByEvidence` is the strongest that holds of an assignment which ended: it
is not final, since `samurai_reconcile_human_work_stop_dispatch` does not look at the
status of its target. A stop lane that had taken it for a target before it ended writes
over it, but only what its own Run ended as, or unknown. It needs `Named`: an ending
that a lane is about to write is that of a Run it named when it claimed the stop.

### RoomWork: stops and continuations

`SInv` is kept beside the invariant above. `Seen`: an open Run is linked, and its
assignment runs, is unknown or was settled as waiting. `LanesSeen`: a stop of the work
outdates every launch lane, whose generation is then older than the work's; what a stop
lane targets while it holds its lease is in its scope and was not settled as waiting.
`Asked`: a control that stops the work has changed its `stop_state`. A stop that counts
nothing active and nothing unknown therefore finds no open Run but those settled as
waiting (`CountedIsQuiet`), and afterwards no lane can admit or reopen one.

`ContinuationWakes` and the scope of a stop follow chains of replies of any length.
`Family` says that an assignment continues an earlier one that exists. The recursive
function `Under` is shown to satisfy its own equation without induction over data: a
number for which no partial function exists would have a least one (`WFMin` on the
natural numbers), and its predecessor's function extends to it (`ChainExists`); two
such functions agree (`ChainAgree`). From that, the rows that exist keep what they are
under (`UnderKeeps`), and the scope of a stop does not lose its members.

### InteractionRequests

`Guards` says that a handler whose write will succeed, because version and operation
id are still those it read, still sees the status on which it decided. `Attempts`:
at most one handler is between its claim and its settlement with the action not yet
started. `Effects`: what is recorded of the action happened. `Events`: what was told
is the status. Every step is one of six kinds (quiet, a commit, the action, its
record, an event, waiting), and the invariant is proved by kind.

`OneOutageIsRetried` needs `Lonely`, what is true while nothing but the one outage has
gone wrong: nobody but the first execution has claimed the request, its handler is
still there, the record of the action is empty, and the operation id of the release has
not been spent, so that the release cannot be refused.

### CompletionJobs

`Sound` relates a job's row to its attempts: a running job is in its last attempt,
which is open and of its owner's worker id; a job is completed exactly when one of its
attempts is, and then only one. Earlier attempts may be open as well, and the last one
stays open when its lease is lost or when an earlier one of the same worker id closes
the job. `TicksPlaced` says which attempt a tick works on. `AppliedIsFresh` follows from
what `Applicable` compares (`WhoCompletes`), `StoppedByItsHolder` from what every close
asks of attempt and job (`WhoStops`).

### WorkspaceFiles

`Ledger`: row, transactions and applied operations tell one story, one transaction
for each operation and for each call. `Fits`: what a call, its staging file and its
transaction have to do with each other. `Locked`: who has moved holds the lock until
the mark, and the disk is that transaction's content. The heart is `MovesRow`: a move
only ever puts the content of the row in place, because of what it compares before it
renames; and a staging file named by the latest transaction is only removed by its
move. The ledger always has room for another transaction because calls are counted
(an injection of transactions into calls).

### CompletionFiles

A batch may be finished by anyone, late, twice or in part, and its moves interleave with
those of every other batch. The invariant makes that harmless for all paths but one.
`RowsSeen`: the confirmed version and no other has the target path; every other version
is at a place of its own, in the history or among the candidates. `EntriesSeen`: for
such a place, every batch that was ever committed has the content of the row
(`Sound`), unless the version was redacted, so it does not matter whose rename comes
last. Only the target is contended: `MovesSeen` says that whoever moves it holds the
row's lock and moves the confirmed version's file. `RequestsSeen` (`Prepared`) says that
what a request read before its commit is still right if the version it expects is
the current one, which is the race of `writeResource` with a promotion; `Counted` gives
room for the next number; `Placed` says that a version is where its row says as soon as
the batch is marked that put it there, the one that wrote it or the one that moved it
to the history. The three invariants of the run follow from
`Placed` and `Sound`.

`HistoryKept` says which columns a later call may change. `RedactionStuck` generalises
the counterexample of `completion_redaction`: a redaction never writes a version
(`Unwritten`), so the target's version always belongs to another batch, so the conflict
check refuses the redaction's batch whenever it contains the target, for ever.

TLC checked the inductive invariant first, on 3 operations and 2 actors, on 4
operations, and with 3 actors and 2 faults (up to 2 million states).

### Only model-checked

Every invariant and every action property of a passing run has its theorem. What is
left to TLC is the liveness under fairness: `UnstartedRunFreesSession`,
`QueuedTurnLeaves`, `StopSettles`, `OrphanRecovered`, `InterruptedIsFinished` of both
file modules, `JobSettles`, `RequestSettles`. The prover has no `ENABLED`, which a
fairness condition is made of. Induction over data is out of its reach too; the one
recursive definition that a theorem needs (`Under`) is treated as described above.

## 5. Where code and documents disagree

Three disagreements are runs that end in a counterexample; `PROJECT.json` quotes the
sentences.

* `completion_redaction`: redacting a resource that has a current version cannot be
  finished. The redaction may not change which batch wrote a version
  (`schema.ts:5277`), its finalization takes the resource's own version for one of
  another batch, and the staged tombstones are deleted: the rows say redacted, the
  file keeps its content, and the batch stays unfinished
  (`workspace-completion-service.ts:3361`, against its comment at 3211). The run shows
  one such redaction; `RedactionsStick` proves it of all of them.
* `requests_expiry`: an answer saved between a tick's read of an expired request and
  the tick's write makes that write fail, and the failed write has spent the
  operation id that every later tick will use: the expiry is never persisted
  (`workspace-interaction-request-service.ts:725`, against 694-696).

* `queue_serial`: a control that comes before the turn has returned gives slot and
  lane back twice. A cancel settles and releases the Run of a turn that has marked its
  session but is still in the clean-up of `executeAdmitted`
  (`agent-host.ts:447`, 597-640); the next turn of the session
  starts, the first returns and frees that turn's lane, and a third starts beside the
  second (against `session-run-queue.test.ts:5`). `OverlapsAreEarly` and `SlotsExact`
  show that nothing else does this.

The others were met while modelling and are not asserted by a run.

**Runtime** (`postgres-runtime-chat.ts`, against `docs/designs/agent-backends.md`).
That one association never runs two turns at once (agent-backends.md:61) holds for what
the reservation guards only: resuming a Run that waits takes the reservation from whichever Run of the session holds
it by then (1294), and a Run settled as cancelled or unknown frees its session while its
provider may go on. A cancel decides *not started* from a Run read
as queued; the turn may start the backend before the settlement commits (862, against
121). A first turn whose stream breaks is `failed` for good while the provider may go
on, whereas resumed and synchronised streams end as `outcome_unknown` (2372, against
143). `recoverBackendRun` picks its evidence from a Run read before (996). A resumed
Run keeps the phase `backend_starting`, which the recovery lane takes for a start that
never happened (1288, against the worker's comment at 47). A continuation that fails
before its first event is repeated as a fresh turn (1739, against 50), which is why
three theorems assume that turns do not continue. A cancel that dies after its mark
leaves the phase `cancelling`, which the recovery lane does not take up:
`UnstartedRunFreesSession` exempts it.

**Session queue.** A cancel that settles a Run before its turn calls `markWaiting`
releases nothing, and the turn then marks the session waiting for good
(`agent-host.ts:597`; `stale` in the model). A control of a suspended Run that leaves it
waiting returns without `restoreSuspended` and keeps a slot (489); a resume that takes
the slot between the suspended mark and the return of the turn loses it for good. A
cancel, sync or resume of a Run that has long been settled releases the lane of the
session's next Run that waits (445). A turn that marks its session live after `close`
leaves the counter above zero, on which `drainAll` waits (712).

**Room work** (`schema.ts`). A stopped assignment's row is overwritten as unknown by
a late reconciliation (15446) while its reply is already claimed; the stop of a
sibling then regenerates that claim, and the trigger (16139) makes the reply wait
again while its reservation stays claimed under the old generation, which no claim
takes unless another stop finds it ready (20697, 20724): "cancelling a sibling here would make an unrelated individual
stop destructive" is the comment on that guard. Found on an instance with three
assignments and by the attempt to prove the stronger invariant; `ClaimedIsRunning` is
therefore stated for the current generation. A stop of a continuation outdates the
generation of its running parent: once the parent's lease has expired, recovery skips
it for ever (21135), though `workspace-server-store.ts:3081` leaves it "for the
dedicated stop dispatcher", and there is none for it. A stop can be confirmed while a
Run settled as waiting is open. `stop_unconfirmed` gives the control's lease up, so
evidence that comes later is never consumed; a first target with an unknown outcome
puts the control back to unconfirmed, and the dispatch of its other targets meets a
lease conflict; an assignment stop after a stop request outdates the request, which
is never answered; a reply during a requested stop keeps it from being confirmed. The
comment that a settlement cannot wake a child is contradicted by the trigger at 16160.

**Interaction requests.** Release and claim carry deterministic operation ids: a
client's retry with the same response after a release is always refused (against
`interaction-request-workflow.ts:852`, "so the same operation can be retried"), and a
second release is refused and swallowed, after which the request fails as interrupted
without its action having been touched (against 856, "never mark it failed based only
on an ambiguous authorization error"). An outage of the third check, inside the target
adapter (`postgres-generated-surface.ts:492`), is settled as a failure. A late executor
may start its action after recovery has settled the request as failed. A refusal seen
by a replayed claim fails a live execution while its action runs. A moment in which
the database only reads spends the ids of expiry, interruption, stale failure and
delivery for good.

**Files.** A COMMIT whose answer is lost removes the staging file of a committed write
(`workspace-files.ts:143`, against the comment at 132). Two overlapping writes that
both stay unfinished leave a path that can never be finalized, and recovery at boot
throws `workspace_recovery_required`. Versions restart at 1 after a removal; a removal
that was interrupted and followed by a new file of other content is never recovered.
`InterruptedIsFinished` excludes transactions that are overlapped for this reason.

**Completion files.** Any error of the finalization after the commit, or a lost answer
of the COMMIT, drops the staging directory of a committed batch (against
`workspace-completion-files.ts:64`): the resource can be neither read nor written from
then on, and every maintenance tick and boot fails on it. When part of the batch had
moved, the copy of the replaced version can go with it: `AcknowledgedIsKept` and
`InterruptedIsFinished` exempt such a batch (`Dropped`), the latter also one whose path
another batch has written (`Conflict`). Repeating an acknowledged
operation after a later write is answered 503. A redaction prepared before a
candidate is promoted misses the new version, and its finalization locks no row.

**Completion jobs.** No tick sends a heartbeat, so a slow review is claimed again and
attempts may exceed their maximum; the effects of a curator are not fenced by its
lease; a curator job completed as not idle or not due is never queued again for the
same state, and its input hash is not refreshed when it is retried; a tick of the
command line, which has no review port, blocks queued reviews for good; a policy that
denies in a claim ends the tick while its job stays first in order. Closing an attempt
looks at the worker id only, and ticks may share one: the late close of a lost attempt
then requeues the job under a later attempt, which stays open and can no longer be
applied. `StoppedByItsHolder` is what remains true: another id never does this.

**Gateway** (`postgres-gateway.ts`). The insert of a concurrency lock omits columns that
may not be null, and the claim of a delivery has no caller: there is no running
protocol to model.

## 6. What is not modelled

The models stand for the control of about two thousand lines out of a repository of a
quarter of a million, most of which is user interface, parsing, validation of records,
schemas and wiring with little state of their own.

In the modelled components:

* Runtime: tool execution and its activity rows (`settleToolExecution` rewrites a
  record it read without a lock, 2734), session titles, listings, search,
  attachments; the completion projection lane of the worker.
* Queue: `releaseAllWaiting` apart from `close`, `drainAll` and `drainPending`.
* Room work: delegation to a second agent, reassignment, dependencies other than
  continuation, resume, the human-facing projections.
* Interaction requests: creation (the initial state) and listing, account mismatches,
  the `expire` route (it has no caller), notifications.
* Completion jobs: learning cycles (`workspace-learning.ts`), policies, the priority
  order of claims, raw outputs and their retention.
* Files: workspace documents, physical import and `finalizeExclusive`, the clean-up
  queue, support files of skills.

Whole components: the completion projection compares payloads of whole records (a Run
projected while its outcome was unknown and reconciled later replays under the same
activity with another payload, `workspace-completion-service.ts:3522`); the Agent Host
beyond its queue; the domain operation ledger (an operation still executing may be
recovered as unknown by its age, `postgres-domain-operation-ledger.ts:111`); share and
import (a crash between the rename and the ledger entry that says so,
`workspace-share-service.ts:1217`); the supervisor, which is the fairness assumed
above; external integration, notifications, client events.

Left out for good: bundle formats and migration, localization, UI, contracts and build
scripts (data and rendering); argument lists and event decoders of the agent backends
(parsing); routing and authentication (the handlers are modelled, not the way to them);
permissions, policies, knowledge, skills and memory (pure functions over records).

## 7. Plan

Done: `RuntimeRun` with `RunOutcome`, `SessionRunQueue`, `RoomWork` over `RunOutcome`,
`InteractionRequests`, `CompletionJobs`, `WorkspaceFiles`, `CompletionFiles`, and the
theorems of section 4. Next, in this order:

1. `CompletionProjection`: settled Runs become activities, with the supervisor's tick
   and its back-off around it; every settled Run is projected and no lane is starved.
2. `AgentHost`: lifecycle, control, recovery and shutdown over the store, composed with
   `SessionRunQueue`; it should implement `RunOutcome` as `RuntimeRun` does.
3. `OperationLedger` and `ShareImport`: idempotency and leases around a rename.
4. `RoomWork`: delegation, reassignment and resume.
5. Theorems: for the Agent Host, that it implements `RunOutcome`; for the projection,
   that an activity is written once for each settled Run.

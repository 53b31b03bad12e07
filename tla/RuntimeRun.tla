------------------------------ MODULE RuntimeRun ------------------------------
(***************************************************************************)
(* The durable life of a backend Run in PostgreSQL: the handlers of        *)
(* PostgresRuntimeChat (apps/server/src/adapters/runtime/                  *)
(* postgres-runtime-chat.ts) that admit, start, stream, cancel, resume,    *)
(* synchronise, recover and retry a Run, and the recovery lane of          *)
(* PostgresRuntimeExecutionWorker, which shares the same rows.             *)
(*                                                                         *)
(* One database transaction is one action.  Everything a handler keeps     *)
(* between two transactions (the Run it read, the terminal event it will   *)
(* commit) lives in call, so handlers interleave exactly where the code    *)
(* awaits.                                                                 *)
(***************************************************************************)
EXTENDS Naturals, FiniteSets

CONSTANTS
    Runs,       \* row identities of workspace_runtime_runs
    Sessions,   \* chat sessions
    Keys,       \* request idempotency keys
    SessionOf,  \* the session each Run is admitted in
    KeyOf,      \* the idempotency key each Run is admitted with
    Callers,    \* concurrently served requests
    Controls,   \* the control requests clients make besides chat turns
    NoRun,      \* no Run: a released reservation, a caller that serves none
    CanResume,  \* the backend implements resumeRun
    CanStream,  \* the backend implements streamEvents
    Continues   \* turns continue an external conversation for a delegated Agent

ASSUME RunAssumption == NoRun \notin Runs
ASSUME SessionAssumption == SessionOf \in [Runs -> Sessions]
ASSUME KeyAssumption == KeyOf \in [Runs -> Keys]
ASSUME ControlAssumption ==
    Controls \subseteq {"retry", "cancel", "resume", "sync", "recover"}
ASSUME BackendAssumption == {CanResume, CanStream, Continues} \subseteq BOOLEAN

VARIABLES
    status,    \* status column of each Run, "absent" before and "discarded" after
    phase,     \* phase column
    native,    \* the provider's own session id is bound to the Run
    log,       \* which control requests have written an event of the Run
    books,     \* the rows derived from the Run: operation, activity, audits, output
    retryOf,   \* metadata.retry_of_run_id
    holder,    \* the Run of a session's held reservation
    provider,  \* what the external backend is really doing for the Run
    launches,  \* how many provider executions were started for the Run
    call       \* what each caller is in the middle of

rows == <<status, phase, native, log, books, retryOf>>
outside == <<provider, launches>>
vars == <<rows, holder, outside, call>>

-----------------------------------------------------------------------------
Active == {"queued", "running", "waiting_for_backend_input"}
Stable == {"completed", "failed", "cancelled"}
Settled == Stable \cup {"outcome_unknown"}
Missing == {"absent", "discarded"}
Statuses == Active \cup Settled \cup Missing

Phases == {"none", "admitted", "backend_starting", "external_running",
           "waiting", "cancelling", "settled"}

Evidence == {"completed", "failed", "cancelled", "not_started", "indeterminate"}
Terminals == Evidence \cup {"waiting"}
NoTerminal == "none"

Finished == {"completed", "failed", "cancelled"}
ProviderStates == Finished \cup {"none", "live", "waiting"}

Ops == {"turn", "continue", "retry", "resume", "refuse", "sync", "cancel", "recover"}
Points == {"retry", "admitted", "prepare", "launch", "streaming", "mark", "request",
           "verify", "commit"}
Sources == Ops \cup {"resume-input"}

NoBooks == [operation |-> "absent", activity |-> "absent", audits |-> {},
            output |-> FALSE]
Books == [operation : {"absent", "created", "deferred", "completed", "failed"},
          activity : {"absent", "recording"} \cup Settled,
          audits : SUBSET {"completed", "failed"},
          output : BOOLEAN]

Idle == [op |-> "none", run |-> NoRun, pc |-> "idle", terminal |-> NoTerminal,
         heard |-> FALSE, pre |-> FALSE]
Calls == [op : Ops, run : Runs, pc : Points, terminal : Terminals \cup {NoTerminal},
          heard : BOOLEAN, pre : BOOLEAN]

TypeOK ==
    /\ status \in [Runs -> Statuses]
    /\ phase \in [Runs -> Phases]
    /\ native \in [Runs -> BOOLEAN]
    /\ log \in [Runs -> SUBSET Sources]
    /\ books \in [Runs -> Books]
    /\ retryOf \in [Runs -> Runs \cup {NoRun}]
    /\ holder \in [Sessions -> Runs \cup {NoRun}]
    /\ provider \in [Runs -> ProviderStates]
    /\ launches \in [Runs -> Nat]
    /\ call \in [Callers -> Calls \cup {Idle}]

Init ==
    /\ status = [r \in Runs |-> "absent"]
    /\ phase = [r \in Runs |-> "none"]
    /\ native = [r \in Runs |-> FALSE]
    /\ log = [r \in Runs |-> {}]
    /\ books = [r \in Runs |-> NoBooks]
    /\ retryOf = [r \in Runs |-> NoRun]
    /\ holder = [s \in Sessions |-> NoRun]
    /\ provider = [r \in Runs |-> "none"]
    /\ launches = [r \in Runs |-> 0]
    /\ call = [c \in Callers |-> Idle]

-----------------------------------------------------------------------------
\* The caller's side of a step.

At(c, pc) == call[c].pc = pc

Serve(c, op, r, pc, terminal, pre) ==
    call' = [call EXCEPT ![c] =
               [Idle EXCEPT !.op = op, !.run = r, !.pc = pc,
                            !.terminal = terminal, !.pre = pre]]

Goto(c, pc) == call' = [call EXCEPT ![c].pc = pc]

Decide(c, pc, terminal) ==
    call' = [call EXCEPT ![c].pc = pc, ![c].terminal = terminal]

Return(c) == call' = [call EXCEPT ![c] = Idle]

\* Mutant: the reservation is kept.
ReleaseNothing(r) == r \in Runs /\ UNCHANGED holder

\* The reservation rows of a Run are released wherever the Run holds one.
Release(r) ==
    holder' = [s \in Sessions |-> IF holder[s] = r THEN NoRun ELSE holder[s]]

IsSettled(r) == phase[r] = "settled" \/ status[r] \in Settled

IsPreExternal(r) == phase[r] \in {"admitted", "backend_starting"}

Append(r, source) == log' = [log EXCEPT ![r] = @ \cup {source}]

-----------------------------------------------------------------------------
\* Admission.

\* Mutant: a settled Run no longer blocks its key.
KeyNotActive(r) ==
    \A q \in Runs : KeyOf[q] = KeyOf[r] /\ SessionOf[q] = SessionOf[r]
                      => status[q] \notin Active

KeyFree(r) ==
    \A q \in Runs : KeyOf[q] = KeyOf[r] /\ SessionOf[q] = SessionOf[r]
                      => status[q] \in Missing

\* Mutant: a Run that is being cancelled no longer keeps its session.
ReservableStopping(r) ==
    \A q \in Runs : holder[SessionOf[r]] = q => phase[q] = "cancelling"

Reservable(r) == holder[SessionOf[r]] = NoRun

\* A new request: no Run of its key exists and its session is not reserved.
\* A replayed key answers from the existing row and changes nothing.
AdmitAs(c, r, original) ==
    /\ status[r] = "absent"
    /\ KeyFree(r)
    /\ Reservable(r)
    /\ Serve(c, IF Continues THEN "continue" ELSE "turn", r, "admitted", NoTerminal, FALSE)
    /\ status' = [status EXCEPT ![r] = "queued"]
    /\ phase' = [phase EXCEPT ![r] = "admitted"]
    /\ books' = [books EXCEPT ![r] = [NoBooks EXCEPT !.operation = "created",
                                                     !.activity = "recording"]]
    /\ retryOf' = [retryOf EXCEPT ![r] = original]
    /\ holder' = [holder EXCEPT ![SessionOf[r]] = r]
    /\ UNCHANGED <<native, log, outside>>

Admit(c, r) == At(c, "idle") /\ AdmitAs(c, r, NoRun)

\* Mutant: a Run that is being cancelled may be retried as well.
RetryableOrStopping(r) ==
    status[r] \in {"failed", "outcome_unknown"} \/ phase[r] = "cancelling"

Retryable(r) == status[r] \in {"failed", "outcome_unknown"}

\* retryBackendRun reads the original, a failed Run or an unknown one whose
\* uncertainty the caller confirmed, ...
StartRetry(c, original) ==
    /\ At(c, "idle")
    /\ Retryable(original)
    /\ Serve(c, "retry", original, "retry", NoTerminal, FALSE)
    /\ UNCHANGED <<rows, holder, outside>>

\* ... and admits a new Run of its session in a later transaction, whatever
\* became of the original meanwhile.  A refused admission ends the request.
Retry(c, r) ==
    LET original == call[c].run IN
    /\ At(c, "retry")
    /\ SessionOf[original] = SessionOf[r]
    /\ AdmitAs(c, r, original)

\* commitAdmissionFailure: the backend is not ready, or the fallback of a
\* discard that came too late.
FailAdmission(c) ==
    LET r == call[c].run IN
    /\ At(c, "admitted")
    /\ Return(c)
    /\ IF status[r] = "queued" /\ phase[r] = "admitted"
       THEN /\ status' = [status EXCEPT ![r] = "failed"]
            /\ phase' = [phase EXCEPT ![r] = "settled"]
            /\ books' = [books EXCEPT ![r].operation = "failed",
                                      ![r].activity = "failed",
                                      ![r].audits = @ \cup {"failed"}]
            /\ Release(r)
            /\ UNCHANGED <<native, log, retryOf, outside>>
       ELSE UNCHANGED <<rows, holder, outside>>

\* discardUnstartedAdmission: an attachment could not be prepared, so every
\* row of the admission is deleted again.
Discard(c) ==
    LET r == call[c].run IN
    /\ At(c, "admitted")
    /\ status[r] = "queued" /\ phase[r] = "admitted" /\ log[r] = {}
    /\ Return(c)
    /\ status' = [status EXCEPT ![r] = "discarded"]
    /\ phase' = [phase EXCEPT ![r] = "none"]
    /\ books' = [books EXCEPT ![r] = NoBooks]
    /\ retryOf' = [retryOf EXCEPT ![r] = NoRun]
    /\ Release(r)
    /\ UNCHANGED <<native, log, outside>>

\* transitionToExternalRunning: both compare-and-set updates of one
\* transaction; losing the race against a control fails the request.
Start(c) ==
    LET r == call[c].run IN
    /\ At(c, "admitted")
    /\ IF status[r] = "queued" /\ phase[r] = "admitted"
       THEN /\ status' = [status EXCEPT ![r] = "running"]
            /\ phase' = [phase EXCEPT ![r] = "external_running"]
            /\ Goto(c, "launch")
            /\ UNCHANGED <<native, log, books, retryOf>>
       ELSE Return(c) /\ UNCHANGED rows
    /\ UNCHANGED <<holder, outside>>

-----------------------------------------------------------------------------
\* The backend stream.

\* Whether a failure of the stream leaves the outcome open (unknownOnError).
UnknownOnError(op) == op \in {"resume", "sync"}

\* runTurn or resumeRun is called.  The provider may refuse before it starts.
Launch(c) ==
    LET r == call[c].run IN
    /\ At(c, "launch")
    /\ Goto(c, "streaming")
    /\ \/ UNCHANGED outside
       \/ /\ call[c].op \in {"turn", "continue"}
          /\ provider' = [provider EXCEPT ![r] = "live"]
          /\ launches' = [launches EXCEPT ![r] = @ + 1]
       \/ /\ call[c].op = "resume" /\ provider[r] = "waiting"
          /\ provider' = [provider EXCEPT ![r] = "live"]
          /\ UNCHANGED launches
    /\ UNCHANGED <<rows, holder>>

\* A continuation falls back only while the provider was never heard.
Hear(c) == call' = [call EXCEPT ![c].heard = call[c].op = "continue"]

\* appendEvent for an ordinary event: dropped once the Run is settled, and
\* the first session id the provider names is bound to the Run.
StreamEvent(c) ==
    LET r == call[c].run IN
    /\ At(c, "streaming")
    /\ provider[r] # "none"
    /\ Hear(c)
    /\ \E bound \in {native[r], ~IsSettled(r) /\ status[r] \notin Missing} :
         native' = [native EXCEPT ![r] = native[r] \/ bound]
    /\ UNCHANGED <<status, phase, log, books, retryOf, holder, outside>>

\* What a terminal event of the backend may say: the truth of a provider
\* that ended or waits, a preflight refusal of one that was not reached, or
\* that the adapter itself lost track of it.
Reports(c) ==
    LET p == provider[call[c].run]
        truth == IF p \in Finished \cup {"waiting"} THEN {p} ELSE {}
        refused == \/ p = "none" /\ call[c].op \in {"turn", "continue"}
                   \/ p = "waiting" /\ call[c].op = "resume"
    IN {"indeterminate"} \cup truth \cup IF refused THEN {"not_started"} ELSE {}

\* A terminal event is remembered and the loop goes on: the last one wins.
StreamTerminal(c) ==
    /\ At(c, "streaming")
    /\ \E terminal \in Reports(c) :
         call' = [call EXCEPT ![c].heard = call[c].op = "continue",
                              ![c].terminal = terminal]
    /\ UNCHANGED <<rows, holder, outside>>

Failure(op) == IF UnknownOnError(op) THEN "indeterminate" ELSE "failed"

\* The stream throws (transport, tool or database failure): a failure replaces
\* what was remembered, except that a continuation that was never heard starts
\* a fresh conversation.
StreamLost(c) ==
    /\ At(c, "streaming")
    /\ IF call[c].op = "continue" /\ ~call[c].heard
       THEN call' = [call EXCEPT ![c].op = "turn", ![c].pc = "launch"]
       ELSE Decide(c, "commit", Failure(call[c].op))
    /\ UNCHANGED <<rows, holder, outside>>

\* The stream ends: without a terminal event that is a failure of any turn, a
\* continuation that was never heard included.
StreamEnd(c) ==
    /\ At(c, "streaming")
    /\ Decide(c, "commit", IF call[c].terminal = NoTerminal THEN Failure(call[c].op)
                                                            ELSE call[c].terminal)
    /\ UNCHANGED <<rows, holder, outside>>

-----------------------------------------------------------------------------
\* Settlement.

\* Mutant: whatever is neither a failure nor a cancellation is taken for success.
OptimisticStatus(terminal, requestedCancel) ==
    CASE terminal = "waiting" -> "waiting_for_backend_input"
      [] terminal = "cancelled" -> "cancelled"
      [] terminal = "not_started" /\ requestedCancel -> "cancelled"
      [] terminal = "failed" -> "failed"
      [] OTHER -> "completed"

FinalStatus(terminal, requestedCancel) ==
    CASE terminal = "completed" -> "completed"
      [] terminal = "waiting" -> "waiting_for_backend_input"
      [] terminal = "cancelled" -> "cancelled"
      [] terminal = "not_started" /\ requestedCancel -> "cancelled"
      [] terminal = "indeterminate" -> "outcome_unknown"
      [] OTHER -> "failed"

\* Mutant: any later terminal event, a wait for input included, is taken.
ReconcilesAny(r, terminal) ==
    status[r] = "outcome_unknown" /\ phase[r] = "settled" /\ terminal \in Terminals

\* A settled Run is immutable, except that evidence may still resolve an
\* unknown outcome.
Reconciles(r, terminal) ==
    /\ status[r] = "outcome_unknown" /\ phase[r] = "settled"
    /\ terminal \in Evidence \ {"indeterminate"}

Accepts(r, terminal) ==
    \/ status[r] \in Active /\ phase[r] # "settled"
    \/ Reconciles(r, terminal)

Streams(op) == op \in {"turn", "continue", "resume", "sync"}

\* Two control requests of one kind carry the same source_event_id under
\* different ids: the second insert violates the unique index.
SourceTaken(r, op) == ~Streams(op) /\ op \in log[r]

\* Mutant: the text collected so far is attached whatever the ending.
SettlementWithText(book, s, text) ==
    [operation |-> CASE s = "completed" -> "completed"
                     [] s = "waiting_for_backend_input" -> "deferred"
                     [] OTHER -> "failed",
     activity |-> IF s = "waiting_for_backend_input" THEN "recording" ELSE s,
     audits |-> book.audits \cup {IF s = "completed" THEN s ELSE "failed"},
     output |-> text]

Settlement(book, s, text) ==
    [operation |-> CASE s = "completed" -> "completed"
                     [] s = "waiting_for_backend_input" -> "deferred"
                     [] OTHER -> "failed",
     activity |-> IF s = "waiting_for_backend_input" THEN "recording" ELSE s,
     audits |-> book.audits \cup CASE s = "completed" -> {"completed"}
                                   [] s = "waiting_for_backend_input" -> {}
                                   [] OTHER -> {"failed"},
     output |-> s = "completed" /\ text]

\* commitTerminal under the row lock of the Run.
Commit(c) ==
    LET r == call[c].run
        s == FinalStatus(call[c].terminal, call[c].op = "cancel")
    IN
    /\ At(c, "commit")
    /\ Accepts(r, call[c].terminal)
    /\ ~SourceTaken(r, call[c].op)
    /\ status' = [status EXCEPT ![r] = s]
    /\ phase' = [phase EXCEPT ![r] =
                   IF s = "waiting_for_backend_input" THEN "waiting" ELSE "settled"]
    /\ \E text \in BOOLEAN : books' = [books EXCEPT ![r] = Settlement(@, s, text)]
    /\ log' = [log EXCEPT ![r] = IF Streams(call[c].op) THEN @ ELSE @ \cup {call[c].op}]
    /\ Release(r)
    /\ \E bound \in {native[r], native[r] \/ provider[r] # "none"} :
         native' = IF Streams(call[c].op) THEN [native EXCEPT ![r] = bound] ELSE native
    /\ Return(c)
    /\ UNCHANGED <<retryOf, outside>>

\* The Run is settled, gone, or already has the event: nothing is written.
CommitDeclined(c) ==
    LET r == call[c].run IN
    /\ At(c, "commit")
    /\ ~Accepts(r, call[c].terminal) \/ SourceTaken(r, call[c].op)
    /\ Return(c)
    /\ UNCHANGED <<rows, holder, outside>>

-----------------------------------------------------------------------------
\* cancelBackendRun.

\* A queued Run is settled as not started without asking the backend.
StartCancel(c, r) ==
    /\ At(c, "idle")
    /\ status[r] \in Active
    /\ IF status[r] = "queued"
       THEN Serve(c, "cancel", r, "commit", "not_started", FALSE)
       ELSE Serve(c, "cancel", r, "mark", NoTerminal, IsPreExternal(r))
    /\ UNCHANGED <<rows, holder, outside>>

\* markCancelling, under the row lock.
CancelMark(c) ==
    LET r == call[c].run IN
    /\ At(c, "mark")
    /\ IF status[r] \in Active
       THEN /\ phase' = [phase EXCEPT ![r] = "cancelling"]
            /\ Goto(c, "request")
       ELSE Return(c) /\ UNCHANGED phase
    /\ UNCHANGED <<status, native, log, books, retryOf, holder, outside>>

\* backend.cancelRun: settled evidence, or no answer in time, a mere
\* acknowledgement, an adapter that does not track the Run.
CancelRequest(c) ==
    LET r == call[c].run IN
    /\ At(c, "request")
    /\ \/ Goto(c, "verify") /\ UNCHANGED provider
       \/ /\ provider[r] \in Finished
          /\ Decide(c, "verify", provider[r])
          /\ UNCHANGED provider
       \/ /\ provider[r] \in {"live", "waiting"}
          /\ provider' = [provider EXCEPT ![r] = "cancelled"]
          /\ Decide(c, "verify", "cancelled")
    /\ UNCHANGED <<rows, holder, launches>>

\* The Run is read again; without settled evidence the phase seen at the
\* start decides between not started and unknown.
CancelVerify(c) ==
    /\ At(c, "verify")
    /\ IF status[call[c].run] \notin Active THEN Return(c)
       ELSE Decide(c, "commit",
              CASE call[c].terminal # NoTerminal -> call[c].terminal
                [] call[c].pre -> "not_started"
                [] OTHER -> "indeterminate")
    /\ UNCHANGED <<rows, holder, outside>>

-----------------------------------------------------------------------------
\* resumeBackendRun, syncBackendRun, recoverBackendRun.

\* A backend that cannot resume, or a Run without a native session, is
\* settled as refused.
StartResume(c, r) ==
    /\ At(c, "idle")
    /\ status[r] = "waiting_for_backend_input"
    /\ IF CanResume /\ native[r]
       THEN Serve(c, "resume", r, "prepare", NoTerminal, FALSE)
       ELSE Serve(c, "refuse", r, "commit", "not_started", FALSE)
    /\ UNCHANGED <<rows, holder, outside>>

\* prepareResumeRun takes the session's reservation whoever holds it.
PrepareResume(c) ==
    LET r == call[c].run IN
    /\ At(c, "prepare")
    /\ IF status[r] = "waiting_for_backend_input" /\ phase[r] = "waiting"
       THEN /\ status' = [status EXCEPT ![r] = "running"]
            /\ phase' = [phase EXCEPT ![r] = "backend_starting"]
            /\ holder' = [holder EXCEPT ![SessionOf[r]] = r]
            /\ books' = [books EXCEPT ![r].operation = "created"]
            /\ Append(r, "resume-input")
            /\ Goto(c, "launch")
            /\ UNCHANGED <<native, retryOf>>
       ELSE Return(c) /\ UNCHANGED <<rows, holder>>
    /\ UNCHANGED outside

StartSync(c, r) ==
    /\ At(c, "idle")
    /\ CanStream
    /\ status[r] \in Active \cup {"outcome_unknown"}
    /\ Serve(c, "sync", r, "streaming", NoTerminal, FALSE)
    /\ UNCHANGED <<rows, holder, outside>>

\* Without streamEvents a synchronisation only leaves a note.
SyncUnavailable(c, r) ==
    /\ ~CanStream
    /\ At(c, "idle")
    /\ status[r] \in Active
    /\ Append(r, "sync")
    /\ UNCHANGED <<status, phase, native, books, retryOf, holder, outside, call>>

\* The age check of the code, sixty seconds since started_at, holds at any
\* moment: the backend may take that long for every step.
StartRecover(c, r) ==
    /\ At(c, "idle")
    /\ status[r] \in Active
    /\ Serve(c, "recover", r, "commit",
             IF status[r] = "running" THEN "indeterminate" ELSE "failed", FALSE)
    /\ UNCHANGED <<rows, holder, outside>>

-----------------------------------------------------------------------------
\* PostgresRuntimeExecutionWorker.runTick, for one row it locked.

Recoverable(r) ==
    \/ status[r] = "queued" /\ phase[r] = "admitted"
    \/ status[r] = "running" /\ phase[r] = "backend_starting"

WorkerRecover(r) ==
    LET s == IF status[r] = "running" THEN "outcome_unknown" ELSE "failed" IN
    /\ Recoverable(r)
    /\ status' = [status EXCEPT ![r] = s]
    /\ phase' = [phase EXCEPT ![r] = "settled"]
    /\ books' = [books EXCEPT ![r].activity = s]
    /\ Release(r)
    /\ UNCHANGED <<native, log, retryOf, outside, call>>

-----------------------------------------------------------------------------
\* The environment.

\* The external backend makes progress on its own.
ProviderStep(r) ==
    /\ \/ provider[r] = "live"
          /\ \E s \in Finished \cup {"waiting"} : provider' = [provider EXCEPT ![r] = s]
       \/ provider[r] = "waiting"
          /\ \E s \in {"failed", "cancelled"} : provider' = [provider EXCEPT ![r] = s]
    /\ UNCHANGED <<rows, holder, launches, call>>

\* The process serving a request dies, or one of its statements fails
\* outside the stream loop, or its admission is refused: it is never finished.
Lose(c) ==
    /\ ~At(c, "idle")
    /\ Return(c)
    /\ UNCHANGED <<rows, holder, outside>>

-----------------------------------------------------------------------------
TurnStep(c) ==
    \/ FailAdmission(c) \/ Discard(c) \/ Start(c) \/ Launch(c)
    \/ StreamEvent(c) \/ StreamTerminal(c) \/ StreamLost(c) \/ StreamEnd(c)
    \/ Commit(c) \/ CommitDeclined(c)

ControlStep(c) ==
    CancelMark(c) \/ CancelRequest(c) \/ CancelVerify(c) \/ PrepareResume(c)

Request(c, r) ==
    \/ Admit(c, r) \/ Retry(c, r)
    \/ "retry" \in Controls /\ StartRetry(c, r)
    \/ "cancel" \in Controls /\ StartCancel(c, r)
    \/ "resume" \in Controls /\ StartResume(c, r)
    \/ "sync" \in Controls /\ (StartSync(c, r) \/ SyncUnavailable(c, r))
    \/ "recover" \in Controls /\ StartRecover(c, r)

Next ==
    \/ \E c \in Callers : TurnStep(c) \/ ControlStep(c) \/ Lose(c)
    \/ \E c \in Callers, r \in Runs : Request(c, r)
    \/ \E r \in Runs : WorkerRecover(r) \/ ProviderStep(r)

Spec == Init /\ [][Next]_vars

\* The supervisor ticks the recovery lane for as long as the server runs.
FairSpec == Spec /\ \A r \in Runs : WF_vars(WorkerRecover(r))

-----------------------------------------------------------------------------
\* Properties.

\* A settled Run keeps its outcome: only an unknown one may still change, and
\* then only to a stable outcome, whichever handlers and workers race
\* (commitTerminal: "Stable terminal Runs are immutable").
SettledIsStable ==
    [][\A r \in Runs :
         /\ status[r] \in Stable => status'[r] = status[r]
         /\ status[r] = "outcome_unknown" => status'[r] \in Settled]_vars

\* A held reservation always names a queued or running Run of its session, so
\* a session is never left reserved by a Run that waits, ended or was deleted.
HolderIsActive ==
    \A s \in Sessions : holder[s] # NoRun =>
        /\ SessionOf[holder[s]] = s
        /\ status[holder[s]] \in {"queued", "running"}

\* A Run that is recorded as queued or running, or that is not settled while
\* its provider executes.
Underway(r) ==
    \/ status[r] \in {"queued", "running"}
    \/ status[r] \notin Settled /\ provider[r] = "live"

Resumed(s) == \E r \in Runs : SessionOf[r] = s /\ "resume-input" \in log[r]

\* Two Runs of a session are under way together only once a Run of the session
\* was resumed: admissions, retries, cancellations, operator recovery, crashes
\* and continuations that start over never put a second one beside the first,
\* and a Run that is recorded as waiting has no provider that goes on.  A
\* resumption (prepareResumeRun) takes the reservation whoever holds it, and a
\* Run settled as cancelled or unknown may be executing all the same: both are
\* outside what the reservation guards.
SessionExclusive ==
    \A q, r \in Runs :
        /\ SessionOf[q] = SessionOf[r] /\ q # r
        /\ Underway(q) /\ Underway(r)
        => Resumed(SessionOf[r])

\* The rows derived from a Run tell the same story as the Run: the activity
\* mirrors it, an answer exists and completion is audited only for a completed
\* Run, and an operation never claims an ending the Run does not have.
RecordsAgree ==
    \A r \in Runs :
        LET b == books[r] IN
        /\ b.activity = CASE status[r] \in Missing -> "absent"
                          [] status[r] \in Active -> "recording"
                          [] OTHER -> status[r]
        /\ b.output \/ "completed" \in b.audits \/ b.operation = "completed"
             => status[r] = "completed"
        /\ status[r] = "completed" => b.operation = "completed"
        /\ b.operation = "failed" => status[r] \in Settled \ {"completed"}
        /\ b.operation = "deferred" => status[r] \in Active \cup {"failed", "outcome_unknown"}

\* A Run is recorded as completed only if the backend completed it.
CompletionIsReal ==
    \A r \in Runs : status[r] = "completed" => provider[r] = "completed"

\* One request starts at most one provider execution: over all the Runs ever
\* admitted for its key, discarded ones included, one launch happens.
OneLaunchPerKey ==
    \A r \in Runs :
        /\ launches[r] <= 1
        /\ \A q \in Runs \ {r} :
             KeyOf[q] = KeyOf[r] /\ SessionOf[q] = SessionOf[r]
               => launches[q] = 0 \/ launches[r] = 0

\* A retry never runs beside the Run it replaces: whatever happens between the
\* read of the original and the admission of the retry, and later, the
\* original is settled and stays so.
RetriedRunIsSettled ==
    \A r \in Runs : retryOf[r] # NoRun =>
        /\ status[retryOf[r]] \in Settled
        /\ phase[retryOf[r]] = "settled"
        /\ SessionOf[retryOf[r]] = SessionOf[r]

\* A Run that was admitted or resumed but never reached the backend does not
\* reserve its session for ever: it gets there, is cancelled, or the recovery
\* lane settles it and frees the session.
UnstartedRunFreesSession ==
    \A r \in Runs :
        holder[SessionOf[r]] = r /\ phase[r] \in {"admitted", "backend_starting"}
          ~> holder[SessionOf[r]] # r \/ phase[r] \in {"external_running", "cancelling"}

\* Every step of the handlers and of the worker is one the readers of a Run
\* were promised.
Outcome ==
    INSTANCE RunOutcome WITH
        outcome <- [r \in Runs |->
                      CASE status[r] = "absent" -> "none"
                        [] status[r] = "discarded" -> "withdrawn"
                        [] status[r] \in {"queued", "running"} -> "open"
                        [] status[r] = "waiting_for_backend_input" -> "waiting"
                        [] status[r] = "outcome_unknown" -> "unknown"
                        [] OTHER -> status[r]],
        answered <- [r \in Runs |-> books[r].output]

RefinesOutcome == Outcome!Spec

=============================================================================

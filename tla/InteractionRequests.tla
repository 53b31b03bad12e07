-------------------------- MODULE InteractionRequests --------------------------
(***************************************************************************)
(* One interaction request: a person is asked to approve an action of a    *)
(* generated surface ("surface") or to give a waiting Run its input        *)
(* ("input"), and the Server then executes the answer once.                *)
(*                                                                         *)
(* workspace-interaction-request-service.ts keeps the record and changes   *)
(* it by compare-and-set on its version; interaction-request-workflow.ts   *)
(* executes an accepted request in the handler that answered it, and       *)
(* workspace-interaction-request-maintenance-worker.ts on a later tick.    *)
(* The operation id of a write is spent once a transaction was committed   *)
(* under it, also when that transaction refused the write: the record      *)
(* store answers it with workspace_operation_id_reused from then on.       *)
(***************************************************************************)
EXTENDS Naturals, Sequences

CONSTANTS
    Kinds,         \* of requests: surface, input
    Clients,       \* handlers of respond and cancel calls
    Ticks,         \* maintenance ticks that may run at the same time
    Responses,     \* operation ids of responses, used again by a retry
    MaxCalls,      \* bound on the calls of clients
    MaxFaults,     \* bound on deaths, refused writes and unanswered checks
    MaxLookups     \* maxExecutionTargetResultLookupOperationIds

ASSUME RequestAssumption ==
    /\ Kinds \subseteq {"surface", "input"}
    /\ {MaxCalls, MaxFaults, MaxLookups} \subseteq Nat

Callers == Clients \cup Ticks

VARIABLES
    req,      \* the record, and whether its times have run out
    used,     \* the operation ids that are spent, of those that can come again
    call,     \* what each handler and tick is in the middle of
    target,   \* the action the request is about, and its interaction record
    told,     \* the maintenance events that were appended
    seen      \* what went wrong so far: a reason is a refusal or a slow handler

vars == <<req, used, call, target, told, seen>>

Settled == {"denied", "cancelled", "expired", "completed", "failed"}

\* The operation id of an execution: <<>> is the initial one, and each recovery
\* appends whether it read the result or recorded a refusal.
Initial == <<>>
Unclaimed == <<"none">>
Executions == Seq({"result", "denied"})

\* getExecutionTargetResultLookup: an execution and those it recovered.
Lookup(x) == {SubSeq(x, 1, n) : n \in 0..Len(x)}

Idle == [pc |-> "idle", put |-> FALSE, life |-> "none", version |-> 0, x |-> Initial,
         refused |-> FALSE, recovered |-> FALSE, ending |-> "none"]

Points == {"idle", "respond", "cancel", "preauth", "claim", "assert", "reauth", "release",
           "dispatch", "record", "replay", "find", "recover", "failStale", "settle", "expire",
           "interrupt", "emit", "mark"}

Endings == {"none", "approve", "deny", "completed", "failed", "expired"}

TypeOK ==
    /\ req \in [kind : Kinds, status : Settled \cup {"pending", "accepted", "executing"},
               version : Nat, by : Responses \cup {"none"},
               exec : Executions \cup {Unclaimed}, over : BOOLEAN, stale : BOOLEAN,
               event : {"none", "expired", "failed"}, delivered : BOOLEAN]
    /\ call \in [Callers ->
            [pc : Points, put : BOOLEAN, life : Responses \cup {"none", "tick"},
             version : Nat, x : Executions, refused : BOOLEAN, recovered : BOOLEAN,
             ending : Endings]]
    /\ target \in [started : Nat, effect : BOOLEAN, record : {"none", "ok", "failed"},
                  by : Executions]
    /\ told \subseteq {"expired", "failed"}
    /\ seen \in [calls : Nat, outages : Nat, faults : Nat, reason : BOOLEAN, attempt : BOOLEAN]

Init ==
    /\ req \in [kind : Kinds, status : {"pending"}, version : {1}, by : {"none"},
                exec : {Unclaimed}, over : {FALSE}, stale : {FALSE}, event : {"none"},
                delivered : {FALSE}]
    /\ used = {}
    /\ call = [c \in Callers |-> Idle]
    /\ target = [started |-> 0, effect |-> FALSE, record |-> "none", by |-> Initial]
    /\ told = {}
    /\ seen = [calls |-> 0, outages |-> 0, faults |-> 0, reason |-> FALSE,
               attempt |-> FALSE]

-----------------------------------------------------------------------------
\* The writes of the service.

Goto(c, k) == call' = [call EXCEPT ![c] = k]
Leave(c) == Goto(c, Idle)
At(c, pc) == call[c].pc = pc /\ ~call[c].put
Failing(k) == [k EXCEPT !.pc = "settle", !.ending = "failed"]

\* Ids derived from the operation of the handler, or from the execution.
OperationId(k) ==
    CASE k.pc \in {"respond", "cancel", "claim"} -> <<k.pc, k.life>>
      [] k.pc = "recover" -> <<k.pc, k.life, k.refused>>
      [] OTHER -> <<k.pc, k.ending, k.x>>

\* A tick has an operation id of its own (randomUUID).
Spend(k) == IF k.life = "tick" /\ k.pc \in {"claim", "recover"} THEN used
            ELSE used \cup {OperationId(k)}

NextExecution(k) == Append(k.x, IF k.refused THEN "denied" ELSE "result")

\* The record a write leaves.
Written(k) ==
    LET saved == [req EXCEPT !.version = @ + 1] IN
    CASE k.pc = "respond" ->
           [saved EXCEPT !.status = IF k.ending = "deny" THEN "denied" ELSE "accepted",
                         !.by = k.life]
      [] k.pc = "cancel" -> [saved EXCEPT !.status = "cancelled"]
      [] k.pc = "claim" ->
           [saved EXCEPT !.status = "executing", !.exec = k.x, !.stale = FALSE]
      [] k.pc = "release" -> [saved EXCEPT !.status = "accepted", !.exec = Unclaimed]
      [] k.pc = "recover" -> [saved EXCEPT !.exec = NextExecution(k), !.stale = FALSE]
      [] k.pc = "settle" -> [saved EXCEPT !.status = k.ending]
      [] k.pc = "failStale" -> [saved EXCEPT !.status = "failed"]
      [] k.pc = "expire" -> [saved EXCEPT !.status = "expired", !.event = "expired"]
      [] k.pc = "interrupt" -> [saved EXCEPT !.status = "failed", !.event = "failed"]
      [] k.pc = "mark" -> [saved EXCEPT !.delivered = TRUE]

\* Where the handler goes on after its write, with the version it was told.
AfterWrite(k) ==
    LET on == [k EXCEPT !.put = FALSE, !.version = @ + 1] IN
    CASE k.pc = "respond" /\ k.ending = "approve" ->
           [on EXCEPT !.pc = "preauth", !.ending = "none"]
      [] k.pc = "claim" -> [on EXCEPT !.pc = "assert"]
      [] k.pc = "recover" ->
           [(IF k.refused THEN Failing(on) ELSE [on EXCEPT !.pc = "find"])
              EXCEPT !.x = NextExecution(k), !.recovered = TRUE]
      [] k.pc \in {"expire", "interrupt"} -> [on EXCEPT !.pc = "emit"]
      [] OTHER -> Idle

\* Mutant: a claim made before is executed once more.
ReplayedAsNew(k) ==
    IF req.status = "executing"
    THEN [k EXCEPT !.put = FALSE, !.version = req.version, !.pc = "assert"] ELSE Idle

\* A claim that was made before: what is still done for it.
Replayed(k) ==
    LET on == [k EXCEPT !.put = FALSE, !.version = req.version] IN
    CASE req.status = "completed" -> Idle
      [] req.status # "completed" /\ k.refused ->
           IF req.stale THEN [on EXCEPT !.pc = "recover"] ELSE Failing(on)
      [] req.status = "executing" /\ ~k.refused /\ req.kind = "surface" ->
           [on EXCEPT !.pc = "replay"]
      [] OTHER -> Idle

\* Mutant: a write that lost takes the event of maintenance as its own.
AlreadyThereUnlessTold(k) ==
    k.pc \in {"expire", "interrupt"} /\ ~req.delivered

\* sameIntent: the record already is what the write was to make of it.
AlreadyThere(k) ==
    \/ k.pc = "respond" /\ req.by = k.life /\ (k.ending = "deny" <=> req.status = "denied")
    \/ k.pc = "claim" /\ req.exec = k.x
    \/ k.pc = "recover" /\ req.exec = NextExecution(k)
    \/ k.pc = "expire" /\ req.event = "expired"
    \/ k.pc = "interrupt" /\ req.event = "failed"

AfterReplay(k) ==
    LET on == [k EXCEPT !.put = FALSE, !.version = req.version] IN
    CASE k.pc = "claim" -> Replayed(k)
      [] k.pc = "recover" -> [AfterWrite(k) EXCEPT !.version = req.version]
      [] k.pc = "respond" /\ req.status = "accepted" ->
           [on EXCEPT !.pc = "preauth", !.ending = "none"]
      [] k.pc \in {"expire", "interrupt"} /\ ~req.delivered -> [on EXCEPT !.pc = "emit"]
      [] OTHER -> Idle

Fault(kind) ==
    /\ seen.outages + seen.faults < MaxFaults
    /\ seen' = [seen EXCEPT ![kind] = @ + 1]

\* Mutant: the compare-and-set compares no version.
ConflictOnId(k) == OperationId(k) \in used

Conflict(k) == OperationId(k) \in used \/ req.version # k.version

\* persistTransition and putRecord.  A write that finds another version, or a
\* Workspace that is read-only for a moment, is committed as a failed
\* operation: its id is spent.
Put(c) ==
    LET k == call[c] IN
    /\ k.put
    /\ \/ /\ ~Conflict(k)
          /\ req' = Written(k)
          /\ Goto(c, AfterWrite(k))
          /\ UNCHANGED seen
       \/ /\ OperationId(k) \notin used
          /\ Fault("faults") /\ Leave(c)
          /\ UNCHANGED req
       \/ /\ Conflict(k)
          /\ IF AlreadyThere(k) THEN Goto(c, AfterReplay(k)) ELSE Leave(c)
          /\ UNCHANGED <<req, seen>>
    /\ used' = Spend(k)
    /\ UNCHANGED <<target, told>>

\* The checks of a service call on the record it loaded: it goes on to its
\* write, or throws.
Check(c, ok) ==
    /\ IF ok THEN Goto(c, [call[c] EXCEPT !.put = TRUE]) ELSE Leave(c)
    /\ UNCHANGED <<req, used, target, told, seen>>

\* The execution k holds is the current one, under a lease that still runs.
Holds(k) == req.status = "executing" /\ req.exec = k.x /\ req.version = k.version
HoldsLease(k) == Holds(k) /\ ~req.stale

-----------------------------------------------------------------------------
\* respond and cancel.

Respond(c, r, answer) ==
    LET k == [Idle EXCEPT !.pc = "respond", !.life = r, !.ending = answer,
                          !.version = req.version]
    IN
    /\ call[c] = Idle /\ seen.calls < MaxCalls
    /\ \/ req.status = "pending" /\ ~req.over /\ Goto(c, [k EXCEPT !.put = TRUE])
       \/ /\ req.status = "accepted" /\ req.by = r /\ answer = "approve"
          /\ Goto(c, [k EXCEPT !.pc = "preauth", !.ending = "none"])
    /\ seen' = [seen EXCEPT !.calls = @ + 1]
    /\ UNCHANGED <<req, used, target, told>>

Cancel(c, r) ==
    /\ call[c] = Idle /\ seen.calls < MaxCalls
    /\ req.status = "pending" /\ ~req.over
    /\ Goto(c, [Idle EXCEPT !.pc = "cancel", !.put = TRUE, !.life = r,
                            !.version = req.version])
    /\ seen' = [seen EXCEPT !.calls = @ + 1]
    /\ UNCHANGED <<req, used, target, told>>

-----------------------------------------------------------------------------
\* executeAccepted.

\* reauthorizeAcceptedInteractionRequest: both saved actors may still execute,
\* one of them may not, or the answer could not be had.
Authorize(c, allowed, refused, unknown) ==
    /\ \/ Goto(c, allowed) /\ UNCHANGED seen
       \/ Goto(c, refused) /\ seen' = [seen EXCEPT !.reason = TRUE]
       \/ Goto(c, unknown) /\ Fault("outages")
    /\ UNCHANGED <<req, used, target, told>>

PreAuthorize(c) ==
    LET claim == [call[c] EXCEPT !.pc = "claim"] IN
    /\ At(c, "preauth")
    /\ Authorize(c, claim, [claim EXCEPT !.refused = TRUE], Idle)

ClaimExecution(c) ==
    LET k == call[c] IN
    /\ At(c, "claim")
    /\ IF req.exec = k.x
       THEN Goto(c, Replayed(k)) /\ UNCHANGED <<req, used, target, told, seen>>
       ELSE Check(c, req.status = "accepted" /\ ~req.over /\ req.version = k.version)

AssertExecutionClaim(c) ==
    LET k == call[c] IN
    /\ At(c, "assert")
    /\ Goto(c, IF ~HoldsLease(k) \/ req.over THEN [k EXCEPT !.pc = "release"]
               ELSE IF k.refused THEN Failing(k)
               ELSE [k EXCEPT !.pc = "reauth"])
    /\ UNCHANGED <<req, used, target, told, seen>>

\* Mutant: every failed check is taken for a refusal.
ReauthorizeOrFail(c) ==
    LET k == call[c] IN
    /\ At(c, "reauth")
    /\ Authorize(c, [k EXCEPT !.pc = "dispatch"], Failing(k), Failing(k))

Reauthorize(c) ==
    LET k == call[c] IN
    /\ At(c, "reauth")
    /\ Authorize(c, [k EXCEPT !.pc = "dispatch"], Failing(k), [k EXCEPT !.pc = "release"])

\* The error that led here is thrown whatever becomes of the release.
ReleaseExecutionClaim(c) == At(c, "release") /\ Check(c, HoldsLease(call[c]))

\* executeActionTarget, or the resume of the Run: it is refused before the
\* command, or the command runs, with an effect when it answers well and
\* perhaps when it does not.
Dispatch(c) ==
    LET k == call[c]
        ended(ok) == [k EXCEPT !.pc = IF req.kind = "surface" THEN "record" ELSE "settle",
                               !.ending = IF ok THEN "completed" ELSE "failed"]
    IN
    /\ At(c, "dispatch")
    /\ \/ Goto(c, Failing(k)) /\ UNCHANGED target
       \/ \E ok, effect \in BOOLEAN :
            /\ ok => effect
            /\ target' = [target EXCEPT !.started = @ + 1, !.effect = @ \/ effect]
            /\ Goto(c, ended(ok))
    /\ seen' = [seen EXCEPT !.attempt = TRUE]
    /\ UNCHANGED <<req, used, told>>

\* Mutant: the claim is given back when the result cannot be saved.
RecordOrRelease(c) ==
    LET k == call[c] IN
    /\ At(c, "record")
    /\ Goto(c, [k EXCEPT !.pc = "release", !.ending = "none"])
    /\ UNCHANGED <<req, used, target, told, seen>>

\* recordInteraction: a result that cannot be saved makes the action fail.
RecordInteraction(c) ==
    LET k == call[c] IN
    /\ At(c, "record")
    /\ \/ /\ target' = [target EXCEPT
                          !.record = IF k.ending = "completed" THEN "ok" ELSE "failed",
                          !.by = k.x]
          /\ Goto(c, [k EXCEPT !.pc = "settle"])
       \/ Goto(c, Failing(k)) /\ UNCHANGED target
    /\ UNCHANGED <<req, used, told, seen>>

SettleExecution(c) == At(c, "settle") /\ Check(c, HoldsLease(call[c]))

-----------------------------------------------------------------------------
\* reconcileReplayedGeneratedSurfaceExecution: no command is called any more.

\* The lease of the claim k found has run out; one that was recovered had.
StaleClaim(k) == req.stale \/ req.exec # k.x

ReauthorizeReplay(c) ==
    LET k == call[c]
        refused == [k EXCEPT !.refused = TRUE]
    IN
    /\ At(c, "replay")
    /\ Authorize(c, [k EXCEPT !.pc = "find"],
                 IF StaleClaim(k) THEN [refused EXCEPT !.pc = "recover"]
                 ELSE Failing(refused),
                 Idle)

\* Mutant: any interaction record counts, also that of a failed command.
FoundRecord(k) == target.record # "none" /\ target.by \in Lookup(k.x)

\* getActionTargetResult for every execution the request has had.
FoundResult(k) == target.record = "ok" /\ target.by \in Lookup(k.x)

FindTargetResult(c) ==
    LET k == call[c]
        found == FoundResult(k)
        settle == [k EXCEPT !.pc = "settle", !.ending = IF found THEN "completed" ELSE "failed"]
    IN
    /\ At(c, "find")
    /\ Goto(c, CASE k.recovered -> settle
                 [] ~k.recovered /\ StaleClaim(k) -> [k EXCEPT !.pc = "recover"]
                 [] ~k.recovered /\ ~StaleClaim(k) -> IF found THEN settle ELSE Idle)
    /\ UNCHANGED <<req, used, target, told, seen>>

RecoverExecution(c) ==
    LET k == call[c]
        limit == req.kind = "surface" /\ Len(k.x) + 2 > MaxLookups
    IN
    /\ At(c, "recover")
    /\ IF req.status = "executing" /\ req.exec = NextExecution(k)
       THEN Goto(c, AfterReplay(k)) /\ UNCHANGED <<req, used, target, told, seen>>
       ELSE IF Holds(k) /\ req.stale /\ limit
       THEN /\ Goto(c, [k EXCEPT !.pc = "failStale"])
            /\ UNCHANGED <<req, used, target, told, seen>>
       ELSE Check(c, Holds(k) /\ req.stale)

FailStaleExecution(c) == At(c, "failStale") /\ Check(c, Holds(call[c]) /\ req.stale)

-----------------------------------------------------------------------------
\* A maintenance tick: reconcileRoom, then listAcceptedForRecovery.

\* Mutant: only a request that was never claimed is recovered.
NeedsFirstExecution == req.status = "accepted" /\ ~req.over

\* listAcceptedForRecovery
NeedsExecution ==
    \/ req.status = "accepted" /\ ~req.over
    \/ req.status = "executing" /\ req.stale /\ req.kind = "surface"

StartTick(t) ==
    LET k == [Idle EXCEPT !.life = "tick", !.version = req.version,
                          !.x = IF req.exec = Unclaimed THEN Initial ELSE req.exec]
        to(pc, ending, put) == Goto(t, [k EXCEPT !.pc = pc, !.ending = ending, !.put = put])
    IN
    /\ call[t] = Idle
    /\ \/ req.event # "none" /\ ~req.delivered /\ to("emit", req.event, FALSE)
       \/ req.status \in {"pending", "accepted"} /\ req.over /\ to("expire", "expired", TRUE)
       \/ /\ req.status = "executing" /\ req.stale /\ req.kind = "input"
          /\ to("interrupt", "failed", TRUE)
       \/ NeedsExecution /\ to("preauth", "none", FALSE)
    /\ UNCHANGED <<req, used, target, told, seen>>

\* onReconciled appends the event under its own operation id.
Emit(t) ==
    /\ At(t, "emit")
    /\ told' = told \cup {call[t].ending}
    /\ Goto(t, [call[t] EXCEPT !.pc = "mark"])
    /\ UNCHANGED <<req, used, target, seen>>

MarkMaintenanceEventDelivered(t) ==
    At(t, "mark") /\ Check(t, ~req.delivered /\ req.version = call[t].version)

-----------------------------------------------------------------------------
\* The world.

\* The process dies, or the answer of the database is lost.
Die(c) ==
    /\ call[c] # Idle
    /\ Fault("faults") /\ Leave(c)
    /\ UNCHANGED <<req, used, target, told>>

TimeRunsOut ==
    /\ ~req.over /\ req.status \notin Settled
    /\ req' = [req EXCEPT !.over = TRUE]
    /\ UNCHANGED <<used, call, target, told, seen>>

Executing == {"assert", "reauth", "release", "dispatch", "record", "settle"}

LeaseRunsOut ==
    /\ req.status = "executing" /\ ~req.stale
    /\ req' = [req EXCEPT !.stale = TRUE]
    /\ seen' = [seen EXCEPT !.reason = @ \/ \E c \in Callers : call[c].pc \in Executing]
    /\ UNCHANGED <<used, call, target, told>>

Continue(c) ==
    \/ Put(c)
    \/ PreAuthorize(c) \/ ClaimExecution(c) \/ AssertExecutionClaim(c) \/ Reauthorize(c)
    \/ ReleaseExecutionClaim(c) \/ Dispatch(c) \/ RecordInteraction(c)
    \/ SettleExecution(c) \/ ReauthorizeReplay(c) \/ FindTargetResult(c)
    \/ RecoverExecution(c) \/ FailStaleExecution(c)
    \/ Emit(c) \/ MarkMaintenanceEventDelivered(c)

Next ==
    \/ \E c \in Clients :
         \E r \in Responses :
           (\E answer \in {"approve", "deny"} : Respond(c, r, answer)) \/ Cancel(c, r)
    \/ \E t \in Ticks : StartTick(t)
    \/ \E c \in Callers : Continue(c) \/ Die(c)
    \/ TimeRunsOut \/ LeaseRunsOut

Spec == Init /\ [][Next]_vars

\* Handlers run on, the supervisor ticks again and again, and time passes.
FairSpec ==
    /\ Spec
    /\ \A c \in Callers : WF_vars(Continue(c))
    /\ \A t \in Ticks : WF_vars(StartTick(t))
    /\ WF_vars(TimeRunsOut) /\ WF_vars(LeaseRunsOut)

-----------------------------------------------------------------------------
\* Properties.

\* Whatever handlers, retries, ticks and deaths come together, the action is
\* started at most once.
StartedOnce == target.started <= 1

\* The action of a request that is still open to an answer or to another
\* execution, or that was denied, cancelled or has expired, was never started.
UnapprovedIsUntouched ==
    req.status \notin {"executing", "completed", "failed"} => target.started = 0

\* What is recorded as completed has happened, and a surface can show its result.
CompletedTookEffect ==
    req.status = "completed" =>
        target.effect /\ (req.kind = "surface" => target.record = "ok")

\* No client is told of an outcome that the record does not have for good.
ToldIsTrue == \A e \in told : req.status = e

\* An authorization check that cannot be answered is no reason to fail the
\* request: one of them, and nothing else, leaves it open to another execution
\* ("never mark it failed based only on an ambiguous authorization error").
\* When a second claim is to be released, for another outage or because the
\* request's time is over, the operation id of the release is spent and the
\* request does fail untouched.
OneOutageIsRetried ==
    req.status = "failed" /\ ~seen.attempt =>
        seen.reason \/ seen.faults > 0 \/ seen.outages > 1 \/ req.over

\* A settled request keeps its outcome.
OutcomeStands == [][req.status \in Settled => req'.status = req.status]_vars

\* The maintenance write that has to settle the request was tried before and
\* its operation id is spent.
Blocked ==
    /\ req.status \notin Settled
    /\ \E op \in used : op[1] \in {"expire", "interrupt", "failStale"}

\* A request is settled in the end, and clients are told when maintenance did
\* it, unless a maintenance write of it was once refused.
RequestSettles ==
    <>(Blocked \/ (req.status \in Settled /\ (req.event # "none" => req.event \in told)))

\* "Finds terminal transitions that the Server must complete even when no
\* client reconnects.  Expiry is persisted rather than merely projected."
ExpiryIsPersisted ==
    LET open == req.status \in {"pending", "accepted"}
    IN  (req.over /\ open) ~> ~open

=============================================================================

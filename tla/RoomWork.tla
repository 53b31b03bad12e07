------------------------------- MODULE RoomWork -------------------------------
(***************************************************************************)
(* One Room work of the workspace server: the tables of a human work with  *)
(* its assignments, launch reservations and controls (the SQL functions of *)
(* packages/workspace-server/src/schema.ts) and the two lanes of the       *)
(* worker that serves them (apps/server/src/workers/                       *)
(* postgres-room-work-worker.ts): the launch lane claims a reservation,    *)
(* has a Run admitted, waits for it and settles the assignment; the stop   *)
(* lane claims a stop, cancels the Runs in its scope and reconciles.       *)
(*                                                                         *)
(* Every SQL function locks the work row first, so one call is one action. *)
(* The Runs themselves move as RunOutcome promises; RuntimeRun is checked  *)
(* and proved to keep that promise.  Delegation to a second agent and      *)
(* reassignment are not modelled.                                          *)
(***************************************************************************)
EXTENDS Naturals, FiniteSets

CONSTANTS
    Launchers,        \* the workers whose launch lane runs
    Stoppers,         \* the workers whose stop lane runs
    Endings,          \* bound: how a Run may end
    MaxAssignments,   \* bound: the first assignment and the replies to it
    MaxGeneration,    \* bound: stops requested of the work
    MaxCrashes        \* bound: worker processes that die and come back

ASSUME RoomWorkAssumption ==
    /\ "none" \notin Launchers \cup Stoppers
    /\ Endings \subseteq {"completed", "failed", "cancelled", "unknown"}
    /\ MaxAssignments \in Nat \ {0}
    /\ MaxGeneration \in Nat
    /\ MaxCrashes \in Nat

Workers == Launchers \cup Stoppers
Assignments == 1 .. MaxAssignments
Controls == 1 .. MaxGeneration   \* a control is named by the generation it starts

VARIABLES
    work,         \* workspace_human_works: status, stop_state, control_generation
    assignment,   \* workspace_human_work_assignments
    reservation,  \* workspace_human_work_launch_reservations, one per assignment
    control,      \* workspace_human_work_controls
    outcome,      \* the status of the Run each assignment was given
    launched,     \* how many Runs were admitted for each assignment
    launch,       \* what the launch lane of each worker is in the middle of
    dispatch,     \* what the stop lane of each worker is in the middle of
    crashes

rows == <<work, assignment, reservation, control>>
lanes == <<launch, dispatch>>
vars == <<rows, outcome, launched, lanes, crashes>>

-----------------------------------------------------------------------------
Active == {"ready", "running", "waiting"}
Terminal == {"completed", "failed", "cancelled"}
Stops == {"none", "requested", "confirmed", "unconfirmed"}
\* Mutant: a dispatcher that died holding its control is never relieved.
DispatchableOnce == {"accepted", "unconfirmed"}

Dispatchable == {"accepted", "pending", "unconfirmed"}

Run == INSTANCE RunOutcome
    WITH Runs <- Assignments,
         answered <- [a \in Assignments |-> outcome[a] = "completed"]

NoAssignment == [status |-> "absent", parent |-> 0, linked |-> FALSE, result |-> "none"]
NoReservation == [status |-> "absent", generation |-> 0, owner |-> "none", fresh |-> FALSE]
NoControl == [action |-> "none", target |-> 0, state |-> "none", owner |-> "none", fresh |-> FALSE]
NoLaunch == [pc |-> "idle", a |-> 0, generation |-> 0, status |-> "none", linked |-> FALSE]
NoDispatch == [pc |-> "idle", c |-> 0, targets |-> {}, a |-> 0, linked |-> {}, status |-> "none"]

Owners == Workers \cup {"none"}
Results == {"none", "waiting", "outcome_unknown"} \cup Terminal

TypeOK ==
    /\ work \in [status : {"queued", "running", "waiting", "completed", "failed", "cancelled"},
                 stop : Stops, generation : 0 .. MaxGeneration]
    /\ assignment \in [Assignments ->
            [status : Active \cup Terminal \cup {"absent", "outcome_unknown"},
             parent : 0 .. MaxAssignments, linked : BOOLEAN, result : Results]]
    /\ reservation \in [Assignments ->
            [status : {"absent", "reserved", "claimed", "released", "cancelled"},
             generation : 0 .. MaxGeneration, owner : Owners, fresh : BOOLEAN]]
    /\ control \in [Controls ->
            [action : {"none", "stop_request", "stop_confirm", "stop_unconfirmed", "assignment_stop"},
             target : 0 .. MaxAssignments, state : {"none", "confirmed"} \cup Dispatchable,
             owner : Owners, fresh : BOOLEAN]]
    /\ outcome \in [Assignments -> Run!Outcomes]
    /\ launched \in [Assignments -> Nat]
    /\ launch \in [Workers ->
            [pc : {"idle", "claimed", "admitted", "awaiting", "recovering", "settling"},
             a : 0 .. MaxAssignments, generation : 0 .. MaxGeneration,
             status : Results, linked : BOOLEAN]]
    /\ dispatch \in [Workers ->
            [pc : {"idle", "cancel", "reconcile"}, c : 0 .. MaxGeneration,
             targets : SUBSET Assignments, a : 0 .. MaxAssignments,
             linked : SUBSET Assignments, status : Results]]
    /\ crashes \in 0 .. MaxCrashes

\* A created work has one assignment, ready, with its launch reserved.
Init ==
    /\ work = [status |-> "queued", stop |-> "none", generation |-> 0]
    /\ assignment = [a \in Assignments |->
                        IF a = 1 THEN [NoAssignment EXCEPT !.status = "ready"] ELSE NoAssignment]
    /\ reservation = [a \in Assignments |->
                        IF a = 1 THEN [NoReservation EXCEPT !.status = "reserved"] ELSE NoReservation]
    /\ control = [c \in Controls |-> NoControl]
    /\ outcome = [a \in Assignments |-> "none"]
    /\ launched = [a \in Assignments |-> 0]
    /\ launch = [w \in Workers |-> NoLaunch]
    /\ dispatch = [w \in Workers |-> NoDispatch]
    /\ crashes = 0

-----------------------------------------------------------------------------
\* What the SQL functions read and write on the way.

\* An assignment and everything it continues.
Under[a \in Assignments] ==
    {a} \cup (IF assignment[a].parent = 0 THEN {} ELSE Under[assignment[a].parent])

Tree(t) == {a \in Assignments : t \in Under[a]}

\* The assignments a stop is about.
Scope(c) ==
    IF control[c].action = "stop_request"
    THEN {a \in Assignments : assignment[a].status # "absent"}
    ELSE Tree(control[c].target)

Having(asg, S) == {a \in Assignments : asg[a].status \in S}

\* Mutant: a stop cancels what is running as well, its Run or not.
BeforeRunOrIn == Having(assignment, {"ready", "waiting", "running"})

\* Assignments that have entered no Run, which a stop may simply cancel.
BeforeRun ==
    {a \in Assignments : \/ assignment[a].status \in {"ready", "waiting"}
                         \/ assignment[a].status = "running" /\ ~assignment[a].linked}

AssignmentStopOpen(a) ==
    \E c \in Controls : /\ control[c].action = "assignment_stop"
                        /\ control[c].state \in Dispatchable
                        /\ control[c].target \in Under[a]

\* The guard on rows that become ready: not before what they continue ended.
ReadyOrWaiting(asg, a) ==
    IF asg[a].parent = 0 \/ asg[asg[a].parent].status \in Terminal THEN "ready" ELSE "waiting"

\* Mutant: what waited for the row is not released.
WakeNobody(asg, a) == asg

\* The trigger on rows that end: what waited for them becomes ready.
Wake(asg, a) ==
    [b \in Assignments |->
        IF /\ work.stop = "none" /\ asg[a].status \in Terminal
           /\ asg[b].parent = a /\ asg[b].status = "waiting"
        THEN [asg[b] EXCEPT !.status = "ready"]
        ELSE asg[b]]

\* Mutant: only a reservation that nobody holds is closed.
CloseUnclaimed(A, how) ==
    [a \in Assignments |->
        IF a \in A /\ reservation[a].status = "reserved"
        THEN [reservation[a] EXCEPT !.status = how] ELSE reservation[a]]

\* Reservations that end drop their lease (a trigger as well).
CloseAll(A, how) ==
    [a \in Assignments |->
        IF a \in A /\ reservation[a].status \in {"reserved", "claimed"}
        THEN [reservation[a] EXCEPT !.status = how, !.owner = "none", !.fresh = FALSE]
        ELSE reservation[a]]

Close(a, status) == CloseAll({a}, IF status = "completed" THEN "released" ELSE "cancelled")

-----------------------------------------------------------------------------
\* Requests of people.

Issue(action, target, state) ==
    /\ work.generation < MaxGeneration
    /\ control' = [control EXCEPT ![work.generation + 1] =
            [NoControl EXCEPT !.action = action, !.target = target, !.state = state]]

CancelBeforeRun(A) ==
    [a \in Assignments |->
        IF a \in A \cap BeforeRun THEN [assignment[a] EXCEPT !.status = "cancelled"]
                                  ELSE assignment[a]]

StopRequest ==
    /\ Issue("stop_request", 0, "accepted")
    /\ work' = [work EXCEPT !.stop = "requested", !.generation = @ + 1]
    /\ assignment' = CancelBeforeRun(Assignments)
    /\ reservation' = CloseAll(BeforeRun, "cancelled")

StopConfirm ==
    /\ work.stop = "requested"
    /\ Having(assignment, Active \cup {"outcome_unknown"}) = {}
    /\ Having(reservation, {"reserved", "claimed"}) = {}
    /\ Issue("stop_confirm", 0, "confirmed")
    /\ work' = [status |-> "cancelled", stop |-> "confirmed", generation |-> work.generation + 1]
    /\ UNCHANGED <<assignment, reservation>>

StopUnconfirmed ==
    /\ Issue("stop_unconfirmed", 0, "unconfirmed")
    /\ work' = [work EXCEPT !.stop = "unconfirmed", !.generation = @ + 1]
    /\ UNCHANGED <<assignment, reservation>>

\* One assignment and what continues it are stopped.  The others move to the
\* new generation: what is reserved, and what is claimed but has no Run yet.
\* A claim whose assignment has to wait again keeps its old generation, until
\* another stop finds it ready.
Regenerate(A) ==
    LET aside == Assignments \ A
        left == CancelBeforeRun(A)
        back == {a \in aside : /\ left[a].status = "running" /\ ~left[a].linked
                                /\ reservation[a].status = "claimed"}
        found == {a \in aside : /\ left[a].status = "ready" /\ ~left[a].linked
                                /\ reservation[a].status = "claimed"}
        moved == {a \in aside : /\ reservation[a].status = "reserved"
                                /\ left[a].status \in {"ready", "waiting"}}
                 \cup {a \in back : ReadyOrWaiting(left, a) = "ready"} \cup found
    IN /\ assignment' = [a \in Assignments |->
             IF a \in back THEN [left[a] EXCEPT !.status = ReadyOrWaiting(left, a)] ELSE left[a]]
       /\ reservation' = [a \in Assignments |->
             IF a \in moved
             THEN [NoReservation EXCEPT !.status = "reserved", !.generation = work.generation + 1]
             ELSE CloseAll(A \cap BeforeRun, "cancelled")[a]]

AssignmentStop(t) ==
    /\ assignment[t].status # "absent"
    /\ Issue("assignment_stop", t, "accepted")
    /\ work' = [work EXCEPT !.generation = @ + 1]
    /\ Regenerate(Tree(t))

\* A reply continues an assignment: after it when one is active, at once when
\* none is.  It is refused while an outcome is unknown.
Reply(source) ==
    LET active == Having(assignment, Active)
        new == Having(assignment, {"absent"})
    IN \E a \in new :
       /\ \A b \in new : a <= b
       /\ work.stop \in {"none", "requested"}
       /\ assignment[source].status \notin {"absent", "outcome_unknown"}
       /\ Having(assignment, {"outcome_unknown"}) = {}
       /\ active # {} => source \in active
       /\ active # {} => \A b \in Having(assignment, {"waiting"}) : assignment[b].parent # source
       /\ assignment' = [assignment EXCEPT ![a] =
              [NoAssignment EXCEPT !.status = IF active = {} THEN "ready" ELSE "waiting",
                                   !.parent = source]]
       /\ reservation' = [reservation EXCEPT ![a] =
              [NoReservation EXCEPT !.status = "reserved", !.generation = work.generation]]
       /\ work' = [work EXCEPT !.status = IF active = {} THEN "queued" ELSE @]
       /\ UNCHANGED control

-----------------------------------------------------------------------------
\* The launch lane.

\* Mutant: recovery looks only for claims that have a Run.
ExpiredLinked ==
    {a \in Assignments : /\ reservation[a].status = "claimed" /\ ~reservation[a].fresh
                         /\ assignment[a].status = "running" /\ assignment[a].linked}

Expired ==
    {a \in Assignments : /\ reservation[a].status = "claimed" /\ ~reservation[a].fresh
                         /\ assignment[a].status = "running"}

\* A stop or a newer generation has overtaken the claim.
Overtaken(a) ==
    \/ work.stop # "none"
    \/ AssignmentStopOpen(a)
    \/ reservation[a].generation # work.generation

\* Mutant: the link is dropped, so that the claim is launched afresh.
TakeOverAfresh(w, a) ==
    /\ a \in Expired /\ ~Overtaken(a) /\ assignment[a].linked
    /\ assignment' = [assignment EXCEPT ![a].linked = FALSE]
    /\ reservation' = [reservation EXCEPT ![a].owner = w, ![a].fresh = TRUE]
    /\ launch' = [launch EXCEPT ![w] = [NoLaunch EXCEPT
            !.pc = "claimed", !.a = a, !.generation = reservation[a].generation]]
    /\ UNCHANGED work

\* A claim looks at one expired lease first: with a Run it is taken over, not
\* run again; without a Run it is claimed anew, or cancelled when overtaken.
\* One that is overtaken but has a Run is left alone, and the claim ends.
TakeOver(w, a) ==
    /\ a \in Expired /\ ~Overtaken(a) /\ assignment[a].linked
    /\ reservation' = [reservation EXCEPT ![a].owner = w, ![a].fresh = TRUE]
    /\ launch' = [launch EXCEPT ![w] = [NoLaunch EXCEPT
            !.pc = "recovering", !.a = a, !.generation = reservation[a].generation]]
    /\ UNCHANGED <<work, assignment>>

Abandon(a) ==
    /\ a \in Expired /\ Overtaken(a) /\ ~assignment[a].linked
    /\ assignment' = Wake([assignment EXCEPT ![a].status = "cancelled",
                                             ![a].result = "cancelled"], a)
    /\ reservation' = Close(a, "cancelled")
    /\ UNCHANGED <<work, launch>>

Claimable(a) ==
    \/ /\ Expired = {} /\ work.stop = "none"
       /\ assignment[a].status = "ready" /\ reservation[a].status = "reserved"
       /\ reservation[a].generation = work.generation
    \/ /\ a \in Expired /\ ~Overtaken(a) /\ ~assignment[a].linked
       /\ ReadyOrWaiting(assignment, a) = "ready"

Claim(w, a) ==
    /\ Claimable(a)
    /\ assignment' = [assignment EXCEPT ![a].status = "running"]
    /\ reservation' = [reservation EXCEPT ![a].status = "claimed", ![a].owner = w, ![a].fresh = TRUE]
    /\ work' = [work EXCEPT !.status = "running"]
    /\ launch' = [launch EXCEPT ![w] = [NoLaunch EXCEPT
            !.pc = "claimed", !.a = a, !.generation = reservation[a].generation]]

\* What the instruction refers to cannot be read: the claim fails at once.
FailPreflight(a) ==
    LET failed == [assignment EXCEPT ![a].status = "failed", ![a].result = "failed"]
        after == Wake(failed, a)
    IN /\ Claimable(a)
       /\ assignment' = after
       /\ reservation' = Close(a, "failed")
       /\ work' = [work EXCEPT !.status = IF Having(after, Active) = {} THEN "failed" ELSE "waiting"]
       /\ UNCHANGED launch

ClaimReservation(w) ==
    /\ launch[w].pc = "idle"
    /\ \E a \in Assignments : TakeOver(w, a) \/ Abandon(a) \/ Claim(w, a) \/ FailPreflight(a)
    /\ UNCHANGED <<control, outcome, launched, dispatch, crashes>>

\* The lane goes on, or has an outcome to settle.
To(w, pc) == launch' = [launch EXCEPT ![w].pc = pc]

ToSettle(w, status, linked) ==
    launch' = [launch EXCEPT ![w].pc = "settling", ![w].status = status, ![w].linked = linked]

Holds(w, a) ==
    /\ reservation[a].status = "claimed" /\ reservation[a].owner = w
    /\ reservation[a].generation = launch[w].generation

\* The admission of the Run and its link to the assignment are one transaction.
AdmissionOpen(w, a) ==
    /\ work.stop = "none" /\ work.generation = launch[w].generation
    /\ assignment[a].status = "running" /\ ~assignment[a].linked
    /\ ~AssignmentStopOpen(a)
    /\ Holds(w, a) /\ reservation[a].fresh

Admit(w) ==
    /\ launch[w].pc = "claimed"
    /\ LET a == launch[w].a
       IN IF AdmissionOpen(w, a)
          THEN /\ assignment' = [assignment EXCEPT ![a].linked = TRUE]
               /\ outcome' = [outcome EXCEPT ![a] = "open"]
               /\ launched' = [launched EXCEPT ![a] = @ + 1]
               /\ To(w, "admitted")
          ELSE /\ ToSettle(w, "cancelled", FALSE)
               /\ UNCHANGED <<assignment, outcome, launched>>
    /\ UNCHANGED <<work, reservation, control, dispatch, crashes>>

Start(w) ==
    /\ launch[w].pc = "admitted"
    /\ To(w, "awaiting")
    /\ UNCHANGED <<rows, outcome, launched, dispatch, crashes>>

\* The attachments of an admitted Run cannot be written: the Run is taken back.
Discard(w) ==
    LET a == launch[w].a
        failed == [assignment EXCEPT ![a].status = "failed", ![a].linked = FALSE,
                                     ![a].result = "failed"]
    IN /\ launch[w].pc = "admitted"
       /\ work.stop = "none" /\ work.generation = launch[w].generation
       /\ assignment[a].status = "running" /\ assignment[a].linked
       /\ Run!Withdraw(a)
       /\ assignment' = Wake(failed, a)
       /\ reservation' = Close(a, "failed")
       /\ ToSettle(w, "failed", FALSE)
       /\ UNCHANGED <<work, control, launched, dispatch, crashes>>

\* The turn throws: before the admission, or while its Run is anywhere.
Throw(w) ==
    /\ launch[w].pc \in {"claimed", "awaiting"}
    /\ \E status \in {"failed", "outcome_unknown"} : ToSettle(w, status, FALSE)
    /\ UNCHANGED <<rows, outcome, launched, dispatch, crashes>>

\* terminalStatus, and what is left of it when the evidence cannot be read.
Reported(o) ==
    CASE o = "completed" -> {"completed", "failed", "outcome_unknown"}
      [] o = "waiting" -> {"waiting"}
      [] o \in {"failed", "cancelled"} -> {o}
      [] OTHER -> {"outcome_unknown"}

Return(w) ==
    /\ launch[w].pc = "awaiting"
    /\ outcome[launch[w].a] # "open"
    /\ \E status \in Reported(outcome[launch[w].a]) : ToSettle(w, status, TRUE)
    /\ UNCHANGED <<rows, outcome, launched, dispatch, crashes>>

\* Mutant: a Run that waits for input counts as done.
RecoveredWaiting(o) ==
    IF o = "waiting" THEN {"completed"} ELSE {"outcome_unknown"} \cup ({o} \cap Terminal)

\* recoveryTerminalStatus, and a Run whose evidence cannot be read.
Recovered(o) == {"outcome_unknown"} \cup ({o} \cap Terminal)

Recover(w) ==
    /\ launch[w].pc = "recovering"
    /\ \E status \in Recovered(outcome[launch[w].a]) : ToSettle(w, status, TRUE)
    /\ UNCHANGED <<rows, outcome, launched, dispatch, crashes>>

\* samurai_settle_human_work_assignment: a row that ended is left as it is, a
\* lost lease or a stale generation is refused unless the Run is evidence.
Stale(w) == work.generation # launch[w].generation

StaleSafe(w, a, status, linked) ==
    \/ status = "outcome_unknown" /\ linked
    \/ status = "cancelled" /\ ~linked /\ ~assignment[a].linked /\ work.stop # "none"
    \/ status \in Terminal /\ linked /\ outcome[a] = status

SettleAccepted(w) ==
    LET a == launch[w].a
        status == launch[w].status
        linked == launch[w].linked
    IN /\ \/ assignment[a].status = "running" /\ Holds(w, a)
          \/ assignment[a].status = "outcome_unknown"
       /\ linked => assignment[a].linked
       /\ Stale(w) => StaleSafe(w, a, status, linked)
       /\ status \in Terminal /\ ~linked =>
              Stale(w) /\ status = "cancelled" /\ ~assignment[a].linked

\* The work follows the last assignment that settles.
WorkAfter(asg, status) ==
    LET stop == IF status = "outcome_unknown" /\ work.stop = "requested"
                THEN "unconfirmed" ELSE work.stop
        ended == Having(asg, Active) = {} /\ status \in {"completed", "failed"}
    IN [work EXCEPT
          !.stop = stop,
          !.status = CASE stop = "confirmed" -> "cancelled"
                       [] stop = "unconfirmed" -> @
                       [] OTHER -> IF ended THEN status ELSE "waiting"]

Settle(w) ==
    LET a == launch[w].a
        status == launch[w].status
        after == Wake([assignment EXCEPT ![a].status = status, ![a].result = status], a)
    IN /\ launch[w].pc = "settling"
       /\ launch' = [launch EXCEPT ![w] = NoLaunch]
       /\ IF SettleAccepted(w)
          THEN /\ assignment' = after
               /\ reservation' = Close(a, status)
               /\ work' = IF Stale(w) THEN work ELSE WorkAfter(after, status)
          ELSE UNCHANGED <<work, assignment, reservation>>
       /\ UNCHANGED <<control, outcome, launched, dispatch, crashes>>

-----------------------------------------------------------------------------
\* The stop lane.

\* A stop of the whole work counts for its own generation only.
Current(c) == control[c].action = "stop_request" => c = work.generation

\* What a control says once the assignments and reservations in its scope are counted.
StopState(asg, open, scope) ==
    IF \E a \in scope : asg[a].status \in Active \/ a \in open THEN "pending"
    ELSE IF \E a \in scope : asg[a].status = "outcome_unknown" THEN "unconfirmed"
    ELSE "confirmed"

WorkStopped(c, state) ==
    IF control[c].action # "stop_request" \/ state = "pending" THEN work
    ELSE [work EXCEPT !.stop = state,
                      !.status = IF state = "confirmed" THEN "cancelled" ELSE @]

ClaimStop(w, c) ==
    LET scope == Scope(c)
        targets == {a \in scope : assignment[a].status \in {"running", "outcome_unknown"}}
        state == StopState(assignment, Having(reservation, {"claimed"}), scope)
    IN /\ dispatch[w].pc = "idle"
       /\ control[c].action \in {"stop_request", "assignment_stop"}
       /\ Current(c)
       /\ control[c].state \in Dispatchable
       /\ control[c].state = "pending" => ~control[c].fresh \/ control[c].owner = w
       /\ control' = [control EXCEPT ![c].state = state,
              ![c].owner = IF state = "pending" THEN w ELSE "none",
              ![c].fresh = (state = "pending")]
       /\ work' = WorkStopped(c, state)
       /\ dispatch' = IF targets = {} THEN dispatch
                      ELSE [dispatch EXCEPT ![w] = [NoDispatch EXCEPT
                               !.pc = "cancel", !.c = c, !.targets = targets,
                               !.linked = {a \in targets : assignment[a].linked}]]
       /\ UNCHANGED <<assignment, reservation, outcome, launched, launch, crashes>>

\* stopOutcome: anything but an ended Run is unknown.
StopOutcome(o) == IF o \in Terminal THEN o ELSE "outcome_unknown"

\* The worker cancels the Run of one target; the call may throw.
CancelTarget(w) ==
    /\ dispatch[w].pc = "cancel"
    /\ \E a \in dispatch[w].targets, status \in Terminal \cup {"outcome_unknown"} :
         /\ \/ UNCHANGED outcome /\ status = "outcome_unknown"
            \/ /\ a \in dispatch[w].linked
               /\ \/ UNCHANGED outcome
                  \/ /\ outcome[a] \in {"open", "waiting"}
                     /\ \E to \in {"cancelled", "unknown"} \cap Endings : Run!End(a, to)
               /\ status = StopOutcome(outcome'[a])
         /\ dispatch' = [dispatch EXCEPT ![w].pc = "reconcile", ![w].a = a, ![w].status = status]
    /\ UNCHANGED <<rows, launched, launch, crashes>>

HoldsStop(w) ==
    LET c == control[dispatch[w].c]
    IN c.state = "pending" /\ c.owner = w /\ c.fresh

\* The evidence of a target: the Run it named is still the one of the row.
StopEvidence(w) ==
    LET a == dispatch[w].a
    IN a \in dispatch[w].linked =>
         /\ assignment[a].linked
         /\ dispatch[w].status \in Terminal => outcome[a] = dispatch[w].status

\* A lost lease skips the target; any other refusal ends the tick.
NextTarget(w) ==
    LET left == dispatch[w].targets \ {dispatch[w].a}
    IN dispatch' = [dispatch EXCEPT ![w] =
           IF left = {} \/ (HoldsStop(w) /\ ~(Current(@.c) /\ StopEvidence(w))) THEN NoDispatch
           ELSE [@ EXCEPT !.pc = "cancel", !.targets = left, !.a = 0, !.status = "none"]]

\* samurai_reconcile_human_work_stop_dispatch
Reconcile(w) ==
    LET a == dispatch[w].a
        c == dispatch[w].c
        status == dispatch[w].status
        after == Wake([assignment EXCEPT ![a].status = status], a)
        closed == Close(a, status)
        open == Having(closed, {"reserved", "claimed"})
        unknown == \E b \in Scope(c) : after[b].status = "outcome_unknown"
        state == IF unknown THEN "unconfirmed" ELSE StopState(after, open, Scope(c))
    IN /\ dispatch[w].pc = "reconcile"
       /\ NextTarget(w)
       /\ IF HoldsStop(w) /\ Current(c) /\ StopEvidence(w)
          THEN /\ assignment' = after
               /\ reservation' = closed
               /\ control' = [control EXCEPT ![c].state = state,
                      ![c].owner = IF state = "pending" THEN @ ELSE "none",
                      ![c].fresh = (state = "pending")]
               /\ work' = WorkStopped(c, state)
          ELSE UNCHANGED rows
       /\ UNCHANGED <<outcome, launched, launch, crashes>>

-----------------------------------------------------------------------------
\* The Run goes on by itself, to what its own settlement records; input resumes
\* it while its assignment runs.
RunStep(a) ==
    /\ \/ Run!Pause(a)
       \/ /\ Run!Resume(a)
          /\ work.stop = "none" /\ reservation[a].generation = work.generation
          /\ assignment[a].status = "running" /\ assignment[a].linked
       \/ \E to \in Endings : Run!End(a, to)
    /\ UNCHANGED <<rows, launched, lanes, crashes>>

LaunchLeaseExpires(a) ==
    /\ reservation[a].fresh
    /\ reservation' = [reservation EXCEPT ![a].fresh = FALSE]
    /\ UNCHANGED <<work, assignment, control, outcome, launched, lanes, crashes>>

StopLeaseExpires(c) ==
    /\ control[c].fresh
    /\ control' = [control EXCEPT ![c].fresh = FALSE]
    /\ UNCHANGED <<work, assignment, reservation, outcome, launched, lanes, crashes>>

\* A worker process dies and comes back under its name.
Crash(w) ==
    /\ crashes < MaxCrashes
    /\ launch[w] # NoLaunch \/ dispatch[w] # NoDispatch
    /\ crashes' = crashes + 1
    /\ launch' = [launch EXCEPT ![w] = NoLaunch]
    /\ dispatch' = [dispatch EXCEPT ![w] = NoDispatch]
    /\ UNCHANGED <<rows, outcome, launched>>

Request ==
    /\ \/ StopRequest \/ StopConfirm \/ StopUnconfirmed
       \/ \E a \in Assignments : AssignmentStop(a) \/ Reply(a)
    /\ UNCHANGED <<outcome, launched, lanes, crashes>>

LaunchLane(w) ==
    \/ ClaimReservation(w) \/ Admit(w) \/ Start(w) \/ Discard(w)
    \/ Return(w) \/ Throw(w) \/ Recover(w) \/ Settle(w)

StopLane(w) ==
    \/ \E c \in Controls : ClaimStop(w, c)
    \/ CancelTarget(w) \/ Reconcile(w)

Next ==
    \/ Request
    \/ \E w \in Launchers : LaunchLane(w)
    \/ \E w \in Stoppers : StopLane(w)
    \/ \E w \in Workers : Crash(w)
    \/ \E a \in Assignments : RunStep(a) \/ LaunchLeaseExpires(a)
    \/ \E c \in Controls : StopLeaseExpires(c)

Spec == Init /\ [][Next]_vars

\* Both lanes run on timers of the supervisor, so what a lane can do it does;
\* the stop lane takes the control it touched longest ago; a lease that nobody
\* renews runs out; and a dispatch that is tried again and again is, some time,
\* faster than its lease.
FairSpec ==
    /\ Spec
    /\ \A w \in Launchers : /\ WF_vars(ClaimReservation(w)) /\ WF_vars(Admit(w))
                            /\ WF_vars(Start(w)) /\ WF_vars(Return(w))
                            /\ WF_vars(Recover(w)) /\ WF_vars(Settle(w))
    /\ \A w \in Stoppers : /\ \A c \in Controls : SF_vars(ClaimStop(w, c))
                           /\ WF_vars(CancelTarget(w)) /\ WF_vars(Reconcile(w))
                           /\ SF_vars(CancelTarget(w) /\ HoldsStop(w))
                           /\ SF_vars(Reconcile(w) /\ HoldsStop(w))
    /\ \A a \in Assignments : WF_vars(LaunchLeaseExpires(a))
    /\ \A c \in Controls : WF_vars(StopLeaseExpires(c))

-----------------------------------------------------------------------------
\* Whatever expires, dies, is stopped or is claimed again, an assignment is
\* given a Run at most once: recovery takes a linked Run over and only requeues
\* a claim that was admitted nowhere.
OneRunPerAssignment == \A a \in Assignments : launched[a] <= 1

\* The two rows of an assignment agree: what runs holds the claim, what is
\* claimed is active and, unless a stop has outdated the claim, runs, and only
\* what has not run is reserved.  Every settlement, stop, recovery and
\* regeneration has to write both.
ClaimedIsRunning ==
    \A a \in Assignments :
        /\ assignment[a].status = "running" => reservation[a].status = "claimed"
        /\ reservation[a].status = "claimed" =>
             IF reservation[a].generation = work.generation
             THEN assignment[a].status = "running" ELSE assignment[a].status \in Active
        /\ reservation[a].status = "reserved" => assignment[a].status \in {"ready", "waiting"}

\* An assignment is completed only by a Run of its own that completed, whether
\* its worker, a worker that took it over or the stop lane settles it.
CompletedIsReal == \A a \in Assignments :
    assignment[a].status = "completed" => outcome[a] = "completed"

\* No wake-up is lost: what is reserved to continue an assignment is ready as
\* soon as that one has ended, unless the work is being stopped.
ContinuationWakes == \A a \in Assignments :
    assignment[a].status = "waiting" /\ reservation[a].status = "reserved" /\ work.stop = "none"
        => assignment[assignment[a].parent].status \notin Terminal

\* Once a stop is confirmed nothing of the work is active, and no Run of it is
\* open except one that had been settled as waiting for input.
ConfirmedIsQuiet ==
    work.stop = "confirmed" => \A a \in Assignments :
        /\ assignment[a].status \notin Active
        /\ outcome[a] \in {"open", "waiting"} => assignment[a].result = "waiting"

\* A requested stop is answered: the stop lane confirms it or says that an
\* outcome is unknown, unless a later stop of one assignment has outdated it
\* or a reply has put a new assignment in its scope.
StopSettles ==
    work.stop = "requested" ~>
        \/ work.stop # "requested"
        \/ control[work.generation].action = "assignment_stop"
        \/ Having(assignment, {"ready", "waiting"}) # {}

\* A claim whose worker died is taken up by another one, unless a stop or a
\* newer generation has overtaken an assignment that has a Run.
Orphaned(a) ==
    assignment[a].status = "running" /\ \A w \in Workers : launch[w].a # a

OrphanRecovered == \A a \in Assignments :
    Orphaned(a) ~>
        \/ ~Orphaned(a)
        \/ \E b \in Having(assignment, {"running"}) : assignment[b].linked /\ Overtaken(b)

=============================================================================

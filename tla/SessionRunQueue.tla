---------------------------- MODULE SessionRunQueue ----------------------------
(***************************************************************************)
(* The process-local run queue of the Agent Host (packages/runtime/src/    *)
(* execution/session-run-queue.ts) together with the tasks and control     *)
(* requests that AgentHost (host/agent-host.ts) runs through it.           *)
(*                                                                         *)
(* JavaScript runs one callback at a time, so every synchronous stretch    *)
(* between two awaits is one action.  A task stands for one chat turn and  *)
(* the Run it executes.                                                    *)
(***************************************************************************)
EXTENDS Naturals, Sequences, FiniteSets

CONSTANTS
    Sessions,
    Tasks,           \* turns handed to enqueue
    SessionOf,       \* the session of each turn
    Controllers,     \* concurrently served cancel, resume and sync requests
    MaxConcurrency,
    Waits            \* how waiting Runs keep their backend: live, suspended

ASSUME QueueAssumption ==
    /\ IsFiniteSet(Sessions) /\ IsFiniteSet(Tasks) /\ SessionOf \in [Tasks -> Sessions]
    /\ MaxConcurrency \in Nat \ {0}
    /\ Waits \subseteq {"live", "suspended"}

VARIABLES
    queue,    \* the private fields of the SessionRunQueue
    task,     \* where each turn is
    serves,   \* the turn whose Run a turn answers with: its own, or a replayed one
    run,      \* what the store says of the Run of each turn
    control,  \* what each control request is in the middle of
    early,    \* history: sessions a control moved while a turn of theirs executed
    stale     \* history: sessions marked last for a Run that had already ended

history == <<early, stale>>
vars == <<queue, task, serves, run, control, history>>

\* A turn that returned with kind "waiting" is parked, any other one is done; one
\* that was rejected or aborted before it was started may be sent again.
TaskStates == {"new", "queued", "running", "paused", "marked", "parked", "done"}
Executing == {"running", "paused", "marked"}
Points == {"idle", "acquire", "poll", "call", "streaming", "release", "restore"}

Idle == [pc |-> "idle", op |-> "none", task |-> "none", lease |-> FALSE]
Requests == [pc : Points \ {"idle"}, op : {"cancel", "resume", "sync"}, task : Tasks,
             lease : BOOLEAN]

TypeOK ==
    /\ queue \in [lanes : [Sessions -> Seq(Tasks)],
                  activeSessions : SUBSET Sessions,
                  waitingSessions : [Sessions -> {"none", "live", "suspended"}],
                  active : Nat,
                  closed : BOOLEAN]
    /\ task \in [Tasks -> TaskStates]
    /\ serves \in [Tasks -> Tasks]
    /\ run \in [Tasks -> {"none", "open", "waiting", "settled"}]
    /\ control \in [Controllers -> Requests \cup {Idle}]
    /\ early \subseteq Sessions /\ stale \subseteq Sessions

Init ==
    /\ queue = [lanes |-> [s \in Sessions |-> <<>>], activeSessions |-> {},
                waitingSessions |-> [s \in Sessions |-> "none"], active |-> 0,
                closed |-> FALSE]
    /\ task = [t \in Tasks |-> "new"]
    /\ serves = [t \in Tasks |-> t]
    /\ run = [t \in Tasks |-> "none"]
    /\ control = [c \in Controllers |-> Idle]
    /\ early = {} /\ stale = {}

-----------------------------------------------------------------------------
\* The queue's own bookkeeping, on the record of its fields.

Waiting(q, s) == q.waitingSessions[s]
SetWaiting(q, s, w) == [q EXCEPT !.waitingSessions[s] = w]

\* Mutant: the counter is not kept from going below zero.
FreeSlotUnclamped(q) == [q EXCEPT !.active = @ - 1]

\* Math.max(0, active - 1)
FreeSlot(q) == [q EXCEPT !.active = IF @ = 0 THEN 0 ELSE @ - 1]

\* Mutant: a session is drained whether or not it is occupied.
StartableAlways(q) ==
    IF q.closed \/ q.active >= MaxConcurrency THEN {}
    ELSE {s \in Sessions : q.lanes[s] # <<>>}

\* The sessions drain may start a turn of.
Startable(q) ==
    IF q.closed \/ q.active >= MaxConcurrency THEN {}
    ELSE {s \in Sessions \ q.activeSessions : q.lanes[s] # <<>>}

Begin(q, S) ==
    [q EXCEPT !.lanes = [s \in Sessions |-> IF s \in S THEN Tail(@[s]) ELSE @[s]],
              !.activeSessions = @ \cup S,
              !.active = @ + Cardinality(S)]

Drain(q, s) == Begin(q, Startable(q) \cap {s})

\* Mutant: the turn that frees a slot only looks at its own lane.
DrainNobody(q, excluded) == {Begin(q, Startable(q) \cap {excluded})}

\* drainOtherSessions visits the lanes in the order of their Map entries,
\* which is left open: any sessions that fill the free slots may be started.
DrainOthers(q, excluded) ==
    LET ready == Startable(q) \ {excluded}
        free == MaxConcurrency - q.active
    IN {Begin(q, S) : S \in {R \in SUBSET ready :
          Cardinality(R) = IF Cardinality(ready) < free THEN Cardinality(ready) ELSE free}}

\* Mutant: a turn that ends leaves the next one of its own session queued.
DrainOthersOnly(q, s) == DrainOthers(q, s)

DrainBoth(q, s) == DrainOthers(Drain(q, s), s)

\* A waiting session keeps its lane, and its slot unless it is suspended.
FinishOf(q, s) ==
    CASE Waiting(q, s) = "none" ->
           DrainBoth(FreeSlot([q EXCEPT !.activeSessions = @ \ {s}]), s)
      [] Waiting(q, s) = "suspended" -> DrainOthers(FreeSlot(q), s)
      [] Waiting(q, s) = "live" -> DrainOthers(q, s)

\* Mutant: the slot is given back whether or not the session held one.
ReleaseAnySlot(q, s) ==
    IF Waiting(q, s) = "none" THEN {q}
    ELSE DrainBoth(FreeSlot([SetWaiting(q, s, "none") EXCEPT !.activeSessions = @ \ {s}]), s)

\* Mutant: only a live session is released.
ReleaseLive(q, s) ==
    IF Waiting(q, s) # "live" THEN {q}
    ELSE DrainBoth(FreeSlot([SetWaiting(q, s, "none") EXCEPT !.activeSessions = @ \ {s}]), s)

\* releaseSession
Release(q, s) ==
    LET open == [SetWaiting(q, s, "none") EXCEPT !.activeSessions = @ \ {s}]
    IN CASE Waiting(q, s) = "none" -> {q}
         [] Waiting(q, s) = "live" -> DrainBoth(FreeSlot(open), s)
         [] Waiting(q, s) = "suspended" -> DrainBoth(open, s)

\* The queue becomes q; turns that left their lane are running.
Become(q, states) ==
    /\ queue' = q
    /\ task' = [t \in Tasks |->
                  IF /\ states[t] = "queued"
                     /\ \A i \in DOMAIN q.lanes[SessionOf[t]] : q.lanes[SessionOf[t]][i] # t
                  THEN "running" ELSE states[t]]

-----------------------------------------------------------------------------
\* The life of a turn.

Enqueue(t) ==
    LET s == SessionOf[t] IN
    /\ task[t] = "new"
    /\ ~queue.closed
    /\ Become(Drain([queue EXCEPT !.lanes[s] = Append(@, t)], s),
              [task EXCEPT ![t] = "queued"])
    /\ UNCHANGED <<serves, run, control, history>>

\* The caller aborts before the turn was started: it leaves its lane.
Abort(t) ==
    LET lane == queue.lanes[SessionOf[t]] IN
    /\ task[t] = "queued"
    /\ task' = [task EXCEPT ![t] = "new"]
    /\ \E i \in DOMAIN lane :
         /\ lane[i] = t
         /\ queue' = [queue EXCEPT !.lanes[SessionOf[t]] =
                        SubSeq(lane, 1, i - 1) \o SubSeq(lane, i + 1, Len(lane))]
    /\ UNCHANGED <<serves, run, control, history>>

\* The turn is admitted with a new Run, or its request was admitted before and
\* it answers with that Run: one that waits is going to be marked again.
Admit(t) ==
    /\ task[t] = "running" /\ run[t] = "none" /\ serves[t] = t
    /\ \/ /\ run' = [run EXCEPT ![t] = "open"]
          /\ UNCHANGED <<task, serves>>
       \/ \E u \in Tasks :
            /\ u # t /\ SessionOf[u] = SessionOf[t] /\ run[u] # "none"
            /\ serves' = [serves EXCEPT ![t] = u]
            /\ task' = [task EXCEPT ![t] = IF run[u] = "waiting" THEN "paused" ELSE @]
            /\ UNCHANGED run
    /\ UNCHANGED <<queue, control, history>>

\* The backend asks for input, or goes on by itself after it asked: the Run
\* waits in the store while its turn still consumes the stream.
Pause(t) ==
    /\ serves[t] = t /\ Waits # {}
    /\ \/ /\ task[t] = "running" /\ run[t] \in {"open", "waiting"}
          /\ task' = [task EXCEPT ![t] = "paused"]
          /\ run' = [run EXCEPT ![t] = "waiting"]
       \/ /\ task[t] = "paused" /\ run[t] = "waiting"
          /\ task' = [task EXCEPT ![t] = "running"]
          /\ run' = [run EXCEPT ![t] = "open"]
    /\ UNCHANGED <<queue, serves, control, history>>

\* markWaiting, from the Run the turn holds in memory.
MarkWaiting(t) ==
    LET s == SessionOf[t] IN
    /\ task[t] = "paused"
    /\ task' = [task EXCEPT ![t] = "marked"]
    /\ IF s \in queue.activeSessions
       THEN /\ \E w \in Waits : queue' = SetWaiting(queue, s, w)
            /\ stale' = IF run[serves[t]] = "settled" THEN stale \cup {s} ELSE stale \ {s}
       ELSE UNCHANGED <<queue, stale>>
    /\ UNCHANGED <<serves, run, control, early>>

\* The promise of the turn settles.  A turn that was not marked has settled its
\* Run, unless it threw before it was admitted, in the admission guard or while
\* it settled the Run; a replay leaves the Run alone.
Finish(t) ==
    /\ task[t] \in Executing
    /\ UNCHANGED <<serves, control, history>>
    /\ \/ UNCHANGED run
       \/ /\ task[t] # "marked" /\ serves[t] = t /\ run[t] # "none"
          /\ run' = [run EXCEPT ![t] = "settled"]
    /\ \E q \in FinishOf(queue, SessionOf[t]) :
         Become(q, [task EXCEPT ![t] = IF @ = "marked" THEN "parked" ELSE "done"])

-----------------------------------------------------------------------------
\* cancelRun, resumeRun and syncRun of the Agent Host.

At(c, pc) == control[c].pc = pc
Goto(c, pc) == control' = [control EXCEPT ![c].pc = pc]
Return(c) == control' = [control EXCEPT ![c] = Idle]

SessionOfControl(c) == SessionOf[control[c].task]

\* A turn of the session has been started and has not returned.
Occupied(s) == \E t \in Tasks : SessionOf[t] = s /\ task[t] \in Executing

\* The control changes the waiting entry of s.
Moves(s) == early' = IF Occupied(s) THEN early \cup {s} ELSE early

\* A client may address any Run at any time, and any number of them at once.
StartControl(c, t, op) ==
    /\ At(c, "idle") /\ run[t] # "none"
    /\ control' = [control EXCEPT ![c] =
                     [pc |-> IF op = "cancel" THEN "call" ELSE "acquire", op |-> op,
                      task |-> t, lease |-> FALSE]]
    /\ UNCHANGED <<queue, task, serves, run, history>>

\* acquireControl: a suspended session needs a slot again, and polls for it.
Acquire(c) ==
    LET s == SessionOfControl(c)
        suspended == Waiting(queue, s) = "suspended"
    IN
    /\ control[c].pc \in {"acquire", "poll"}
    /\ \/ /\ ~suspended /\ (At(c, "acquire") \/ ~queue.closed)
          /\ Goto(c, "call")
          /\ UNCHANGED <<queue, early>>
       \/ /\ suspended /\ ~queue.closed /\ queue.active < MaxConcurrency
          /\ control' = [control EXCEPT ![c].pc = "call", ![c].lease = TRUE]
          /\ queue' = [SetWaiting(queue, s, "live") EXCEPT !.active = @ + 1]
          /\ Moves(s)
       \/ /\ suspended /\ ~queue.closed /\ queue.active >= MaxConcurrency
          /\ IF At(c, "acquire") THEN Goto(c, "poll") ELSE Return(c)
          /\ UNCHANGED <<queue, early>>
       \/ /\ queue.closed /\ (suspended \/ At(c, "poll"))
          /\ Return(c)
          /\ UNCHANGED <<queue, early>>
    /\ UNCHANGED <<task, serves, run, stale>>

\* RunControl.cancel, resume and sync as far as the queue can tell: the Run is
\* settled or was settled before, a stream is opened, a sync without one leaves
\* the Run as it is, or the call throws.
Call(c) ==
    LET t == control[c].task
        op == control[c].op
    IN
    /\ At(c, "call")
    /\ \/ /\ \/ op = "cancel"
             \/ op = "resume" /\ run[t] # "open"
             \/ op = "sync" /\ run[t] = "settled"
          /\ run' = [run EXCEPT ![t] = "settled"]
          /\ Goto(c, "release")
       \/ /\ \/ op = "resume" /\ run[t] = "waiting"
             \/ op = "sync" /\ run[t] # "settled"
          /\ control' = [control EXCEPT ![c].pc = "streaming", ![c].op = "resume"]
          /\ UNCHANGED run
       \/ /\ op = "sync" /\ run[t] = "waiting"
          /\ Return(c)
          /\ UNCHANGED run
       \/ Goto(c, "restore") /\ UNCHANGED run
    /\ UNCHANGED <<queue, task, serves, history>>

\* The stream of a resume or a sync: the backend has started again, the Run
\* ends (or has ended meanwhile), it waits for input once more, or the
\* settlement throws.
Stream(c) ==
    LET t == control[c].task IN
    /\ At(c, "streaming")
    /\ \/ /\ run[t] = "waiting"
          /\ run' = [run EXCEPT ![t] = "open"]
          /\ UNCHANGED control
       \/ run' = [run EXCEPT ![t] = "settled"] /\ Goto(c, "release")
       \/ /\ run' = [run EXCEPT ![t] = IF @ = "open" THEN "waiting" ELSE @]
          /\ Return(c)
       \/ Goto(c, "restore") /\ UNCHANGED run
    /\ UNCHANGED <<queue, task, serves, history>>

ReleaseSession(c) ==
    LET s == SessionOfControl(c) IN
    /\ At(c, "release")
    /\ \E q \in Release(queue, s) : Become(q, task)
    /\ IF Waiting(queue, s) # "none" THEN Moves(s) ELSE UNCHANGED early
    /\ stale' = stale \ {s}
    /\ Return(c)
    /\ UNCHANGED <<serves, run>>

\* restoreSuspended of the lease, if one was taken.
Restore(c) ==
    LET s == SessionOfControl(c) IN
    /\ At(c, "restore")
    /\ IF control[c].lease /\ Waiting(queue, s) = "live"
       THEN /\ \E q \in DrainOthers(FreeSlot(SetWaiting(queue, s, "suspended")), s) :
                 Become(q, task)
            /\ Moves(s)
       ELSE UNCHANGED <<queue, task, early>>
    /\ Return(c)
    /\ UNCHANGED <<serves, run, stale>>

\* close rejects what is queued and releases what waits.
Close ==
    LET waiting == {s \in Sessions : Waiting(queue, s) # "none"}
        live == Cardinality({s \in waiting : Waiting(queue, s) = "live"})
    IN
    /\ ~queue.closed
    /\ queue' = [lanes |-> [s \in Sessions |-> <<>>],
                 activeSessions |-> queue.activeSessions \ waiting,
                 waitingSessions |-> [s \in Sessions |-> "none"],
                 active |-> IF queue.active < live THEN 0 ELSE queue.active - live,
                 closed |-> TRUE]
    /\ task' = [t \in Tasks |-> IF task[t] = "queued" THEN "new" ELSE task[t]]
    /\ stale' = {}
    /\ UNCHANGED <<serves, run, control, early>>

-----------------------------------------------------------------------------
TaskStep(t) ==
    Enqueue(t) \/ Abort(t) \/ Admit(t) \/ Pause(t) \/ MarkWaiting(t) \/ Finish(t)

ControlStep(c) ==
    \/ \E t \in Tasks, op \in {"cancel", "resume", "sync"} : StartControl(c, t, op)
    \/ Acquire(c) \/ Call(c) \/ Stream(c) \/ ReleaseSession(c) \/ Restore(c)

Next == (\E t \in Tasks : TaskStep(t)) \/ (\E c \in Controllers : ControlStep(c)) \/ Close

Spec == Init /\ [][Next]_vars

\* A turn that was started returns in the end: the queue has no timeout for one
\* whose backend never closes its stream.  Finish is enabled as long as a turn
\* executes, so this is its weak fairness.
FairSpec == Spec /\ \A t \in Tasks : []<>(task[t] \notin Executing)

-----------------------------------------------------------------------------
\* Properties.

\* The sessions whose entry "live" keeps a slot after their turns returned.
Parked == {s \in Sessions : Waiting(queue, s) = "live" /\ ~Occupied(s)}

\* The slots in use: one per executing turn and per such session.
InUse == Cardinality({t \in Tasks : task[t] \in Executing}) + Cardinality(Parked)

\* Turns of one session run one after the other
\* (session-run-queue.test.ts:5, "serializes one session"): no two of them are
\* with their backends at once.
SessionSerial ==
    \A t, u \in Tasks :
        /\ SessionOf[t] = SessionOf[u]
        /\ {task[t], task[u]} \subseteq {"running", "paused"}
        => t = u

\* The lane of a session is broken up in one way only: two of its turns execute
\* together only after a control released the session, or took or gave back its
\* slot, while a turn that had marked it was still to return.
OverlapsAreEarly ==
    \A t, u \in Tasks :
        /\ t # u /\ SessionOf[t] = SessionOf[u]
        /\ {task[t], task[u]} \subseteq Executing
        => SessionOf[t] \in early

\* Until a control comes early in that sense in some session, the slot counter
\* of the open queue is exact, whatever the order of aborts, replays, failing
\* turns, stale leases and controls of any Run.
SlotsExact == ~queue.closed /\ early = {} => queue.active = InUse

\* No wake-up is lost: a turn is left queued only while its session is
\* occupied or every slot is taken.
WorkConserving ==
    \A t \in Tasks : task[t] = "queued" =>
        SessionOf[t] \in queue.activeSessions \/ queue.active >= MaxConcurrency

\* A session stays marked only for a Run that has not ended or that some
\* control is about to release ("Releases a waiting lane after resume or cancel
\* has settled the Run").  The one exception while no control came early: the
\* turn that marked it last did so from a Run read before it ended.
LaneKeptForRun ==
    \A s \in Sessions :
        Waiting(queue, s) # "none" /\ s \notin stale \cup early =>
            \/ \E t \in Tasks : /\ SessionOf[t] = s /\ task[t] \in {"marked", "parked"}
                                /\ run[serves[t]] # "settled"
            \/ \E c \in Controllers : At(c, "release") /\ SessionOfControl(c) = s

\* A turn does not stay queued for ever, unless Runs that wait for input hold
\* its lane or every slot, or a slot was lost to a control that came early.
QueuedTurnLeaves ==
    \A t \in Tasks :
        task[t] = "queued"
          ~> \/ task[t] # "queued"
             \/ Waiting(queue, SessionOf[t]) # "none"
             \/ Cardinality({s \in Sessions : Waiting(queue, s) = "live"}) >= MaxConcurrency
             \/ queue.active > InUse

=============================================================================

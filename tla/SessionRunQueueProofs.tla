------------------------- MODULE SessionRunQueueProofs -------------------------
(* Theorems about SessionRunQueue: for any finite sets of sessions, turns and  *)
(* controls and any limit of concurrency.                                      *)
EXTENDS SessionRunQueue, FiniteSetTheorems, SequenceTheorems, TLAPS

-----------------------------------------------------------------------------
\* The fields of the queue: what its methods keep and what they add.

Queues ==
    [lanes : [Sessions -> Seq(Tasks)],
     activeSessions : SUBSET Sessions,
     waitingSessions : [Sessions -> {"none", "live", "suspended"}],
     active : Nat,
     closed : BOOLEAN]

Sane(q) ==
    /\ q \in Queues
    /\ q.active <= MaxConcurrency
    /\ \A s \in Sessions : q.waitingSessions[s] # "none" => s \in q.activeSessions
    /\ q.closed => \A s \in Sessions : q.lanes[s] = <<>>

\* A lane with queued turns is occupied, or every slot is taken.
Served(q, s) == q.lanes[s] # <<>> => s \in q.activeSessions \/ q.active = MaxConcurrency

\* From q to r lanes were drained: the first turn of a lane that was free started,
\* and each of those turns took a slot.
Drained(q, r) ==
    /\ r.waitingSessions = q.waitingSessions /\ r.closed = q.closed
    /\ q.activeSessions \subseteq r.activeSessions
    /\ r.active = q.active + Cardinality(r.activeSessions \ q.activeSessions)
    /\ \A s \in Sessions :
         \/ /\ r.lanes[s] = q.lanes[s]
            /\ s \in r.activeSessions => s \in q.activeSessions
         \/ /\ s \in r.activeSessions \ q.activeSessions
            /\ q.lanes[s] # <<>> /\ r.lanes[s] = Tail(q.lanes[s])

LEMMA DrainedTwice ==
  ASSUME NEW p, NEW q, NEW r, Sane(p), Sane(q), Sane(r), Drained(p, q), Drained(q, r)
  PROVE  Drained(p, r)
  <1> DEFINE S == q.activeSessions \ p.activeSessions
             T == r.activeSessions \ q.activeSessions
  <1>1. S \in SUBSET Sessions /\ T \in SUBSET Sessions
    BY DEF Sane, Queues
  <1>2. /\ IsFiniteSet(S) /\ Cardinality(S) \in Nat
        /\ IsFiniteSet(T) /\ Cardinality(T) \in Nat
    BY <1>1, FS_Subset, FS_CardinalityType, QueueAssumption
  <1>3. r.activeSessions \ p.activeSessions = S \cup T /\ S \cap T = {}
    BY DEF Drained
  <1>4. Cardinality(S \cup T) = Cardinality(S) + Cardinality(T)
    <2> HIDE DEF S, T
    <2>1. Cardinality(S \cap T) = 0
      BY <1>3, FS_EmptySet
    <2>2. Cardinality(S \cup T) = Cardinality(S) + Cardinality(T) - Cardinality(S \cap T)
      BY <1>2, FS_Union
    <2> QED BY <1>2, <2>1, <2>2
  <1>5. p.active \in Nat /\ q.active = p.active + Cardinality(S)
          /\ r.active = q.active + Cardinality(T)
    BY DEF Drained, Sane, Queues
  <1>6. r.active = p.active + Cardinality(r.activeSessions \ p.activeSessions)
    <2> HIDE DEF S, T
    <2>1. Cardinality(r.activeSessions \ p.activeSessions) = Cardinality(S) + Cardinality(T)
      BY <1>3, <1>4
    <2>2. \A k, m, n \in Nat : (k + m) + n = k + (m + n)
      OBVIOUS
    <2> QED BY <1>2, <1>5, <2>1, <2>2
  <1> QED BY <1>6 DEF Drained

LEMMA BeginDrains ==
  ASSUME NEW q, Sane(q), NEW S \in SUBSET Startable(q),
         q.active + Cardinality(S) <= MaxConcurrency
  PROVE  /\ Sane(Begin(q, S)) /\ Drained(q, Begin(q, S))
         /\ Begin(q, S).activeSessions = q.activeSessions \cup S
         /\ Begin(q, S).active = q.active + Cardinality(S)
         /\ \A s \in Sessions : Served(q, s) => Served(Begin(q, S), s)
  <1> DEFINE r == Begin(q, S)
  <1>1. Startable(q) \subseteq Sessions \ q.activeSessions
    BY DEF Startable
  <1>2. IsFiniteSet(S) /\ Cardinality(S) \in Nat
    BY <1>1, FS_Subset, FS_CardinalityType, QueueAssumption
  <1>3. \A s \in S : q.lanes[s] # <<>> /\ ~q.closed
    BY DEF Startable
  <1>4. /\ r.lanes = [s \in Sessions |-> IF s \in S THEN Tail(q.lanes[s]) ELSE q.lanes[s]]
        /\ r.activeSessions = q.activeSessions \cup S
        /\ r.active = q.active + Cardinality(S)
        /\ r.waitingSessions = q.waitingSessions /\ r.closed = q.closed
    BY DEF Sane, Queues, Begin
  <1>5. r.lanes \in [Sessions -> Seq(Tasks)]
    <2>1. \A s \in S : Tail(q.lanes[s]) \in Seq(Tasks)
      BY <1>1, <1>3 DEF Sane, Queues
    <2>2. \A s \in Sessions : q.lanes[s] \in Seq(Tasks)
      BY DEF Sane, Queues
    <2> QED BY <1>4, <2>1, <2>2
  <1>6. r \in Queues
    <2>1. r = [q EXCEPT !.lanes = r.lanes, !.activeSessions = r.activeSessions,
                        !.active = r.active]
      <3> DEFINE l == [s \in Sessions |-> IF s \in S THEN Tail(q.lanes[s]) ELSE q.lanes[s]]
                 a == q.activeSessions \cup S
                 n == q.active + Cardinality(S)
      <3>1. r = [q EXCEPT !.lanes = l, !.activeSessions = a, !.active = n]
        BY DEF Begin
      <3>2. r.lanes = l /\ r.activeSessions = a /\ r.active = n
        BY <1>4
      <3> HIDE DEF l, a, n, r
      <3> QED BY <3>1, <3>2
    <2>2. r.activeSessions \in SUBSET Sessions /\ r.active \in Nat
      BY <1>1, <1>2, <1>4 DEF Sane, Queues
    <2> HIDE DEF r
    <2> QED BY <1>5, <2>1, <2>2 DEF Sane, Queues
  <1> HIDE DEF r
  <1>7. Sane(r)
    BY <1>2, <1>3, <1>4, <1>6 DEF Sane, Queues
  <1>8. Drained(q, r)
    <2>1. r.activeSessions \ q.activeSessions = S
      BY <1>1, <1>4
    <2> QED BY <1>1, <1>3, <1>4, <2>1 DEF Drained
  <1>9. \A s \in Sessions : Served(q, s) => Served(r, s)
    BY <1>2, <1>3, <1>4, <1>7 DEF Served, Sane, Queues
  <1> QED BY <1>4, <1>7, <1>8, <1>9 DEF r

LEMMA DrainServes ==
  ASSUME NEW q, Sane(q), NEW s \in Sessions
  PROVE  LET r == Drain(q, s) IN
         /\ Sane(r) /\ Drained(q, r) /\ Served(r, s)
         /\ \A x \in Sessions : Served(q, x) => Served(r, x)
  <1> DEFINE S == Startable(q) \cap {s}
  <1>1. S = {} \/ S = {s}
    OBVIOUS
  <1>2. Cardinality(S) = IF S = {} THEN 0 ELSE 1
    BY <1>1, FS_EmptySet, FS_Singleton
  <1>3. q.active + Cardinality(S) <= MaxConcurrency
    BY <1>2, QueueAssumption DEF Startable, Sane, Queues
  <1>4. /\ Sane(Begin(q, S)) /\ Drained(q, Begin(q, S))
        /\ Begin(q, S).activeSessions = q.activeSessions \cup S
        /\ Begin(q, S).active = q.active + Cardinality(S)
        /\ \A x \in Sessions : Served(q, x) => Served(Begin(q, S), x)
    BY <1>3, BeginDrains
  <1>5. Served(Begin(q, S), s)
    <2>1. CASE s \in Startable(q)
      BY <1>4, <2>1 DEF Served
    <2>2. CASE s \notin Startable(q)
      <3>1. s \in q.activeSessions \/ q.active = MaxConcurrency \/ q.lanes[s] = <<>>
        BY <2>2, QueueAssumption DEF Startable, Sane, Queues
      <3> QED BY <1>4, <3>1 DEF Served
    <2> QED BY <2>1, <2>2
  <1> QED BY <1>4, <1>5 DEF Drain

LEMMA OthersServed ==
  ASSUME NEW q, Sane(q), NEW e \in Sessions, NEW r \in DrainOthers(q, e)
  PROVE  /\ Sane(r) /\ Drained(q, r)
         /\ \A s \in Sessions \ {e} : Served(r, s)
         /\ Served(q, e) => Served(r, e)
  <1> DEFINE ready == Startable(q) \ {e}
             free == MaxConcurrency - q.active
  <1>1. PICK S \in SUBSET ready :
          /\ r = Begin(q, S)
          /\ Cardinality(S) = IF Cardinality(ready) < free THEN Cardinality(ready) ELSE free
    BY DEF DrainOthers
  <1>2. IsFiniteSet(ready) /\ Cardinality(ready) \in Nat
    <2>1. ready \in SUBSET Sessions
      BY DEF Startable
    <2> QED BY <2>1, FS_Subset, FS_CardinalityType, QueueAssumption
  <1>3. free \in Nat /\ q.active + free = MaxConcurrency
    BY QueueAssumption DEF Sane, Queues
  <1>4. S \in SUBSET Startable(q) /\ q.active + Cardinality(S) <= MaxConcurrency
    BY <1>1, <1>2, <1>3, QueueAssumption DEF Sane, Queues
  <1>5. /\ Sane(r) /\ Drained(q, r)
        /\ r.activeSessions = q.activeSessions \cup S
        /\ r.active = q.active + Cardinality(S)
        /\ \A s \in Sessions : Served(q, s) => Served(r, s)
    BY <1>1, <1>4, BeginDrains
  <1>6. ASSUME NEW s \in Sessions \ {e}
        PROVE  Served(r, s)
    <2>1. CASE Cardinality(ready) < free
      <3>1. S = ready
        BY <1>1, <1>2, <2>1, FS_Subset
      <3>2. CASE s \in ready
        BY <1>5, <3>1, <3>2 DEF Served
      <3>3. CASE s \notin ready
        <4>1. s \in q.activeSessions \/ q.active = MaxConcurrency \/ q.lanes[s] = <<>>
          BY <3>3, QueueAssumption DEF Startable, Sane, Queues
        <4> QED BY <1>5, <4>1 DEF Served
      <3> QED BY <3>2, <3>3
    <2>2. CASE ~(Cardinality(ready) < free)
      BY <1>1, <1>3, <1>5, <2>2 DEF Served
    <2> QED BY <2>1, <2>2
  <1> QED BY <1>5, <1>6

LEMMA BothServed ==
  ASSUME NEW q, Sane(q), NEW s \in Sessions, NEW r \in DrainBoth(q, s)
  PROVE  /\ Sane(r) /\ Drained(q, r)
         /\ \A x \in Sessions : Served(r, x)
  <1> DEFINE p == Drain(q, s)
  <1>1. Sane(p) /\ Drained(q, p) /\ Served(p, s)
    BY DrainServes
  <1>2. r \in DrainOthers(p, s)
    BY DEF DrainBoth
  <1> HIDE DEF p
  <1>3. /\ Sane(r) /\ Drained(p, r)
        /\ \A x \in Sessions \ {s} : Served(r, x)
        /\ Served(p, s) => Served(r, s)
    BY <1>1, <1>2, OthersServed
  <1>4. Drained(q, r)
    BY <1>1, <1>3, DrainedTwice
  <1> QED BY <1>1, <1>3, <1>4

LEMMA FreeSlotSane ==
  ASSUME NEW q, Sane(q)
  PROVE  LET r == FreeSlot(q) IN
         /\ Sane(r) /\ r.lanes = q.lanes /\ r.activeSessions = q.activeSessions
         /\ r.waitingSessions = q.waitingSessions /\ r.closed = q.closed
  <1> DEFINE n == IF q.active = 0 THEN 0 ELSE q.active - 1
             r == FreeSlot(q)
  <1>1. n \in Nat /\ n <= MaxConcurrency
    BY QueueAssumption DEF Sane, Queues
  <1>2. r = [q EXCEPT !.active = n]
    BY DEF FreeSlot
  <1> HIDE DEF n, r
  <1> QED BY <1>1, <1>2 DEF Sane, Queues, r

\* The queue with the lane of s open.
Opened(q, s) ==
    [q EXCEPT !.waitingSessions[s] = "none", !.activeSessions = @ \ {s}]

LEMMA OpenedSane ==
  ASSUME NEW q, Sane(q), NEW s \in Sessions
  PROVE  /\ Sane(Opened(q, s))
         /\ Opened(q, s).lanes = q.lanes
         /\ Opened(q, s).activeSessions = q.activeSessions \ {s}
         /\ Opened(q, s).waitingSessions = [q.waitingSessions EXCEPT ![s] = "none"]
         /\ Opened(q, s).closed = q.closed
  BY DEF Opened, Sane, Queues

\* What finish and releaseSession leave before lanes are drained.
Finished(q, s) ==
    CASE Waiting(q, s) = "none" -> FreeSlot(Opened(q, s))
      [] Waiting(q, s) = "suspended" -> FreeSlot(q)
      [] Waiting(q, s) = "live" -> q

Released(q, s) ==
    IF Waiting(q, s) = "live" THEN FreeSlot(Opened(q, s)) ELSE Opened(q, s)

LEMMA FinishServes ==
  ASSUME NEW q, Sane(q), NEW s \in Sessions, \A x \in Sessions : Served(q, x),
         NEW r \in FinishOf(q, s)
  PROVE  /\ Sane(r) /\ \A x \in Sessions : Served(r, x)
         /\ Sane(Finished(q, s)) /\ Drained(Finished(q, s), r)
  <1>1. Waiting(q, s) \in {"none", "live", "suspended"}
    BY DEF Waiting, Sane, Queues
  <1>2. CASE Waiting(q, s) = "none"
    <2> DEFINE o == [q EXCEPT !.activeSessions = @ \ {s}]
    <2>1. o = Opened(q, s)
      BY <1>2 DEF Opened, Waiting, Sane, Queues
    <2>2. Sane(o)
      BY <2>1, OpenedSane
    <2>3. r \in DrainBoth(FreeSlot(o), s)
      BY <1>2 DEF FinishOf
    <2> HIDE DEF o
    <2>4. Sane(FreeSlot(o))
      BY <2>2, FreeSlotSane
    <2>5. Sane(r) /\ Drained(FreeSlot(o), r) /\ \A x \in Sessions : Served(r, x)
      BY <2>3, <2>4, BothServed
    <2> QED BY <1>2, <2>1, <2>4, <2>5 DEF Finished
  <1>3. CASE Waiting(q, s) = "suspended"
    <2>1. r \in DrainOthers(FreeSlot(q), s)
      BY <1>3 DEF FinishOf
    <2>2. Sane(FreeSlot(q)) /\ FreeSlot(q).activeSessions = q.activeSessions
      BY FreeSlotSane
    <2>3. Served(FreeSlot(q), s)
      BY <1>3, <2>2 DEF Served, Waiting, Sane
    <2>4. Sane(r) /\ Drained(FreeSlot(q), r) /\ \A x \in Sessions : Served(r, x)
      BY <2>1, <2>2, <2>3, OthersServed
    <2> QED BY <1>3, <2>2, <2>4 DEF Finished
  <1>4. CASE Waiting(q, s) = "live"
    <2>1. r \in DrainOthers(q, s)
      BY <1>4 DEF FinishOf
    <2> QED BY <1>4, <2>1, OthersServed DEF Finished
  <1> QED BY <1>1, <1>2, <1>3, <1>4

LEMMA ReleaseServes ==
  ASSUME NEW q, Sane(q), NEW s \in Sessions, \A x \in Sessions : Served(q, x),
         NEW r \in Release(q, s)
  PROVE  /\ Sane(r) /\ \A x \in Sessions : Served(r, x)
         /\ IF Waiting(q, s) = "none" THEN r = q
            ELSE Sane(Released(q, s)) /\ Drained(Released(q, s), r)
  <1> DEFINE o == [SetWaiting(q, s, "none") EXCEPT !.activeSessions = @ \ {s}]
  <1>1. o = Opened(q, s)
    BY DEF SetWaiting, Opened, Sane, Queues
  <1>2. Sane(o)
    <2> HIDE DEF o
    <2> QED BY <1>1, OpenedSane
  <1>3. Waiting(q, s) \in {"none", "live", "suspended"}
    BY DEF Waiting, Sane, Queues
  <1>4. r \in (CASE Waiting(q, s) = "none" -> {q}
                 [] Waiting(q, s) = "live" -> DrainBoth(FreeSlot(o), s)
                 [] Waiting(q, s) = "suspended" -> DrainBoth(o, s))
    BY DEF Release
  <1> HIDE DEF o
  <1>5. CASE Waiting(q, s) = "none"
    BY <1>4, <1>5
  <1>6. CASE Waiting(q, s) = "live"
    <2>1. r \in DrainBoth(FreeSlot(o), s)
      BY <1>4, <1>6
    <2>2. Sane(FreeSlot(o))
      BY <1>2, FreeSlotSane
    <2>3. Sane(r) /\ Drained(FreeSlot(o), r) /\ \A x \in Sessions : Served(r, x)
      BY <2>1, <2>2, BothServed
    <2> QED BY <1>1, <1>6, <2>2, <2>3 DEF Released
  <1>7. CASE Waiting(q, s) = "suspended"
    <2>1. r \in DrainBoth(o, s)
      BY <1>4, <1>7
    <2>2. Sane(r) /\ Drained(o, r) /\ \A x \in Sessions : Served(r, x)
      BY <1>2, <2>1, BothServed
    <2> QED BY <1>1, <1>2, <1>7, <2>2 DEF Released
  <1> QED BY <1>3, <1>5, <1>6, <1>7

-----------------------------------------------------------------------------
\* The inductive invariant: what is queued is in the lane of its session, and
\* no lane that could be served is left alone.

InLane(t) == \E i \in DOMAIN queue.lanes[SessionOf[t]] : queue.lanes[SessionOf[t]][i] = t

QueueSound == Sane(queue) /\ \A s \in Sessions : Served(queue, s)

Placed == task \in [Tasks -> TaskStates] /\ \A t \in Tasks : task[t] = "queued" => InLane(t)

Known ==
    /\ serves \in [Tasks -> Tasks]
    /\ run \in [Tasks -> {"none", "open", "waiting", "settled"}]
    /\ control \in [Controllers -> Requests \cup {Idle}]
    /\ early \subseteq Sessions /\ stale \subseteq Sessions

IInv == QueueSound /\ Placed /\ Known

LEMMA BecomePlaced ==
  ASSUME NEW q, NEW states \in [Tasks -> TaskStates], Become(q, states)
  PROVE  Placed'
  BY QueueAssumption DEF Become, Placed, InLane, TaskStates

LEMMA InitIInv == Init => IInv
  BY QueueAssumption
     DEF Init, IInv, QueueSound, Placed, Known, Sane, Served, Queues, TaskStates, Requests, Idle

\* What a lane is after one of its entries has left.
LEMMA EntryRemoved ==
  ASSUME NEW old \in Seq(Tasks), NEW i \in 1 .. Len(old)
  PROVE  LET new == SubSeq(old, 1, i - 1) \o SubSeq(old, i + 1, Len(old)) IN
         /\ new \in Seq(Tasks) /\ Len(new) = Len(old) - 1
         /\ \A k \in 1 .. Len(new) : new[k] = IF k < i THEN old[k] ELSE old[k + 1]
  <1> DEFINE before == SubSeq(old, 1, i - 1)
             after == SubSeq(old, i + 1, Len(old))
             new == before \o after
  <1>a. /\ before \in Seq(Tasks) /\ Len(before) = i - 1
        /\ \A k \in 1 .. i - 1 : before[k] = old[k]
    BY SubSeqProperties
  <1>b. /\ after \in Seq(Tasks) /\ Len(after) = Len(old) - i
        /\ \A k \in 1 .. Len(old) - i : after[k] = old[i + k]
    BY SubSeqProperties
  <1>c. new = before \o after
    OBVIOUS
  <1> HIDE DEF before, after, new
  <1>i. i \in Nat /\ Len(old) \in Nat /\ i <= Len(old)
    OBVIOUS
  <1>1. new \in Seq(Tasks) /\ Len(new) = Len(old) - 1
    BY <1>i, <1>a, <1>b, <1>c, ConcatProperties
  <1>d. \A k \in 1 .. Len(new) : new[k] = IF k <= i - 1 THEN before[k] ELSE after[k - (i - 1)]
    BY <1>i, <1>a, <1>b, <1>c, ConcatProperties
  <1>2. ASSUME NEW k \in 1 .. Len(new)
        PROVE  new[k] = IF k < i THEN old[k] ELSE old[k + 1]
    <2>1. Len(old) \in Nat /\ i \in Nat /\ k \in Nat /\ Len(new) = Len(old) - 1
      BY <1>1
    <2>2. CASE k < i
      BY <1>a, <1>d, <2>1, <2>2
    <2>3. CASE ~(k < i)
      <3>1. k - (i - 1) \in 1 .. Len(old) - i /\ i + (k - (i - 1)) = k + 1
        BY <2>1, <2>3
      <3> QED BY <1>b, <1>d, <2>1, <2>3, <3>1
    <2> QED BY <2>2, <2>3
  <1> QED BY <1>1, <1>2 DEF new, before, after

LEMMA TaskIInv ==
  ASSUME IInv, NEW t \in Tasks, TaskStep(t)
  PROVE  IInv'
  <1> DEFINE s == SessionOf[t]
  <1>s. s \in Sessions
    BY QueueAssumption
  <1> USE DEF IInv
  <1>2. CASE Enqueue(t)
    <2> DEFINE lane == Append(queue.lanes[s], t)
               q == [queue EXCEPT !.lanes[s] = lane]
    <2>1. Become(Drain(q, s), [task EXCEPT ![t] = "queued"]) /\ UNCHANGED <<serves, run, control, history>>
      BY <1>2 DEF Enqueue
    <2>2. lane \in Seq(Tasks)
      BY <1>s DEF QueueSound, Sane, Queues
    <2> HIDE DEF lane
    <2>3. Sane(q) /\ \A x \in Sessions \ {s} : Served(q, x)
      BY <1>2, <2>2, <1>s DEF Enqueue, QueueSound, Sane, Queues, Served
    <2> HIDE DEF q
    <2>4. Sane(Drain(q, s)) /\ \A x \in Sessions : Served(Drain(q, s), x)
      BY <1>s, <2>3, DrainServes
    <2>5. QueueSound'
      BY <2>1, <2>4 DEF Become, QueueSound
    <2>6. [task EXCEPT ![t] = "queued"] \in [Tasks -> TaskStates]
      BY DEF Placed, TaskStates
    <2>7. Placed'
      BY <2>1, <2>6, BecomePlaced
    <2> QED BY <2>1, <2>5, <2>7 DEF Known, history
  <1>3. CASE Abort(t)
    <2>1. task' = [task EXCEPT ![t] = "new"] /\ Known'
      BY <1>3 DEF Abort, Known, history
    <2>3. ASSUME NEW i \in DOMAIN queue.lanes[s], task[t] = "queued", queue.lanes[s][i] = t,
                 queue' = [queue EXCEPT !.lanes[s] =
                             SubSeq(queue.lanes[s], 1, i - 1)
                               \o SubSeq(queue.lanes[s], i + 1, Len(queue.lanes[s]))]
          PROVE  QueueSound' /\ Placed'
      <3> DEFINE old == queue.lanes[s]
                 new == SubSeq(old, 1, i - 1) \o SubSeq(old, i + 1, Len(old))
      <3>1. old \in Seq(Tasks) /\ i \in 1 .. Len(old)
        BY <1>s DEF QueueSound, Sane, Queues
      <3> HIDE DEF old
      <3>2. new \in Seq(Tasks) /\ Len(new) = Len(old) - 1
        BY <3>1, EntryRemoved
      <3>3. \A k \in 1 .. Len(new) : new[k] = IF k < i THEN old[k] ELSE old[k + 1]
        BY <3>1, EntryRemoved
      <3> HIDE DEF new
      <3>4. \A k \in 1 .. Len(old) : k # i => \E m \in 1 .. Len(new) : new[m] = old[k]
        <4>1. SUFFICES ASSUME NEW k \in 1 .. Len(old), k # i
                       PROVE  \E m \in 1 .. Len(new) : new[m] = old[k]
          OBVIOUS
        <4>2. Len(old) \in Nat /\ i \in Nat /\ k \in Nat
          BY <3>1
        <4>3. CASE k < i
          <5>1. k \in 1 .. Len(new)
            BY <3>1, <3>2, <4>2, <4>3
          <5> QED BY <3>3, <4>3, <5>1
        <4>4. CASE k > i
          <5>1. k - 1 \in 1 .. Len(new) /\ ~(k - 1 < i) /\ (k - 1) + 1 = k
            BY <3>1, <3>2, <4>2, <4>4
          <5> QED BY <3>3, <5>1
        <4> QED BY <4>1, <4>2, <4>3, <4>4
      <3>5. queue' = [queue EXCEPT !.lanes[s] = new]
        BY <2>3 DEF new, old
      <3>6. old # <<>> /\ ~queue.closed
        BY <1>s, <3>1 DEF QueueSound, Sane, old
      <3>7. QueueSound'
        BY <1>s, <3>2, <3>5, <3>6 DEF QueueSound, Sane, Queues, Served, old
      <3>8. ASSUME NEW u \in Tasks, task'[u] = "queued"
            PROVE  InLane(u)'
        <4>1. u # t /\ task[u] = "queued"
          BY <2>1, <3>8 DEF Placed
        <4>2. InLane(u)
          BY <4>1 DEF Placed
        <4>3. queue'.lanes = [queue.lanes EXCEPT ![s] = new]
          BY <3>5 DEF QueueSound, Sane, Queues
        <4>4. CASE SessionOf[u] = s
          <5>1. PICK k \in 1 .. Len(old) : old[k] = u
            BY <3>1, <4>2, <4>4 DEF InLane, old
          <5>2. k # i
            BY <2>3, <4>1, <5>1 DEF old
          <5>3. PICK m \in 1 .. Len(new) : new[m] = u
            BY <3>4, <5>1, <5>2
          <5>4. queue'.lanes[s] = new /\ DOMAIN new = 1 .. Len(new)
            BY <1>s, <3>2, <4>3 DEF QueueSound, Sane, Queues
          <5> QED BY <4>4, <5>3, <5>4 DEF InLane
        <4>5. CASE SessionOf[u] # s
          BY <4>2, <4>3, <4>5 DEF InLane, QueueSound, Sane, Queues
        <4> QED BY <4>4, <4>5
      <3> QED BY <2>1, <3>7, <3>8 DEF Placed, TaskStates
    <2> QED BY <1>3, <2>1, <2>3 DEF Abort
  <1>4. CASE Admit(t)
    <2>1. Known'
      BY <1>4 DEF Admit, Known, history
    <2>2. QueueSound' /\ queue' = queue
      BY <1>4 DEF Admit, QueueSound
    <2>3. \A u \in Tasks : task'[u] = "queued" => task[u] = "queued"
      BY <1>4 DEF Admit, Placed
    <2>4. task' \in [Tasks -> TaskStates]
      BY <1>4 DEF Admit, Placed, TaskStates
    <2> QED BY <2>1, <2>2, <2>3, <2>4 DEF Placed, InLane
  <1>5. CASE Pause(t)
    <2>1. Known' /\ queue' = queue
      BY <1>5 DEF Pause, Known, history
    <2>2. task' \in [Tasks -> TaskStates] /\ \A u \in Tasks : task'[u] = "queued" => task[u] = "queued"
      BY <1>5 DEF Pause, Placed, TaskStates
    <2> QED BY <2>1, <2>2 DEF QueueSound, Placed, InLane
  <1>6. CASE MarkWaiting(t)
    <2>1. Known'
      BY <1>6, <1>s DEF MarkWaiting, Known
    <2>2. QueueSound' /\ queue'.lanes = queue.lanes
      <3>1. CASE s \in queue.activeSessions
        <4>1. PICK w \in Waits : queue' = SetWaiting(queue, s, w)
          BY <1>6, <3>1 DEF MarkWaiting
        <4> QED BY <1>s, <3>1, <4>1, QueueAssumption
                DEF SetWaiting, QueueSound, Sane, Queues, Served
      <3>2. CASE s \notin queue.activeSessions
        BY <1>6, <3>2 DEF MarkWaiting, QueueSound
      <3> QED BY <3>1, <3>2
    <2> QED BY <1>6, <2>1, <2>2 DEF MarkWaiting, Placed, InLane, TaskStates
  <1>7. CASE Finish(t)
    <2> DEFINE x == IF task[t] = "marked" THEN "parked" ELSE "done"
    <2>1. PICK q \in FinishOf(queue, s) : Become(q, [task EXCEPT ![t] = x])
      BY <1>7 DEF Finish, Placed
    <2>2. Sane(q) /\ \A y \in Sessions : Served(q, y)
      BY <1>s, <2>1, FinishServes DEF QueueSound
    <2>3. [task EXCEPT ![t] = x] \in [Tasks -> TaskStates]
      BY DEF Placed, TaskStates
    <2> HIDE DEF x
    <2>4. QueueSound'
      BY <2>1, <2>2 DEF Become, QueueSound
    <2>5. Placed'
      BY <2>1, <2>3, BecomePlaced
    <2>6. Known'
      BY <1>7 DEF Finish, Known, history
    <2> QED BY <2>4, <2>5, <2>6
  <1> QED BY <1>2, <1>3, <1>4, <1>5, <1>6, <1>7 DEF TaskStep

LEMMA ControlIInv ==
  ASSUME IInv, NEW c \in Controllers, ControlStep(c)
  PROVE  IInv'
  <1> DEFINE s == SessionOfControl(c)
  <1> USE DEF IInv
  <1>c. control[c] = Idle \/ control[c] \in Requests
    BY DEF Known
  <1>s. ~At(c, "idle") => control[c] \in Requests /\ control[c].task \in Tasks /\ s \in Sessions
    BY <1>c, QueueAssumption DEF At, SessionOfControl, Requests, Idle
  <1>g. ~At(c, "idle") /\ (Return(c) \/ \E pc \in Points \ {"idle"} : Goto(c, pc))
          => control' \in [Controllers -> Requests \cup {Idle}]
    BY <1>s DEF Return, Goto, Known, Requests, Idle
  <1>m. ~At(c, "idle") /\ Moves(s) => early' \subseteq Sessions
    BY <1>s DEF Moves, Known
  <1>q. UNCHANGED <<queue, task>> => QueueSound' /\ Placed'
    BY DEF QueueSound, Placed, InLane
  <1>t. task \in [Tasks -> TaskStates]
    BY DEF Placed
  <1>1. CASE \E t \in Tasks, op \in {"cancel", "resume", "sync"} : StartControl(c, t, op)
    BY <1>1, <1>q DEF StartControl, Known, Requests, Idle, Points, history
  <1>2. CASE Acquire(c)
    <2>1. ~At(c, "idle") /\ control[c] \in Requests /\ s \in Sessions
      BY <1>2, <1>s DEF Acquire, At
    <2>2. UNCHANGED <<task, serves, run, stale>>
      BY <1>2 DEF Acquire
    <2>3. CASE UNCHANGED <<queue, early>>
      <3>1. CASE control' = [control EXCEPT ![c].pc = "call", ![c].lease = TRUE]
        BY <1>q, <2>1, <2>2, <2>3, <3>1 DEF Known, Requests, Points
      <3>2. CASE Goto(c, "call") \/ Goto(c, "poll") \/ Return(c)
        BY <1>q, <1>g, <2>1, <2>2, <2>3, <3>2 DEF Points, Known
      <3> QED BY <1>2, <2>3, <3>1, <3>2 DEF Acquire
    <2>4. CASE /\ control' = [control EXCEPT ![c].pc = "call", ![c].lease = TRUE]
               /\ Waiting(queue, s) = "suspended"
               /\ queue.active < MaxConcurrency
               /\ queue' = [SetWaiting(queue, s, "live") EXCEPT !.active = @ + 1]
               /\ Moves(s)
      <3>1. Known'
        BY <1>m, <2>1, <2>2, <2>4 DEF Known, Requests, Points
      <3> DEFINE n == queue.active + 1
                 w == [queue.waitingSessions EXCEPT ![s] = "live"]
      <3>2. n \in Nat /\ n <= MaxConcurrency /\ n # 0
        BY <2>4, QueueAssumption DEF QueueSound, Sane, Queues
      <3>3. /\ queue'.lanes = queue.lanes /\ queue'.activeSessions = queue.activeSessions
            /\ queue'.active = n /\ queue'.closed = queue.closed
            /\ queue'.waitingSessions = w /\ queue' = [queue EXCEPT !.active = n, !.waitingSessions = w]
        BY <2>4 DEF QueueSound, Sane, Queues, SetWaiting
      <3>4. w \in [Sessions -> {"none", "live", "suspended"}]
        BY DEF QueueSound, Sane, Queues
      <3>5. \A x \in Sessions : w[x] # "none" => x \in queue.activeSessions
        BY <2>4 DEF QueueSound, Sane, Queues, Waiting
      <3> HIDE DEF n, w
      <3>6. Sane(queue')
        BY <3>2, <3>3, <3>4, <3>5 DEF QueueSound, Sane, Queues
      <3>7. \A x \in Sessions : Served(queue', x)
        <4>1. queue.active # MaxConcurrency
          BY <2>4, QueueAssumption DEF QueueSound, Sane, Queues
        <4> QED BY <3>3, <4>1 DEF QueueSound, Served
      <3> QED BY <2>2, <3>1, <3>3, <3>6, <3>7 DEF QueueSound, Placed, InLane
    <2> QED BY <1>2, <2>3, <2>4 DEF Acquire
  <1>3. CASE Call(c)
    <2>1. control[c] \in Requests /\ control[c].task \in Tasks
      BY <1>3, <1>s DEF Call, At
    <2>2. run' \in [Tasks -> {"none", "open", "waiting", "settled"}]
      BY <1>3, <2>1 DEF Call, Known
    <2>3. control' \in [Controllers -> Requests \cup {Idle}]
      BY <1>3, <2>1 DEF Call, Known, Requests, Goto, Return, Points
    <2> QED BY <1>3, <1>q, <2>2, <2>3 DEF Call, Known, history
  <1>4. CASE Stream(c)
    <2>1. control[c] \in Requests /\ control[c].task \in Tasks
      BY <1>4, <1>s DEF Stream, At
    <2>2. run' \in [Tasks -> {"none", "open", "waiting", "settled"}]
      BY <1>4, <2>1 DEF Stream, Known
    <2>3. control' \in [Controllers -> Requests \cup {Idle}]
      BY <1>4, <2>1 DEF Stream, Known, Requests, Goto, Return, Points
    <2> QED BY <1>4, <1>q, <2>2, <2>3 DEF Stream, Known, history
  <1>5. CASE ReleaseSession(c)
    <2>1. ~At(c, "idle") /\ s \in Sessions
      BY <1>5, <1>s DEF ReleaseSession, At
    <2>2. PICK q \in Release(queue, s) : Become(q, task)
      BY <1>5 DEF ReleaseSession
    <2>3. Sane(q) /\ \A x \in Sessions : Served(q, x)
      BY <2>1, <2>2, ReleaseServes DEF QueueSound
    <2>4. QueueSound' /\ Placed'
      BY <1>t, <2>2, <2>3, BecomePlaced DEF Become, QueueSound
    <2>5. control' \in [Controllers -> Requests \cup {Idle}]
      BY <1>5, <1>g, <2>1 DEF ReleaseSession
    <2>6. early' \subseteq Sessions /\ stale' \subseteq Sessions
      BY <1>5, <1>m, <2>1 DEF ReleaseSession, Known
    <2> QED BY <1>5, <2>4, <2>5, <2>6 DEF ReleaseSession, Known
  <1>6. CASE Restore(c)
    <2>1. ~At(c, "idle") /\ s \in Sessions
      BY <1>6, <1>s DEF Restore, At
    <2>2. control' \in [Controllers -> Requests \cup {Idle}]
      BY <1>6, <1>g, <2>1 DEF Restore
    <2>3. early' \subseteq Sessions
      BY <1>6, <1>m, <2>1 DEF Restore, Known
    <2>4. Known'
      BY <1>6, <2>2, <2>3 DEF Restore, Known
    <2>5. CASE UNCHANGED <<queue, task>>
      BY <1>q, <2>4, <2>5
    <2>6. CASE \E q \in DrainOthers(FreeSlot(SetWaiting(queue, s, "suspended")), s) : Become(q, task)
               /\ Waiting(queue, s) = "live"
      <3> DEFINE w == SetWaiting(queue, s, "suspended")
      <3>1. Sane(w) /\ s \in w.activeSessions
        BY <2>1, <2>6 DEF SetWaiting, Waiting, QueueSound, Sane, Queues
      <3> HIDE DEF w
      <3>2. Sane(FreeSlot(w)) /\ s \in FreeSlot(w).activeSessions
        BY <3>1, FreeSlotSane
      <3>3. PICK q \in DrainOthers(FreeSlot(w), s) : Become(q, task)
        BY <2>6 DEF w
      <3>4. Sane(q) /\ \A x \in Sessions : Served(q, x)
        <4>1. Served(FreeSlot(w), s)
          BY <3>2 DEF Served
        <4> QED BY <2>1, <3>2, <3>3, <4>1, OthersServed
      <3> QED BY <1>t, <2>4, <3>3, <3>4, BecomePlaced DEF Become, QueueSound
    <2> QED BY <1>6, <2>5, <2>6 DEF Restore
  <1> QED BY <1>1, <1>2, <1>3, <1>4, <1>5, <1>6 DEF ControlStep

LEMMA CloseIInv ==
  ASSUME IInv, Close
  PROVE  IInv'
  <1> DEFINE waiting == {s \in Sessions : Waiting(queue, s) # "none"}
             live == Cardinality({s \in waiting : Waiting(queue, s) = "live"})
             n == IF queue.active < live THEN 0 ELSE queue.active - live
             a == queue.activeSessions \ waiting
  <1>1. live \in Nat
    <2>1. {s \in waiting : Waiting(queue, s) = "live"} \in SUBSET Sessions
      OBVIOUS
    <2> QED BY <2>1, FS_Subset, FS_CardinalityType, QueueAssumption
  <1>2. n \in Nat /\ n <= MaxConcurrency
    BY <1>1, QueueAssumption DEF IInv, QueueSound, Sane, Queues
  <1>3. a \in SUBSET Sessions
    BY DEF IInv, QueueSound, Sane, Queues
  <1>4. queue' = [lanes |-> [s \in Sessions |-> <<>>], activeSessions |-> a,
                  waitingSessions |-> [s \in Sessions |-> "none"], active |-> n, closed |-> TRUE]
    BY DEF Close
  <1> HIDE DEF a, n
  <1>5. QueueSound'
    BY <1>2, <1>3, <1>4 DEF QueueSound, Sane, Queues, Served
  <1>6. Placed' /\ Known'
    BY DEF Close, IInv, Placed, Known, TaskStates
  <1> QED BY <1>5, <1>6 DEF IInv

LEMMA NextIInv == IInv /\ [Next]_vars => IInv'
  <1> SUFFICES ASSUME IInv, [Next]_vars
               PROVE  IInv'
    OBVIOUS
  <1>1. CASE UNCHANGED vars
    BY <1>1 DEF vars, history, IInv, QueueSound, Placed, Known, InLane
  <1> QED BY <1>1, TaskIInv, ControlIInv, CloseIInv DEF Next

\* Every variable keeps its type; the slot counter never goes below zero.
THEOREM TypeCorrect == Spec => []TypeOK
  <1>1. IInv => TypeOK
    BY DEF IInv, QueueSound, Placed, Known, Sane, Queues, TypeOK
  <1> QED BY <1>1, InitIInv, NextIInv, PTL DEF Spec

\* No wake-up is lost: a turn is left queued only while its session is occupied
\* or every slot is taken, whichever turns, aborts and controls come together.
THEOREM WorkConserved == Spec => []WorkConserving
  <1>1. IInv => WorkConserving
    <2> SUFFICES ASSUME IInv, NEW t \in Tasks, task[t] = "queued"
                 PROVE  SessionOf[t] \in queue.activeSessions \/ queue.active >= MaxConcurrency
      BY DEF WorkConserving
    <2>1. SessionOf[t] \in Sessions
      BY QueueAssumption
    <2>2. queue.lanes[SessionOf[t]] # <<>>
      BY <2>1 DEF IInv, Placed, InLane
    <2> QED BY <2>1, <2>2, QueueAssumption DEF IInv, QueueSound, Served, Sane, Queues
  <1> QED BY <1>1, InitIInv, NextIInv, PTL DEF Spec

-----------------------------------------------------------------------------
\* One turn at a time, and exact slots, of a queue q, what the turns are and the
\* sessions in which a control came early.  Stated of these, they can be shown
\* before lanes drain.

\* Draining lanes starts at most one turn of a session, in a lane that was free.
LEMMA DrainStarts ==
  ASSUME NEW p, Sane(p), NEW q, Drained(p, q),
         NEW states \in [Tasks -> TaskStates], Become(q, states),
         \A t \in Tasks : states[t] = "queued" =>
           \E i \in DOMAIN p.lanes[SessionOf[t]] : p.lanes[SessionOf[t]][i] = t
  PROVE  /\ \A t \in Tasks :
              \/ task'[t] = states[t]
              \/ /\ task'[t] = "running" /\ states[t] = "queued"
                 /\ SessionOf[t] \in q.activeSessions \ p.activeSessions
         /\ \A t, u \in Tasks :
              /\ SessionOf[t] = SessionOf[u]
              /\ task'[t] # states[t] /\ task'[u] # states[u]
              => t = u
  <1>1. ASSUME NEW t \in Tasks, task'[t] # states[t]
        PROVE  LET s == SessionOf[t] IN
               /\ task'[t] = "running" /\ states[t] = "queued"
               /\ s \in q.activeSessions \ p.activeSessions
               /\ p.lanes[s][1] = t
    <2> DEFINE s == SessionOf[t]
               lane == p.lanes[s]
    <2>1. s \in Sessions
      BY QueueAssumption
    <2>2. /\ task'[t] = "running" /\ states[t] = "queued"
          /\ \A i \in DOMAIN q.lanes[s] : q.lanes[s][i] # t
      BY <1>1 DEF Become
    <2>3. PICK i \in DOMAIN lane : lane[i] = t
      BY <2>2
    <2>4. lane \in Seq(Tasks)
      BY <2>1 DEF Sane, Queues
    <2>5. q.lanes[s] # lane
      BY <2>2, <2>3
    <2>6. s \in q.activeSessions \ p.activeSessions /\ lane # <<>> /\ q.lanes[s] = Tail(lane)
      BY <2>1, <2>5 DEF Drained
    <2> HIDE DEF lane
    <2>7. i = 1
      <3>1. i \in 1 .. Len(lane) /\ Len(lane) \in Nat
        BY <2>3, <2>4
      <3>2. SUFFICES ASSUME i # 1
                     PROVE  FALSE
        OBVIOUS
      <3>3. i - 1 \in 1 .. Len(lane) - 1 /\ (i - 1) + 1 = i
        BY <3>1, <3>2
      <3>4. i - 1 \in DOMAIN Tail(lane) /\ Tail(lane)[i - 1] = lane[i]
        BY <2>4, <2>6, <3>3
      <3> QED BY <2>2, <2>3, <2>6, <3>4
    <2> QED BY <2>2, <2>3, <2>6, <2>7 DEF lane
  <1> QED BY <1>1

\* In a session no control came early in, an executing turn is the only one, and
\* the open queue has its lane occupied.
Alone(q, states, moved) ==
    \A t \in Tasks : states[t] \in Executing /\ SessionOf[t] \notin moved =>
      /\ ~q.closed => SessionOf[t] \in q.activeSessions
      /\ \A u \in Tasks : SessionOf[u] = SessionOf[t] /\ states[u] \in Executing => u = t

\* The sessions that hold a slot: those with an executing turn, and those that
\* wait live.
Holding(q, states) ==
    {s \in Sessions : \/ q.waitingSessions[s] = "live"
                      \/ \E t \in Tasks : SessionOf[t] = s /\ states[t] \in Executing}

Slots(q, states, moved) ==
    ~q.closed /\ moved = {} => q.active = Cardinality(Holding(q, states))

\* Lanes hold queued turns of their session, each once.
Lined(q, states) ==
    \A s \in Sessions : \A i \in DOMAIN q.lanes[s] :
      /\ states[q.lanes[s][i]] = "queued" /\ SessionOf[q.lanes[s][i]] = s
      /\ \A j \in DOMAIN q.lanes[s] : q.lanes[s][j] = q.lanes[s][i] => i = j

Exact(q, states, moved) ==
    Alone(q, states, moved) /\ Slots(q, states, moved) /\ Lined(q, states)

OInv == IInv /\ Exact(queue, task, early)

LEMMA HoldingFinite ==
  ASSUME NEW q, NEW states
  PROVE  IsFiniteSet(Holding(q, states)) /\ Cardinality(Holding(q, states)) \in Nat
  BY FS_Subset, FS_CardinalityType, QueueAssumption DEF Holding

\* A session that gives up its slot, and one that takes one.
LEMMA SlotFreed ==
  ASSUME NEW q, NEW states, NEW r, NEW after, NEW s \in Sessions,
         q.active = Cardinality(Holding(q, states)),
         s \in Holding(q, states), Holding(r, after) = Holding(q, states) \ {s},
         r.active = IF q.active = 0 THEN 0 ELSE q.active - 1
  PROVE  r.active = Cardinality(Holding(r, after))
  <1> DEFINE H == Holding(q, states)
  <1>1. IsFiniteSet(H) /\ Cardinality(H) \in Nat
    BY HoldingFinite
  <1> HIDE DEF H
  <1>2. Cardinality(H \ {s}) = Cardinality(H) - 1 /\ Cardinality(H \ {s}) \in Nat
    BY <1>1, FS_RemoveElement, FS_CardinalityType DEF H
  <1> QED BY <1>1, <1>2 DEF H

LEMMA SlotTaken ==
  ASSUME NEW q, NEW states, NEW r, NEW after, NEW s \in Sessions,
         q.active = Cardinality(Holding(q, states)),
         s \notin Holding(q, states), Holding(r, after) = Holding(q, states) \cup {s},
         r.active = q.active + 1
  PROVE  r.active = Cardinality(Holding(r, after))
  <1> DEFINE H == Holding(q, states)
  <1>1. IsFiniteSet(H)
    BY HoldingFinite
  <1> HIDE DEF H
  <1>2. Cardinality(H \cup {s}) = Cardinality(H) + 1
    BY <1>1, FS_AddElement DEF H
  <1> QED BY <1>2 DEF H

\* What draining lanes does to all this: each lane that was opened has begun its
\* first turn, and holds the slot that was counted for it.
LEMMA DrainExact ==
  ASSUME NEW p, Sane(p), NEW q, Sane(q), Drained(p, q),
         NEW states \in [Tasks -> TaskStates], Become(q, states),
         \A t \in Tasks : states[t] = "queued" =>
           \E i \in DOMAIN p.lanes[SessionOf[t]] : p.lanes[SessionOf[t]][i] = t,
         NEW moved, Exact(p, states, moved)
  PROVE  Exact(queue', task', moved)
  <1> DEFINE new == q.activeSessions \ p.activeSessions
  <1>q. queue' = q
    BY DEF Become
  <1>d. /\ q.waitingSessions = p.waitingSessions /\ q.closed = p.closed
        /\ p.activeSessions \subseteq q.activeSessions
        /\ q.active = p.active + Cardinality(new)
        /\ \A s \in Sessions :
             \/ q.lanes[s] = p.lanes[s] /\ s \notin new
             \/ s \in new /\ p.lanes[s] # <<>> /\ q.lanes[s] = Tail(p.lanes[s])
    BY DEF Drained
  <1>s. \A t \in Tasks : SessionOf[t] \in Sessions
    BY QueueAssumption
  <1>1. \A t \in Tasks :
          \/ task'[t] = states[t]
          \/ task'[t] = "running" /\ states[t] = "queued" /\ SessionOf[t] \in new
    BY DrainStarts
  <1>2. \A s \in Sessions : /\ p.lanes[s] \in Seq(Tasks)
                            /\ \A i \in DOMAIN p.lanes[s] : p.lanes[s][i] \in Tasks
    BY DEF Sane, Queues
  <1> HIDE DEF new
  <1>3. ASSUME NEW s \in new
        PROVE  /\ s \in Sessions
               /\ \A i \in DOMAIN q.lanes[s] :
                    /\ i + 1 \in DOMAIN p.lanes[s] /\ q.lanes[s][i] = p.lanes[s][i + 1]
                    /\ i \in Nat /\ i + 1 # 1
               /\ 1 \in DOMAIN p.lanes[s]
    <2>1. s \in Sessions
      BY <1>3 DEF new, Sane, Queues
    <2> DEFINE lane == p.lanes[s]
    <2>2. lane \in Seq(Tasks) /\ lane # <<>> /\ q.lanes[s] = Tail(lane)
      BY <1>d, <1>2, <1>3, <2>1
    <2> HIDE DEF lane
    <2>3. /\ Len(lane) \in Nat \ {0} /\ DOMAIN lane = 1 .. Len(lane)
          /\ DOMAIN Tail(lane) = 1 .. Len(lane) - 1
          /\ \A i \in 1 .. Len(lane) - 1 : Tail(lane)[i] = lane[i + 1]
      BY <2>2, HeadTailProperties
    <2> QED BY <2>1, <2>2, <2>3 DEF lane
  <1>4. Lined(q, task')
    <2> SUFFICES ASSUME NEW s \in Sessions, NEW i \in DOMAIN q.lanes[s]
                 PROVE  /\ task'[q.lanes[s][i]] = "queued" /\ SessionOf[q.lanes[s][i]] = s
                        /\ \A j \in DOMAIN q.lanes[s] : q.lanes[s][j] = q.lanes[s][i] => i = j
      BY DEF Lined
    <2>1. /\ states[q.lanes[s][i]] = "queued" /\ SessionOf[q.lanes[s][i]] = s
          /\ q.lanes[s][i] \in Tasks
          /\ \A j \in DOMAIN q.lanes[s] : q.lanes[s][j] = q.lanes[s][i] => i = j
      <3>1. CASE s \in new
        <4>1. i + 1 \in DOMAIN p.lanes[s] /\ q.lanes[s][i] = p.lanes[s][i + 1] /\ i \in Nat
          BY <1>3, <3>1
        <4>2. ASSUME NEW j \in DOMAIN q.lanes[s], q.lanes[s][j] = q.lanes[s][i]
              PROVE  i = j
          <5>1. j + 1 \in DOMAIN p.lanes[s] /\ q.lanes[s][j] = p.lanes[s][j + 1] /\ j \in Nat
            BY <1>3, <3>1
          <5>2. i + 1 = j + 1
            BY <1>3, <3>1, <4>1, <4>2, <5>1 DEF Exact, Lined
          <5> QED BY <4>1, <5>1, <5>2
        <4> QED BY <1>2, <4>1, <4>2 DEF Exact, Lined
      <3>2. CASE s \notin new
        BY <1>d, <1>2, <3>2 DEF Exact, Lined
      <3> QED BY <3>1, <3>2
    <2>2. task'[q.lanes[s][i]] = "queued"
      BY <2>1 DEF Become
    <2> QED BY <2>1, <2>2
  <1>o. ASSUME NEW t \in Tasks, task'[t] # states[t]
        PROVE  ~p.closed
    BY <1>1, <1>s, <1>o DEF Sane
  <1>u. \A t, u \in Tasks :
          SessionOf[t] = SessionOf[u] /\ task'[t] # states[t] /\ task'[u] # states[u] => t = u
    BY DrainStarts
  <1>5. Alone(q, task', moved)
    <2> SUFFICES ASSUME NEW t \in Tasks, task'[t] \in Executing, SessionOf[t] \notin moved
                 PROVE  /\ ~q.closed => SessionOf[t] \in q.activeSessions
                        /\ \A u \in Tasks : SessionOf[u] = SessionOf[t] /\ task'[u] \in Executing
                             => u = t
      BY DEF Alone
    <2>1. CASE task'[t] = states[t]
      <3>1. /\ ~p.closed => SessionOf[t] \in p.activeSessions
            /\ \A u \in Tasks : SessionOf[u] = SessionOf[t] /\ states[u] \in Executing => u = t
        BY <2>1 DEF Exact, Alone
      <3> QED BY <1>1, <1>d, <1>o, <3>1 DEF new
    <2>2. CASE task'[t] # states[t]
      <3>1. SessionOf[t] \in q.activeSessions \ p.activeSessions /\ ~p.closed
        BY <1>1, <1>o, <2>2 DEF new
      <3>2. \A u \in Tasks : SessionOf[u] = SessionOf[t] => states[u] \notin Executing
        BY <3>1 DEF Exact, Alone
      <3> QED BY <1>1, <1>u, <2>2, <3>1, <3>2
    <2> QED BY <2>1, <2>2
  <1>6. ASSUME NEW s \in new
        PROVE  \E t \in Tasks : SessionOf[t] = s /\ task'[t] = "running"
    <2>1. 1 \in DOMAIN p.lanes[s] /\ s \in Sessions
      BY <1>3
    <2> DEFINE t == p.lanes[s][1]
    <2>2. t \in Tasks /\ states[t] = "queued" /\ SessionOf[t] = s
      BY <1>2, <2>1 DEF Exact, Lined
    <2>3. \A i \in DOMAIN q.lanes[s] : q.lanes[s][i] # t
      BY <1>3, <2>1 DEF Exact, Lined
    <2>4. task'[t] = "running"
      BY <2>2, <2>3 DEF Become
    <2> QED BY <2>2, <2>4
  <1>7. Slots(q, task', moved)
    <2> SUFFICES ASSUME ~q.closed, moved = {} PROVE q.active = Cardinality(Holding(q, task'))
      BY DEF Slots
    <2>1. Holding(q, task') = Holding(p, states) \cup new
      <3>1. Holding(q, task') \subseteq Holding(p, states) \cup new
        BY <1>1, <1>d DEF Holding
      <3>2. Holding(p, states) \subseteq Holding(q, task')
        BY <1>1, <1>d DEF Holding, Executing
      <3>3. new \subseteq Holding(q, task')
        BY <1>3, <1>6 DEF Holding, Executing
      <3> QED BY <3>1, <3>2, <3>3
    <2>2. Holding(p, states) \cap new = {}
      <3>1. \A s \in Sessions : p.waitingSessions[s] # "none" => s \in p.activeSessions
        BY DEF Sane
      <3>2. \A t \in Tasks : states[t] \in Executing => SessionOf[t] \in p.activeSessions
        BY <1>d DEF Exact, Alone
      <3> QED BY <3>1, <3>2 DEF Holding, new
    <2> DEFINE H == Holding(p, states)
    <2>3. IsFiniteSet(H) /\ Cardinality(H) \in Nat
      BY HoldingFinite
    <2>4. new \subseteq Sessions
      BY <1>3
    <2>5. IsFiniteSet(new) /\ Cardinality(new) \in Nat
      BY <2>4, FS_Subset, FS_CardinalityType, QueueAssumption
    <2>6. p.active = Cardinality(H)
      BY <1>d DEF Exact, Slots
    <2> HIDE DEF H
    <2>7. Cardinality(H \cap new) = 0
      BY <2>2, FS_EmptySet DEF H
    <2>8. Cardinality(H \cup new) = Cardinality(H) + Cardinality(new) - Cardinality(H \cap new)
      BY <2>3, <2>5, FS_Union
    <2>9. Cardinality(H \cup new) = Cardinality(H) + Cardinality(new)
      BY <2>3, <2>5, <2>7, <2>8
    <2> QED BY <1>d, <2>1, <2>6, <2>9 DEF H
  <1> QED BY <1>q, <1>4, <1>5, <1>7 DEF Exact

\* A lane is lined up whoever else of its turns has left it.
LEMMA RemovedLined ==
  ASSUME NEW q, NEW r, NEW states, NEW s \in Sessions, NEW t \in Tasks, NEW i \in DOMAIN q.lanes[s],
         Sane(q), states \in [Tasks -> TaskStates], Lined(q, states), q.lanes[s][i] = t,
         r.lanes = [q.lanes EXCEPT ![s] = SubSeq(@, 1, i - 1) \o SubSeq(@, i + 1, Len(@))],
         NEW x \in TaskStates
  PROVE  Lined(r, [states EXCEPT ![t] = x])
  <1> DEFINE old == q.lanes[s]
             new == SubSeq(old, 1, i - 1) \o SubSeq(old, i + 1, Len(old))
             after == [states EXCEPT ![t] = x]
  <1>1. /\ old \in Seq(Tasks) /\ i \in 1 .. Len(old)
        /\ \A y \in Sessions : r.lanes[y] = IF y = s THEN new ELSE q.lanes[y]
        /\ \A y \in Sessions : \A k \in DOMAIN q.lanes[y] : q.lanes[y][k] \in Tasks
    BY DEF Sane, Queues
  <1> HIDE DEF old
  <1>2. /\ new \in Seq(Tasks) /\ Len(new) = Len(old) - 1
        /\ \A k \in 1 .. Len(new) : new[k] = IF k < i THEN old[k] ELSE old[k + 1]
    BY <1>1, EntryRemoved
  <1>3. \A u \in Tasks : u # t => after[u] = states[u]
    OBVIOUS
  <1> HIDE DEF new, after
  <1>4. \A k \in 1 .. Len(new) :
          LET m == IF k < i THEN k ELSE k + 1 IN
          m \in 1 .. Len(old) /\ m # i /\ new[k] = old[m] /\ k \in Nat
    BY <1>1, <1>2
  <1>5. \A k \in 1 .. Len(old) :
          /\ states[old[k]] = "queued" /\ SessionOf[old[k]] = s /\ old[k] \in Tasks
          /\ \A j \in 1 .. Len(old) : old[j] = old[k] => k = j
    BY <1>1 DEF Lined, old
  <1>6. old[i] = t
    BY DEF old
  <1>7. ASSUME NEW k \in 1 .. Len(new)
        PROVE  /\ after[new[k]] = "queued" /\ SessionOf[new[k]] = s
               /\ \A j \in 1 .. Len(new) : new[j] = new[k] => k = j
    <2>1. PICK m \in 1 .. Len(old) : m # i /\ new[k] = old[m] /\ m = IF k < i THEN k ELSE k + 1
      BY <1>4
    <2>2. old[m] # t
      BY <1>1, <1>5, <1>6, <2>1
    <2>3. ASSUME NEW j \in 1 .. Len(new), new[j] = new[k]
          PROVE  k = j
      <3>1. PICK n \in 1 .. Len(old) : new[j] = old[n] /\ n = IF j < i THEN j ELSE j + 1
        BY <1>4
      <3>2. n = m
        BY <1>5, <2>1, <2>3, <3>1
      <3> QED BY <1>1, <2>1, <3>1, <3>2
    <2> QED BY <1>3, <1>5, <2>1, <2>2, <2>3
  <1>8. ASSUME NEW y \in Sessions, y # s, NEW k \in DOMAIN q.lanes[y]
        PROVE  /\ after[q.lanes[y][k]] = "queued" /\ SessionOf[q.lanes[y][k]] = y
               /\ \A j \in DOMAIN q.lanes[y] : q.lanes[y][j] = q.lanes[y][k] => k = j
    <2>1. SessionOf[t] = s /\ SessionOf[q.lanes[y][k]] = y
      BY <1>1, <1>5, <1>6, <1>8 DEF Lined
    <2> QED BY <1>1, <1>3, <1>8, <2>1 DEF Lined
  <1>9. DOMAIN new = 1 .. Len(new)
    BY <1>2
  <1>10. Lined(r, after)
    <2>1. \A y \in Sessions : \A k \in DOMAIN r.lanes[y] :
            /\ after[r.lanes[y][k]] = "queued" /\ SessionOf[r.lanes[y][k]] = y
            /\ \A j \in DOMAIN r.lanes[y] : r.lanes[y][j] = r.lanes[y][k] => k = j
      <3>1. SUFFICES ASSUME NEW y \in Sessions, NEW k \in DOMAIN r.lanes[y]
                     PROVE  /\ after[r.lanes[y][k]] = "queued" /\ SessionOf[r.lanes[y][k]] = y
                            /\ \A j \in DOMAIN r.lanes[y] : r.lanes[y][j] = r.lanes[y][k] => k = j
        OBVIOUS
      <3>2. CASE y = s
        <4>1. r.lanes[y] = new
          BY <1>1, <3>2
        <4> QED BY <1>7, <1>9, <3>2, <4>1
      <3>3. CASE y # s
        BY <1>1, <1>8, <3>3
      <3> QED BY <3>2, <3>3
    <2> QED BY <2>1 DEF Lined
  <1> QED BY <1>10 DEF after

LEMMA InitOInv == Init => OInv
  <1> SUFFICES ASSUME Init PROVE OInv
    OBVIOUS
  <1>1. \A t \in Tasks : task[t] = "new"
    BY DEF Init
  <1>2. \A s \in Sessions : queue.waitingSessions[s] = "none" /\ queue.lanes[s] = <<>>
    BY DEF Init
  <1>3. queue.active = 0
    BY DEF Init
  <1>4. Holding(queue, task) = {}
    BY <1>1, <1>2 DEF Holding, Executing
  <1> QED BY <1>1, <1>2, <1>3, <1>4, FS_EmptySet, InitIInv
          DEF OInv, Exact, Slots, Alone, Lined, Executing

LEMMA FreeSlotCount ==
  ASSUME NEW q, Sane(q)
  PROVE  FreeSlot(q).active = IF q.active = 0 THEN 0 ELSE q.active - 1
  BY DEF FreeSlot, Sane, Queues

LEMMA FinishedFields ==
  ASSUME NEW q, Sane(q), NEW s \in Sessions, Waiting(q, s) \in {"none", "suspended", "live"}
  PROVE  LET p == Finished(q, s) IN
         /\ p.lanes = q.lanes /\ p.closed = q.closed /\ p.waitingSessions = q.waitingSessions
         /\ p.activeSessions =
              IF Waiting(q, s) = "none" THEN q.activeSessions \ {s} ELSE q.activeSessions
         /\ p.active = IF Waiting(q, s) = "live" THEN q.active
                       ELSE IF q.active = 0 THEN 0 ELSE q.active - 1
  <1>1. CASE Waiting(q, s) = "none"
    <2> DEFINE o == Opened(q, s)
    <2>1. /\ Sane(o) /\ o.lanes = q.lanes /\ o.activeSessions = q.activeSessions \ {s}
          /\ o.waitingSessions = [q.waitingSessions EXCEPT ![s] = "none"] /\ o.closed = q.closed
      BY OpenedSane
    <2>2. o.active = q.active
      BY DEF Opened, Sane, Queues
    <2>3. [q.waitingSessions EXCEPT ![s] = "none"] = q.waitingSessions
      BY <1>1 DEF Waiting, Sane, Queues
    <2> HIDE DEF o
    <2>4. LET p == FreeSlot(o) IN
          /\ p.lanes = o.lanes /\ p.activeSessions = o.activeSessions
          /\ p.waitingSessions = o.waitingSessions /\ p.closed = o.closed
          /\ p.active = IF o.active = 0 THEN 0 ELSE o.active - 1
      BY <2>1, FreeSlotSane, FreeSlotCount
    <2>5. Finished(q, s) = FreeSlot(o)
      BY <1>1 DEF Finished, o
    <2> QED BY <1>1, <2>1, <2>2, <2>3, <2>4, <2>5
  <1>2. CASE Waiting(q, s) = "suspended"
    <2>1. Finished(q, s) = FreeSlot(q)
      BY <1>2 DEF Finished
    <2> QED BY <1>2, <2>1, FreeSlotSane, FreeSlotCount
  <1>3. CASE Waiting(q, s) = "live"
    BY <1>3 DEF Finished
  <1> QED BY <1>1, <1>2, <1>3

\* A turn that does not execute may change into another that does not, unless it
\* is in its lane.
LEMMA IdleTurnExact ==
  ASSUME NEW q, Sane(q), NEW states \in [Tasks -> TaskStates], NEW t \in Tasks,
         NEW x \in TaskStates \ Executing,
         states[t] \notin Executing \cup {"queued"}, NEW moved, Exact(q, states, moved)
  PROVE  Exact(q, [states EXCEPT ![t] = x], moved)
  <1> DEFINE after == [states EXCEPT ![t] = x]
  <1>1. \A u \in Tasks : /\ after[u] \in Executing <=> states[u] \in Executing
                         /\ states[u] = "queued" => after[u] = "queued"
    OBVIOUS
  <1>2. \A s \in Sessions : \A i \in DOMAIN q.lanes[s] : q.lanes[s][i] \in Tasks
    BY DEF Sane, Queues
  <1> HIDE DEF after
  <1>3. Holding(q, after) = Holding(q, states)
    BY <1>1 DEF Holding
  <1>4. Lined(q, after)
    BY <1>1, <1>2 DEF Exact, Lined
  <1> QED BY <1>1, <1>3, <1>4 DEF Exact, Slots, Alone, after

LEMMA TaskExact ==
  ASSUME OInv, NEW t \in Tasks, TaskStep(t)
  PROVE  Exact(queue', task', early')
  <1> DEFINE s == SessionOf[t]
  <1>s. s \in Sessions
    BY QueueAssumption
  <1>e. Exact(queue, task, early) /\ early' = early
    BY DEF OInv, TaskStep, Enqueue, Abort, Admit, Pause, MarkWaiting, Finish, history
  <1>q. Sane(queue) /\ \A x \in Sessions : Served(queue, x)
    BY DEF OInv, IInv, QueueSound
  <1>t. task \in [Tasks -> TaskStates]
    BY DEF OInv, IInv, Placed
  <1>l. \A u \in Tasks : task[u] = "queued" =>
          \E i \in DOMAIN queue.lanes[SessionOf[u]] : queue.lanes[SessionOf[u]][i] = u
    BY DEF OInv, IInv, Placed, InLane
  <1>k. \A x \in Sessions : \A i \in DOMAIN queue.lanes[x] : queue.lanes[x][i] \in Tasks
    BY <1>q DEF Sane, Queues
  <1>2. CASE Enqueue(t)
    <2> DEFINE lane == Append(queue.lanes[s], t)
               q == [queue EXCEPT !.lanes[s] = lane]
               states == [task EXCEPT ![t] = "queued"]
    <2>1. Become(Drain(q, s), states) /\ task[t] = "new"
      BY <1>2 DEF Enqueue
    <2>2. /\ lane \in Seq(Tasks) /\ DOMAIN lane = DOMAIN queue.lanes[s] \cup {Len(queue.lanes[s]) + 1}
          /\ \A i \in DOMAIN queue.lanes[s] : lane[i] = queue.lanes[s][i]
          /\ lane[Len(queue.lanes[s]) + 1] = t
      <3>1. queue.lanes[s] \in Seq(Tasks)
        BY <1>s, <1>q DEF Sane, Queues
      <3>2. /\ lane \in Seq(Tasks) /\ Len(lane) = Len(queue.lanes[s]) + 1
            /\ lane[Len(queue.lanes[s]) + 1] = t
            /\ \A i \in 1 .. Len(queue.lanes[s]) : lane[i] = queue.lanes[s][i]
        BY <3>1, AppendProperties
      <3> HIDE DEF lane
      <3>3. /\ Len(queue.lanes[s]) \in Nat /\ DOMAIN queue.lanes[s] = 1 .. Len(queue.lanes[s])
            /\ DOMAIN lane = 1 .. Len(queue.lanes[s]) + 1
        BY <3>1, <3>2
      <3> QED BY <3>2, <3>3
    <2> HIDE DEF lane
    <2>3. /\ Sane(q) /\ q.active = queue.active
          /\ q.waitingSessions = queue.waitingSessions /\ q.closed = queue.closed
          /\ q.activeSessions = queue.activeSessions
          /\ \A x \in Sessions : q.lanes[x] = IF x = s THEN lane ELSE queue.lanes[x]
      BY <1>2, <1>q, <1>s, <2>2 DEF Enqueue, Sane, Queues
    <2> HIDE DEF q
    <2>4. Sane(Drain(q, s)) /\ Drained(q, Drain(q, s))
      BY <1>s, <2>3, DrainServes
    <2>5. states \in [Tasks -> TaskStates]
      BY <1>t DEF TaskStates
    <2>6. Exact(queue, states, early)
      BY <1>q, <1>t, <1>e, <2>1, IdleTurnExact DEF TaskStates, Executing
    <2>7. states[t] = "queued" /\ \A u \in Tasks : u # t => states[u] = task[u]
      BY <1>t
    <2> HIDE DEF states
    <2>8. \A i \in DOMAIN queue.lanes[s] : queue.lanes[s][i] # t
      BY <1>s, <1>e, <2>1 DEF Exact, Lined
    <2>9. ASSUME NEW x \in Sessions
          PROVE  \A i \in DOMAIN q.lanes[x] :
                   /\ states[q.lanes[x][i]] = "queued" /\ SessionOf[q.lanes[x][i]] = x
                   /\ \A j \in DOMAIN q.lanes[x] : q.lanes[x][j] = q.lanes[x][i] => i = j
      <3>1. \A i \in DOMAIN queue.lanes[x] :
              /\ states[queue.lanes[x][i]] = "queued" /\ SessionOf[queue.lanes[x][i]] = x
              /\ \A j \in DOMAIN queue.lanes[x] : queue.lanes[x][j] = queue.lanes[x][i] => i = j
        BY <2>6 DEF Exact, Lined
      <3>2. CASE x # s
        <4>1. q.lanes[x] = queue.lanes[x]
          BY <2>3, <3>2
        <4> QED BY <3>1, <4>1
      <3>3. CASE x = s
        <4>1. q.lanes[x] = lane
          BY <2>3, <3>3
        <4>2. \A i \in DOMAIN lane :
                /\ states[lane[i]] = "queued" /\ SessionOf[lane[i]] = s
                /\ \A j \in DOMAIN lane : lane[j] = lane[i] => i = j
          BY <2>2, <2>7, <2>8, <3>1, <3>3
        <4> QED BY <3>3, <4>1, <4>2
      <3> QED BY <3>2, <3>3
    <2>10. Exact(q, states, early)
      <3>1. Lined(q, states)
        BY <2>9 DEF Lined
      <3>2. Holding(q, states) = Holding(queue, states)
        BY <2>3 DEF Holding
      <3> QED BY <2>3, <2>6, <3>1, <3>2 DEF Exact, Slots, Alone
    <2>11. ASSUME NEW u \in Tasks, states[u] = "queued"
           PROVE  \E i \in DOMAIN q.lanes[SessionOf[u]] : q.lanes[SessionOf[u]][i] = u
      <3>1. CASE u = t
        <4>1. q.lanes[s] = lane
          BY <1>s, <2>3
        <4> QED BY <2>2, <3>1, <4>1
      <3>2. CASE u # t
        <4>1. PICK i \in DOMAIN queue.lanes[SessionOf[u]] : queue.lanes[SessionOf[u]][i] = u
          BY <1>l, <2>7, <2>11, <3>2
        <4>2. SessionOf[u] \in Sessions
          BY QueueAssumption
        <4> QED BY <2>2, <2>3, <4>1, <4>2
      <3> QED BY <3>1, <3>2
    <2> QED BY <1>e, <2>1, <2>3, <2>4, <2>5, <2>10, <2>11, DrainExact
  <1>3. CASE Abort(t)
    <2>1. task' = [task EXCEPT ![t] = "new"]
      BY <1>3 DEF Abort
    <2>3. ASSUME NEW i \in DOMAIN queue.lanes[s], task[t] = "queued", queue.lanes[s][i] = t,
                 queue' = [queue EXCEPT !.lanes[s] =
                             SubSeq(queue.lanes[s], 1, i - 1)
                               \o SubSeq(queue.lanes[s], i + 1, Len(queue.lanes[s]))]
          PROVE  Exact(queue', task', early')
      <3>1. /\ queue'.waitingSessions = queue.waitingSessions /\ queue'.closed = queue.closed
            /\ queue'.activeSessions = queue.activeSessions /\ queue'.active = queue.active
            /\ queue'.lanes = [queue.lanes EXCEPT ![s] =
                                 SubSeq(@, 1, i - 1) \o SubSeq(@, i + 1, Len(@))]
        BY <1>q, <2>3 DEF Sane, Queues
      <3>2. Lined(queue', task')
        BY <1>q, <1>s, <1>t, <1>e, <2>1, <2>3, <3>1, RemovedLined DEF Exact, TaskStates
      <3>3. \A u \in Tasks : task'[u] \in Executing <=> task[u] \in Executing
        BY <1>t, <2>1, <2>3 DEF Executing
      <3>4. Holding(queue', task') = Holding(queue, task)
        BY <3>1, <3>3 DEF Holding
      <3> QED BY <1>e, <3>1, <3>2, <3>3, <3>4 DEF Exact, Slots, Alone
    <2> QED BY <1>3, <2>3 DEF Abort
  <1>4. CASE Admit(t) \/ Pause(t) \/ MarkWaiting(t)
    <2>1. /\ task[t] \in {"running", "paused"} /\ queue'.closed = queue.closed
          /\ \E x \in {"running", "paused", "marked"} : task' = [task EXCEPT ![t] = x]
      <3>1. CASE Admit(t)
        <4>1. task[t] = "running" /\ UNCHANGED queue
          BY <3>1 DEF Admit
        <4>2. task' = task \/ task' = [task EXCEPT ![t] = "paused"]
                \/ task' = [task EXCEPT ![t] = task[t]]
          BY <3>1 DEF Admit
        <4>3. task = [task EXCEPT ![t] = task[t]]
          BY <1>t
        <4> QED BY <4>1, <4>2, <4>3
      <3>2. CASE Pause(t)
        BY <3>2 DEF Pause
      <3>3. CASE MarkWaiting(t)
        BY <1>q, <3>3 DEF MarkWaiting, SetWaiting, Sane, Queues
      <3> QED BY <1>4, <3>1, <3>2, <3>3
    <2>2. \A u \in Tasks : /\ task'[u] \in Executing <=> task[u] \in Executing
                           /\ task[u] = "queued" => task'[u] = "queued"
      BY <1>t, <2>1 DEF Executing
    <2>3. /\ queue'.lanes = queue.lanes /\ queue'.activeSessions = queue.activeSessions
          /\ queue'.active = queue.active
          /\ \A x \in Sessions \ {s} : queue'.waitingSessions[x] = queue.waitingSessions[x]
      <3>1. CASE Admit(t) \/ Pause(t)
        BY <3>1 DEF Admit, Pause
      <3>2. CASE MarkWaiting(t)
        BY <1>s, <1>q, <3>2 DEF MarkWaiting, SetWaiting, Sane, Queues
      <3> QED BY <1>4, <3>1, <3>2
    <2>4. task[t] \in Executing
      BY <2>1 DEF Executing
    <2>5. Holding(queue', task') = Holding(queue, task)
      <3>1. \A x \in Sessions \ {s} : x \in Holding(queue', task') <=> x \in Holding(queue, task)
        BY <2>2, <2>3 DEF Holding
      <3>2. s \in Holding(queue', task') /\ s \in Holding(queue, task)
        BY <1>s, <2>2, <2>4 DEF Holding
      <3> QED BY <3>1, <3>2 DEF Holding
    <2>6. Lined(queue', task')
      BY <1>k, <1>e, <2>2, <2>3 DEF Exact, Lined
    <2> QED BY <1>e, <2>1, <2>2, <2>3, <2>5, <2>6 DEF Exact, Slots, Alone
  <1>5. CASE Finish(t)
    <2> DEFINE x == IF task[t] = "marked" THEN "parked" ELSE "done"
               states == [task EXCEPT ![t] = x]
               p == Finished(queue, s)
    <2>1. task[t] \in Executing
      BY <1>5 DEF Finish
    <2>2. PICK q \in FinishOf(queue, s) : Become(q, states)
      BY <1>5, <1>t DEF Finish
    <2>3. Drained(p, q) /\ Sane(p) /\ Sane(q)
      BY <1>s, <1>q, <2>2, FinishServes
    <2>w. Waiting(queue, s) \in {"none", "suspended", "live"}
      BY <1>s, <1>q DEF Waiting, Sane, Queues
    <2>4. states \in [Tasks -> TaskStates]
      BY <1>t DEF TaskStates
    <2>5. states[t] \in {"parked", "done"} /\ \A u \in Tasks : u # t => states[u] = task[u]
      BY <1>t
    <2>6. /\ p.lanes = queue.lanes /\ p.closed = queue.closed
          /\ p.waitingSessions = queue.waitingSessions
          /\ p.activeSessions =
               IF Waiting(queue, s) = "none" THEN queue.activeSessions \ {s} ELSE queue.activeSessions
          /\ p.active = IF Waiting(queue, s) = "live" THEN queue.active
                        ELSE IF queue.active = 0 THEN 0 ELSE queue.active - 1
      BY <1>s, <1>q, <2>w, FinishedFields
    <2> HIDE DEF states, p
    <2>7. \A u \in Tasks : states[u] = "queued" =>
            \E i \in DOMAIN p.lanes[SessionOf[u]] : p.lanes[SessionOf[u]][i] = u
      BY <1>l, <2>5, <2>6
    <2>8. Lined(p, states)
      <3>1. \A y \in Sessions : \A i \in DOMAIN queue.lanes[y] : states[queue.lanes[y][i]] = "queued"
        <4>1. SUFFICES ASSUME NEW y \in Sessions, NEW i \in DOMAIN queue.lanes[y]
                       PROVE  states[queue.lanes[y][i]] = "queued"
          OBVIOUS
        <4>2. task[queue.lanes[y][i]] = "queued" /\ queue.lanes[y][i] \in Tasks
          BY <1>k, <1>e DEF Exact, Lined
        <4> QED BY <2>1, <2>5, <4>2 DEF Executing
      <3> QED BY <1>e, <2>6, <3>1 DEF Exact, Lined
    <2>9. \A u \in Tasks : states[u] \in Executing => u # t /\ task[u] \in Executing
      BY <2>5 DEF Executing
    <2>10. s \notin early => \A u \in Tasks : states[u] \in Executing => SessionOf[u] # s
      BY <1>e, <2>1, <2>9 DEF Exact, Alone
    <2>11. Alone(p, states, early)
      <3> SUFFICES ASSUME NEW u \in Tasks, states[u] \in Executing, SessionOf[u] \notin early
                   PROVE  /\ ~p.closed => SessionOf[u] \in p.activeSessions
                          /\ \A v \in Tasks : SessionOf[v] = SessionOf[u] /\ states[v] \in Executing
                               => v = u
        BY DEF Alone
      <3>1. SessionOf[u] # s /\ task[u] \in Executing
        BY <2>9, <2>10
      <3> QED BY <1>e, <2>6, <2>9, <3>1 DEF Exact, Alone
    <2>12. ASSUME ~p.closed, early = {}
           PROVE  p.active = Cardinality(Holding(p, states))
      <3>1. queue.active = Cardinality(Holding(queue, task))
        BY <1>e, <2>6, <2>12 DEF Exact, Slots
      <3>2. \A y \in Sessions \ {s} : y \in Holding(p, states) <=> y \in Holding(queue, task)
        BY <2>5, <2>6 DEF Holding
      <3>3. s \in Holding(queue, task)
        BY <1>s, <2>1 DEF Holding
      <3>4. s \in Holding(p, states) <=> Waiting(queue, s) = "live"
        BY <1>s, <2>6, <2>10, <2>12 DEF Holding, Waiting
      <3>5. CASE Waiting(queue, s) = "live"
        <4>1. Holding(p, states) = Holding(queue, task)
          BY <3>2, <3>3, <3>4, <3>5 DEF Holding
        <4> QED BY <2>6, <3>1, <3>5, <4>1
      <3>6. CASE Waiting(queue, s) # "live"
        <4>1. Holding(p, states) = Holding(queue, task) \ {s}
          BY <3>2, <3>4, <3>6 DEF Holding
        <4>2. p.active = IF queue.active = 0 THEN 0 ELSE queue.active - 1
          BY <2>6, <3>6
        <4> QED BY <1>s, <3>1, <3>3, <4>1, <4>2, SlotFreed
      <3> QED BY <3>5, <3>6
    <2>13. Exact(p, states, early)
      BY <2>8, <2>11, <2>12 DEF Exact, Slots
    <2> QED BY <1>e, <2>2, <2>3, <2>4, <2>7, <2>13, DrainExact
  <1> QED BY <1>2, <1>3, <1>4, <1>5 DEF TaskStep

LEMMA ReleasedFields ==
  ASSUME NEW q, Sane(q), NEW s \in Sessions
  PROVE  LET p == Released(q, s) IN
         /\ p.lanes = q.lanes /\ p.closed = q.closed
         /\ \A x \in Sessions :
              p.waitingSessions[x] = IF x = s THEN "none" ELSE q.waitingSessions[x]
         /\ p.activeSessions = q.activeSessions \ {s}
         /\ p.active = IF Waiting(q, s) = "live"
                       THEN IF q.active = 0 THEN 0 ELSE q.active - 1 ELSE q.active
  <1> DEFINE o == Opened(q, s)
  <1>1. /\ Sane(o) /\ o.lanes = q.lanes /\ o.activeSessions = q.activeSessions \ {s}
        /\ o.waitingSessions = [q.waitingSessions EXCEPT ![s] = "none"] /\ o.closed = q.closed
    BY OpenedSane
  <1>2. o.active = q.active
    BY DEF Opened, Sane, Queues
  <1>3. \A x \in Sessions :
          [q.waitingSessions EXCEPT ![s] = "none"][x] = IF x = s THEN "none" ELSE q.waitingSessions[x]
    BY DEF Sane, Queues
  <1>4. Released(q, s) = IF Waiting(q, s) = "live" THEN FreeSlot(o) ELSE o
    BY DEF Released
  <1> HIDE DEF o
  <1>5. LET p == FreeSlot(o) IN
        /\ p.lanes = o.lanes /\ p.activeSessions = o.activeSessions
        /\ p.waitingSessions = o.waitingSessions /\ p.closed = o.closed
        /\ p.active = IF o.active = 0 THEN 0 ELSE o.active - 1
    BY <1>1, FreeSlotSane, FreeSlotCount
  <1> QED BY <1>1, <1>2, <1>3, <1>4, <1>5

\* More sessions in which a control came early leave less to show.
LEMMA MoreMoved ==
  ASSUME NEW q, NEW states, NEW moved, NEW more, moved \subseteq more, Exact(q, states, moved)
  PROVE  Exact(q, states, more)
  BY DEF Exact, Alone, Slots

LEMMA ControlExact ==
  ASSUME OInv, NEW c \in Controllers, ControlStep(c)
  PROVE  Exact(queue', task', early')
  <1> DEFINE s == SessionOfControl(c)
  <1>q. Sane(queue) /\ \A x \in Sessions : Served(queue, x)
    BY DEF OInv, IInv, QueueSound
  <1>t. task \in [Tasks -> TaskStates]
    BY DEF OInv, IInv, Placed
  <1>e. Exact(queue, task, early)
    BY DEF OInv
  <1>l. \A u \in Tasks : task[u] = "queued" =>
          \E i \in DOMAIN queue.lanes[SessionOf[u]] : queue.lanes[SessionOf[u]][i] = u
    BY DEF OInv, IInv, Placed, InLane
  <1>s. ~At(c, "idle") => s \in Sessions
    BY QueueAssumption DEF OInv, IInv, Known, At, Requests, Idle, SessionOfControl
  \* A control that changes the entry of its session while one of its turns
  \* executes came early.
  <1>m. ASSUME Moves(s)
        PROVE  /\ early \subseteq early'
               /\ s \notin early' => \A u \in Tasks : SessionOf[u] = s => task[u] \notin Executing
    BY <1>m DEF Moves, Occupied
  <1>1. CASE UNCHANGED <<queue, task>> /\ early \subseteq early'
    BY <1>1, <1>e, MoreMoved
  <1>2. CASE Acquire(c) /\ ~UNCHANGED <<queue, early>>
    <2>1. /\ ~At(c, "idle") /\ Waiting(queue, s) = "suspended" /\ ~queue.closed
          /\ UNCHANGED task /\ Moves(s)
          /\ queue' = [SetWaiting(queue, s, "live") EXCEPT !.active = @ + 1]
      BY <1>2 DEF Acquire, At
    <2>2. /\ queue'.lanes = queue.lanes /\ queue'.closed = queue.closed
          /\ queue'.activeSessions = queue.activeSessions /\ queue'.active = queue.active + 1
          /\ queue'.waitingSessions[s] = "live"
          /\ \A x \in Sessions \ {s} : queue'.waitingSessions[x] = queue.waitingSessions[x]
      BY <1>q, <1>s, <2>1 DEF SetWaiting, Sane, Queues
    <2>3. early \subseteq early'
      BY <1>m, <2>1
    <2>4. Alone(queue', task', early') /\ Lined(queue', task')
      BY <1>e, <2>1, <2>2, <2>3 DEF Exact, Alone, Lined
    <2>5. ASSUME early' = {}
          PROVE  queue'.active = Cardinality(Holding(queue', task))
      <3>1. \A u \in Tasks : SessionOf[u] = s => task[u] \notin Executing
        BY <1>m, <2>1, <2>5
      <3>2. s \notin Holding(queue, task)
        BY <2>1, <3>1 DEF Holding, Waiting
      <3>3. Holding(queue', task) = Holding(queue, task) \cup {s}
        <4>1. \A x \in Sessions \ {s} : x \in Holding(queue', task) <=> x \in Holding(queue, task)
          BY <2>2 DEF Holding
        <4>2. s \in Holding(queue', task)
          BY <1>s, <2>1, <2>2 DEF Holding
        <4> QED BY <4>1, <4>2 DEF Holding
      <3>4. queue.active = Cardinality(Holding(queue, task))
        BY <1>e, <2>1, <2>3, <2>5 DEF Exact, Slots
      <3> DEFINE r == queue'
      <3>5. s \in Sessions /\ r.active = queue.active + 1
              /\ Holding(r, task) = Holding(queue, task) \cup {s}
        BY <1>s, <2>1, <2>2, <3>3
      <3> HIDE DEF r
      <3>6. r.active = Cardinality(Holding(r, task))
        BY <3>2, <3>4, <3>5, SlotTaken
      <3> QED BY <3>6 DEF r
    <2> QED BY <2>1, <2>4, <2>5 DEF Exact, Slots
  <1>3. CASE ReleaseSession(c)
    <2>1. ~At(c, "idle") /\ s \in Sessions
      BY <1>3, <1>s DEF ReleaseSession, At
    <2>2. PICK q \in Release(queue, s) : Become(q, task)
      BY <1>3 DEF ReleaseSession
    <2> DEFINE p == Released(queue, s)
    <2>3. /\ Sane(q)
          /\ IF Waiting(queue, s) = "none" THEN q = queue ELSE Sane(p) /\ Drained(p, q)
      BY <1>q, <2>1, <2>2, ReleaseServes
    <2>4. CASE Waiting(queue, s) = "none"
      <3>1. queue' = queue /\ early' = early
        BY <1>3, <2>2, <2>3, <2>4 DEF Become, ReleaseSession
      <3>2. task' = task
        BY <1>l, <1>t, <2>2, <3>1 DEF Become
      <3> QED BY <1>1, <3>1, <3>2
    <2>5. CASE Waiting(queue, s) # "none"
      <3>m. /\ early \subseteq early'
            /\ s \notin early' => \A u \in Tasks : SessionOf[u] = s => task[u] \notin Executing
        BY <1>3, <1>m, <2>5 DEF ReleaseSession
      <3>1. /\ p.lanes = queue.lanes /\ p.closed = queue.closed
            /\ \A x \in Sessions :
                 p.waitingSessions[x] = IF x = s THEN "none" ELSE queue.waitingSessions[x]
            /\ p.activeSessions = queue.activeSessions \ {s}
            /\ p.active = IF Waiting(queue, s) = "live"
                          THEN IF queue.active = 0 THEN 0 ELSE queue.active - 1 ELSE queue.active
        BY <1>q, <2>1, ReleasedFields
      <3> HIDE DEF p
      <3>2. Alone(p, task, early')
        BY <1>e, <3>m, <3>1 DEF Exact, Alone
      <3>3. ASSUME ~p.closed, early' = {}
            PROVE  p.active = Cardinality(Holding(p, task))
        <4>1. \A u \in Tasks : SessionOf[u] = s => task[u] \notin Executing
          BY <3>m, <3>3
        <4>2. queue.active = Cardinality(Holding(queue, task))
          BY <1>e, <3>m, <3>1, <3>3 DEF Exact, Slots
        <4>3. \A x \in Sessions \ {s} : x \in Holding(p, task) <=> x \in Holding(queue, task)
          BY <3>1 DEF Holding
        <4>4. /\ s \notin Holding(p, task)
              /\ s \in Holding(queue, task) <=> Waiting(queue, s) = "live"
          BY <2>1, <3>1, <4>1 DEF Holding, Waiting
        <4>5. CASE Waiting(queue, s) = "live"
          <5>1. Holding(p, task) = Holding(queue, task) \ {s}
            BY <4>3, <4>4 DEF Holding
          <5>2. p.active = IF queue.active = 0 THEN 0 ELSE queue.active - 1
            BY <3>1, <4>5
          <5> QED BY <2>1, <4>2, <4>4, <4>5, <5>1, <5>2, SlotFreed
        <4>6. CASE Waiting(queue, s) # "live"
          <5>1. Holding(p, task) = Holding(queue, task)
            BY <4>3, <4>4, <4>6 DEF Holding
          <5> QED BY <3>1, <4>2, <4>6, <5>1
        <4> QED BY <4>5, <4>6
      <3>4. Exact(p, task, early')
        BY <1>e, <3>1, <3>2, <3>3 DEF Exact, Slots, Lined
      <3> QED BY <1>l, <1>t, <2>2, <2>3, <2>5, <3>1, <3>4, DrainExact
    <2> QED BY <2>4, <2>5
  <1>4. CASE Restore(c) /\ ~UNCHANGED <<queue, task, early>>
    <2> DEFINE w == SetWaiting(queue, s, "suspended")
               p == FreeSlot(w)
    <2>1. ~At(c, "idle") /\ s \in Sessions /\ Waiting(queue, s) = "live" /\ Moves(s)
      BY <1>4, <1>s DEF Restore, At
    <2>2. PICK q \in DrainOthers(p, s) : Become(q, task)
      BY <1>4 DEF Restore
    <2>m. /\ early \subseteq early'
          /\ s \notin early' => \A u \in Tasks : SessionOf[u] = s => task[u] \notin Executing
      BY <1>m, <2>1
    <2>3. /\ Sane(w) /\ w.lanes = queue.lanes /\ w.activeSessions = queue.activeSessions
          /\ w.closed = queue.closed /\ w.active = queue.active
          /\ \A x \in Sessions :
               w.waitingSessions[x] = IF x = s THEN "suspended" ELSE queue.waitingSessions[x]
      BY <1>q, <2>1 DEF SetWaiting, Waiting, Sane, Queues
    <2> HIDE DEF w
    <2>4. /\ Sane(p) /\ p.lanes = w.lanes /\ p.activeSessions = w.activeSessions
          /\ p.waitingSessions = w.waitingSessions /\ p.closed = w.closed
          /\ p.active = IF w.active = 0 THEN 0 ELSE w.active - 1
      BY <2>3, FreeSlotSane, FreeSlotCount
    <2> HIDE DEF p
    <2>5. Drained(p, q) /\ Sane(q)
      BY <2>1, <2>2, <2>4, OthersServed
    <2>6. ASSUME ~p.closed, early' = {}
          PROVE  p.active = Cardinality(Holding(p, task))
      <3>1. \A u \in Tasks : SessionOf[u] = s => task[u] \notin Executing
        BY <2>m, <2>6
      <3>2. queue.active = Cardinality(Holding(queue, task))
        BY <1>e, <2>m, <2>3, <2>4, <2>6 DEF Exact, Slots
      <3>3. \A x \in Sessions \ {s} : x \in Holding(p, task) <=> x \in Holding(queue, task)
        BY <2>3, <2>4 DEF Holding
      <3>4. s \notin Holding(p, task) /\ s \in Holding(queue, task)
        BY <2>1, <2>3, <2>4, <3>1 DEF Holding, Waiting
      <3>5. Holding(p, task) = Holding(queue, task) \ {s}
        BY <3>3, <3>4 DEF Holding
      <3> QED BY <2>1, <2>3, <2>4, <3>2, <3>4, <3>5, SlotFreed
    <2>7. Exact(p, task, early')
      BY <1>e, <2>m, <2>3, <2>4, <2>6 DEF Exact, Slots, Alone, Lined
    <2>8. \A u \in Tasks : task[u] = "queued" =>
            \E i \in DOMAIN p.lanes[SessionOf[u]] : p.lanes[SessionOf[u]][i] = u
      BY <1>l, <2>3, <2>4
    <2> QED BY <1>t, <2>2, <2>4, <2>5, <2>7, <2>8, DrainExact
  <1>5. ASSUME \/ \E u \in Tasks, op \in {"cancel", "resume", "sync"} : StartControl(c, u, op)
               \/ Call(c) \/ Stream(c)
        PROVE  UNCHANGED <<queue, task, early>>
    BY <1>5 DEF StartControl, Call, Stream, history
  <1>6. Acquire(c) => UNCHANGED task
    BY DEF Acquire
  <1> QED BY <1>1, <1>2, <1>3, <1>4, <1>5, <1>6 DEF ControlStep

LEMMA NextOInv == OInv /\ [Next]_vars => OInv'
  <1> SUFFICES ASSUME OInv, [Next]_vars
               PROVE  OInv'
    OBVIOUS
  <1>1. IInv'
    BY NextIInv DEF OInv
  <1>2. CASE UNCHANGED vars
    BY <1>1, <1>2 DEF OInv, vars, history
  <1>3. CASE Close
    <2>1. Sane(queue') /\ queue'.closed /\ early' = early
      BY <1>1, <1>3 DEF IInv, QueueSound, Close
    <2>2. \A t \in Tasks : task'[t] \in Executing <=> task[t] \in Executing
      BY <1>3 DEF Close, Executing
    <2>3. Alone(queue', task', early')
      BY <2>1, <2>2 DEF OInv, Exact, Alone
    <2>4. Slots(queue', task', early') /\ Lined(queue', task')
      BY <2>1 DEF Slots, Lined, Sane
    <2> QED BY <1>1, <2>3, <2>4 DEF OInv, Exact
  <1> QED BY <1>1, <1>2, <1>3, TaskExact, ControlExact DEF Next, OInv

\* Two turns of one session never execute together unless a control came early
\* in it, whatever fails, is aborted, replayed or closed meanwhile.
THEOREM TurnsSerial == Spec => []OverlapsAreEarly
  <1>1. OInv => OverlapsAreEarly
    BY DEF OInv, Exact, Alone, OverlapsAreEarly
  <1> QED BY <1>1, InitOInv, NextOInv, PTL DEF Spec

\* Until then the counter of the open queue is exact: one slot for each turn that
\* executes and for each session that waits live after its turns returned.
THEOREM SlotsCounted == Spec => []SlotsExact
  <1>1. ASSUME OInv
        PROVE  SlotsExact
    <2> SUFFICES ASSUME ~queue.closed, early = {}
                 PROVE  queue.active = InUse
      BY DEF SlotsExact
    <2> DEFINE E == {t \in Tasks : task[t] \in Executing}
               f == [t \in E |-> SessionOf[t]]
               X == {s \in Sessions : \E t \in E : SessionOf[t] = s}
    <2>1. \A t, u \in E : SessionOf[t] = SessionOf[u] => t = u
      BY <1>1 DEF OInv, Exact, Alone
    <2>2. f \in Bijection(E, X)
      <3>1. f \in [E -> X]
        BY QueueAssumption
      <3>2. \A t, u \in E : f[t] = f[u] => t = u
        BY <2>1
      <3>3. \A s \in X : \E t \in E : f[t] = s
        OBVIOUS
      <3> HIDE DEF E, f, X
      <3>4. f \in Injection(E, X)
        BY <3>1, <3>2 DEF Injection, IsInjective
      <3>5. f \in Surjection(E, X)
        BY <3>1, <3>3 DEF Surjection
      <3> QED BY <3>4, <3>5 DEF Bijection
    <2>3. IsFiniteSet(E)
      BY FS_Subset, QueueAssumption
    <2> HIDE DEF E, f
    <2>4. IsFiniteSet(X) /\ Cardinality(X) = Cardinality(E)
      BY <2>2, <2>3, FS_Bijection DEF ExistsBijection
    <2>5. Holding(queue, task) = X \cup Parked /\ X \cap Parked = {}
      BY DEF Holding, Parked, Occupied, Waiting, E
    <2>6. IsFiniteSet(Parked)
      BY FS_Subset, QueueAssumption DEF Parked
    <2> HIDE DEF X
    <2>7. Cardinality(X \cup Parked) = Cardinality(X) + Cardinality(Parked)
      <3>1. /\ Cardinality(X) \in Nat /\ Cardinality(Parked) \in Nat
            /\ Cardinality(X \cap Parked) = 0
        BY <2>4, <2>5, <2>6, FS_CardinalityType, FS_EmptySet
      <3>2. Cardinality(X \cup Parked)
              = Cardinality(X) + Cardinality(Parked) - Cardinality(X \cap Parked)
        BY <2>4, <2>6, FS_Union
      <3> QED BY <3>1, <3>2
    <2> QED BY <1>1, <2>4, <2>5, <2>7 DEF OInv, Exact, Slots, InUse, E
  <1> QED BY <1>1, InitOInv, NextOInv, PTL DEF Spec

-----------------------------------------------------------------------------
\* Whose Run a session is marked for.  A Run exists once its turn was admitted;
\* a turn that answers with the Run of another one found it there, and while no
\* control came early that other turn had returned.

Followed ==
    /\ \A t \in Tasks : run[t] # "none" => task[t] \notin {"new", "queued"}
    /\ \A c \in Controllers : ~At(c, "idle") => run[control[c].task] # "none"
    /\ \A t \in Tasks : serves[t] # t =>
         /\ SessionOf[serves[t]] = SessionOf[t] /\ run[serves[t]] # "none"
         /\ SessionOf[t] \in early \/ task[serves[t]] \notin Executing

LInv == OInv /\ Followed /\ LaneKeptForRun

LEMMA InitLInv == Init => LInv
  <1> SUFFICES ASSUME Init PROVE LInv
    OBVIOUS
  <1>1. Followed
    BY DEF Init, Followed, At, Idle
  <1>2. LaneKeptForRun
    BY DEF Init, LaneKeptForRun, Waiting
  <1> QED BY <1>1, <1>2, InitOInv DEF LInv

\* The turns that leave their lane were queued; nobody else starts or ends.
LEMMA BecomeStates ==
  ASSUME NEW q, NEW states \in [Tasks -> TaskStates], Become(q, states)
  PROVE  \A t \in Tasks : task'[t] = states[t] \/ (states[t] = "queued" /\ task'[t] = "running")
  BY DEF Become

LEMMA FinishWaits ==
  ASSUME NEW q, Sane(q), NEW s \in Sessions, \A x \in Sessions : Served(q, x),
         NEW r \in FinishOf(q, s)
  PROVE  r.waitingSessions = q.waitingSessions
  <1>1. Waiting(q, s) \in {"none", "live", "suspended"}
    BY DEF Waiting, Sane, Queues
  <1>2. Finished(q, s).waitingSessions = q.waitingSessions
    BY <1>1, FinishedFields
  <1>3. Drained(Finished(q, s), r)
    BY FinishServes
  <1> QED BY <1>2, <1>3 DEF Drained

LEMMA TaskLInv ==
  ASSUME LInv, NEW t \in Tasks, TaskStep(t)
  PROVE  Followed' /\ LaneKeptForRun'
  <1> DEFINE s == SessionOf[t]
  <1>s. \A u \in Tasks : SessionOf[u] \in Sessions
    BY QueueAssumption
  <1>q. Sane(queue) /\ \A x \in Sessions : Served(queue, x)
    BY DEF LInv, OInv, IInv, QueueSound
  <1>t. /\ task \in [Tasks -> TaskStates] /\ serves \in [Tasks -> Tasks]
        /\ run \in [Tasks -> {"none", "open", "waiting", "settled"}]
        /\ \A c \in Controllers : ~At(c, "idle") => control[c].task \in Tasks
    BY DEF LInv, OInv, IInv, Placed, Known, At, Requests, Idle
  <1>a. \A u, v \in Tasks :
          /\ SessionOf[u] = SessionOf[v] /\ SessionOf[u] \notin early
          /\ task[u] \in Executing /\ task[v] \in Executing
          => u = v
    BY DEF LInv, OInv, Exact, Alone
  <1>c. UNCHANGED <<control, early>>
    BY DEF TaskStep, Enqueue, Abort, Admit, Pause, MarkWaiting, Finish, history
  <1>1. CASE Enqueue(t) \/ Abort(t)
    <2>1. UNCHANGED <<serves, run, control, history>>
      BY <1>1 DEF Enqueue, Abort
    <2>2. /\ task[t] \in {"new", "queued"}
          /\ \A u \in Tasks : u # t => \/ task'[u] = task[u]
                                       \/ task[u] = "queued" /\ task'[u] = "running"
      <3>1. CASE Enqueue(t)
        <4> DEFINE states == [task EXCEPT ![t] = "queued"]
        <4>1. states \in [Tasks -> TaskStates] /\ \A u \in Tasks : u # t => states[u] = task[u]
          BY <1>t DEF TaskStates
        <4>2. PICK q : Become(q, states)
          BY <3>1 DEF Enqueue
        <4> HIDE DEF states
        <4> QED BY <3>1, <4>1, <4>2, BecomeStates DEF Enqueue
      <3>2. CASE Abort(t)
        BY <1>t, <3>2 DEF Abort
      <3> QED BY <1>1, <3>1, <3>2
    <2>3. \A x \in Sessions : Waiting(queue', x) = Waiting(queue, x)
      <3>1. CASE Enqueue(t)
        <4> DEFINE lane == Append(queue.lanes[s], t)
                   q == [queue EXCEPT !.lanes[s] = lane]
        <4>1. lane \in Seq(Tasks)
          BY <1>s, <1>q DEF Sane, Queues
        <4>2. queue' = Drain(q, s)
          BY <3>1 DEF Enqueue, Become
        <4> HIDE DEF lane
        <4>3. Sane(q) /\ q.waitingSessions = queue.waitingSessions
          BY <1>q, <1>s, <3>1, <4>1 DEF Enqueue, Sane, Queues
        <4> HIDE DEF q
        <4>4. Drained(q, Drain(q, s))
          BY <1>s, <4>3, DrainServes
        <4> QED BY <4>2, <4>3, <4>4 DEF Drained, Waiting
      <3>2. CASE Abort(t)
        BY <1>q, <3>2 DEF Abort, Waiting, Sane, Queues
      <3> QED BY <1>1, <3>1, <3>2
    <2>4. run[t] = "none"
      BY <2>2 DEF LInv, Followed
    <2>5. \A u \in Tasks : task[u] \in {"marked", "parked"} => task'[u] = task[u]
      BY <2>2
    <2>6. LaneKeptForRun'
      <3> SUFFICES ASSUME NEW x \in Sessions, Waiting(queue', x) # "none", x \notin stale \cup early
                   PROVE  \/ \E u \in Tasks : /\ SessionOf[u] = x /\ task'[u] \in {"marked", "parked"}
                                              /\ run[serves[u]] # "settled"
                          \/ \E c \in Controllers : At(c, "release") /\ SessionOfControl(c) = x
        BY <2>1 DEF LaneKeptForRun, At, SessionOfControl, history
      <3> QED BY <2>3, <2>5 DEF LInv, LaneKeptForRun
    <2>7. Followed'
      <3>1. \A u \in Tasks : run[u] # "none" => task'[u] = task[u]
        BY <2>2, <2>4 DEF LInv, Followed
      <3> QED BY <1>t, <2>1, <3>1 DEF LInv, Followed, At, history
    <2> QED BY <2>6, <2>7
  <1>2. CASE Admit(t)
    <2>1. /\ task[t] = "running" /\ run[t] = "none" /\ serves[t] = t
          /\ UNCHANGED <<queue, control, history>>
      BY <1>2 DEF Admit
    <2>2. CASE run' = [run EXCEPT ![t] = "open"] /\ UNCHANGED <<task, serves>>
      <3>1. \A u \in Tasks : \/ run'[u] = run[u]
                             \/ u = t /\ run[u] = "none" /\ run'[u] = "open"
        BY <1>t, <2>1, <2>2
      <3>2. Followed'
        BY <1>t, <2>1, <2>2, <3>1 DEF LInv, Followed, At, history
      <3>3. LaneKeptForRun'
        <4>1. \A u \in Tasks : run[serves[u]] # "settled" => run'[serves[u]] # "settled"
          BY <1>t, <3>1
        <4> QED BY <2>1, <2>2, <4>1
                DEF LInv, LaneKeptForRun, At, SessionOfControl, Waiting, history
      <3> QED BY <3>2, <3>3
    <2>3. ASSUME NEW u \in Tasks, u # t, SessionOf[u] = s, run[u] # "none",
                 serves' = [serves EXCEPT ![t] = u], UNCHANGED run,
                 task' = [task EXCEPT ![t] = IF run[u] = "waiting" THEN "paused" ELSE @]
          PROVE  Followed' /\ LaneKeptForRun'
      <3>1. \A v \in Tasks : \/ v # t /\ task'[v] = task[v] /\ serves'[v] = serves[v]
                             \/ v = t /\ task'[v] \in {"running", "paused"} /\ serves'[v] = u
        BY <1>t, <2>1, <2>3
      <3>2. s \in early \/ task[u] \notin Executing
        BY <1>a, <2>1, <2>3 DEF Executing
      <3>3. Followed'
        <4>1. \A v \in Tasks : task'[v] \in Executing <=> task[v] \in Executing
          BY <2>1, <3>1 DEF Executing
        <4>2. \A v \in Tasks : run[v] # "none" => task'[v] \notin {"new", "queued"}
          BY <3>1 DEF LInv, Followed
        <4>3. \A v \in Tasks : serves'[v] # v =>
                /\ SessionOf[serves'[v]] = SessionOf[v] /\ run[serves'[v]] # "none"
                /\ SessionOf[v] \in early \/ task'[serves'[v]] \notin Executing
          <5> SUFFICES ASSUME NEW v \in Tasks, serves'[v] # v
                       PROVE  /\ SessionOf[serves'[v]] = SessionOf[v] /\ run[serves'[v]] # "none"
                              /\ SessionOf[v] \in early \/ task'[serves'[v]] \notin Executing
            OBVIOUS
          <5>1. CASE v = t
            BY <2>3, <3>1, <3>2, <4>1, <5>1
          <5>2. CASE v # t
            BY <1>t, <3>1, <4>1, <5>2 DEF LInv, Followed
          <5> QED BY <5>1, <5>2
        <4> QED BY <2>1, <2>3, <4>2, <4>3 DEF LInv, Followed, At, history
      <3>4. LaneKeptForRun'
        <4>1. \A v \in Tasks : task[v] \in {"marked", "parked"} =>
                task'[v] = task[v] /\ serves'[v] = serves[v]
          BY <2>1, <3>1
        <4> QED BY <2>1, <2>3, <4>1
                DEF LInv, LaneKeptForRun, At, SessionOfControl, Waiting, history
      <3> QED BY <3>3, <3>4
    <2> QED BY <1>2, <2>2, <2>3 DEF Admit
  <1>3. CASE Pause(t)
    <2>1. /\ task[t] \in {"running", "paused"} /\ run[t] \in {"open", "waiting"}
          /\ UNCHANGED <<queue, serves, control, history>>
          /\ \E x \in {"running", "paused"} : task' = [task EXCEPT ![t] = x]
          /\ \E x \in {"open", "waiting"} : run' = [run EXCEPT ![t] = x]
      BY <1>3 DEF Pause
    <2>2. \A u \in Tasks :
            /\ run'[u] = "none" <=> run[u] = "none"
            /\ run'[u] = "settled" <=> run[u] = "settled"
            /\ task'[u] \in Executing <=> task[u] \in Executing
            /\ task'[u] \in {"new", "queued"} <=> task[u] \in {"new", "queued"}
            /\ task[u] \in {"marked", "parked"} => task'[u] = task[u]
      BY <1>t, <2>1 DEF Executing
    <2>3. Followed'
      BY <1>t, <2>1, <2>2 DEF LInv, Followed, At, history
    <2>4. LaneKeptForRun'
      BY <1>t, <2>1, <2>2 DEF LInv, LaneKeptForRun, At, SessionOfControl, Waiting, history
    <2> QED BY <2>3, <2>4
  <1>4. CASE MarkWaiting(t)
    <2>1. /\ task[t] = "paused" /\ task' = [task EXCEPT ![t] = "marked"]
          /\ UNCHANGED <<serves, run, control, early>>
      BY <1>4 DEF MarkWaiting
    <2>2. \A u \in Tasks : \/ u # t /\ task'[u] = task[u]
                           \/ u = t /\ task'[u] = "marked"
      BY <1>t, <2>1
    <2>3. /\ \A u \in Tasks : /\ task'[u] \in Executing <=> task[u] \in Executing
                              /\ task'[u] \in {"new", "queued"} <=> task[u] \in {"new", "queued"}
                              /\ task[u] \in {"marked", "parked"} => task'[u] = task[u]
      BY <2>1, <2>2 DEF Executing
    <2>4. Followed'
      BY <1>t, <2>1, <2>3 DEF LInv, Followed, At
    <2>5. CASE s \in queue.activeSessions
      <3>1. PICK w \in Waits : queue' = SetWaiting(queue, s, w)
        BY <1>4, <2>5 DEF MarkWaiting
      <3>2. \A x \in Sessions : x # s => Waiting(queue', x) = Waiting(queue, x)
        BY <1>q, <3>1 DEF SetWaiting, Waiting, Sane, Queues
      <3>3. stale' = IF run[serves[t]] = "settled" THEN stale \cup {s} ELSE stale \ {s}
        BY <1>4, <2>5 DEF MarkWaiting
      <3>4. ASSUME NEW x \in Sessions, Waiting(queue', x) # "none", x \notin stale' \cup early
            PROVE  \/ \E u \in Tasks : /\ SessionOf[u] = x /\ task'[u] \in {"marked", "parked"}
                                       /\ run[serves[u]] # "settled"
                   \/ \E c \in Controllers : At(c, "release") /\ SessionOfControl(c) = x
        <4>1. CASE x = s
          <5>1. run[serves[t]] # "settled"
            BY <3>3, <3>4, <4>1
          <5> QED BY <2>2, <4>1, <5>1
        <4>2. CASE x # s
          BY <2>3, <3>2, <3>3, <3>4, <4>2 DEF LInv, LaneKeptForRun
        <4> QED BY <4>1, <4>2
      <3>5. LaneKeptForRun'
        BY <2>1, <3>4 DEF LaneKeptForRun, At, SessionOfControl
      <3> QED BY <2>4, <3>5
    <2>6. CASE s \notin queue.activeSessions
      <3>1. UNCHANGED <<queue, stale>>
        BY <1>4, <2>6 DEF MarkWaiting
      <3>2. LaneKeptForRun'
        BY <2>1, <2>3, <3>1 DEF LInv, LaneKeptForRun, At, SessionOfControl, Waiting
      <3> QED BY <2>4, <3>2
    <2> QED BY <2>5, <2>6
  <1>5. CASE Finish(t)
    <2> DEFINE x == IF task[t] = "marked" THEN "parked" ELSE "done"
               states == [task EXCEPT ![t] = x]
    <2>1. task[t] \in Executing /\ UNCHANGED <<serves, control, history>>
      BY <1>5 DEF Finish
    <2>2. PICK q \in FinishOf(queue, s) : Become(q, states)
      BY <1>5, <1>t DEF Finish
    <2>3. states \in [Tasks -> TaskStates]
      BY <1>t DEF TaskStates
    <2>4. /\ states[t] = x /\ \A u \in Tasks : u # t => states[u] = task[u]
      BY <1>t
    <2>5. queue'.waitingSessions = queue.waitingSessions
      BY <1>q, <1>s, <2>2, FinishWaits DEF Become
    <2>6. \A u \in Tasks : \/ task'[u] = states[u]
                           \/ states[u] = "queued" /\ task'[u] = "running"
      <3> HIDE DEF states
      <3> QED BY <2>2, <2>3, BecomeStates
    <2> HIDE DEF states
    <2>7. /\ \A u \in Tasks : task[u] \in {"marked", "parked"} => task'[u] \in {"marked", "parked"}
          /\ \A u \in Tasks : task[u] \notin {"new", "queued"} => task'[u] \notin {"new", "queued"}
          /\ \A u \in Tasks : task[u] \notin {"queued"} \cup Executing => task'[u] \notin Executing
      BY <2>1, <2>4, <2>6 DEF Executing
    <2>8. \A u \in Tasks :
            \/ run'[u] = run[u]
            \/ /\ u = t /\ task[t] # "marked" /\ run[t] # "none" /\ run'[u] = "settled"
      BY <1>5, <1>t DEF Finish
    <2>9. Followed'
      <3>1. \A u \in Tasks : run'[u] # "none" <=> run[u] # "none"
        BY <2>8
      <3>2. \A u \in Tasks : run[u] # "none" /\ task[u] \notin Executing => task'[u] \notin Executing
        BY <2>7 DEF LInv, Followed
      <3> QED BY <1>t, <2>1, <2>7, <3>1, <3>2 DEF LInv, Followed, At, history
    <2>10. ASSUME NEW u \in Tasks, SessionOf[u] \notin early,
                  task[u] \in {"marked", "parked"}, run[serves[u]] # "settled"
           PROVE  run'[serves[u]] # "settled"
      <3>1. CASE serves[u] # t
        BY <1>t, <2>8, <2>10, <3>1
      <3>2. CASE serves[u] = t /\ u = t
        BY <2>1, <2>8, <2>10, <3>2 DEF Executing
      <3>3. CASE serves[u] = t /\ u # t
        BY <2>1, <2>10, <3>3 DEF LInv, Followed
      <3> QED BY <3>1, <3>2, <3>3
    <2>11. LaneKeptForRun'
      <3> SUFFICES ASSUME NEW y \in Sessions, Waiting(queue', y) # "none", y \notin stale \cup early
                   PROVE  \/ \E u \in Tasks : /\ SessionOf[u] = y /\ task'[u] \in {"marked", "parked"}
                                              /\ run'[serves[u]] # "settled"
                          \/ \E c \in Controllers : At(c, "release") /\ SessionOfControl(c) = y
        BY <2>1 DEF LaneKeptForRun, At, SessionOfControl, history
      <3>1. Waiting(queue, y) # "none"
        BY <2>5 DEF Waiting
      <3>2. \/ \E u \in Tasks : /\ SessionOf[u] = y /\ task[u] \in {"marked", "parked"}
                                /\ run[serves[u]] # "settled"
            \/ \E c \in Controllers : At(c, "release") /\ SessionOfControl(c) = y
        BY <3>1 DEF LInv, LaneKeptForRun
      <3> QED BY <2>7, <2>10, <3>2
    <2> QED BY <2>9, <2>11
  <1> QED BY <1>1, <1>2, <1>3, <1>4, <1>5 DEF TaskStep

LEMMA ControlLInv ==
  ASSUME LInv, NEW c \in Controllers, ControlStep(c)
  PROVE  Followed' /\ LaneKeptForRun'
  <1> DEFINE t == control[c].task
             s == SessionOfControl(c)
  <1>q. Sane(queue) /\ \A x \in Sessions : Served(queue, x)
    BY DEF LInv, OInv, IInv, QueueSound
  <1>t. /\ task \in [Tasks -> TaskStates] /\ serves \in [Tasks -> Tasks]
        /\ run \in [Tasks -> {"none", "open", "waiting", "settled"}]
        /\ control \in [Controllers -> Requests \cup {Idle}]
    BY DEF LInv, OInv, IInv, Placed, Known
  <1>r. \A d \in Controllers : ~At(d, "idle") =>
          control[d].task \in Tasks /\ SessionOfControl(d) \in Sessions /\ run[control[d].task] # "none"
    BY <1>t, QueueAssumption
       DEF LInv, Followed, At, Requests, Idle, SessionOfControl
  <1>v. UNCHANGED serves /\ early \subseteq early'
    BY DEF ControlStep, StartControl, Acquire, Call, Stream, ReleaseSession, Restore, Moves, history
  \* What each step does to the controls: the others keep what they are at.
  <1>o. \A d \in Controllers : d # c => control'[d] = control[d]
    BY <1>t DEF ControlStep, StartControl, Acquire, Call, Stream, ReleaseSession, Restore,
                Goto, Return
  \* No turn is started that has a Run, and no Run comes into being or goes.
  <1>b. /\ \A u \in Tasks : task'[u] = task[u] \/ (task[u] = "queued" /\ task'[u] = "running")
        /\ \A u \in Tasks : run'[u] = "none" <=> run[u] = "none"
    <2>1. CASE ReleaseSession(c)
      BY <1>t, <2>1, BecomeStates DEF ReleaseSession
    <2>2. CASE Restore(c)
      BY <1>t, <2>2, BecomeStates DEF Restore
    <2>3. CASE Call(c)
      BY <1>t, <1>r, <2>3 DEF Call, At
    <2>4. CASE Stream(c)
      BY <1>t, <1>r, <2>4 DEF Stream, At
    <2>5. CASE Acquire(c) \/ \E u \in Tasks, op \in {"cancel", "resume", "sync"} : StartControl(c, u, op)
      BY <2>5 DEF Acquire, StartControl
    <2> QED BY <2>1, <2>2, <2>3, <2>4, <2>5 DEF ControlStep
  <1>c. control'[c].pc # "idle" => control'[c].task \in Tasks /\ run[control'[c].task] # "none"
    <2>1. CASE \E u \in Tasks, op \in {"cancel", "resume", "sync"} : StartControl(c, u, op)
      BY <1>t, <2>1 DEF StartControl
    <2>2. CASE Acquire(c)
      <3>1. ~At(c, "idle")
        BY <2>2 DEF Acquire, At
      <3>2. control' = [control EXCEPT ![c] = Idle] \/ control'[c].task = t
        <4>1. control[c] \in Requests
          BY <1>t, <3>1 DEF At, Idle
        <4> QED BY <1>t, <2>2, <4>1 DEF Acquire, Goto, Return, Requests
      <3>3. control'[c] = Idle \/ control'[c].task = t
        BY <1>t, <3>2
      <3> QED BY <1>r, <3>1, <3>3 DEF Idle
    <2>3. CASE Call(c)
      <3>1. ~At(c, "idle")
        BY <2>3 DEF Call, At
      <3>2. control' = [control EXCEPT ![c] = Idle] \/ control'[c].task = t
        <4>1. control[c] \in Requests
          BY <1>t, <3>1 DEF At, Idle
        <4> QED BY <1>t, <2>3, <4>1 DEF Call, Goto, Return, Requests
      <3>3. control'[c] = Idle \/ control'[c].task = t
        BY <1>t, <3>2
      <3> QED BY <1>r, <3>1, <3>3 DEF Idle
    <2>4. CASE Stream(c)
      <3>1. ~At(c, "idle")
        BY <2>4 DEF Stream, At
      <3>2. control' = [control EXCEPT ![c] = Idle] \/ control'[c].task = t
        <4>1. control[c] \in Requests
          BY <1>t, <3>1 DEF At, Idle
        <4> QED BY <1>t, <2>4, <4>1 DEF Stream, Goto, Return, Requests
      <3>3. control'[c] = Idle \/ control'[c].task = t
        BY <1>t, <3>2
      <3> QED BY <1>r, <3>1, <3>3 DEF Idle
    <2>5. CASE ReleaseSession(c) \/ Restore(c)
      <3>1. control'[c] = Idle
        BY <1>t, <2>5 DEF ReleaseSession, Restore, Return
      <3> QED BY <3>1 DEF Idle
    <2> QED BY <2>1, <2>2, <2>3, <2>4, <2>5 DEF ControlStep
  <1>f. Followed'
    <2>1. \A u \in Tasks : run[u] # "none" => task'[u] = task[u]
      BY <1>b DEF LInv, Followed
    <2>2. \A d \in Controllers : control'[d].pc # "idle" => run'[control'[d].task] # "none"
      BY <1>b, <1>c, <1>o, <1>r DEF At
    <2>3. \A u \in Tasks : run'[u] # "none" => task'[u] \notin {"new", "queued"}
      BY <1>b, <2>1 DEF LInv, Followed
    <2>4. \A u \in Tasks : serves[u] # u =>
            /\ SessionOf[serves[u]] = SessionOf[u] /\ run'[serves[u]] # "none"
            /\ SessionOf[u] \in early' \/ task'[serves[u]] \notin Executing
      BY <1>b, <1>t, <1>v, <2>1 DEF LInv, Followed
    <2> QED BY <1>v, <2>2, <2>3, <2>4 DEF Followed, At
  \* A session stays marked for what it was, unless the step takes its reason.
  <1>k. ASSUME NEW x \in Sessions,
               Waiting(queue, x) # "none" /\ x \notin stale \cup early,
               x = s => ~At(c, "release"),
               \A u \in Tasks : run[u] # "settled" /\ run'[u] = "settled" => SessionOf[u] # x
        PROVE  \/ \E u \in Tasks : /\ SessionOf[u] = x /\ task'[u] \in {"marked", "parked"}
                                   /\ run'[serves[u]] # "settled"
               \/ \E d \in Controllers : control'[d].pc = "release" /\ SessionOf[control'[d].task] = x
    <2>1. CASE \E u \in Tasks : /\ SessionOf[u] = x /\ task[u] \in {"marked", "parked"}
                                /\ run[serves[u]] # "settled"
      <3>1. PICK u \in Tasks : /\ SessionOf[u] = x /\ task[u] \in {"marked", "parked"}
                               /\ run[serves[u]] # "settled"
        BY <2>1
      <3>2. SessionOf[serves[u]] = x
        BY <3>1 DEF LInv, Followed
      <3> QED BY <1>b, <1>k, <1>t, <3>1, <3>2
    <2>2. CASE \E d \in Controllers : At(d, "release") /\ SessionOfControl(d) = x
      <3>1. PICK d \in Controllers : At(d, "release") /\ SessionOfControl(d) = x
        BY <2>2
      <3>2. d # c
        BY <1>k, <3>1
      <3> QED BY <1>o, <3>1, <3>2 DEF At, SessionOfControl
    <2> QED BY <1>k, <2>1, <2>2 DEF LInv, LaneKeptForRun
  <1>e. SUFFICES ASSUME NEW x \in Sessions, Waiting(queue', x) # "none", x \notin stale' \cup early'
                 PROVE  \/ \E u \in Tasks : /\ SessionOf[u] = x /\ task'[u] \in {"marked", "parked"}
                                            /\ run'[serves[u]] # "settled"
                        \/ \E d \in Controllers :
                             control'[d].pc = "release" /\ SessionOf[control'[d].task] = x
    BY <1>f, <1>v DEF LaneKeptForRun, At, SessionOfControl
  <1>1. CASE \E u \in Tasks, op \in {"cancel", "resume", "sync"} : StartControl(c, u, op)
    <2>1. At(c, "idle") /\ UNCHANGED <<queue, run, stale>>
      BY <1>1 DEF StartControl, history
    <2> QED BY <1>e, <1>k, <1>v, <2>1 DEF At, Waiting
  <1>2. CASE Acquire(c)
    <2>1. control[c].pc \in {"acquire", "poll"} /\ UNCHANGED <<run, stale>>
      BY <1>2 DEF Acquire
    <2>2. s \in Sessions
      BY <1>r, <2>1 DEF At
    <2>3. Waiting(queue, x) # "none"
      <3>1. CASE UNCHANGED queue
        BY <1>e, <3>1 DEF Waiting
      <3>2. CASE /\ Waiting(queue, s) = "suspended"
                 /\ queue' = [SetWaiting(queue, s, "live") EXCEPT !.active = @ + 1]
        <4>1. \A y \in Sessions : y # s => Waiting(queue', y) = Waiting(queue, y)
          BY <1>q, <2>2, <3>2 DEF SetWaiting, Waiting, Sane, Queues
        <4> QED BY <1>e, <3>2, <4>1
      <3> QED BY <1>2, <3>1, <3>2 DEF Acquire
    <2> QED BY <1>e, <1>k, <1>v, <2>1, <2>3 DEF At
  <1>3. ASSUME Call(c) \/ Stream(c)
        PROVE  \/ \E u \in Tasks : /\ SessionOf[u] = x /\ task'[u] \in {"marked", "parked"}
                                   /\ run'[serves[u]] # "settled"
               \/ \E d \in Controllers : control'[d].pc = "release" /\ SessionOf[control'[d].task] = x
    <2>1. /\ UNCHANGED <<queue, stale>> /\ ~At(c, "idle") /\ ~At(c, "release")
      BY <1>3 DEF Call, Stream, At, history
    <2>2. t \in Tasks
      BY <1>r, <2>1
    <2>3. \/ control'[c].pc = "release" /\ control'[c].task = t
          \/ \A u \in Tasks : run[u] # "settled" => run'[u] # "settled"
      <3>1. CASE run' = [run EXCEPT ![t] = "settled"] /\ Goto(c, "release")
        <4>1. control[c] \in Requests
          BY <1>t, <2>1 DEF At, Idle
        <4> QED BY <1>t, <3>1, <4>1 DEF Goto, Requests
      <3>2. CASE UNCHANGED run
        BY <3>2
      <3>3. CASE \/ run' = [run EXCEPT ![t] = "open"]
                 \/ run' = [run EXCEPT ![t] = IF @ = "open" THEN "waiting" ELSE @]
        BY <1>t, <2>2, <3>3
      <3> QED BY <1>3, <3>1, <3>2, <3>3 DEF Call, Stream
    <2>4. \A u \in Tasks : u # t => run'[u] = run[u]
      BY <1>3, <1>t DEF Call, Stream
    <2>5. CASE x = s /\ control'[c].pc = "release" /\ control'[c].task = t
      BY <2>5 DEF SessionOfControl
    <2>6. CASE x # s \/ \A u \in Tasks : run[u] # "settled" => run'[u] # "settled"
      <3>1. \A u \in Tasks : run[u] # "settled" /\ run'[u] = "settled" => SessionOf[u] # x
        BY <2>4, <2>6 DEF SessionOfControl
      <3>2. Waiting(queue, x) # "none" /\ x \notin stale \cup early
        BY <1>e, <1>v, <2>1
      <3> QED BY <1>k, <2>1, <3>1, <3>2
    <2> QED BY <2>3, <2>5, <2>6
  <1>4. CASE ReleaseSession(c)
    <2>1. s \in Sessions /\ UNCHANGED run /\ stale' = stale \ {s}
      BY <1>4, <1>r DEF ReleaseSession, At
    <2>2. PICK q \in Release(queue, s) : Become(q, task)
      BY <1>4 DEF ReleaseSession
    <2>3. /\ Waiting(queue', s) = "none"
          /\ \A y \in Sessions : y # s => Waiting(queue', y) = Waiting(queue, y)
      <3>1. CASE Waiting(queue, s) = "none"
        <4>1. queue' = queue
          BY <1>q, <2>1, <2>2, <3>1, ReleaseServes DEF Become
        <4> QED BY <3>1, <4>1
      <3>2. CASE Waiting(queue, s) # "none"
        <4>1. Drained(Released(queue, s), queue')
          BY <1>q, <2>1, <2>2, <3>2, ReleaseServes DEF Become
        <4>2. queue'.waitingSessions = Released(queue, s).waitingSessions
          BY <4>1 DEF Drained
        <4>3. \A y \in Sessions : Released(queue, s).waitingSessions[y]
                                    = IF y = s THEN "none" ELSE queue.waitingSessions[y]
          BY <1>q, <2>1, ReleasedFields
        <4> QED BY <2>1, <4>2, <4>3 DEF Waiting
      <3> QED BY <3>1, <3>2
    <2>4. x # s /\ Waiting(queue, x) # "none" /\ x \notin stale \cup early
      BY <1>e, <1>v, <2>1, <2>3
    <2> QED BY <1>k, <2>1, <2>4
  <1>5. CASE Restore(c)
    <2>1. s \in Sessions /\ UNCHANGED <<run, stale>> /\ At(c, "restore")
      BY <1>5, <1>r DEF Restore, At
    <2>2. Waiting(queue, x) # "none"
      <3>1. CASE UNCHANGED queue
        BY <1>e, <3>1 DEF Waiting
      <3>2. CASE \E q \in DrainOthers(FreeSlot(SetWaiting(queue, s, "suspended")), s) : Become(q, task)
                 /\ Waiting(queue, s) = "live"
        <4> DEFINE w == SetWaiting(queue, s, "suspended")
        <4>1. /\ Sane(w) /\ \A y \in Sessions : y # s => w.waitingSessions[y] = queue.waitingSessions[y]
          BY <1>q, <2>1, <3>2 DEF SetWaiting, Waiting, Sane, Queues
        <4>2. PICK q \in DrainOthers(FreeSlot(w), s) : Become(q, task)
          BY <3>2
        <4> HIDE DEF w
        <4>3. Sane(FreeSlot(w)) /\ FreeSlot(w).waitingSessions = w.waitingSessions
          BY <4>1, FreeSlotSane
        <4>4. Drained(FreeSlot(w), q)
          BY <2>1, <4>2, <4>3, OthersServed
        <4>5. queue'.waitingSessions = w.waitingSessions
          BY <4>2, <4>3, <4>4 DEF Drained, Become
        <4> QED BY <1>e, <3>2, <4>1, <4>5 DEF Waiting
      <3> QED BY <1>5, <3>1, <3>2 DEF Restore
    <2>3. ~At(c, "release") /\ x \notin stale \cup early
      BY <1>e, <1>v, <2>1 DEF At
    <2> QED BY <1>k, <2>1, <2>2, <2>3
  <1> QED BY <1>1, <1>2, <1>3, <1>4, <1>5 DEF ControlStep

LEMMA NextLInv == LInv /\ [Next]_vars => LInv'
  <1> SUFFICES ASSUME LInv, [Next]_vars
               PROVE  LInv'
    OBVIOUS
  <1>1. OInv'
    BY NextOInv DEF LInv
  <1>2. CASE UNCHANGED vars
    BY <1>1, <1>2 DEF LInv, vars, history, Followed, LaneKeptForRun, At, SessionOfControl, Waiting
  <1>3. CASE Close
    <2>1. UNCHANGED <<serves, run, control, early>>
      BY <1>3 DEF Close
    <2>2. \A s \in Sessions : Waiting(queue', s) = "none"
      BY <1>3 DEF Close, Waiting
    <2>3. \A t \in Tasks : \/ task'[t] = task[t]
                           \/ task[t] = "queued" /\ task'[t] = "new"
      BY <1>3 DEF Close
    <2>4. \A t \in Tasks : run[t] # "none" => task'[t] = task[t]
      BY <2>3 DEF LInv, Followed
    <2>5. serves \in [Tasks -> Tasks]
      BY DEF LInv, OInv, IInv, Known
    <2>6. Followed'
      BY <2>1, <2>4, <2>5 DEF LInv, Followed, At
    <2>7. LaneKeptForRun'
      BY <2>2 DEF LaneKeptForRun
    <2> QED BY <1>1, <2>6, <2>7 DEF LInv
  <1> QED BY <1>1, <1>2, <1>3, TaskLInv, ControlLInv DEF Next, LInv

\* No lane stays closed behind a Run that has ended: while no control came early
\* in a session and the turn that marked it last found its Run not ended, a marked
\* session has such a Run or a control that is about to release it.
THEOREM LanesFreed == Spec => []LaneKeptForRun
  <1>1. LInv => LaneKeptForRun
    BY DEF LInv
  <1> QED BY <1>1, InitLInv, NextLInv, PTL DEF Spec

=============================================================================

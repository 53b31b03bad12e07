--------------------------- MODULE RoomWorkStopProofs ---------------------------
(* Theorems about what a stop of a RoomWork promises and about the assignments *)
(* that wait for one another: a confirmed stop is quiet, and no wake-up is     *)
(* lost.  They rest on the invariant of RoomWorkProofs.                        *)
EXTENDS RoomWorkProofs, WellFoundedInduction

-----------------------------------------------------------------------------
\* What an assignment continues.

\* Assignments continue earlier ones that exist, and are created in order.
Family(asg) ==
    /\ \A a \in Assignments : asg[a].parent \in 0 .. a - 1
    /\ \A a \in Assignments : asg[a].parent # 0 => asg[asg[a].parent].status # "absent"
    /\ \A a, b \in Assignments : asg[a].status = "absent" /\ asg[b].status # "absent" => b < a

\* The function f gives each assignment with everything it continues.
Chain(asg, f) ==
    f = [a \in Assignments |->
            {a} \cup (IF asg[a].parent = 0 THEN {} ELSE f[asg[a].parent])]

\* A set of numbers that is not empty has a least one.
LEMMA LeastOne ==
  ASSUME NEW T \in SUBSET Nat, T # {}
  PROVE  \E n \in T : \A m \in T : n <= m
  <1>1. IsWellFoundedOn(OpToRel(<, Nat), Nat)
    BY NatLessThanWellFounded
  <1>2. PICK n \in T : \A m \in T : <<m, n>> \notin OpToRel(<, Nat)
    BY <1>1, WFMin
  <1>3. \A m \in T : ~(m < n)
    BY <1>2 DEF OpToRel
  <1> QED BY <1>3

LEMMA EarlierOne ==
  ASSUME NEW asg, Family(asg), NEW a \in Assignments, asg[a].parent # 0
  PROVE  asg[a].parent \in Assignments /\ asg[a].parent < a
  BY RoomWorkAssumption DEF Family, Assignments

\* There is such a function: row by row, from the first assignment on.
LEMMA ChainExists ==
  ASSUME NEW asg, Family(asg)
  PROVE  \E f : Chain(asg, f)
  <1> DEFINE Part(n, f) == \A a \in 1 .. n :
                 f[a] = {a} \cup (IF asg[a].parent = 0 THEN {} ELSE f[asg[a].parent])
             Fn == [Assignments -> SUBSET Assignments]
             T == {n \in 1 .. MaxAssignments : ~ \E f \in Fn : Part(n, f)}
  <1>1. MaxAssignments \in Nat \ {0}
    BY RoomWorkAssumption
  <1>2. T = {}
    <2> SUFFICES ASSUME T # {} PROVE FALSE
      OBVIOUS
    <2>1. PICK n \in T : \A m \in T : n <= m
      <3>1. T \subseteq 1 .. MaxAssignments
        OBVIOUS
      <3> HIDE DEF T
      <3>2. T \in SUBSET Nat
        BY <1>1, <3>1
      <3> QED BY <3>2, LeastOne
    <2>2. n \in Assignments /\ n \in Nat \ {0} /\ n <= MaxAssignments
      BY <1>1 DEF Assignments
    <2>3. PICK f \in Fn : Part(n - 1, f)
      <3>1. CASE n = 1
        <4>1. [a \in Assignments |-> {}] \in Fn
          OBVIOUS
        <4>2. 1 .. n - 1 = {}
          BY <3>1
        <4> QED BY <4>1, <4>2
      <3>2. CASE n # 1
        <4>1. n - 1 \in 1 .. MaxAssignments /\ ~(n <= n - 1)
          BY <1>1, <2>2, <3>2
        <4>2. n - 1 \notin T
          BY <2>1, <4>1
        <4> HIDE DEF Part, Fn
        <4> QED BY <4>1, <4>2
      <3> QED BY <3>1, <3>2
    <2> DEFINE h == [f EXCEPT ![n] = {n} \cup (IF asg[n].parent = 0 THEN {} ELSE f[asg[n].parent])]
    <2>4. h \in Fn
      BY <2>2, <2>3, EarlierOne
    <2>5. \A a \in Assignments \ {n} : h[a] = f[a]
      BY <2>3
    <2>6. h[n] = {n} \cup (IF asg[n].parent = 0 THEN {} ELSE f[asg[n].parent])
      BY <2>2, <2>3
    <2> HIDE DEF h
    <2>7. \A a \in 1 .. n : a \in Assignments /\ (asg[a].parent # 0 => asg[a].parent \in Assignments \ {n})
      BY <1>1, <2>1, <2>2, EarlierOne DEF Assignments
    <2>8. ASSUME NEW a \in 1 .. n
          PROVE  h[a] = {a} \cup (IF asg[a].parent = 0 THEN {} ELSE h[asg[a].parent])
      <3>1. asg[a].parent # 0 => h[asg[a].parent] = f[asg[a].parent]
        BY <2>5, <2>7
      <3>2. CASE a = n
        BY <2>6, <3>1, <3>2
      <3>3. CASE a # n
        <4> HIDE DEF T, Part
        <4>1. a \in 1 .. n - 1 /\ a \in Assignments \ {n}
          BY <2>2, <2>7, <3>3
        <4> QED BY <2>3, <2>5, <3>1, <4>1 DEF Part
      <3> QED BY <3>2, <3>3
    <2> QED BY <2>1, <2>4, <2>8
  <1>3. PICK f \in Fn : Part(MaxAssignments, f)
    BY <1>1, <1>2
  <1>4. f = [a \in Assignments |->
            {a} \cup (IF asg[a].parent = 0 THEN {} ELSE f[asg[a].parent])]
    BY <1>3 DEF Assignments
  <1> QED BY <1>4 DEF Chain

\* Where two works continue the same rows, so do their functions.
LEMMA ChainAgree ==
  ASSUME NEW asg, NEW bsg, NEW f, NEW g, Chain(asg, f), Chain(bsg, g), Family(asg),
         \A a \in Assignments : asg[a].status # "absent" => bsg[a].parent = asg[a].parent
  PROVE  \A a \in Assignments : asg[a].status # "absent" => g[a] = f[a]
  <1> DEFINE T == {a \in Assignments : asg[a].status # "absent" /\ g[a] # f[a]}
  <1> SUFFICES ASSUME T # {} PROVE FALSE
    OBVIOUS
  <1>1. T \subseteq Nat
    BY RoomWorkAssumption DEF Assignments
  <1>2. PICK n \in T : \A m \in T : n <= m
    BY <1>1, LeastOne
  <1>3. n \in Assignments /\ n \in Nat
    BY <1>1, <1>2
  <1>4. f[n] = {n} \cup (IF asg[n].parent = 0 THEN {} ELSE f[asg[n].parent])
    BY <1>3 DEF Chain
  <1>5. g[n] = {n} \cup (IF bsg[n].parent = 0 THEN {} ELSE g[bsg[n].parent])
    BY <1>3 DEF Chain
  <1>6. bsg[n].parent = asg[n].parent
    BY <1>2
  <1>7. CASE asg[n].parent = 0
    BY <1>2, <1>4, <1>5, <1>6, <1>7
  <1>8. CASE asg[n].parent # 0
    <2>1. asg[n].parent \in Assignments /\ asg[n].parent < n
      BY <1>3, <1>8, EarlierOne
    <2>2. asg[asg[n].parent].status # "absent"
      BY <1>3, <1>8 DEF Family
    <2>3. asg[n].parent \notin T
      BY <1>1, <1>2, <1>3, <2>1
    <2>4. g[asg[n].parent] = f[asg[n].parent]
      BY <2>1, <2>2, <2>3
    <2> QED BY <1>2, <1>4, <1>5, <1>6, <1>8, <2>4
  <1> QED BY <1>7, <1>8

LEMMA UnderChain ==
  ASSUME Family(assignment)
  PROVE  Chain(assignment, Under)
  <1>1. \E f : f = [a \in Assignments |->
            {a} \cup (IF assignment[a].parent = 0 THEN {} ELSE f[assignment[a].parent])]
    BY ChainExists DEF Chain
  <1>2. Under = [a \in Assignments |->
            {a} \cup (IF assignment[a].parent = 0 THEN {} ELSE Under[assignment[a].parent])]
    BY <1>1 DEF Under
  <1> QED BY <1>2 DEF Chain

-----------------------------------------------------------------------------
\* The inductive invariant, on top of IInv.

OpenRun(o) == o \in {"open", "waiting"}

\* An assignment row x, its reservation r and the outcome o of its Run.  A Run is
\* open only while its row is linked to it and either runs, is unknown, or was
\* settled as waiting for input; what may still be claimed has no Run.
RowSeen(x, r, o) ==
    /\ OpenRun(o) => x.linked
    /\ OpenRun(o) /\ x.status \notin {"running", "outcome_unknown"} => x.result = "waiting"
    /\ r.status = "reserved" => ~x.linked
    /\ r.status \in {"reserved", "claimed"} => x.result # "waiting"
    /\ x.result = "waiting" => x.status \in {"waiting", "ready", "cancelled"}
    /\ x.status = "waiting" /\ r.status = "reserved" => x.parent # 0

Seen == \A a \in Assignments : RowSeen(assignment[a], reservation[a], outcome[a])

\* A lane that may still come to settle its assignment as waiting for input.
Answering(x) ==
    \/ x.pc \in {"admitted", "awaiting", "recovering"}
    \/ x.pc = "settling" /\ x.status = "waiting"

\* A stop of the work outdates every lane, a stop of an assignment those that
\* may settle it as waiting.
LaunchSeen(w) ==
    launch[w].pc # "idle" =>
        /\ launch[w].generation <= work.generation
        /\ work.stop # "none" => launch[w].generation < work.generation
        /\ assignment[launch[w].a].status # "absent"
        /\ launch[w].pc = "settling" /\ launch[w].status \in Terminal /\ launch[w].linked =>
               outcome[launch[w].a] \in Terminal
        /\ Answering(launch[w]) /\ AssignmentStopOpen(launch[w].a) =>
               launch[w].generation < work.generation

\* What the control c stops was not settled as waiting for input.
TargetSeen(c, a) ==
    /\ assignment[a].status # "absent" /\ assignment[a].result # "waiting"
    /\ \/ control[c].action = "stop_request"
       \/ control[c].action = "assignment_stop" /\ control[c].target \in Under[a]

DispatchSeen(w) ==
    /\ dispatch[w].pc = "reconcile" /\ dispatch[w].a \notin dispatch[w].linked =>
           dispatch[w].status = "outcome_unknown"
    /\ dispatch[w].pc # "idle" /\ HoldsStop(w) =>
           /\ dispatch[w].pc = "reconcile" => dispatch[w].a \in dispatch[w].targets
           /\ \A a \in dispatch[w].targets : TargetSeen(dispatch[w].c, a)

LanesSeen == \A w \in Workers : LaunchSeen(w) /\ DispatchSeen(w)

Asked == \A c \in Controls : control[c].action = "stop_request" => work.stop # "none"

SInv ==
    /\ Seen /\ Family(assignment) /\ LanesSeen /\ Asked
    /\ ConfirmedIsQuiet /\ ContinuationWakes

-----------------------------------------------------------------------------
\* What every step keeps.

RowsKeep ==
    /\ Family(assignment)'
    /\ \A a \in Assignments : assignment[a].status # "absent" =>
           /\ assignment'[a].status # "absent"
           /\ assignment'[a].parent = assignment[a].parent

RunsKeep == \A a \in Assignments : outcome[a] \in Terminal => outcome'[a] \in Terminal

StopKeeps ==
    /\ work'.generation >= work.generation
    /\ work.stop = "none" /\ work'.stop # "none" => work'.generation > work.generation
    /\ work.stop # "none" => work'.stop # "none"

\* A control keeps what it is about and is never opened again; one that is issued
\* starts a generation.
ControlKept(c) ==
    /\ control'[c].action = control[c].action /\ control'[c].target = control[c].target
    /\ control'[c].state \in Dispatchable => control[c].state \in Dispatchable

ControlIssued(c) ==
    /\ work'.generation > work.generation
    /\ control'[c].state # "pending"
    /\ control'[c].action = "stop_request" => work'.stop # "none"

ControlKeeps == \A c \in Controls : ControlKept(c) \/ ControlIssued(c)

Keeps == RowsKeep /\ RunsKeep /\ StopKeeps /\ ControlKeeps

\* The prover needs the primed definitions of what is on both sides of a step.
LEMMA UnderKeeps ==
  ASSUME Family(assignment), RowsKeep
  PROVE  \A a \in Assignments : assignment[a].status # "absent" => Under'[a] = Under[a]
  <1>1. Chain(assignment, Under)
    BY UnderChain
  <1>2. Family(assignment)' => Chain(assignment, Under)'
    BY UnderChain, PTL
  <1>3. Chain(assignment', Under')
    BY <1>2 DEF RowsKeep, Chain
  <1>4. \A a \in Assignments : assignment[a].status # "absent" => assignment'[a].parent = assignment[a].parent
    BY DEF RowsKeep
  <1> HIDE DEF Under
  <1> QED BY <1>1, <1>3, <1>4, ChainAgree

LEMMA AskedKeeps ==
  ASSUME Asked, Keeps
  PROVE  Asked'
  BY DEF Asked, Keeps, ControlKeeps, ControlKept, ControlIssued, StopKeeps

\* A stop that reaches an assignment did so before, or starts a generation.
LEMMA StopReaches ==
  ASSUME IInv, Family(assignment), Keeps, NEW a \in Assignments, assignment[a].status # "absent",
         AssignmentStopOpen(a)'
  PROVE  AssignmentStopOpen(a) \/ work'.generation > work.generation
  <1>1. PICK c \in Controls : /\ control'[c].action = "assignment_stop"
                              /\ control'[c].state \in Dispatchable
                              /\ control'[c].target \in Under'[a]
    BY DEF AssignmentStopOpen
  <1>2. Under'[a] = Under[a]
    BY UnderKeeps DEF Keeps
  <1>3. CASE ControlIssued(c)
    BY <1>3 DEF ControlIssued
  <1>4. CASE ControlKept(c)
    BY <1>1, <1>2, <1>4 DEF ControlKept, AssignmentStopOpen
  <1> QED BY <1>3, <1>4 DEF Keeps, ControlKeeps

-----------------------------------------------------------------------------
\* The lanes that a step leaves where they are.

\* A step that settles no target of a stop as waiting for input.
TargetsKeep(w) ==
    dispatch[w].pc # "idle" /\ HoldsStop(w) =>
        \A a \in dispatch[w].targets : assignment'[a].result # "waiting"

\* A stop lane holds its control after the step only if it did before.
HoldKept(w) == dispatch[w].pc # "idle" /\ HoldsStop(w)' => HoldsStop(w)

LEMMA LaunchStays ==
  ASSUME IInv, IInv', Family(assignment), Keeps, NEW w \in Workers, LaunchSeen(w),
         launch'[w] = launch[w]
  PROVE  LaunchSeen(w)'
  <1>1. /\ work.generation \in Nat /\ work'.generation \in Nat
        /\ work'.generation >= work.generation
    <2>1. Typed /\ Typed'
      BY DEF IInv
    <2>2. work.generation \in Nat
      BY <2>1, NumbersFit
    <2>3. work'.generation \in Nat
      BY <2>1, RoomWorkAssumption DEF Typed, WorkRows
    <2> QED BY <2>2, <2>3 DEF Keeps, StopKeeps
  <1> SUFFICES ASSUME launch[w].pc # "idle"
               PROVE  LaunchSeen(w)'
    BY DEF LaunchSeen
  <1> DEFINE x == launch[w]
  <1>2. x.generation \in Nat /\ x.a \in Assignments /\ launch'[w] = x
    BY RoomWorkAssumption DEF IInv, LanesOf, LaunchPlaced, LaunchRows
  <1>3. x.generation <= work.generation /\ assignment[x.a].status # "absent"
    BY DEF LaunchSeen
  <1>4. work'.stop # "none" => x.generation < work'.generation
    BY <1>1, <1>2, <1>3 DEF LaunchSeen, Keeps, StopKeeps
  <1>5. assignment'[x.a].status # "absent"
    BY <1>2, <1>3 DEF Keeps, RowsKeep
  <1>6. x.pc = "settling" /\ x.status \in Terminal /\ x.linked => outcome'[x.a] \in Terminal
    BY <1>2 DEF LaunchSeen, Keeps, RunsKeep
  <1>7. Answering(x) /\ AssignmentStopOpen(launch[w].a)' => x.generation < work'.generation
    <2> SUFFICES ASSUME Answering(x), AssignmentStopOpen(launch[w].a)'
                 PROVE  x.generation < work'.generation
      OBVIOUS
    <2>1. PICK b \in Assignments : b = x.a
      BY <1>2
    <2>2. AssignmentStopOpen(b)'
      BY <1>2, <2>1 DEF AssignmentStopOpen
    <2>3. AssignmentStopOpen(b) \/ work'.generation > work.generation
      BY <1>3, <2>1, <2>2, StopReaches
    <2>4. AssignmentStopOpen(b) => x.generation < work.generation
      BY <2>1 DEF LaunchSeen
    <2> QED BY <1>1, <1>2, <1>3, <2>3, <2>4
  <1>8. x.generation <= work'.generation
    BY <1>1, <1>2, <1>3
  <1> QED BY <1>2, <1>4, <1>5, <1>6, <1>7, <1>8 DEF LaunchSeen, Answering

\* A target stays one, and so does the stop it is a target of.
LEMMA TargetStays ==
  ASSUME IInv, Family(assignment), Keeps, NEW c \in Controls, NEW a \in Assignments,
         TargetSeen(c, a), assignment'[a].result # "waiting", control'[c].state = "pending"
  PROVE  TargetSeen(c, a)'
  <1>1. ControlKept(c)
    BY DEF Keeps, ControlKeeps, ControlIssued
  <1>2. assignment[a].status # "absent" /\ assignment'[a].status # "absent"
    BY DEF TargetSeen, Keeps, RowsKeep
  <1>3. Under'[a] = Under[a]
    BY <1>2, UnderKeeps DEF Keeps
  <1> HIDE DEF Under
  <1> QED BY <1>1, <1>2, <1>3 DEF TargetSeen, ControlKept

LEMMA DispatchStays ==
  ASSUME IInv, Family(assignment), Keeps, NEW w \in Workers, DispatchSeen(w),
         dispatch'[w] = dispatch[w], HoldKept(w), TargetsKeep(w)
  PROVE  DispatchSeen(w)'
  <1> DEFINE y == dispatch[w]
  <1>1. dispatch'[w] = y
    OBVIOUS
  <1>2. y.pc = "reconcile" /\ y.a \notin y.linked => y.status = "outcome_unknown"
    BY DEF DispatchSeen
  <1>3. ASSUME y.pc # "idle", HoldsStop(w)'
        PROVE  /\ y.pc = "reconcile" => y.a \in y.targets
               /\ \A a \in y.targets : TargetSeen(y.c, a)'
    <2>1. HoldsStop(w) /\ y.c \in Controls /\ y.targets \subseteq Assignments
      BY <1>3 DEF HoldKept, IInv, LanesOf, DispatchPlaced, DispatchRows
    <2>2. control'[y.c].state = "pending"
      BY <1>1, <1>3 DEF HoldsStop
    <2>3. y.pc = "reconcile" => y.a \in y.targets
      BY <1>3, <2>1 DEF DispatchSeen
    <2>4. ASSUME NEW a \in y.targets
          PROVE  TargetSeen(y.c, a)'
      <3>1. PICK c \in Controls : c = y.c
        BY <2>1
      <3>2. TargetSeen(c, a) /\ assignment'[a].result # "waiting"
        BY <1>3, <2>1, <3>1 DEF DispatchSeen, TargetsKeep
      <3>3. TargetSeen(c, a)'
        BY <2>1, <2>2, <3>1, <3>2, TargetStays
      <3> HIDE DEF Under
      <3> QED BY <3>1, <3>3, <1>1 DEF TargetSeen
    <2> QED BY <2>3, <2>4
  <1> HIDE DEF Under
  <1> QED BY <1>1, <1>2, <1>3 DEF DispatchSeen, TargetSeen

LEMMA LanesStay ==
  ASSUME IInv, IInv', Family(assignment), LanesSeen, Keeps, NEW w \in Workers,
         \A v \in Workers \ {w} : /\ launch'[v] = launch[v] /\ dispatch'[v] = dispatch[v]
                                  /\ HoldKept(v)
                                  /\ TargetsKeep(v),
         LaunchSeen(w)', DispatchSeen(w)'
  PROVE  LanesSeen'
  <1>1. ASSUME NEW v \in Workers \ {w}
        PROVE  LaunchSeen(v)' /\ DispatchSeen(v)'
    <2>1. LaunchSeen(v)'
      BY LaunchStays DEF LanesSeen
    <2>2. DispatchSeen(v)'
      BY DispatchStays DEF LanesSeen
    <2> QED BY <2>1, <2>2
  <1> QED BY <1>1 DEF LanesSeen

\* The stop lane keeps its place while a launch lane moves.
LEMMA LaunchLaneMoves ==
  ASSUME IInv, IInv', Family(assignment), LanesSeen, Keeps, NEW w \in Workers, UNCHANGED <<control, dispatch>>,
         \A v \in Workers \ {w} : launch'[v] = launch[v],
         \A v \in Workers : TargetsKeep(v),
         LaunchSeen(w)'
  PROVE  LanesSeen'
  <1>1. \A v \in Workers : HoldKept(v)
    BY DEF HoldsStop, HoldKept
  <1>2. DispatchSeen(w)'
    BY <1>1, DispatchStays DEF LanesSeen
  <1> QED BY <1>1, <1>2, LanesStay

\* No lane moves, and no stop is taken by another worker.
LEMMA LanesRest ==
  ASSUME IInv, IInv', Family(assignment), LanesSeen, Keeps, UNCHANGED lanes,
         \A v \in Workers : TargetsKeep(v) /\ HoldKept(v)
  PROVE  LanesSeen'
  <1>1. ASSUME NEW v \in Workers
        PROVE  LaunchSeen(v)' /\ DispatchSeen(v)'
    <2>1. launch'[v] = launch[v] /\ dispatch'[v] = dispatch[v]
      BY DEF lanes
    <2>2. LaunchSeen(v)'
      BY <2>1, LaunchStays DEF LanesSeen
    <2>3. DispatchSeen(v)'
      BY <2>1, DispatchStays DEF LanesSeen
    <2> QED BY <2>2, <2>3
  <1> QED BY <1>1 DEF LanesSeen

\* Nothing is newly settled as waiting for input.
LEMMA NothingWaits ==
  ASSUME IInv, LanesSeen,
         \A a \in Assignments : assignment'[a].result = "waiting" => assignment[a].result = "waiting"
  PROVE  \A v \in Workers : TargetsKeep(v)
  <1> SUFFICES ASSUME NEW v \in Workers, dispatch[v].pc # "idle", HoldsStop(v),
                      NEW a \in dispatch[v].targets
               PROVE  assignment'[a].result # "waiting"
    BY DEF TargetsKeep
  <1>1. a \in Assignments
    BY DEF IInv, LanesOf, DispatchPlaced, DispatchRows
  <1>2. assignment[a].result # "waiting"
    BY DEF LanesSeen, DispatchSeen, TargetSeen
  <1> QED BY <1>1, <1>2

-----------------------------------------------------------------------------
\* What becomes of the rows.

\* Every row is at rest: what ConfirmedIsQuiet asks of them.
Quiet(asg, o) ==
    \A a \in Assignments : /\ asg[a].status \notin Active
                           /\ OpenRun(o[a]) => asg[a].result = "waiting"

LEMMA QuietIsConfirmed ==
  ConfirmedIsQuiet <=> (work.stop = "confirmed" => Quiet(assignment, outcome))
  BY DEF ConfirmedIsQuiet, Quiet, OpenRun

\* A stop that counts nothing active and nothing unknown finds the rows at rest.
LEMMA CountedIsQuiet ==
  ASSUME NEW asg, NEW res, NEW o,
         \A a \in Assignments : RowSeen(asg[a], res[a], o[a]),
         \A a \in Assignments : asg[a].status \notin Active \cup {"outcome_unknown"}
  PROVE  Quiet(asg, o)
  BY DEF RowSeen, Quiet, Active

\* No row comes or goes and none changes what it continues.
LEMMA SameFamily ==
  ASSUME Family(assignment),
         \A a \in Assignments : /\ assignment'[a].parent = assignment[a].parent
                                /\ assignment'[a].status = "absent" <=> assignment[a].status = "absent"
  PROVE  RowsKeep
  <1>1. Family(assignment')
    <2>1. ASSUME NEW a \in Assignments, assignment'[a].parent # 0
          PROVE  assignment'[assignment'[a].parent].status # "absent"
      <3>1. assignment[a].parent \in Assignments
        BY <2>1, EarlierOne
      <3> QED BY <2>1, <3>1 DEF Family
    <2> QED BY <2>1 DEF Family
  <1> QED BY <1>1 DEF RowsKeep, Family

LEMMA WokenRow ==
  ASSUME NEW asg \in [Assignments -> AssignmentRows], NEW a, NEW b \in Assignments
  PROVE  /\ \/ Wake(asg, a)[b].status = asg[b].status
            \/ /\ asg[b].status = "waiting" /\ Wake(asg, a)[b].status = "ready"
               /\ work.stop = "none" /\ asg[a].status \in Terminal
         /\ Wake(asg, a)[b].parent = asg[b].parent
         /\ Wake(asg, a)[b].linked = asg[b].linked
         /\ Wake(asg, a)[b].result = asg[b].result
         /\ work.stop = "none" /\ asg[a].status \in Terminal /\ asg[b].parent = a =>
                Wake(asg, a)[b].status # "waiting"
  <1> DEFINE q(x) == [x EXCEPT !.status = "ready"]
  <1>1. asg[b] \in AssignmentRows
    OBVIOUS
  <1>2. /\ q(asg[b]).status = "ready" /\ q(asg[b]).parent = asg[b].parent
        /\ q(asg[b]).linked = asg[b].linked /\ q(asg[b]).result = asg[b].result
    BY <1>1 DEF AssignmentRows
  <1>3. Wake(asg, a)[b] = IF /\ work.stop = "none" /\ asg[a].status \in Terminal
                             /\ asg[b].parent = a /\ asg[b].status = "waiting"
                          THEN q(asg[b]) ELSE asg[b]
    BY DEF Wake
  <1> HIDE DEF q
  <1> QED BY <1>2, <1>3

\* An assignment ends: the rows afterwards.
LEMMA EndedSeen ==
  ASSUME IInv, Seen, NEW a \in Assignments,
         NEW s \in Terminal \cup {"waiting", "outcome_unknown"},
         NEW asg, NewStatus(asg, a, s), NEW how, NEW o,
         \A b \in Assignments \ {a} : OpenRun(o[b]) => OpenRun(outcome[b]),
         OpenRun(o[a]) => asg[a].linked /\ (s = "outcome_unknown" \/ asg[a].result = "waiting"),
         asg[a].result = "waiting" => s = "waiting"
  PROVE  \A b \in Assignments : RowSeen(Wake(asg, a)[b], Close(a, how)[b], o[b])
  <1>1. PICK h \in {"released", "cancelled"} : Close(a, how) = CloseAll({a}, h)
    BY DEF Close
  <1>2. Pairs /\ asg \in [Assignments -> AssignmentRows]
    BY DEF IInv, Pairs, NewStatus
  <1>3. /\ \A b \in Assignments \ {a} : Close(a, how)[b] = reservation[b]
        /\ Close(a, how)[a].status \notin {"reserved", "claimed"}
    BY <1>1, <1>2, Closed
  <1> TAKE b \in Assignments
  <1>4. CASE b = a
    <2>1. Wake(asg, a)[a].status = asg[a].status /\ asg[a].status = s
      BY <1>2, WokenRow DEF NewStatus, Terminal
    <2> QED BY <1>2, <1>3, <1>4, <2>1, WokenRow DEF RowSeen
  <1>5. CASE b # a
    <2>1. RowSeen(assignment[b], reservation[b], outcome[b]) /\ asg[b] = assignment[b]
      BY <1>5 DEF Seen, NewStatus
    <2> QED BY <1>2, <1>3, <1>5, <2>1, WokenRow DEF RowSeen
  <1> QED BY <1>4, <1>5

LEMMA EndedFamily ==
  ASSUME Family(assignment), NEW a \in Assignments, assignment[a].status # "absent",
         NEW s \in Terminal \cup {"waiting", "outcome_unknown"},
         NEW asg, NewStatus(asg, a, s), assignment' = Wake(asg, a)
  PROVE  RowsKeep
  <1>1. asg \in [Assignments -> AssignmentRows] /\ s # "absent"
    BY DEF NewStatus, Terminal
  <1>2. \A b \in Assignments : /\ asg[b].parent = assignment[b].parent
                               /\ asg[b].status = "absent" <=> assignment[b].status = "absent"
    BY <1>1 DEF NewStatus
  <1> QED BY <1>1, <1>2, WokenRow, SameFamily

\* What waits for the assignment is woken when it has ended.
LEMMA EndedWakes ==
  ASSUME IInv, Seen, Family(assignment), ContinuationWakes, work.stop = "none",
         NEW a \in Assignments, NEW s, NEW asg, NewStatus(asg, a, s), NEW how,
         NEW b \in Assignments, Wake(asg, a)[b].status = "waiting", Close(a, how)[b].status = "reserved"
  PROVE  Wake(asg, a)[Wake(asg, a)[b].parent].status \notin Terminal
  <1>1. PICK h \in {"released", "cancelled"} : Close(a, how) = CloseAll({a}, h)
    BY DEF Close
  <1>2. Pairs /\ asg \in [Assignments -> AssignmentRows]
    BY DEF IInv, Pairs, NewStatus
  <1>3. b # a /\ reservation[b].status = "reserved"
    BY <1>1, <1>2, Closed
  <1>4. /\ asg[b] = assignment[b] /\ assignment[b].status = "waiting"
        /\ Wake(asg, a)[b].parent = assignment[b].parent
    BY <1>2, <1>3, WokenRow DEF NewStatus
  <1> DEFINE p == assignment[b].parent
  <1>5. p \in Assignments /\ assignment[p].status \notin Terminal
    <2>1. p # 0
      BY <1>3, <1>4 DEF Seen, RowSeen
    <2> QED BY <1>3, <1>4, <2>1, EarlierOne DEF ContinuationWakes
  <1>6. CASE p = a
    <2>1. asg[a].status \notin Terminal
      BY <1>2, <1>4, <1>6, WokenRow
    <2> QED BY <1>2, <1>4, <1>6, <2>1, WokenRow
  <1>7. CASE p # a
    <2>1. asg[p] = assignment[p]
      BY <1>5, <1>7 DEF NewStatus
    <2>2. Wake(asg, a)[p].status \in {assignment[p].status, "ready"}
      BY <1>2, <1>5, <2>1, WokenRow
    <2> QED BY <1>4, <1>5, <2>2 DEF Terminal
  <1> QED BY <1>6, <1>7

\* Rows at rest stay at rest when one of them is settled once more.
LEMMA EndedQuiet ==
  ASSUME Quiet(assignment, outcome), work.stop # "none", NEW a \in Assignments,
         NEW s \in Terminal \cup {"outcome_unknown"}, NEW asg, NewStatus(asg, a, s),
         OpenRun(outcome[a]) => asg[a].result = "waiting"
  PROVE  Quiet(Wake(asg, a), outcome)
  <1>1. asg \in [Assignments -> AssignmentRows] /\ s \notin Active
    BY DEF NewStatus, Terminal, Active
  <1>2. \A b \in Assignments : /\ Wake(asg, a)[b].status = asg[b].status
                               /\ Wake(asg, a)[b].result = asg[b].result
    BY <1>1, WokenRow
  <1> QED BY <1>1, <1>2 DEF Quiet, NewStatus

\* What an ending of an assignment leaves of the invariant.
LEMMA EndsSeen ==
  ASSUME IInv, Seen, Family(assignment), ContinuationWakes, StopKeeps,
         NEW a \in Assignments, assignment[a].status # "absent",
         NEW s \in Terminal \cup {"waiting", "outcome_unknown"},
         NEW asg, NewStatus(asg, a, s), NEW how,
         assignment' = Wake(asg, a), reservation' = Close(a, how),
         \A b \in Assignments \ {a} : OpenRun(outcome'[b]) => OpenRun(outcome[b]),
         OpenRun(outcome'[a]) => asg[a].linked /\ (s = "outcome_unknown" \/ asg[a].result = "waiting"),
         asg[a].result = "waiting" => s = "waiting"
  PROVE  Seen' /\ RowsKeep /\ ContinuationWakes'
  <1>1. Seen'
    BY EndedSeen DEF Seen
  <1>2. RowsKeep
    BY EndedFamily
  <1>3. ContinuationWakes'
    <2> SUFFICES ASSUME NEW b \in Assignments, assignment'[b].status = "waiting",
                        reservation'[b].status = "reserved", work'.stop = "none"
                 PROVE  assignment'[assignment'[b].parent].status \notin Terminal
      BY DEF ContinuationWakes
    <2>1. work.stop = "none"
      BY DEF StopKeeps
    <2> QED BY <2>1, EndedWakes
  <1> QED BY <1>1, <1>2, <1>3

LEMMA SameControl ==
  ASSUME UNCHANGED control
  PROVE  ControlKeeps
  BY DEF ControlKeeps, ControlKept

LEMMA SameStop ==
  ASSUME IInv, work'.generation = work.generation,
         work.stop # "none" \/ work'.stop = "none", work.stop # "none" => work'.stop # "none"
  PROVE  StopKeeps
  <1>1. work.generation \in Nat
    BY NumbersFit DEF IInv
  <1> QED BY <1>1 DEF StopKeeps

\* Every part of the invariant that a step of a launch lane has to restore.
LEMMA LaunchRestores ==
  ASSUME IInv, IInv', SInv, NEW w \in Workers, UNCHANGED <<control, dispatch>>,
         \A v \in Workers \ {w} : launch'[v] = launch[v],
         RowsKeep, RunsKeep, StopKeeps, \A v \in Workers : TargetsKeep(v),
         Seen', LaunchSeen(w)', ConfirmedIsQuiet', ContinuationWakes'
  PROVE  SInv'
  <1>1. Keeps
    BY SameControl DEF Keeps
  <1>2. LanesSeen'
    BY <1>1, LaunchLaneMoves DEF SInv
  <1>3. Asked' /\ Family(assignment)'
    BY <1>1, AskedKeeps DEF SInv, Keeps, RowsKeep
  <1> QED BY <1>2, <1>3 DEF SInv

\* A lane that has just taken a claim is of the generation of the work.
LEMMA FreshLane ==
  ASSUME IInv', NEW w \in Workers, work'.stop = "none", launch'[w].pc \in {"claimed", "recovering"},
         launch'[w].generation = work'.generation,
         assignment'[launch'[w].a].status # "absent",
         launch'[w].pc = "recovering" => ~AssignmentStopOpen(launch[w].a)'
  PROVE  LaunchSeen(w)'
  <1>1. work'.generation \in Nat
    BY RoomWorkAssumption DEF IInv, Typed, WorkRows
  <1> QED BY <1>1 DEF LaunchSeen, Answering

LEMMA LaneSet ==
  ASSUME IInv, NEW w \in Workers, NEW x, launch' = [launch EXCEPT ![w] = x]
  PROVE  launch'[w] = x /\ \A v \in Workers \ {w} : launch'[v] = launch[v]
  BY DEF IInv, LanesOf

LEMMA TakeOverSeen ==
  ASSUME IInv, IInv', SInv, NEW w \in Workers, NEW a \in Assignments, TakeOver(w, a),
         UNCHANGED <<control, outcome, dispatch>>
  PROVE  SInv'
  <1>1. /\ a \in Expired /\ ~Overtaken(a) /\ UNCHANGED <<work, assignment>>
        /\ reservation' = [reservation EXCEPT ![a].owner = w, ![a].fresh = TRUE]
        /\ launch' = [launch EXCEPT ![w] = [NoLaunch EXCEPT
              !.pc = "recovering", !.a = a, !.generation = reservation[a].generation]]
    BY DEF TakeOver
  <1>2. /\ launch'[w].pc = "recovering" /\ launch'[w].a = a
        /\ launch'[w].generation = reservation[a].generation
        /\ \A v \in Workers \ {w} : launch'[v] = launch[v]
    <2> DEFINE x == [NoLaunch EXCEPT !.pc = "recovering", !.a = a, !.generation = reservation[a].generation]
    <2>1. x.pc = "recovering" /\ x.a = a /\ x.generation = reservation[a].generation
      BY DEF NoLaunch
    <2> HIDE DEF x
    <2>2. launch' = [launch EXCEPT ![w] = x]
      BY <1>1 DEF x
    <2> QED BY <2>1, <2>2, LaneSet
  <1>3. \A b \in Assignments : reservation'[b].status = reservation[b].status
    BY <1>1 DEF IInv, PairsOf, ReservationRows
  <1>4. Seen' /\ ContinuationWakes' /\ ConfirmedIsQuiet'
    BY <1>1, <1>3 DEF SInv, Seen, RowSeen, ContinuationWakes, ConfirmedIsQuiet
  <1>5. RowsKeep /\ RunsKeep /\ StopKeeps
    BY <1>1, SameStop, SameFamily DEF SInv, RunsKeep
  <1>6. LaunchSeen(w)'
    <2>1. /\ work'.stop = "none" /\ work'.generation = reservation[a].generation
          /\ assignment'[a].status # "absent" /\ ~AssignmentStopOpen(a)
      BY <1>1 DEF Expired, Overtaken
    <2>2. ~AssignmentStopOpen(a)'
      BY <1>1, <2>1 DEF AssignmentStopOpen, Under
    <2>3. ~AssignmentStopOpen(launch[w].a)'
      BY <1>2, <2>2 DEF AssignmentStopOpen
    <2> QED BY <1>2, <2>1, <2>3, FreshLane
  <1>7. \A v \in Workers : TargetsKeep(v)
    BY <1>1, NothingWaits DEF SInv
  <1> QED BY <1>2, <1>4, <1>5, <1>6, <1>7, LaunchRestores

LEMMA AbandonSeen ==
  ASSUME IInv, IInv', SInv, NEW w \in Workers, NEW a \in Assignments, Abandon(a),
         UNCHANGED <<control, outcome, dispatch>>
  PROVE  SInv'
  <1> DEFINE asg == [assignment EXCEPT ![a].status = "cancelled", ![a].result = "cancelled"]
  <1>1. /\ a \in Expired /\ ~assignment[a].linked /\ UNCHANGED <<work, launch>>
        /\ assignment' = Wake(asg, a) /\ reservation' = Close(a, "cancelled")
    BY DEF Abandon
  <1>2. Pairs /\ assignment \in [Assignments -> AssignmentRows]
    BY DEF IInv, Pairs, PairsOf
  <1>3. NewStatus(asg, a, "cancelled") /\ asg[a].result = "cancelled"
    BY <1>2, Written DEF Terminal, Results, AssignmentRows
  <1> HIDE DEF asg
  <1>4. StopKeeps /\ RunsKeep
    BY <1>1, SameStop DEF RunsKeep
  <1>5. ~OpenRun(outcome[a]) /\ assignment[a].status = "running"
    BY <1>1 DEF SInv, Seen, RowSeen, Expired
  <1>6. Seen' /\ RowsKeep /\ ContinuationWakes'
    BY <1>1, <1>3, <1>4, <1>5, EndsSeen DEF SInv, Terminal
  <1>7. ConfirmedIsQuiet'
    BY <1>1, <1>5 DEF SInv, ConfirmedIsQuiet, Active
  <1>8. \A v \in Workers : TargetsKeep(v)
    <2>1. \A b \in Assignments : assignment'[b].result = "waiting" => assignment[b].result = "waiting"
      BY <1>1, <1>3, WokenRow DEF NewStatus
    <2> QED BY <2>1, NothingWaits DEF SInv
  <1>9. LaunchSeen(w)'
    BY <1>1, <1>4, <1>6, SameControl, LaunchStays DEF SInv, LanesSeen, Keeps
  <1> QED BY <1>1, <1>4, <1>6, <1>7, <1>8, <1>9, LaunchRestores

LEMMA ClaimableRow ==
  ASSUME SInv, NEW a \in Assignments, Claimable(a)
  PROVE  /\ work.stop = "none" /\ reservation[a].generation = work.generation
         /\ assignment[a].status \in {"ready", "running"}
         /\ reservation[a].status \in {"reserved", "claimed"}
         /\ ~assignment[a].linked /\ ~OpenRun(outcome[a])
  BY DEF SInv, Seen, RowSeen, Claimable, Expired, Overtaken

LEMMA ClaimSeen ==
  ASSUME IInv, IInv', SInv, NEW w \in Workers, NEW a \in Assignments, Claim(w, a),
         UNCHANGED <<control, outcome, dispatch>>
  PROVE  SInv'
  <1>1. /\ Claimable(a) /\ assignment' = [assignment EXCEPT ![a].status = "running"]
        /\ reservation' = [reservation EXCEPT ![a].status = "claimed", ![a].owner = w, ![a].fresh = TRUE]
        /\ work' = [work EXCEPT !.status = "running"]
        /\ launch' = [launch EXCEPT ![w] = [NoLaunch EXCEPT
              !.pc = "claimed", !.a = a, !.generation = reservation[a].generation]]
    BY DEF Claim
  <1>2. /\ launch'[w].pc = "claimed" /\ launch'[w].a = a
        /\ launch'[w].generation = reservation[a].generation
        /\ \A v \in Workers \ {w} : launch'[v] = launch[v]
    <2> DEFINE x == [NoLaunch EXCEPT !.pc = "claimed", !.a = a, !.generation = reservation[a].generation]
    <2>1. x.pc = "claimed" /\ x.a = a /\ x.generation = reservation[a].generation
      BY DEF NoLaunch
    <2> HIDE DEF x
    <2>2. launch' = [launch EXCEPT ![w] = x]
      BY <1>1 DEF x
    <2> QED BY <2>1, <2>2, LaneSet
  <1>3. work'.stop = work.stop /\ work'.generation = work.generation
    BY <1>1 DEF IInv, Typed, WorkRows
  <1>4. /\ assignment'[a].status = "running" /\ assignment'[a].parent = assignment[a].parent
        /\ assignment'[a].linked = assignment[a].linked
        /\ assignment'[a].result = assignment[a].result
        /\ reservation'[a].status = "claimed"
        /\ \A b \in Assignments \ {a} : assignment'[b] = assignment[b] /\ reservation'[b] = reservation[b]
    BY <1>1 DEF IInv, PairsOf, AssignmentRows, ReservationRows
  <1>5. /\ work.stop = "none" /\ reservation[a].generation = work.generation
        /\ assignment[a].status \in {"ready", "running"} /\ ~OpenRun(outcome[a])
        /\ reservation[a].status \in {"reserved", "claimed"}
    BY <1>1, ClaimableRow
  <1>6. Seen'
    BY <1>4, <1>5 DEF SInv, Seen, RowSeen
  <1>7. RowsKeep /\ RunsKeep /\ StopKeeps
    BY <1>3, <1>4, <1>5, SameStop, SameFamily DEF SInv, RunsKeep
  <1>8. ConfirmedIsQuiet'
    BY <1>3, <1>5 DEF ConfirmedIsQuiet
  <1>9. ContinuationWakes'
    <2> SUFFICES ASSUME NEW b \in Assignments \ {a}, assignment[b].status = "waiting",
                        reservation[b].status = "reserved"
                 PROVE  assignment'[assignment[b].parent].status \notin Terminal
      BY <1>4 DEF ContinuationWakes
    <2>1. assignment[b].parent \in Assignments
      BY EarlierOne DEF SInv, Seen, RowSeen
    <2> QED BY <1>4, <1>5, <2>1 DEF SInv, ContinuationWakes, Terminal
  <1>10. LaunchSeen(w)'
    BY <1>2, <1>3, <1>4, <1>5, FreshLane
  <1>11. \A v \in Workers : TargetsKeep(v)
    BY <1>4, NothingWaits DEF SInv
  <1> QED BY <1>2, <1>6, <1>7, <1>8, <1>9, <1>10, <1>11, LaunchRestores

LEMMA FailPreflightSeen ==
  ASSUME IInv, IInv', SInv, NEW w \in Workers, NEW a \in Assignments, FailPreflight(a),
         UNCHANGED <<control, outcome, dispatch>>
  PROVE  SInv'
  <1> DEFINE asg == [assignment EXCEPT ![a].status = "failed", ![a].result = "failed"]
  <1>1. /\ Claimable(a) /\ UNCHANGED launch
        /\ assignment' = Wake(asg, a) /\ reservation' = Close(a, "failed")
        /\ \E s \in {"failed", "waiting"} : work' = [work EXCEPT !.status = s]
    BY DEF FailPreflight
  <1>2. Pairs /\ assignment \in [Assignments -> AssignmentRows]
    BY DEF IInv, Pairs, PairsOf
  <1>3. NewStatus(asg, a, "failed") /\ asg[a].result = "failed"
    BY <1>2, Written DEF Terminal, Results, AssignmentRows
  <1> HIDE DEF asg
  <1>4. work'.stop = work.stop /\ work'.generation = work.generation
    BY <1>1 DEF IInv, Typed, WorkRows
  <1>5. /\ work.stop = "none" /\ ~OpenRun(outcome[a])
        /\ assignment[a].status # "absent"
    BY <1>1, ClaimableRow
  <1>6. StopKeeps /\ RunsKeep
    BY <1>1, <1>4, <1>5, SameStop DEF RunsKeep
  <1>7. Seen' /\ RowsKeep /\ ContinuationWakes'
    BY <1>1, <1>3, <1>5, <1>6, EndsSeen DEF SInv, Terminal
  <1>8. ConfirmedIsQuiet'
    BY <1>4, <1>5 DEF ConfirmedIsQuiet
  <1>9. \A v \in Workers : TargetsKeep(v)
    <2>1. \A b \in Assignments : assignment'[b].result = "waiting" => assignment[b].result = "waiting"
      BY <1>1, <1>3, WokenRow DEF NewStatus
    <2> QED BY <2>1, NothingWaits DEF SInv
  <1>10. LaunchSeen(w)'
    BY <1>1, <1>6, <1>7, SameControl, LaunchStays DEF SInv, LanesSeen, Keeps
  <1> QED BY <1>1, <1>6, <1>7, <1>8, <1>9, <1>10, LaunchRestores

\* A lane goes on or comes to settle, and no row is touched.
LEMMA LaneGoesSeen ==
  ASSUME IInv, IInv', SInv, NEW w \in Workers, UNCHANGED <<rows, outcome, dispatch>>,
         NEW x, launch' = [launch EXCEPT ![w] = x], launch[w].pc # "idle",
         x.a = launch[w].a, x.generation = launch[w].generation,
         Answering(x) => Answering(launch[w]),
         x.pc = "settling" /\ x.status \in Terminal /\ x.linked => outcome[x.a] \in Terminal
  PROVE  SInv'
  <1>1. launch'[w] = x /\ \A v \in Workers \ {w} : launch'[v] = launch[v]
    BY LaneSet
  <1>2. UNCHANGED <<work, assignment, reservation, control>>
    BY DEF rows
  <1>3. Seen' /\ ContinuationWakes' /\ ConfirmedIsQuiet'
    BY <1>2 DEF SInv, Seen, ContinuationWakes, ConfirmedIsQuiet
  <1>4. RowsKeep /\ RunsKeep /\ StopKeeps
    BY <1>2, SameStop, SameFamily DEF SInv, RunsKeep
  <1>5. \A v \in Workers : TargetsKeep(v)
    BY <1>2, NothingWaits DEF SInv
  <1>6. LaunchSeen(w)'
    <2>1. LaunchSeen(w)
      BY DEF SInv, LanesSeen
    <2>2. \A a : AssignmentStopOpen(a)' <=> AssignmentStopOpen(a)
      BY <1>2 DEF AssignmentStopOpen, Under
    <2>3. AssignmentStopOpen(launch[w].a)' => AssignmentStopOpen(launch[w].a)
      BY <1>1, <2>2 DEF AssignmentStopOpen, Under
    <2> HIDE DEF AssignmentStopOpen
    <2> QED BY <1>1, <1>2, <2>1, <2>3 DEF LaunchSeen
  <1> QED BY <1>1, <1>2, <1>3, <1>4, <1>5, <1>6, LaunchRestores

LEMMA LaneFields ==
  ASSUME NEW x \in LaunchRows, NEW pc, NEW s, NEW b
  PROVE  /\ [x EXCEPT !.pc = pc].pc = pc /\ [x EXCEPT !.pc = pc].a = x.a
         /\ [x EXCEPT !.pc = pc].generation = x.generation
         /\ [x EXCEPT !.pc = "settling", !.status = s, !.linked = b].pc = "settling"
         /\ [x EXCEPT !.pc = "settling", !.status = s, !.linked = b].status = s
         /\ [x EXCEPT !.pc = "settling", !.status = s, !.linked = b].linked = b
         /\ [x EXCEPT !.pc = "settling", !.status = s, !.linked = b].a = x.a
         /\ [x EXCEPT !.pc = "settling", !.status = s, !.linked = b].generation = x.generation
  BY DEF LaunchRows

LEMMA SettlesSeen ==
  ASSUME IInv, IInv', SInv, NEW w \in Workers, UNCHANGED <<rows, outcome, dispatch>>,
         launch[w].pc # "idle", NEW s, NEW b \in BOOLEAN, ToSettle(w, s, b),
         s = "waiting" => launch[w].pc = "awaiting",
         s \in Terminal /\ b => outcome[launch[w].a] \in Terminal
  PROVE  SInv'
  <1> DEFINE x == [launch[w] EXCEPT !.pc = "settling", !.status = s, !.linked = b]
  <1>1. launch[w] \in LaunchRows
    BY DEF IInv, LanesOf
  <1>2. /\ x.pc = "settling" /\ x.status = s /\ x.linked = b /\ x.a = launch[w].a
        /\ x.generation = launch[w].generation
    BY <1>1, LaneFields
  <1>3. launch' = [launch EXCEPT ![w] = x]
    BY DEF ToSettle
  <1> HIDE DEF x
  <1>4. Answering(x) => Answering(launch[w])
    BY <1>2 DEF Answering
  <1> QED BY <1>2, <1>3, <1>4, LaneGoesSeen

LEMMA WaitSeen ==
  ASSUME IInv, IInv', SInv, NEW w \in Workers, Start(w) \/ Return(w) \/ Throw(w) \/ Recover(w)
  PROVE  SInv'
  <1>1. UNCHANGED <<rows, outcome, dispatch>> /\ launch[w].pc # "idle"
    BY DEF Start, Return, Throw, Recover
  <1>2. CASE Start(w)
    <2> DEFINE x == [launch[w] EXCEPT !.pc = "awaiting"]
    <2>1. launch[w] \in LaunchRows
      BY DEF IInv, LanesOf
    <2>2. x.pc = "awaiting" /\ x.a = launch[w].a /\ x.generation = launch[w].generation
      BY <2>1, LaneFields
    <2>3. launch' = [launch EXCEPT ![w] = x]
      BY <1>2 DEF Start, To
    <2> HIDE DEF x
    <2>4. Answering(launch[w])
      BY <1>2 DEF Start, Answering
    <2> QED BY <1>1, <2>2, <2>3, <2>4, LaneGoesSeen
  <1>3. CASE Return(w)
    <2>1. PICK s \in Reported(outcome[launch[w].a]) : ToSettle(w, s, TRUE)
      BY <1>3 DEF Return
    <2>2. s \in Terminal => outcome[launch[w].a] \in Terminal
      BY DEF Reported, Terminal
    <2> QED BY <1>1, <1>3, <2>1, <2>2, SettlesSeen DEF Return
  <1>4. CASE Throw(w)
    <2>1. PICK s \in {"failed", "outcome_unknown"} : ToSettle(w, s, FALSE)
      BY <1>4 DEF Throw
    <2> QED BY <1>1, <2>1, SettlesSeen
  <1>5. CASE Recover(w)
    <2>1. PICK s \in Recovered(outcome[launch[w].a]) : ToSettle(w, s, TRUE)
      BY <1>5 DEF Recover
    <2>2. (s \in Terminal => outcome[launch[w].a] \in Terminal) /\ s # "waiting"
      BY DEF Recovered, Terminal
    <2> QED BY <1>1, <2>1, <2>2, SettlesSeen
  <1> QED BY <1>2, <1>3, <1>4, <1>5

LEMMA AdmitSeen ==
  ASSUME IInv, IInv', SInv, NEW w \in Workers, Admit(w)
  PROVE  SInv'
  <1> DEFINE a == launch[w].a
  <1>1. /\ UNCHANGED <<work, reservation, control, dispatch>> /\ launch[w].pc = "claimed"
        /\ launch[w] \in LaunchRows /\ a \in Assignments
    BY DEF Admit, IInv, LanesOf, LaunchPlaced
  <1>2. CASE AdmissionOpen(w, a)
    <2>1. /\ assignment' = [assignment EXCEPT ![a].linked = TRUE]
          /\ outcome' = [outcome EXCEPT ![a] = "open"]
          /\ launch' = [launch EXCEPT ![w] = [launch[w] EXCEPT !.pc = "admitted"]]
      BY <1>2 DEF Admit, To
    <2>2. /\ launch'[w].pc = "admitted" /\ launch'[w].a = a
          /\ launch'[w].generation = launch[w].generation
          /\ \A v \in Workers \ {w} : launch'[v] = launch[v]
      <3> DEFINE x == [launch[w] EXCEPT !.pc = "admitted"]
      <3>1. x.pc = "admitted" /\ x.a = a /\ x.generation = launch[w].generation
        BY <1>1, LaneFields
      <3>2. launch' = [launch EXCEPT ![w] = x]
        BY <2>1
      <3> HIDE DEF x
      <3> QED BY <3>1, <3>2, LaneSet
    <2>3. /\ work.stop = "none" /\ work.generation = launch[w].generation
          /\ assignment[a].status = "running" /\ ~assignment[a].linked
          /\ ~AssignmentStopOpen(a) /\ reservation[a].status = "claimed"
      BY <1>2 DEF AdmissionOpen, Holds
    <2>4. outcome[a] = "none"
      <3>1. Paired(assignment[a], reservation[a], work.generation, launched[a])
        BY <1>1 DEF IInv, PairsOf
      <3> QED BY <1>1, <2>3, <3>1 DEF IInv, Unstarted, Paired
    <2>5. /\ assignment'[a].status = "running" /\ assignment'[a].parent = assignment[a].parent
          /\ assignment'[a].linked /\ assignment'[a].result = assignment[a].result
          /\ outcome'[a] = "open"
          /\ \A b \in Assignments \ {a} : assignment'[b] = assignment[b] /\ outcome'[b] = outcome[b]
      BY <1>1, <2>1, <2>3 DEF IInv, PairsOf, AssignmentRows, RealOf
    <2>6. Seen'
      BY <1>1, <2>3, <2>5 DEF SInv, Seen, RowSeen
    <2>7. RowsKeep /\ RunsKeep /\ StopKeeps
      <3>1. RowsKeep
        BY <2>3, <2>5, SameFamily DEF SInv
      <3>2. RunsKeep
        BY <2>4, <2>5 DEF RunsKeep, Terminal
      <3> QED BY <1>1, <3>1, <3>2, SameStop
    <2>8. ConfirmedIsQuiet'
      BY <1>1, <2>3 DEF ConfirmedIsQuiet
    <2>9. ContinuationWakes'
      <3> SUFFICES ASSUME NEW b \in Assignments, assignment[b].status = "waiting",
                          reservation[b].status = "reserved"
                   PROVE  assignment'[assignment'[b].parent].status \notin Terminal
        BY <1>1, <2>5 DEF ContinuationWakes
      <3>1. b # a /\ assignment[b].parent \in Assignments
        BY <2>3, EarlierOne DEF SInv, Seen, RowSeen
      <3> QED BY <2>3, <2>5, <3>1 DEF SInv, ContinuationWakes, Terminal
    <2>10. \A v \in Workers : TargetsKeep(v)
      BY <2>5, NothingWaits DEF SInv
    <2>11. LaunchSeen(w)'
      <3>1. ~AssignmentStopOpen(launch[w].a)'
        <4>1. PICK b \in Assignments : b = a
          BY <1>1
        <4>2. ~AssignmentStopOpen(b)'
          <5>1. Keeps
            BY <1>1, <2>7, SameControl DEF Keeps
          <5>2. ~AssignmentStopOpen(b) /\ assignment[b].status # "absent"
            BY <2>3, <4>1
          <5>3. work'.generation = work.generation /\ work.generation \in Nat
            BY <1>1, NumbersFit DEF IInv
          <5> QED BY <5>1, <5>2, <5>3, StopReaches DEF SInv
        <4> QED BY <2>2, <4>1, <4>2 DEF AssignmentStopOpen
      <3>2. work'.generation = launch'[w].generation /\ work'.generation \in Nat
        BY <1>1, <2>2, <2>3, NumbersFit DEF IInv
      <3> QED BY <1>1, <2>2, <2>3, <2>5, <3>1, <3>2 DEF LaunchSeen
    <2> QED BY <1>1, <2>2, <2>6, <2>7, <2>8, <2>9, <2>10, <2>11, LaunchRestores
  <1>3. CASE ~AdmissionOpen(w, a)
    <2>1. ToSettle(w, "cancelled", FALSE) /\ UNCHANGED <<rows, outcome, dispatch>>
      BY <1>1, <1>3 DEF Admit, rows
    <2> QED BY <1>1, <2>1, SettlesSeen
  <1> QED BY <1>2, <1>3

LEMMA DiscardSeen ==
  ASSUME IInv, IInv', SInv, NEW w \in Workers, Discard(w)
  PROVE  SInv'
  <1> DEFINE a == launch[w].a
             asg == [assignment EXCEPT ![a].status = "failed", ![a].linked = FALSE,
                                       ![a].result = "failed"]
             x == [launch[w] EXCEPT !.pc = "settling", !.status = "failed", !.linked = FALSE]
  <1>1. /\ launch[w].pc = "admitted" /\ launch[w] \in LaunchRows /\ a \in Assignments
        /\ Pairs /\ assignment \in [Assignments -> AssignmentRows]
    BY DEF Discard, IInv, LanesOf, LaunchPlaced, Pairs, PairsOf
  <1>2. /\ work.stop = "none" /\ assignment[a].status = "running" /\ outcome[a] = "open"
        /\ outcome' = [outcome EXCEPT ![a] = "withdrawn"]
        /\ UNCHANGED <<work, control, dispatch>>
        /\ assignment' = Wake(asg, a) /\ reservation' = Close(a, "failed")
        /\ launch' = [launch EXCEPT ![w] = x]
    BY DEF Discard, ToSettle, Run!Withdraw, Run!Become
  <1>3. NewStatus(asg, a, "failed") /\ asg[a].result = "failed"
    BY <1>1, Written DEF Terminal, Results, AssignmentRows
  <1>4. /\ x.pc = "settling" /\ x.status = "failed" /\ x.linked = FALSE /\ x.a = a
        /\ x.generation = launch[w].generation
    BY <1>1, LaneFields
  <1> HIDE DEF asg, x
  <1>5. launch'[w] = x /\ \A v \in Workers \ {w} : launch'[v] = launch[v]
    BY <1>2, LaneSet
  <1>6. outcome'[a] = "withdrawn" /\ \A b \in Assignments \ {a} : outcome'[b] = outcome[b]
    BY <1>1, <1>2 DEF IInv, RealOf
  <1>7. StopKeeps /\ RunsKeep
    <2>1. RunsKeep
      BY <1>2, <1>6 DEF RunsKeep, Terminal
    <2> QED BY <1>2, <2>1, SameStop
  <1>8. Seen' /\ RowsKeep /\ ContinuationWakes'
    BY <1>1, <1>2, <1>3, <1>6, <1>7, EndsSeen DEF SInv, Terminal, OpenRun
  <1>9. ConfirmedIsQuiet'
    BY <1>2 DEF ConfirmedIsQuiet
  <1>10. \A v \in Workers : TargetsKeep(v)
    <2>1. \A b \in Assignments : assignment'[b].result = "waiting" => assignment[b].result = "waiting"
      BY <1>2, <1>3, WokenRow DEF NewStatus
    <2> QED BY <2>1, NothingWaits DEF SInv
  <1>11. LaunchSeen(w)'
    <2>1. ~Answering(x) /\ x.generation <= work'.generation /\ work'.stop = "none"
      BY <1>1, <1>2, <1>4 DEF Answering, SInv, LanesSeen, LaunchSeen
    <2>2. assignment'[a].status # "absent"
      BY <1>1, <1>2, <1>8 DEF RowsKeep
    <2> QED BY <1>4, <1>5, <2>1, <2>2 DEF LaunchSeen
  <1> QED BY <1>2, <1>5, <1>7, <1>8, <1>9, <1>10, <1>11, LaunchRestores

LEMMA IdleLane ==
  ASSUME NEW w \in Workers, launch'[w] = NoLaunch
  PROVE  LaunchSeen(w)'
  <1>1. launch'[w].pc = "idle"
    BY DEF NoLaunch
  <1> QED BY <1>1 DEF LaunchSeen

LEMMA WorkAfterStop ==
  ASSUME IInv, NEW asg, NEW s
  PROVE  /\ WorkAfter(asg, s).generation = work.generation
         /\ \/ WorkAfter(asg, s).stop = work.stop
            \/ work.stop = "requested" /\ WorkAfter(asg, s).stop = "unconfirmed"
  <1>1. Typed /\ work \in WorkRows
    BY DEF IInv, Typed
  <1>2. PICK z : WorkAfter(asg, s) = [work EXCEPT !.stop =
                    IF s = "outcome_unknown" /\ work.stop = "requested" THEN "unconfirmed" ELSE work.stop,
                    !.status = z]
    BY DEF WorkAfter
  <1>3. WorkAfter(asg, s).generation = work.generation
    BY <1>1, WorkAfterRow
  <1> QED BY <1>1, <1>2, <1>3 DEF WorkRows

\* No stop of the assignment is open when a lane settles it as waiting for input.
LEMMA WaitingIsFresh ==
  ASSUME IInv, SInv, NEW w \in Workers, launch[w].pc = "settling", launch[w].status = "waiting",
         SettleAccepted(w)
  PROVE  work.stop = "none" /\ ~AssignmentStopOpen(launch[w].a)
  <1>1. work.generation \in Nat /\ launch[w].generation \in Nat
    BY NumbersFit, RoomWorkAssumption DEF IInv, LanesOf, LaunchPlaced, LaunchRows
  <1>2. ~Stale(w)
    BY DEF SettleAccepted, StaleSafe, Terminal
  <1>3. ~(launch[w].generation < work.generation)
    BY <1>1, <1>2 DEF Stale
  <1> QED BY <1>3 DEF SInv, LanesSeen, LaunchSeen, Answering

LEMMA SettleSeen ==
  ASSUME IInv, IInv', SInv, NEW w \in Workers, Settle(w)
  PROVE  SInv'
  <1> DEFINE a == launch[w].a
             s == launch[w].status
             asg == [assignment EXCEPT ![a].status = s, ![a].result = s]
  <1>1. /\ launch[w].pc = "settling" /\ launch[w] \in LaunchRows /\ a \in Assignments
        /\ Pairs /\ assignment \in [Assignments -> AssignmentRows]
        /\ s \in Terminal \cup {"waiting", "outcome_unknown"} /\ s \in Results
    BY DEF Settle, IInv, LanesOf, LaunchPlaced, LaunchRows, Results, Pairs, PairsOf
  <1>2. UNCHANGED <<control, outcome, dispatch>> /\ launch' = [launch EXCEPT ![w] = NoLaunch]
    BY DEF Settle
  <1>3. launch'[w] = NoLaunch /\ \A v \in Workers \ {w} : launch'[v] = launch[v]
    BY <1>2, LaneSet
  <1>4. LaunchSeen(w)'
    BY <1>3, IdleLane
  <1>5. CASE SettleAccepted(w)
    <2>1. /\ assignment' = Wake(asg, a) /\ reservation' = Close(a, s)
          /\ work' = work \/ work' = WorkAfter(Wake(asg, a), s)
      BY <1>5 DEF Settle
    <2>2. /\ NewStatus(asg, a, s) /\ asg[a].result = s /\ asg[a].linked = assignment[a].linked
      BY <1>1, Written DEF AssignmentRows
    <2>3. /\ launch[w].linked => assignment[a].linked
          /\ s \in Terminal /\ ~launch[w].linked => ~assignment[a].linked
          /\ assignment[a].status \in {"running", "outcome_unknown"}
          /\ Stale(w) => s # "waiting"
      BY <1>5 DEF SettleAccepted, StaleSafe, Terminal
    <2>4. LaunchSeen(w) /\ RowSeen(assignment[a], reservation[a], outcome[a])
      BY <1>1 DEF SInv, LanesSeen, Seen
    <2> HIDE DEF asg, s
    <2>5. /\ work'.generation = work.generation
          /\ \/ work'.stop = work.stop
             \/ work.stop = "requested" /\ work'.stop = "unconfirmed"
      BY <2>1, WorkAfterStop
    <2>6. OpenRun(outcome[a]) => asg[a].linked /\ s \notin Terminal
      BY <1>1, <2>2, <2>3, <2>4 DEF LaunchSeen, RowSeen, s, OpenRun, Terminal
    <2>7. StopKeeps /\ RunsKeep
      BY <1>2, <2>5, SameStop DEF RunsKeep
    <2>8. Seen' /\ RowsKeep /\ ContinuationWakes'
      <3>1. OpenRun(outcome'[a]) => asg[a].linked /\ (s = "outcome_unknown" \/ asg[a].result = "waiting")
        BY <1>1, <1>2, <2>2, <2>6
      <3>2. asg[a].result = "waiting" => s = "waiting"
        BY <2>2
      <3>3. assignment[a].status # "absent"
        BY <2>3
      <3> QED BY <1>1, <1>2, <2>1, <2>2, <2>7, <3>1, <3>2, <3>3, EndsSeen DEF SInv
    <2>9. ConfirmedIsQuiet'
      <3> SUFFICES ASSUME work.stop = "confirmed"
                   PROVE  Quiet(Wake(asg, a), outcome)
        BY <1>2, <2>1, <2>5 DEF ConfirmedIsQuiet, Quiet, OpenRun
      <3>1. Quiet(assignment, outcome)
        BY QuietIsConfirmed DEF SInv
      <3>2. s \in Terminal \cup {"outcome_unknown"}
        <4>1. s # "waiting"
          BY <1>1, <1>5, WaitingIsFresh DEF s
        <4> QED BY <1>1, <4>1
      <3>3. ~OpenRun(outcome[a])
        BY <1>1, <2>3, <2>4, <3>1 DEF Quiet, RowSeen, Active
      <3> QED BY <1>1, <2>2, <3>1, <3>2, <3>3, EndedQuiet
    <2>10. \A v \in Workers : TargetsKeep(v)
      <3> SUFFICES ASSUME NEW v \in Workers, dispatch[v].pc # "idle", HoldsStop(v),
                          NEW b \in dispatch[v].targets
                   PROVE  assignment'[b].result # "waiting"
        BY DEF TargetsKeep
      <3>1. b \in Assignments /\ dispatch[v].c \in Controls /\ TargetSeen(dispatch[v].c, b)
        BY DEF SInv, LanesSeen, DispatchSeen, IInv, LanesOf, DispatchPlaced, DispatchRows
      <3>2. assignment'[b].result = asg[b].result
        BY <2>1, <2>2, <3>1, WokenRow DEF NewStatus
      <3>3. CASE b # a \/ s # "waiting"
        BY <2>2, <3>1, <3>2, <3>3 DEF NewStatus, TargetSeen
      <3>4. CASE b = a /\ s = "waiting"
        <4>1. work.stop = "none" /\ ~AssignmentStopOpen(b)
          BY <1>1, <1>5, <3>4, WaitingIsFresh DEF s
        <4>2. control[dispatch[v].c].state \in Dispatchable
          BY DEF HoldsStop, Dispatchable
        <4>3. control[dispatch[v].c].action # "stop_request"
          BY <3>1, <4>1 DEF SInv, Asked
        <4> QED BY <3>1, <4>1, <4>2, <4>3 DEF TargetSeen, AssignmentStopOpen
      <3> QED BY <3>3, <3>4
    <2> QED BY <1>2, <1>3, <1>4, <2>7, <2>8, <2>9, <2>10, LaunchRestores
  <1>6. CASE ~SettleAccepted(w)
    <2>1. UNCHANGED <<work, assignment, reservation, outcome>>
      BY <1>2, <1>6 DEF Settle
    <2>2. Seen' /\ ContinuationWakes' /\ ConfirmedIsQuiet'
      BY <2>1 DEF SInv, Seen, ContinuationWakes, ConfirmedIsQuiet
    <2>3. RowsKeep /\ RunsKeep /\ StopKeeps
      BY <2>1, SameStop, SameFamily DEF SInv, RunsKeep
    <2>4. \A v \in Workers : TargetsKeep(v)
      BY <2>1, NothingWaits DEF SInv
    <2> QED BY <1>2, <1>3, <1>4, <2>2, <2>3, <2>4, LaunchRestores
  <1> QED BY <1>5, <1>6

LEMMA ClaimReservationSeen ==
  ASSUME IInv, IInv', SInv, NEW w \in Workers, ClaimReservation(w)
  PROVE  SInv'
  <1>1. UNCHANGED <<control, outcome, dispatch>>
    BY DEF ClaimReservation
  <1>2. PICK a \in Assignments : TakeOver(w, a) \/ Abandon(a) \/ Claim(w, a) \/ FailPreflight(a)
    BY DEF ClaimReservation
  <1> QED BY <1>1, <1>2, TakeOverSeen, AbandonSeen, ClaimSeen, FailPreflightSeen

-----------------------------------------------------------------------------
\* The requests of people.

LEMMA RequestRestores ==
  ASSUME IInv, IInv', SInv, UNCHANGED <<outcome, lanes>>,
         RowsKeep, StopKeeps, ControlKeeps,
         \A v \in Workers : HoldKept(v),
         \A a \in Assignments : assignment'[a].result = "waiting" => assignment[a].result = "waiting",
         Seen', ConfirmedIsQuiet', ContinuationWakes'
  PROVE  SInv'
  <1>1. Keeps
    BY DEF Keeps, RunsKeep
  <1>2. \A v \in Workers : TargetsKeep(v)
    BY NothingWaits DEF SInv
  <1>3. LanesSeen'
    BY <1>1, <1>2, LanesRest DEF SInv
  <1>4. Asked' /\ Family(assignment)'
    BY <1>1, AskedKeeps DEF SInv, Keeps, RowsKeep
  <1> QED BY <1>3, <1>4 DEF SInv

\* A control that is issued starts a generation, and nobody holds it yet.
LEMMA IssueKeeps ==
  ASSUME IInv, NEW action, NEW target, NEW state, state # "pending", Issue(action, target, state),
         work'.generation = work.generation + 1,
         work'.stop = work.stop \/ work'.stop # "none",
         action = "stop_request" => work'.stop # "none",
         UNCHANGED lanes
  PROVE  /\ ControlKeeps /\ StopKeeps
         /\ \A v \in Workers : HoldKept(v)
  <1> DEFINE q == [NoControl EXCEPT !.action = action, !.target = target, !.state = state]
             n == work.generation + 1
  <1>1. work.generation \in Nat /\ control' = [control EXCEPT ![n] = q]
        /\ control \in [Controls -> ControlRows]
    BY NumbersFit DEF IInv, Issue, Typed
  <1>2. q.action = action /\ q.state = state
    BY DEF NoControl
  <1> HIDE DEF q, n
  <1>3. \A c \in Controls : IF c = n THEN control'[c] = q ELSE control'[c] = control[c]
    BY <1>1
  <1>4. work'.generation > work.generation
    BY <1>1
  <1>5. ControlKeeps
    BY <1>2, <1>3, <1>4 DEF ControlKeeps, ControlKept, ControlIssued
  <1>6. StopKeeps
    BY <1>1, <1>4 DEF StopKeeps
  <1>7. \A v \in Workers : HoldKept(v)
    <2> SUFFICES ASSUME NEW v \in Workers, dispatch[v].pc # "idle", HoldsStop(v)' PROVE HoldsStop(v)
      BY DEF HoldKept
    <2>1. dispatch'[v] = dispatch[v] /\ dispatch[v].c \in Controls
      BY DEF lanes, IInv, LanesOf, DispatchPlaced
    <2>2. control' = [control EXCEPT ![n] = q] /\ control'[dispatch[v].c].state = "pending"
      BY <1>1, <2>1 DEF HoldsStop
    <2>3. control'[dispatch[v].c] = control[dispatch[v].c]
      BY <1>1, <1>2, <2>2
    <2> QED BY <2>1, <2>3 DEF HoldsStop
  <1> QED BY <1>5, <1>6, <1>7

\* A row that a stop cancels, and one that it leaves.
LEMMA CancelledRow ==
  ASSUME IInv, NEW A, NEW a \in Assignments
  PROVE  LET x == CancelBeforeRun(A)[a]
             r == CloseAll(A \cap BeforeRun, "cancelled")[a]
         IN IF a \in A \cap BeforeRun
            THEN /\ x.status = "cancelled" /\ x.parent = assignment[a].parent
                 /\ x.linked = assignment[a].linked /\ x.result = assignment[a].result
                 /\ r.status \notin {"reserved", "claimed"}
            ELSE x = assignment[a] /\ r = reservation[a]
  <1>1. Pairs /\ assignment[a] \in AssignmentRows
    BY DEF IInv, Pairs, PairsOf
  <1>2. CASE a \in A \cap BeforeRun
    <2>1. CancelBeforeRun(A)[a] = [assignment[a] EXCEPT !.status = "cancelled"]
      BY <1>2 DEF CancelBeforeRun
    <2>2. CloseAll(A \cap BeforeRun, "cancelled")[a].status \notin {"reserved", "claimed"}
      BY <1>1, <1>2, Closed
    <2> QED BY <1>1, <1>2, <2>1, <2>2 DEF AssignmentRows
  <1>3. CASE a \notin A \cap BeforeRun
    <2>1. CancelBeforeRun(A)[a] = assignment[a]
      BY <1>3 DEF CancelBeforeRun
    <2>2. CloseAll(A \cap BeforeRun, "cancelled")[a] = reservation[a]
      BY <1>1, <1>3, Closed
    <2> QED BY <1>3, <2>1, <2>2
  <1> QED BY <1>2, <1>3

LEMMA StopRequestSeen ==
  ASSUME IInv, IInv', SInv, StopRequest, UNCHANGED <<outcome, lanes>>
  PROVE  SInv'
  <1>1. /\ assignment' = CancelBeforeRun(Assignments)
        /\ reservation' = CloseAll(Assignments \cap BeforeRun, "cancelled")
    <2>1. Assignments \cap BeforeRun = BeforeRun
      BY DEF BeforeRun
    <2> QED BY <2>1 DEF StopRequest
  <1>2. work'.stop = "requested" /\ work'.generation = work.generation + 1
    BY DEF StopRequest, IInv, Typed, WorkRows
  <1>3. /\ ControlKeeps /\ StopKeeps
        /\ \A v \in Workers : HoldKept(v)
    BY <1>2, IssueKeeps DEF StopRequest
  <1>4. ASSUME NEW a \in Assignments
        PROVE  IF a \in BeforeRun
               THEN /\ assignment'[a].status = "cancelled"
                    /\ assignment'[a].parent = assignment[a].parent
                    /\ assignment'[a].linked = assignment[a].linked
                    /\ assignment'[a].result = assignment[a].result
                    /\ reservation'[a].status \notin {"reserved", "claimed"}
               ELSE assignment'[a] = assignment[a] /\ reservation'[a] = reservation[a]
    BY <1>1, CancelledRow
  <1>5. \A a \in Assignments : assignment[a].status # "absent" \/ a \notin BeforeRun
    BY DEF BeforeRun
  <1>6. RowsKeep
    BY <1>4, <1>5, SameFamily DEF SInv
  <1>7. Seen'
    BY <1>4 DEF SInv, Seen, RowSeen, BeforeRun
  <1>8. ConfirmedIsQuiet' /\ ContinuationWakes'
    BY <1>2 DEF ConfirmedIsQuiet, ContinuationWakes
  <1>9. \A a \in Assignments : assignment'[a].result = "waiting" => assignment[a].result = "waiting"
    BY <1>4
  <1> QED BY <1>3, <1>6, <1>7, <1>8, <1>9, RequestRestores

LEMMA StopConfirmSeen ==
  ASSUME IInv, IInv', SInv, StopConfirm \/ StopUnconfirmed, UNCHANGED <<outcome, lanes>>
  PROVE  SInv'
  <1>1. /\ UNCHANGED <<assignment, reservation>>
        /\ work'.generation = work.generation + 1 /\ work'.stop \in {"confirmed", "unconfirmed"}
    <2>1. CASE StopConfirm
      BY <2>1 DEF StopConfirm
    <2>2. CASE StopUnconfirmed
      BY <2>2 DEF StopUnconfirmed, IInv, Typed, WorkRows
    <2> QED BY <2>1, <2>2
  <1>2. /\ ControlKeeps /\ StopKeeps
        /\ \A v \in Workers : HoldKept(v)
    <2>1. CASE StopConfirm
      BY <1>1, <2>1, IssueKeeps DEF StopConfirm
    <2>2. CASE StopUnconfirmed
      BY <1>1, <2>2, IssueKeeps DEF StopUnconfirmed
    <2> QED BY <2>1, <2>2
  <1>3. RowsKeep /\ Seen' /\ ContinuationWakes'
    BY <1>1, SameFamily DEF SInv, Seen, ContinuationWakes
  <1>4. ConfirmedIsQuiet'
    <2>1. CASE StopConfirm
      <3>1. \A a \in Assignments : assignment[a].status \notin Active \cup {"outcome_unknown"}
        BY <2>1 DEF StopConfirm, Having
      <3>2. Quiet(assignment, outcome)
        BY <3>1, CountedIsQuiet DEF SInv, Seen
      <3> QED BY <1>1, <3>2 DEF ConfirmedIsQuiet, Quiet, OpenRun
    <2>2. CASE StopUnconfirmed
      <3>1. work'.stop = "unconfirmed"
        BY <2>2 DEF StopUnconfirmed, IInv, Typed, WorkRows
      <3> QED BY <3>1 DEF ConfirmedIsQuiet
    <2> QED BY <2>1, <2>2
  <1> QED BY <1>1, <1>2, <1>3, <1>4, RequestRestores

\* What the stop of an assignment leaves of each row.
LEMMA RegeneratedRow ==
  ASSUME IInv, NEW A, Regenerate(A), NEW a \in Assignments
  PROVE  /\ assignment'[a].parent = assignment[a].parent
         /\ assignment'[a].linked = assignment[a].linked
         /\ assignment'[a].result = assignment[a].result
         /\ \/ /\ a \in A \cap BeforeRun /\ assignment'[a].status = "cancelled"
               /\ reservation'[a].status \notin {"reserved", "claimed"}
            \/ /\ a \notin A /\ assignment[a].status = "running" /\ ~assignment[a].linked
               /\ reservation[a].status = "claimed"
               /\ \/ assignment'[a].status = "ready" /\ reservation'[a].status = "reserved"
                  \/ assignment'[a].status = "waiting" /\ reservation'[a].status = "claimed"
            \/ /\ a \notin A /\ assignment[a].status = "ready" /\ ~assignment[a].linked
               /\ reservation[a].status = "claimed"
               /\ assignment'[a].status = "ready" /\ reservation'[a].status = "reserved"
            \/ /\ a \notin A \cap BeforeRun
               /\ assignment'[a].status = assignment[a].status
               /\ reservation'[a].status = reservation[a].status
  <1> DEFINE aside == Assignments \ A
             left == CancelBeforeRun(A)
             shut == CloseAll(A \cap BeforeRun, "cancelled")
             back == {b \in aside : /\ left[b].status = "running" /\ ~left[b].linked
                                     /\ reservation[b].status = "claimed"}
             found == {b \in aside : /\ left[b].status = "ready" /\ ~left[b].linked
                                     /\ reservation[b].status = "claimed"}
             moved == {b \in aside : /\ reservation[b].status = "reserved"
                                     /\ left[b].status \in {"ready", "waiting"}}
                      \cup {b \in back : ReadyOrWaiting(left, b) = "ready"} \cup found
             anew == [NoReservation EXCEPT !.status = "reserved", !.generation = work.generation + 1]
  <1>1. /\ assignment' = [b \in Assignments |->
              IF b \in back THEN [left[b] EXCEPT !.status = ReadyOrWaiting(left, b)] ELSE left[b]]
        /\ reservation' = [b \in Assignments |-> IF b \in moved THEN anew ELSE shut[b]]
    BY DEF Regenerate
  <1>2. anew.status = "reserved"
    BY DEF NoReservation
  <1>3. IF a \in A \cap BeforeRun
        THEN /\ left[a].status = "cancelled" /\ left[a].parent = assignment[a].parent
             /\ left[a].linked = assignment[a].linked /\ left[a].result = assignment[a].result
             /\ shut[a].status \notin {"reserved", "claimed"}
        ELSE left[a] = assignment[a] /\ shut[a] = reservation[a]
    BY CancelledRow
  <1>4. assignment[a] \in AssignmentRows
    BY DEF IInv, PairsOf
  <1>5. CASE a \in A
    <2>1. assignment'[a] = left[a] /\ reservation'[a] = shut[a]
      BY <1>1, <1>5
    <2> HIDE DEF left, shut
    <2> QED BY <1>3, <1>5, <2>1
  <1>6. CASE a \notin A /\ a \in back
    <2>1. assignment[a].status = "running" /\ ~assignment[a].linked /\ reservation[a].status = "claimed"
          /\ left[a] = assignment[a] /\ shut[a] = reservation[a]
      BY <1>3, <1>6
    <2>2. assignment'[a] = [assignment[a] EXCEPT !.status = ReadyOrWaiting(left, a)]
      BY <1>1, <1>6, <2>1
    <2>3. ReadyOrWaiting(left, a) \in {"ready", "waiting"}
      BY DEF ReadyOrWaiting
    <2>4. reservation'[a].status = IF ReadyOrWaiting(left, a) = "ready" THEN "reserved" ELSE "claimed"
      BY <1>1, <1>2, <1>6, <2>1, <2>3
    <2> HIDE DEF left, shut, back, moved
    <2> QED BY <1>4, <1>6, <2>1, <2>2, <2>3, <2>4 DEF AssignmentRows
  <1>7. CASE a \notin A /\ a \notin back
    <2>1. assignment'[a] = assignment[a]
      BY <1>1, <1>3, <1>7
    <2>2. \/ reservation'[a].status = reservation[a].status
          \/ /\ assignment[a].status = "ready" /\ ~assignment[a].linked
             /\ reservation[a].status = "claimed" /\ reservation'[a].status = "reserved"
      <3>1. shut[a] = reservation[a] /\ left[a] = assignment[a]
        BY <1>3, <1>7
      <3>2. CASE a \in moved
        BY <1>1, <1>2, <1>7, <3>1, <3>2
      <3>3. CASE a \notin moved
        BY <1>1, <3>1, <3>3
      <3> QED BY <3>2, <3>3
    <2> QED BY <1>7, <2>1, <2>2
  <1> QED BY <1>5, <1>6, <1>7

LEMMA AssignmentStopSeen ==
  ASSUME IInv, IInv', SInv, NEW t \in Assignments, AssignmentStop(t), UNCHANGED <<outcome, lanes>>
  PROVE  SInv'
  <1>1. Regenerate(Tree(t)) /\ Issue("assignment_stop", t, "accepted")
    BY DEF AssignmentStop
  <1>2. work'.stop = work.stop /\ work'.generation = work.generation + 1
    BY DEF AssignmentStop, IInv, Typed, WorkRows
  <1>3. /\ ControlKeeps /\ StopKeeps
        /\ \A v \in Workers : HoldKept(v)
    BY <1>1, <1>2, IssueKeeps
  <1> DEFINE A == Tree(t)
  <1>4. \A a \in Assignments :
          /\ assignment'[a].parent = assignment[a].parent
          /\ assignment'[a].linked = assignment[a].linked
          /\ assignment'[a].result = assignment[a].result
          /\ \/ /\ a \in A \cap BeforeRun /\ assignment'[a].status = "cancelled"
                /\ reservation'[a].status \notin {"reserved", "claimed"}
             \/ /\ a \notin A /\ assignment[a].status = "running" /\ ~assignment[a].linked
                /\ reservation[a].status = "claimed"
                /\ \/ assignment'[a].status = "ready" /\ reservation'[a].status = "reserved"
                   \/ assignment'[a].status = "waiting" /\ reservation'[a].status = "claimed"
             \/ /\ a \notin A /\ assignment[a].status = "ready" /\ ~assignment[a].linked
                /\ reservation[a].status = "claimed"
                /\ assignment'[a].status = "ready" /\ reservation'[a].status = "reserved"
             \/ /\ a \notin A \cap BeforeRun
                /\ assignment'[a].status = assignment[a].status
                /\ reservation'[a].status = reservation[a].status
    BY <1>1, RegeneratedRow
  <1>5. A \subseteq Assignments /\ \A b \in Assignments : b \in A <=> t \in Under[b]
    BY DEF Tree
  <1> HIDE DEF A
  <1>6. \A a \in BeforeRun : /\ assignment[a].status \in {"ready", "waiting", "running"}
                             /\ assignment[a].status = "running" => ~assignment[a].linked
    BY DEF BeforeRun
  <1>7. RowsKeep
    <2>1. \A a \in Assignments : assignment'[a].status = "absent" <=> assignment[a].status = "absent"
      BY <1>4, <1>6
    <2> QED BY <1>4, <2>1, SameFamily DEF SInv
  <1>8. Seen'
    <2> SUFFICES ASSUME NEW a \in Assignments
                 PROVE  RowSeen(assignment'[a], reservation'[a], outcome[a])
      BY DEF Seen
    <2>1. RowSeen(assignment[a], reservation[a], outcome[a])
      BY DEF SInv, Seen
    <2> QED BY <1>4, <1>6, <2>1 DEF RowSeen
  <1>9. ConfirmedIsQuiet'
    <2> SUFFICES ASSUME work.stop = "confirmed", NEW a \in Assignments
                 PROVE  /\ assignment'[a].status \notin Active
                        /\ OpenRun(outcome[a]) => assignment'[a].result = "waiting"
      BY <1>2 DEF ConfirmedIsQuiet, OpenRun
    <2>1. assignment[a].status \notin Active /\ (OpenRun(outcome[a]) => assignment[a].result = "waiting")
      BY QuietIsConfirmed DEF SInv, Quiet
    <2> QED BY <1>4, <2>1 DEF Active
  <1>10. ContinuationWakes'
    <2> SUFFICES ASSUME NEW b \in Assignments, assignment'[b].status = "waiting",
                        reservation'[b].status = "reserved", work.stop = "none",
                        assignment'[assignment'[b].parent].status \in Terminal
                 PROVE  FALSE
      BY <1>2 DEF ContinuationWakes
    <2> DEFINE p == assignment[b].parent
    <2>1. /\ assignment[b].status = "waiting" /\ reservation[b].status = "reserved"
          /\ assignment'[b].parent = p /\ b \notin A \cap BeforeRun
      BY <1>4
    <2>2. p # 0 /\ p \in Assignments /\ assignment[p].status \notin Terminal
      BY <2>1, EarlierOne DEF SInv, Seen, RowSeen, ContinuationWakes
    <2>3. p \in A
      BY <1>4, <2>1, <2>2 DEF Terminal
    <2>4. t \in Under[b]
      <3>1. Under[b] = {b} \cup Under[p]
        BY <2>2, UnderChain DEF SInv, Chain
      <3> HIDE DEF Under
      <3> QED BY <1>5, <2>2, <2>3, <3>1
    <2>5. b \in BeforeRun
      BY <2>1 DEF BeforeRun
    <2> QED BY <1>5, <2>1, <2>4, <2>5
  <1>11. \A a \in Assignments : assignment'[a].result = "waiting" => assignment[a].result = "waiting"
    BY <1>4
  <1> QED BY <1>3, <1>7, <1>8, <1>9, <1>10, <1>11, RequestRestores

LEMMA ReplySeen ==
  ASSUME IInv, IInv', SInv, NEW source \in Assignments, Reply(source), UNCHANGED <<outcome, lanes>>
  PROVE  SInv'
  <1>1. /\ work.stop \in {"none", "requested"} /\ UNCHANGED control
        /\ assignment[source].status # "absent"
    BY DEF Reply
  <1>2. PICK a \in Having(assignment, {"absent"}), s \in {"ready", "waiting"} :
          /\ \A b \in Having(assignment, {"absent"}) : a <= b
          /\ assignment' = [assignment EXCEPT ![a] =
                 [NoAssignment EXCEPT !.status = s, !.parent = source]]
          /\ reservation' = [reservation EXCEPT ![a] =
                 [NoReservation EXCEPT !.status = "reserved", !.generation = work.generation]]
          /\ s = "waiting" => assignment[source].status \in Active
    BY DEF Reply, Having
  <1>3. work'.stop = work.stop /\ work'.generation = work.generation
    BY DEF Reply, IInv, Typed, WorkRows
  <1> DEFINE x == [NoAssignment EXCEPT !.status = s, !.parent = source]
             r == [NoReservation EXCEPT !.status = "reserved", !.generation = work.generation]
  <1>4. x.status = s /\ x.parent = source /\ ~x.linked /\ x.result = "none" /\ r.status = "reserved"
    BY DEF NoAssignment, NoReservation
  <1>5. assignment' = [assignment EXCEPT ![a] = x] /\ reservation' = [reservation EXCEPT ![a] = r]
    BY <1>2
  <1> HIDE DEF x, r
  <1>6. /\ a \in Assignments /\ assignment[a].status = "absent"
        /\ assignment'[a] = x /\ reservation'[a] = r
        /\ \A b \in Assignments \ {a} : assignment'[b] = assignment[b] /\ reservation'[b] = reservation[b]
    BY <1>5 DEF IInv, PairsOf, Having
  <1>7. outcome[a] = "none"
    BY <1>6 DEF IInv, PairsOf, Paired, Unstarted
  <1>8. Family(assignment)
    BY DEF SInv
  <1>9. source < a /\ source # a /\ source # 0
    BY <1>1, <1>6, <1>8, RoomWorkAssumption DEF Family, Assignments
  <1>10. \A b \in Assignments : assignment[b].status = "absent" /\ b # a => a < b
    <2> TAKE b \in Assignments
    <2>1. a \in Nat /\ b \in Nat
      BY <1>6, RoomWorkAssumption DEF Assignments
    <2> QED BY <1>2, <2>1 DEF Having
  <1>11. \A b \in Assignments \ {a} : assignment[b].parent # a
    <2> SUFFICES ASSUME NEW b \in Assignments \ {a}, assignment[b].parent = a PROVE FALSE
      OBVIOUS
    <2>1. a # 0
      BY <1>6, RoomWorkAssumption DEF Assignments
    <2> QED BY <1>6, <1>8, <2>1 DEF Family
  <1>12. Family(assignment')
    <2>1. \A b \in Assignments : assignment'[b].parent \in 0 .. b - 1
      <3>1. x.parent \in 0 .. a - 1
        BY <1>4, <1>6, <1>9, RoomWorkAssumption DEF Assignments
      <3> QED BY <1>6, <1>8, <3>1 DEF Family
    <2>2. \A b \in Assignments : assignment'[b].parent # 0 =>
              assignment'[assignment'[b].parent].status # "absent"
      <3> TAKE b \in Assignments
      <3>1. CASE b = a
        BY <1>1, <1>4, <1>6, <1>9, <3>1
      <3>2. CASE b # a
        <4> SUFFICES ASSUME assignment[b].parent # 0
                     PROVE  assignment'[assignment[b].parent].status # "absent"
          BY <1>6, <3>2
        <4>1. assignment[b].parent \in Assignments /\ assignment[b].parent # a
          BY <1>8, <1>11, <3>2, EarlierOne
        <4> QED BY <1>6, <1>8, <4>1 DEF Family
      <3> QED BY <3>1, <3>2
    <2>3. \A b, c \in Assignments :
              assignment'[b].status = "absent" /\ assignment'[c].status # "absent" => c < b
      <3> SUFFICES ASSUME NEW b \in Assignments, NEW c \in Assignments,
                          assignment'[b].status = "absent", assignment'[c].status # "absent"
                   PROVE  c < b
        OBVIOUS
      <3>1. b # a /\ assignment[b].status = "absent"
        BY <1>4, <1>6
      <3> QED BY <1>6, <1>8, <1>10, <3>1 DEF Family
    <2> QED BY <2>1, <2>2, <2>3 DEF Family
  <1>13. RowsKeep
    <2>1. Family(assignment)'
      BY <1>12 DEF Family
    <2> QED BY <1>6, <2>1 DEF RowsKeep
  <1>14. Seen'
    <2>1. RowSeen(x, r, outcome[a])
      BY <1>4, <1>7, <1>9 DEF RowSeen, OpenRun
    <2> QED BY <1>6, <2>1 DEF SInv, Seen
  <1>15. ConfirmedIsQuiet'
    BY <1>1, <1>3 DEF ConfirmedIsQuiet
  <1>16. ContinuationWakes'
    <2> SUFFICES ASSUME NEW b \in Assignments, assignment'[b].status = "waiting",
                        reservation'[b].status = "reserved", work.stop = "none"
                 PROVE  assignment'[assignment'[b].parent].status \notin Terminal
      BY <1>3 DEF ContinuationWakes
    <2>1. CASE b = a
      BY <1>2, <1>4, <1>6, <1>9, <2>1 DEF Active, Terminal
    <2>2. CASE b # a
      <3>1. /\ assignment'[b] = assignment[b] /\ assignment[b].status = "waiting"
            /\ reservation[b].status = "reserved"
        BY <1>6, <2>2
      <3>2. /\ assignment[b].parent \in Assignments
            /\ assignment[assignment[b].parent].status \notin Terminal
        BY <1>8, <3>1, EarlierOne DEF SInv, Seen, RowSeen, ContinuationWakes
      <3>3. assignment[b].parent # a
        BY <1>11, <2>2
      <3> QED BY <1>6, <3>1, <3>2, <3>3
    <2> QED BY <2>1, <2>2
  <1>17. \A b \in Assignments : assignment'[b].result = "waiting" => assignment[b].result = "waiting"
    BY <1>4, <1>6
  <1>18. StopKeeps /\ ControlKeeps /\ \A v \in Workers : HoldKept(v)
    BY <1>1, <1>3, SameStop, SameControl DEF lanes, HoldsStop, HoldKept
  <1> QED BY <1>13, <1>14, <1>15, <1>16, <1>17, <1>18, RequestRestores

-----------------------------------------------------------------------------
\* The Runs by themselves, the leases, and a worker that dies.

\* A step that leaves the work and its assignments, and opens no Run.
LEMMA RowsRest ==
  ASSUME IInv, IInv', SInv, UNCHANGED <<work, assignment>>,
         \A a \in Assignments : reservation'[a].status = reservation[a].status,
         \A a \in Assignments : OpenRun(outcome'[a]) => OpenRun(outcome[a])
  PROVE  /\ RowsKeep /\ StopKeeps /\ \A v \in Workers : TargetsKeep(v)
         /\ Seen' /\ ConfirmedIsQuiet' /\ ContinuationWakes'
  <1>1. RowsKeep /\ StopKeeps
    BY SameStop, SameFamily DEF SInv
  <1>2. \A v \in Workers : TargetsKeep(v)
    BY NothingWaits DEF SInv
  <1>3. Seen'
    BY DEF SInv, Seen, RowSeen
  <1>4. ConfirmedIsQuiet'
    BY DEF SInv, ConfirmedIsQuiet, OpenRun
  <1>5. ContinuationWakes'
    BY DEF SInv, ContinuationWakes
  <1> QED BY <1>1, <1>2, <1>3, <1>4, <1>5

LEMMA RunMoves ==
  ASSUME IInv, NEW a \in Assignments,
         \/ Run!Pause(a) \/ Run!Resume(a) \/ \E to \in Endings : Run!End(a, to)
  PROVE  /\ \A b \in Assignments : OpenRun(outcome'[b]) => OpenRun(outcome[b])
         /\ RunsKeep
  <1>1. outcome \in [Assignments -> Run!Outcomes]
    BY DEF IInv, RealOf
  <1>2. PICK to : /\ outcome[a] \notin Terminal /\ (OpenRun(to) => OpenRun(outcome[a]))
                  /\ outcome' = [outcome EXCEPT ![a] = to]
    <2>1. CASE Run!Pause(a) \/ Run!Resume(a)
      BY <2>1 DEF Run!Pause, Run!Resume, Run!Become, OpenRun, Terminal
    <2>2. CASE \E to \in Endings : Run!End(a, to)
      BY <2>2, RoomWorkAssumption DEF Run!End, Run!Become, OpenRun, Terminal
    <2> QED BY <2>1, <2>2
  <1> QED BY <1>1, <1>2 DEF RunsKeep

LEMMA RunStepSeen ==
  ASSUME IInv, IInv', SInv, NEW a \in Assignments, RunStep(a)
  PROVE  SInv'
  <1>1. UNCHANGED <<work, assignment, reservation, control, lanes>>
    BY DEF RunStep, rows
  <1>2. RunsKeep /\ \A b \in Assignments : OpenRun(outcome'[b]) => OpenRun(outcome[b])
    BY RunMoves DEF RunStep
  <1>3. /\ RowsKeep /\ StopKeeps /\ \A v \in Workers : TargetsKeep(v)
        /\ Seen' /\ ConfirmedIsQuiet' /\ ContinuationWakes'
    BY <1>1, <1>2, RowsRest
  <1>4. Keeps
    BY <1>1, <1>2, <1>3, SameControl DEF Keeps
  <1>5. \A v \in Workers : HoldKept(v)
    BY <1>1 DEF HoldsStop, HoldKept, lanes
  <1>6. LanesSeen'
    BY <1>1, <1>3, <1>4, <1>5, LanesRest DEF SInv
  <1>7. Asked' /\ Family(assignment)'
    BY <1>4, AskedKeeps DEF SInv, Keeps, RowsKeep
  <1> QED BY <1>3, <1>6, <1>7 DEF SInv

LEMMA LeaseSeen ==
  ASSUME IInv, IInv', SInv, (\E a \in Assignments : LaunchLeaseExpires(a))
                            \/ (\E c \in Controls : StopLeaseExpires(c))
  PROVE  SInv'
  <1>1. /\ UNCHANGED <<work, assignment, outcome, lanes>>
        /\ \A a \in Assignments : reservation'[a].status = reservation[a].status
    BY DEF LaunchLeaseExpires, StopLeaseExpires, IInv, PairsOf, ReservationRows
  <1>2. \A c \in Controls : /\ control'[c].action = control[c].action
                            /\ control'[c].target = control[c].target
                            /\ control'[c].state = control[c].state
                            /\ control'[c].owner = control[c].owner
                            /\ control'[c].fresh => control[c].fresh
    <2>1. CASE UNCHANGED control
      BY <2>1
    <2>2. CASE \E c \in Controls : StopLeaseExpires(c)
      BY <2>2 DEF StopLeaseExpires, IInv, Typed, ControlRows
    <2> QED BY <2>1, <2>2 DEF LaunchLeaseExpires
  <1>3. \A a \in Assignments : OpenRun(outcome'[a]) => OpenRun(outcome[a])
    BY <1>1
  <1>4. /\ RowsKeep /\ StopKeeps /\ \A v \in Workers : TargetsKeep(v)
        /\ Seen' /\ ConfirmedIsQuiet' /\ ContinuationWakes'
    BY <1>1, <1>3, RowsRest
  <1>5. Keeps
    BY <1>1, <1>2, <1>4 DEF Keeps, RunsKeep, ControlKeeps, ControlKept
  <1>6. \A v \in Workers : HoldKept(v)
    <2> SUFFICES ASSUME NEW v \in Workers, dispatch[v].pc # "idle", HoldsStop(v)' PROVE HoldsStop(v)
      BY DEF HoldKept
    <2>1. CASE UNCHANGED control
      BY <1>1, <2>1 DEF HoldsStop, lanes
    <2>2. CASE \E c \in Controls : StopLeaseExpires(c)
      <3>1. PICK c \in Controls : control' = [control EXCEPT ![c].fresh = FALSE]
        BY <2>2 DEF StopLeaseExpires
      <3>2. /\ control \in [Controls -> ControlRows] /\ dispatch'[v] = dispatch[v]
            /\ dispatch[v].c \in Controls
        BY <1>1 DEF IInv, Typed, lanes, LanesOf, DispatchPlaced
      <3>3. control'[c].fresh = FALSE
        BY <3>1, <3>2 DEF ControlRows
      <3>4. dispatch[v].c # c
        BY <3>2, <3>3 DEF HoldsStop
      <3>5. control'[dispatch[v].c] = control[dispatch[v].c]
        BY <3>1, <3>2, <3>4
      <3> QED BY <3>2, <3>5 DEF HoldsStop
    <2> QED BY <2>1, <2>2 DEF LaunchLeaseExpires
  <1>7. LanesSeen'
    BY <1>1, <1>4, <1>5, <1>6, LanesRest DEF SInv
  <1>8. Asked' /\ Family(assignment)'
    BY <1>5, AskedKeeps DEF SInv, Keeps, RowsKeep
  <1> QED BY <1>4, <1>7, <1>8 DEF SInv

LEMMA IdleDispatch ==
  ASSUME NEW w \in Workers, dispatch'[w].pc = "idle"
  PROVE  DispatchSeen(w)'
  BY DEF DispatchSeen

LEMMA CrashSeen ==
  ASSUME IInv, IInv', SInv, NEW w \in Workers, Crash(w)
  PROVE  SInv'
  <1>1. /\ UNCHANGED <<work, assignment, reservation, control, outcome>>
        /\ launch' = [launch EXCEPT ![w] = NoLaunch] /\ dispatch' = [dispatch EXCEPT ![w] = NoDispatch]
    BY DEF Crash, rows
  <1>2. /\ launch'[w] = NoLaunch /\ dispatch'[w] = NoDispatch
        /\ \A v \in Workers \ {w} : launch'[v] = launch[v] /\ dispatch'[v] = dispatch[v]
    BY <1>1 DEF IInv, LanesOf
  <1>3. /\ RowsKeep /\ StopKeeps /\ \A v \in Workers : TargetsKeep(v)
        /\ Seen' /\ ConfirmedIsQuiet' /\ ContinuationWakes'
    BY <1>1, RowsRest
  <1>4. Keeps
    BY <1>1, <1>3, SameControl DEF Keeps, RunsKeep
  <1>5. LaunchSeen(w)' /\ DispatchSeen(w)'
    <2>1. dispatch'[w].pc = "idle"
      BY <1>2 DEF NoDispatch
    <2> QED BY <1>2, <2>1, IdleLane, IdleDispatch
  <1>6. \A v \in Workers \ {w} : HoldKept(v)
    BY <1>1, <1>2 DEF HoldsStop, HoldKept
  <1>7. LanesSeen'
    BY <1>2, <1>3, <1>4, <1>5, <1>6, LanesStay DEF SInv
  <1>8. Asked' /\ Family(assignment)'
    BY <1>4, AskedKeeps DEF SInv, Keeps, RowsKeep
  <1> QED BY <1>3, <1>7, <1>8 DEF SInv

-----------------------------------------------------------------------------
\* The stop lane.

\* The dispatch of a lane goes on with the same control.
LEMMA DispatchGoes ==
  ASSUME IInv, Family(assignment), Keeps, NEW w \in Workers, DispatchSeen(w),
         dispatch[w].pc # "idle", dispatch'[w].c = dispatch[w].c,
         dispatch'[w].targets \subseteq dispatch[w].targets, HoldKept(w), TargetsKeep(w),
         dispatch'[w].pc = "reconcile" =>
             /\ dispatch'[w].a \in dispatch'[w].targets
             /\ dispatch'[w].a \notin dispatch'[w].linked => dispatch'[w].status = "outcome_unknown"
  PROVE  DispatchSeen(w)'
  <1> SUFFICES ASSUME HoldsStop(w)', NEW a \in dispatch'[w].targets
               PROVE  TargetSeen(dispatch[w].c, a)'
    BY DEF DispatchSeen
  <1>1. HoldsStop(w) /\ dispatch[w].c \in Controls /\ a \in dispatch[w].targets /\ a \in Assignments
    BY DEF HoldKept, IInv, LanesOf, DispatchPlaced, DispatchRows
  <1>2. PICK c \in Controls : c = dispatch[w].c
    BY <1>1
  <1>3. control'[c].state = "pending"
    BY <1>2 DEF HoldsStop
  <1>4. TargetSeen(c, a) /\ assignment'[a].result # "waiting"
    BY <1>1, <1>2 DEF DispatchSeen, TargetsKeep
  <1>5. TargetSeen(c, a)'
    BY <1>1, <1>3, <1>4, TargetStays
  <1> HIDE DEF Under
  <1> QED BY <1>2, <1>5 DEF TargetSeen

LEMMA DispatchFields ==
  ASSUME NEW y \in DispatchRows, NEW a, NEW s, NEW T
  PROVE  /\ [y EXCEPT !.pc = "reconcile", !.a = a, !.status = s].pc = "reconcile"
         /\ [y EXCEPT !.pc = "reconcile", !.a = a, !.status = s].a = a
         /\ [y EXCEPT !.pc = "reconcile", !.a = a, !.status = s].status = s
         /\ [y EXCEPT !.pc = "reconcile", !.a = a, !.status = s].c = y.c
         /\ [y EXCEPT !.pc = "reconcile", !.a = a, !.status = s].targets = y.targets
         /\ [y EXCEPT !.pc = "reconcile", !.a = a, !.status = s].linked = y.linked
         /\ [y EXCEPT !.pc = "cancel", !.targets = T, !.a = 0, !.status = "none"].pc = "cancel"
         /\ [y EXCEPT !.pc = "cancel", !.targets = T, !.a = 0, !.status = "none"].c = y.c
         /\ [y EXCEPT !.pc = "cancel", !.targets = T, !.a = 0, !.status = "none"].targets = T
  BY DEF DispatchRows

LEMMA CancelTargetSeen ==
  ASSUME IInv, IInv', SInv, NEW w \in Workers, CancelTarget(w)
  PROVE  SInv'
  <1>1. /\ UNCHANGED <<work, assignment, reservation, control, launch>>
        /\ dispatch[w].pc = "cancel" /\ dispatch[w] \in DispatchRows
        /\ dispatch[w].targets \subseteq Assignments
    BY DEF CancelTarget, rows, IInv, LanesOf, DispatchRows
  <1>2. PICK a \in dispatch[w].targets, s \in Terminal \cup {"outcome_unknown"} :
          /\ \/ UNCHANGED outcome /\ s = "outcome_unknown"
             \/ /\ a \in dispatch[w].linked
                /\ \/ UNCHANGED outcome
                   \/ /\ outcome[a] \in {"open", "waiting"}
                      /\ \E to \in {"cancelled", "unknown"} \cap Endings : Run!End(a, to)
                /\ s = StopOutcome(outcome'[a])
          /\ dispatch' = [dispatch EXCEPT ![w].pc = "reconcile", ![w].a = a, ![w].status = s]
    BY DEF CancelTarget
  <1>3. /\ \A b \in Assignments : OpenRun(outcome'[b]) => OpenRun(outcome[b])
        /\ RunsKeep
    <2>1. CASE UNCHANGED outcome
      BY <2>1 DEF RunsKeep
    <2>2. CASE \E to \in {"cancelled", "unknown"} \cap Endings : Run!End(a, to)
      <3>1. a \in Assignments /\ \E to \in Endings : Run!End(a, to)
        BY <1>1, <2>2
      <3> QED BY <3>1, RunMoves
    <2> QED BY <1>2, <2>1, <2>2
  <1>4. /\ RowsKeep /\ StopKeeps /\ \A v \in Workers : TargetsKeep(v)
        /\ Seen' /\ ConfirmedIsQuiet' /\ ContinuationWakes'
    BY <1>1, <1>3, RowsRest
  <1>5. Keeps
    BY <1>1, <1>3, <1>4, SameControl DEF Keeps
  <1> DEFINE x == [dispatch[w] EXCEPT !.pc = "reconcile", !.a = a, !.status = s]
  <1>6. /\ x.pc = "reconcile" /\ x.a = a /\ x.status = s /\ x.c = dispatch[w].c
        /\ x.targets = dispatch[w].targets /\ x.linked = dispatch[w].linked
    BY <1>1, DispatchFields
  <1>7. dispatch' = [dispatch EXCEPT ![w] = x]
    BY <1>2
  <1> HIDE DEF x
  <1>8. dispatch'[w] = x /\ \A v \in Workers \ {w} : dispatch'[v] = dispatch[v]
    BY <1>7 DEF IInv, LanesOf
  <1>9. \A v \in Workers : HoldKept(v)
    BY <1>1, <1>6, <1>8 DEF HoldKept, HoldsStop
  <1>10. DispatchSeen(w)'
    BY <1>1, <1>2, <1>4, <1>5, <1>6, <1>8, <1>9, DispatchGoes DEF SInv, LanesSeen
  <1>11. LaunchSeen(w)'
    BY <1>1, <1>5, LaunchStays DEF SInv, LanesSeen
  <1>12. LanesSeen'
    BY <1>1, <1>4, <1>5, <1>8, <1>9, <1>10, <1>11, LanesStay DEF SInv
  <1>13. Asked' /\ Family(assignment)'
    BY <1>5, AskedKeeps DEF SInv, Keeps, RowsKeep
  <1> QED BY <1>4, <1>12, <1>13 DEF SInv

LEMMA WorkStoppedStop ==
  ASSUME IInv, NEW c, NEW state \in {"pending", "unconfirmed", "confirmed"}
  PROVE  /\ WorkStopped(c, state).generation = work.generation
         /\ \/ WorkStopped(c, state).stop = work.stop
            \/ /\ control[c].action = "stop_request" /\ state # "pending"
               /\ WorkStopped(c, state).stop = state
  <1>1. Typed /\ work \in WorkRows
    BY DEF IInv, Typed
  <1>2. WorkStopped(c, state).generation = work.generation
    BY <1>1, WorkStoppedRow
  <1>3. CASE control[c].action # "stop_request" \/ state = "pending"
    BY <1>2, <1>3 DEF WorkStopped
  <1>4. CASE ~(control[c].action # "stop_request" \/ state = "pending")
    <2>1. WorkStopped(c, state) = [work EXCEPT !.stop = state,
                      !.status = IF state = "confirmed" THEN "cancelled" ELSE work.status]
      BY <1>4 DEF WorkStopped
    <2> QED BY <1>1, <1>2, <1>4, <2>1 DEF WorkRows
  <1> QED BY <1>3, <1>4

\* A lane that holds the control is the only one.
LEMMA OthersHold ==
  ASSUME IInv, NEW w \in Workers, NEW c \in Controls, control'[c].owner \in {w, "none"},
         \A d \in Controls \ {c} : control'[d] = control[d],
         NEW v \in Workers \ {w}, dispatch'[v] = dispatch[v]
  PROVE  HoldKept(v)
  <1> SUFFICES ASSUME dispatch[v].pc # "idle", HoldsStop(v)' PROVE HoldsStop(v)
    BY DEF HoldKept
  <1>1. dispatch[v].c \in Controls
    BY DEF IInv, LanesOf, DispatchPlaced
  <1>2. v # "none"
    BY RoomWorkAssumption DEF Workers
  <1>3. dispatch[v].c # c
    BY <1>2 DEF HoldsStop
  <1> QED BY <1>1, <1>3 DEF HoldsStop

\* A stop that has counted everything in its scope finds the rows at rest.
LEMMA CountedScope ==
  ASSUME NEW asg, NEW res, NEW o, NEW open, NEW c, control[c].action = "stop_request",
         \A a \in Assignments : RowSeen(asg[a], res[a], o[a]),
         \A a \in Assignments : assignment[a].status = "absent" => asg[a].status = "absent",
         StopState(asg, open, Scope(c)) = "confirmed"
  PROVE  Quiet(asg, o)
  <1>1. \A a \in Scope(c) : asg[a].status \notin Active \cup {"outcome_unknown"}
    BY DEF StopState
  <1>2. \A a \in Assignments : a \in Scope(c) \/ asg[a].status = "absent"
    BY DEF Scope
  <1>3. \A a \in Assignments : asg[a].status \notin Active \cup {"outcome_unknown"}
    BY <1>1, <1>2 DEF Active
  <1> QED BY <1>3, CountedIsQuiet

LEMMA ClaimStopSeen ==
  ASSUME IInv, IInv', SInv, NEW w \in Workers, NEW c \in Controls, ClaimStop(w, c)
  PROVE  SInv'
  <1> DEFINE scope == Scope(c)
             targets == {a \in scope : assignment[a].status \in {"running", "outcome_unknown"}}
             state == StopState(assignment, Having(reservation, {"claimed"}), scope)
             x == [NoDispatch EXCEPT !.pc = "cancel", !.c = c, !.targets = targets,
                                     !.linked = {a \in targets : assignment[a].linked}]
  <1>1. /\ dispatch[w].pc = "idle" /\ control[c].state \in Dispatchable
        /\ control[c].action \in {"stop_request", "assignment_stop"}
        /\ control' = [control EXCEPT ![c].state = state,
                ![c].owner = IF state = "pending" THEN w ELSE "none", ![c].fresh = (state = "pending")]
        /\ work' = WorkStopped(c, state)
        /\ dispatch' = dispatch \/ dispatch' = [dispatch EXCEPT ![w] = x]
        /\ UNCHANGED <<assignment, reservation, outcome, launched, launch, crashes>>
    BY DEF ClaimStop
  <1>2. state \in {"pending", "unconfirmed", "confirmed"}
    BY DEF StopState
  <1>3. x.pc = "cancel" /\ x.c = c /\ x.targets = targets
    BY DEF NoDispatch
  <1>4. scope \subseteq Assignments
    BY DEF Scope, Tree
  <1>5. /\ work'.generation = work.generation
        /\ \/ work'.stop = work.stop
           \/ control[c].action = "stop_request" /\ state # "pending" /\ work'.stop = state
    BY <1>1, <1>2, WorkStoppedStop
  <1>6. /\ control'[c].owner = IF state = "pending" THEN w ELSE "none"
        /\ control'[c].action = control[c].action /\ control'[c].target = control[c].target
        /\ \A d \in Controls \ {c} : control'[d] = control[d]
    <2> HIDE DEF state, targets, scope
    <2>1. PICK o, f : /\ o = (IF state = "pending" THEN w ELSE "none")
                      /\ control' = [control EXCEPT ![c].state = state, ![c].owner = o, ![c].fresh = f]
      BY <1>1
    <2>2. control \in [Controls -> ControlRows] /\ control[c] \in ControlRows
      BY DEF IInv, Typed
    <2> QED BY <2>1, <2>2 DEF ControlRows
  <1>7. \A a \in targets : /\ a \in Assignments /\ assignment[a].status \in {"running", "outcome_unknown"}
                           /\ control[c].action # "stop_request" => control[c].target \in Under[a]
    BY <1>4 DEF Scope, Tree
  <1> HIDE DEF x, targets
  <1>8. work.stop # "none" \/ control[c].action # "stop_request"
    BY DEF SInv, Asked
  <1>9. StopKeeps
    BY <1>2, <1>5, <1>8, SameStop
  <1>10. Keeps
    <2>1. ControlKeeps
      BY <1>1, <1>6 DEF ControlKeeps, ControlKept
    <2>2. RowsKeep /\ RunsKeep
      BY <1>1, SameFamily DEF SInv, RunsKeep
    <2> QED BY <1>9, <2>1, <2>2 DEF Keeps
  <1>11. Seen' /\ ContinuationWakes'
    BY <1>1, <1>9 DEF SInv, Seen, ContinuationWakes, StopKeeps
  <1>12. ConfirmedIsQuiet'
    <2> SUFFICES ASSUME work'.stop = "confirmed"
                 PROVE  Quiet(assignment, outcome)
      BY <1>1 DEF ConfirmedIsQuiet, Quiet, OpenRun
    <2>1. CASE work'.stop = work.stop
      BY <2>1, QuietIsConfirmed DEF SInv
    <2>2. CASE work'.stop # work.stop
      <3>1. control[c].action = "stop_request" /\ state = "confirmed"
        BY <1>5, <2>2
      <3> QED BY <3>1, CountedScope DEF SInv, Seen
    <2> QED BY <2>1, <2>2
  <1>13. \A v \in Workers \ {w} : launch'[v] = launch[v] /\ dispatch'[v] = dispatch[v]
    BY <1>1 DEF IInv, LanesOf
  <1>14. \A v \in Workers \ {w} : HoldKept(v)
    <2>1. control'[c].owner \in {w, "none"}
      BY <1>6
    <2> QED BY <1>6, <1>13, <2>1, OthersHold
  <1>15. \A v \in Workers : TargetsKeep(v)
    BY <1>1, NothingWaits DEF SInv
  <1>16. LaunchSeen(w)'
    BY <1>1, <1>10, LaunchStays DEF SInv, LanesSeen
  <1>17. DispatchSeen(w)'
    <2>1. CASE dispatch' = dispatch
      BY <1>1, <2>1, IdleDispatch
    <2>2. CASE dispatch' = [dispatch EXCEPT ![w] = x]
      <3>1. dispatch'[w] = x
        BY <2>2 DEF IInv, LanesOf
      <3>2. ASSUME NEW a \in targets
            PROVE  TargetSeen(c, a)'
        <4>1. TargetSeen(c, a)
          BY <1>1, <1>7 DEF TargetSeen, SInv, Seen, RowSeen
        <4>2. a \in Assignments /\ assignment'[a] = assignment[a]
          BY <1>1, <1>7
        <4>3. Under'[a] = Under[a]
          BY <1>10, <4>1, <4>2, UnderKeeps DEF TargetSeen, SInv, Keeps
        <4> HIDE DEF Under
        <4> QED BY <1>6, <4>1, <4>2, <4>3 DEF TargetSeen
      <3> HIDE DEF Under
      <3> QED BY <1>3, <3>1, <3>2 DEF DispatchSeen, TargetSeen
    <2> QED BY <1>1, <2>1, <2>2
  <1>18. LanesSeen'
    BY <1>10, <1>13, <1>14, <1>15, <1>16, <1>17, LanesStay DEF SInv
  <1>19. Asked' /\ Family(assignment)'
    BY <1>10, AskedKeeps DEF SInv, Keeps, RowsKeep
  <1> QED BY <1>11, <1>12, <1>18, <1>19 DEF SInv

\* The dispatch goes on to the next target, or ends.
LEMMA NextTargetSeen ==
  ASSUME IInv, SInv, Keeps, NEW w \in Workers, dispatch[w].pc = "reconcile", NextTarget(w),
         HoldKept(w), TargetsKeep(w)
  PROVE  DispatchSeen(w)'
  <1> DEFINE left == dispatch[w].targets \ {dispatch[w].a}
             x == [dispatch[w] EXCEPT !.pc = "cancel", !.targets = left, !.a = 0, !.status = "none"]
  <1>1. dispatch \in [Workers -> DispatchRows] /\ dispatch[w] \in DispatchRows
    BY DEF IInv, LanesOf
  <1>2. dispatch' = [dispatch EXCEPT ![w] = NoDispatch] \/ dispatch' = [dispatch EXCEPT ![w] = x]
    BY <1>1 DEF NextTarget
  <1>3. x.pc = "cancel" /\ x.c = dispatch[w].c /\ x.targets = left
    BY <1>1, DispatchFields
  <1> HIDE DEF x
  <1>4. CASE dispatch' = [dispatch EXCEPT ![w] = NoDispatch]
    <2>1. dispatch'[w].pc = "idle"
      BY <1>1, <1>4 DEF NoDispatch
    <2> QED BY <2>1, IdleDispatch
  <1>5. CASE dispatch' = [dispatch EXCEPT ![w] = x]
    <2>1. dispatch'[w] = x
      BY <1>1, <1>5
    <2> QED BY <1>3, <2>1, DispatchGoes DEF SInv, LanesSeen
  <1> QED BY <1>2, <1>4, <1>5

LEMMA ReconcileSeen ==
  ASSUME IInv, IInv', SInv, NEW w \in Workers, Reconcile(w)
  PROVE  SInv'
  <1> DEFINE a == dispatch[w].a
             c == dispatch[w].c
             s == dispatch[w].status
             asg == [assignment EXCEPT ![a].status = s]
             held == HoldsStop(w) /\ Current(c) /\ StopEvidence(w)
  <1>1. /\ dispatch[w].pc = "reconcile" /\ dispatch[w] \in DispatchRows
        /\ a \in Assignments /\ c \in Controls /\ s \in Terminal \cup {"outcome_unknown"}
        /\ Pairs /\ assignment \in [Assignments -> AssignmentRows]
    BY DEF Reconcile, IInv, LanesOf, DispatchPlaced, Pairs, PairsOf
  <1>2. UNCHANGED <<outcome, launched, launch, crashes>> /\ NextTarget(w)
    BY DEF Reconcile
  <1>3. /\ \A v \in Workers \ {w} : launch'[v] = launch[v] /\ dispatch'[v] = dispatch[v]
        /\ dispatch'[w].pc # "idle" => dispatch'[w].c = c
    <2> DEFINE left == dispatch[w].targets \ {a}
               x == [dispatch[w] EXCEPT !.pc = "cancel", !.targets = left, !.a = 0, !.status = "none"]
    <2>1. dispatch \in [Workers -> DispatchRows]
      BY DEF IInv, LanesOf
    <2>2. dispatch' = [dispatch EXCEPT ![w] = NoDispatch] \/ dispatch' = [dispatch EXCEPT ![w] = x]
      BY <1>2, <2>1 DEF NextTarget
    <2>3. x.c = c /\ NoDispatch.pc = "idle"
      BY <1>1, DispatchFields DEF NoDispatch
    <2> HIDE DEF x
    <2> QED BY <1>2, <2>1, <2>2, <2>3
  <1>4. CASE held
    <2>1. PICK state \in {"pending", "unconfirmed", "confirmed"}, o \in {control[c].owner, "none"}, f \in BOOLEAN :
            /\ control' = [control EXCEPT ![c].state = state, ![c].owner = o, ![c].fresh = f]
            /\ work' = WorkStopped(c, state)
            /\ state = "confirmed" => \E open : StopState(Wake(asg, a), open, Scope(c)) = "confirmed"
      <3> DEFINE open == Having(Close(a, s), {"reserved", "claimed"})
                 unknown == \E b \in Scope(c) : Wake(asg, a)[b].status = "outcome_unknown"
                 st == IF unknown THEN "unconfirmed" ELSE StopState(Wake(asg, a), open, Scope(c))
      <3>1. st \in {"pending", "unconfirmed", "confirmed"}
        BY DEF StopState
      <3>2. st = "confirmed" => StopState(Wake(asg, a), open, Scope(c)) = "confirmed"
        OBVIOUS
      <3>3. /\ control' = [control EXCEPT ![c].state = st,
                  ![c].owner = IF st = "pending" THEN @ ELSE "none",
                  ![c].fresh = (st = "pending")]
            /\ work' = WorkStopped(c, st)
        BY <1>4 DEF Reconcile
      <3> HIDE DEF st
      <3>4. control \in [Controls -> ControlRows]
        BY DEF IInv, Typed
      <3> QED BY <1>1, <3>1, <3>2, <3>3, <3>4
    <2>2. assignment' = Wake(asg, a) /\ reservation' = Close(a, s)
      BY <1>4 DEF Reconcile
    <2>3. NewStatus(asg, a, s) /\ asg[a].result = assignment[a].result /\ asg[a].linked = assignment[a].linked
      BY <1>1, Written DEF AssignmentRows, Results
    <2>4. /\ a \in dispatch[w].linked \/ s = "outcome_unknown"
          /\ TargetSeen(c, a)
      BY <1>1, <1>4 DEF SInv, LanesSeen, DispatchSeen
    <2>5. s \in Terminal => outcome[a] = s
      BY <1>4, <2>4 DEF StopEvidence, Terminal
    <2>6. control[c].state = "pending" /\ control[c].owner = w
      BY <1>4 DEF HoldsStop
    <2> HIDE DEF asg, s
    <2>7. /\ work'.generation = work.generation
          /\ \/ work'.stop = work.stop
             \/ control[c].action = "stop_request" /\ state # "pending" /\ work'.stop = state
      BY <2>1, WorkStoppedStop
    <2>8. StopKeeps
      <3>1. work.stop # "none" \/ control[c].action # "stop_request"
        BY <1>1 DEF SInv, Asked
      <3> QED BY <2>7, <3>1, SameStop
    <2>9. /\ control'[c].state = state /\ control'[c].owner \in {w, "none"}
          /\ control'[c].action = control[c].action /\ control'[c].target = control[c].target
          /\ \A d \in Controls \ {c} : control'[d] = control[d]
      <3>1. control \in [Controls -> ControlRows] /\ control[c] \in ControlRows
        BY <1>1 DEF IInv, Typed
      <3> QED BY <1>1, <2>1, <2>6, <3>1 DEF ControlRows
    <2>10. assignment[a].status # "absent" /\ assignment[a].result # "waiting"
      BY <2>4 DEF TargetSeen
    <2>11. Seen' /\ RowsKeep /\ ContinuationWakes'
      <3>1. OpenRun(outcome'[a]) => asg[a].linked /\ (s = "outcome_unknown" \/ asg[a].result = "waiting")
        <4>1. OpenRun(outcome[a]) => assignment[a].linked
          BY <1>1 DEF SInv, Seen, RowSeen
        <4> QED BY <1>1, <1>2, <2>3, <2>5, <4>1 DEF OpenRun, Terminal, s
      <3>2. asg[a].result # "waiting"
        BY <2>3, <2>10
      <3>3. s \in Terminal \cup {"waiting", "outcome_unknown"}
        BY <1>1 DEF s
      <3> QED BY <1>1, <1>2, <2>2, <2>3, <2>8, <2>10, <3>1, <3>2, <3>3, EndsSeen DEF SInv
    <2>12. Keeps
      <3>1. ControlKeeps
        BY <2>6, <2>9 DEF ControlKeeps, ControlKept, Dispatchable
      <3>2. RunsKeep
        BY <1>2 DEF RunsKeep
      <3> QED BY <2>8, <2>11, <3>1, <3>2 DEF Keeps
    <2>13. ConfirmedIsQuiet'
      <3> SUFFICES ASSUME work'.stop = "confirmed"
                   PROVE  Quiet(Wake(asg, a), outcome)
        BY <1>2, <2>2 DEF ConfirmedIsQuiet, Quiet, OpenRun
      <3>1. CASE work'.stop = work.stop
        <4>1. Quiet(assignment, outcome) /\ ~OpenRun(outcome[a])
          BY <1>1, <2>10, <3>1, QuietIsConfirmed DEF SInv, Quiet
        <4>2. s \in Terminal \cup {"outcome_unknown"}
          BY <1>1 DEF s
        <4> QED BY <1>1, <2>3, <3>1, <4>1, <4>2, EndedQuiet
      <3>2. CASE work'.stop # work.stop
        <4>1. control[c].action = "stop_request" /\ state = "confirmed"
          BY <2>7, <3>2
        <4>2. PICK open : StopState(Wake(asg, a), open, Scope(c)) = "confirmed"
          BY <2>1, <4>1
        <4>3. \A b \in Assignments : RowSeen(Wake(asg, a)[b], reservation'[b], outcome[b])
          BY <1>2, <2>2, <2>11 DEF Seen
        <4>4. \A b \in Assignments : assignment[b].status = "absent" => Wake(asg, a)[b].status = "absent"
          <5> TAKE b \in Assignments
          <5> HAVE assignment[b].status = "absent"
          <5>1. b # a /\ asg[b].status = "absent" /\ asg \in [Assignments -> AssignmentRows]
            BY <2>3, <2>10 DEF NewStatus
          <5> QED BY <5>1, WokenRow
        <4> QED BY <4>1, <4>2, <4>3, <4>4, CountedScope
      <3> QED BY <3>1, <3>2
    <2>14. \A v \in Workers : TargetsKeep(v)
      <3>1. \A b \in Assignments : assignment'[b].result = "waiting" => assignment[b].result = "waiting"
        <4> TAKE b \in Assignments
        <4>1. asg \in [Assignments -> AssignmentRows] /\ asg[b].result = assignment[b].result
          BY <2>3 DEF NewStatus
        <4> QED BY <2>2, <4>1, WokenRow
      <3> QED BY <3>1, NothingWaits DEF SInv
    <2>15. \A v \in Workers \ {w} : HoldKept(v)
      BY <1>1, <1>3, <2>9, OthersHold
    <2>16. HoldKept(w)
      BY <1>4 DEF HoldKept
    <2>17. DispatchSeen(w)'
      BY <1>1, <1>2, <2>12, <2>14, <2>16, NextTargetSeen
    <2>18. LaunchSeen(w)'
      BY <1>2, <2>12, LaunchStays DEF SInv, LanesSeen
    <2>19. LanesSeen'
      BY <1>3, <2>12, <2>14, <2>15, <2>17, <2>18, LanesStay DEF SInv
    <2>20. Asked' /\ Family(assignment)'
      BY <2>12, AskedKeeps DEF SInv, Keeps, RowsKeep
    <2> QED BY <2>11, <2>13, <2>19, <2>20 DEF SInv
  <1>5. CASE ~held
    <2>1. UNCHANGED <<work, assignment, reservation, control, outcome>>
      BY <1>2, <1>5 DEF Reconcile, rows
    <2>2. /\ RowsKeep /\ StopKeeps /\ \A v \in Workers : TargetsKeep(v)
          /\ Seen' /\ ConfirmedIsQuiet' /\ ContinuationWakes'
      BY <2>1, RowsRest
    <2>3. Keeps
      BY <2>1, <2>2, SameControl DEF Keeps, RunsKeep
    <2>4. \A v \in Workers \ {w} : HoldKept(v)
      BY <1>3, <2>1 DEF HoldKept, HoldsStop
    <2>5. LaunchSeen(w)'
      BY <1>2, <2>3, LaunchStays DEF SInv, LanesSeen
    <2>6. DispatchSeen(w)'
      <3>1. CASE dispatch'[w].pc = "idle"
        BY <3>1, IdleDispatch
      <3>2. CASE dispatch'[w].pc # "idle"
        <4>1. HoldKept(w)
          BY <1>3, <2>1, <3>2 DEF HoldKept, HoldsStop
        <4> QED BY <1>1, <1>2, <2>2, <2>3, <4>1, NextTargetSeen
      <3> QED BY <3>1, <3>2
    <2>7. LanesSeen'
      BY <1>3, <2>2, <2>3, <2>4, <2>5, <2>6, LanesStay DEF SInv
    <2>8. Asked' /\ Family(assignment)'
      BY <2>3, AskedKeeps DEF SInv, Keeps, RowsKeep
    <2> QED BY <2>2, <2>7, <2>8 DEF SInv
  <1> QED BY <1>4, <1>5

-----------------------------------------------------------------------------
LEMMA InitStop == Init => SInv
  <1> SUFFICES ASSUME Init PROVE SInv
    OBVIOUS
  <1>1. \A a \in Assignments :
          /\ assignment[a].status = IF a = 1 THEN "ready" ELSE "absent"
          /\ assignment[a].parent = 0 /\ ~assignment[a].linked /\ assignment[a].result = "none"
          /\ outcome[a] = "none"
    BY DEF Init, NoAssignment
  <1>2. Seen
    BY <1>1 DEF Seen, RowSeen, OpenRun
  <1>3. Family(assignment)
    <2>1. Assignments \subseteq Nat \ {0}
      BY RoomWorkAssumption DEF Assignments
    <2> QED BY <1>1, <2>1 DEF Family
  <1>4. LanesSeen
    BY DEF Init, LanesSeen, LaunchSeen, DispatchSeen, NoLaunch, NoDispatch
  <1>5. Asked
    BY DEF Init, Asked, NoControl
  <1>6. ConfirmedIsQuiet
    BY DEF Init, ConfirmedIsQuiet
  <1>7. ContinuationWakes
    BY <1>1 DEF ContinuationWakes
  <1> QED BY <1>2, <1>3, <1>4, <1>5, <1>6, <1>7 DEF SInv

LEMMA StepStop == IInv /\ IInv' /\ SInv /\ [Next]_vars => SInv'
  <1> SUFFICES ASSUME IInv, IInv', SInv, [Next]_vars PROVE SInv'
    OBVIOUS
  <1>1. CASE Request
    <2>1. UNCHANGED <<outcome, lanes>>
      BY <1>1 DEF Request
    <2> QED BY <1>1, <2>1, StopRequestSeen, StopConfirmSeen, AssignmentStopSeen, ReplySeen DEF Request
  <1>2. ASSUME NEW w \in Launchers, LaunchLane(w) PROVE SInv'
    <2>1. w \in Workers
      BY DEF Workers
    <2> QED BY <1>2, <2>1, ClaimReservationSeen, AdmitSeen, WaitSeen, DiscardSeen, SettleSeen
        DEF LaunchLane
  <1>3. ASSUME NEW w \in Stoppers, StopLane(w) PROVE SInv'
    <2>1. w \in Workers
      BY DEF Workers
    <2> QED BY <1>3, <2>1, ClaimStopSeen, CancelTargetSeen, ReconcileSeen DEF StopLane
  <1>4. ASSUME NEW w \in Workers, Crash(w) PROVE SInv'
    BY <1>4, CrashSeen
  <1>5. ASSUME NEW a \in Assignments, RunStep(a) \/ LaunchLeaseExpires(a) PROVE SInv'
    BY <1>5, RunStepSeen, LeaseSeen
  <1>6. ASSUME NEW c \in Controls, StopLeaseExpires(c) PROVE SInv'
    BY <1>6, LeaseSeen
  <1>7. CASE UNCHANGED vars
    <2>1. UNCHANGED <<work, assignment, reservation, control, outcome, launch, dispatch>>
      BY <1>7 DEF vars, rows, lanes
    <2>2. /\ RowsKeep /\ StopKeeps /\ \A v \in Workers : TargetsKeep(v)
          /\ Seen' /\ ConfirmedIsQuiet' /\ ContinuationWakes'
      BY <2>1, RowsRest
    <2>3. Keeps
      BY <2>1, <2>2, SameControl DEF Keeps, RunsKeep
    <2>4. \A v \in Workers : HoldKept(v)
      BY <2>1 DEF HoldKept, HoldsStop
    <2>5. LanesSeen'
      BY <2>1, <2>2, <2>3, <2>4, LanesRest DEF SInv, lanes
    <2>6. Asked' /\ Family(assignment)'
      BY <2>3, AskedKeeps DEF SInv, Keeps, RowsKeep
    <2> QED BY <2>2, <2>5, <2>6 DEF SInv
  <1> QED BY <1>1, <1>2, <1>3, <1>4, <1>5, <1>6, <1>7 DEF Next

LEMMA StopInvariance == Spec => []SInv
  <1>1. SInv /\ IInv /\ IInv' /\ [Next]_vars => SInv'
    BY StepStop
  <1>2. Spec => []IInv
    BY Invariance
  <1> QED BY <1>1, <1>2, InitStop, PTL DEF Spec

-----------------------------------------------------------------------------
\* A confirmed stop is quiet: no assignment of the work is active, and no Run of
\* it is open except one that had been settled as waiting for input, whoever
\* confirmed the stop and whatever a lane that came late still settles.
THEOREM StopQuiet == Spec => []ConfirmedIsQuiet
  <1>1. SInv => ConfirmedIsQuiet
    BY DEF SInv
  <1> QED BY <1>1, StopInvariance, PTL

\* No wake-up is lost: what is reserved to continue an assignment is ready as
\* soon as that one has ended, for any tree of continuations and any stops of
\* parts of it.
THEOREM NoneLeftAsleep == Spec => []ContinuationWakes
  <1>1. SInv => ContinuationWakes
    BY DEF SInv
  <1> QED BY <1>1, StopInvariance, PTL

=============================================================================

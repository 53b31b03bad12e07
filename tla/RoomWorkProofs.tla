----------------------------- MODULE RoomWorkProofs -----------------------------
(* Theorems about RoomWork: for any workers, any number of assignments, stops  *)
(* and crashes, and for any way a Run may end.                                 *)
EXTENDS RoomWork, TLAPS

-----------------------------------------------------------------------------
\* The rows of TypeOK by name.

AssignmentRows ==
    [status : Active \cup Terminal \cup {"absent", "outcome_unknown"},
     parent : 0 .. MaxAssignments, linked : BOOLEAN, result : Results]

ReservationRows ==
    [status : {"absent", "reserved", "claimed", "released", "cancelled"},
     generation : 0 .. MaxGeneration, owner : Owners, fresh : BOOLEAN]

ControlRows ==
    [action : {"none", "stop_request", "stop_confirm", "stop_unconfirmed", "assignment_stop"},
     target : 0 .. MaxAssignments, state : {"none", "confirmed"} \cup Dispatchable,
     owner : Owners, fresh : BOOLEAN]

WorkRows ==
    [status : {"queued", "running", "waiting", "completed", "failed", "cancelled"},
     stop : Stops, generation : 0 .. MaxGeneration]

LaunchRows ==
    [pc : {"idle", "claimed", "admitted", "awaiting", "recovering", "settling"},
     a : 0 .. MaxAssignments, generation : 0 .. MaxGeneration,
     status : Results, linked : BOOLEAN]

DispatchRows ==
    [pc : {"idle", "cancel", "reconcile"}, c : 0 .. MaxGeneration,
     targets : SUBSET Assignments, a : 0 .. MaxAssignments,
     linked : SUBSET Assignments, status : Results]

-----------------------------------------------------------------------------
\* The inductive invariant.

\* An assignment row x, its reservation r, the generation g of the work, and the
\* number n of Runs it was given.  A row with a Run is never open without its
\* link, so that nothing can be admitted for it again.
Paired(x, r, g, n) ==
    /\ x \in AssignmentRows /\ r \in ReservationRows /\ n \in {0, 1}
    /\ r.generation <= g
    /\ x.status = "running" => r.status = "claimed"
    /\ r.status = "claimed" =>
         x.status \in Active /\ (r.generation = g => x.status = "running")
    /\ r.status = "reserved" => x.status \in {"ready", "waiting"}
    /\ x.linked => n = 1
    /\ n = 1 /\ r.status \in {"reserved", "claimed"} => x.linked
    /\ x.status = "absent" => n = 0

PairsOf(asg, res, g, n) ==
    /\ asg \in [Assignments -> AssignmentRows]
    /\ res \in [Assignments -> ReservationRows]
    /\ n \in [Assignments -> {0, 1}]
    /\ \A a \in Assignments : Paired(asg[a], res[a], g, n[a])

\* An assignment is completed only if its Run is.
RealOf(asg, o) ==
    /\ o \in [Assignments -> Run!Outcomes]
    /\ \A a \in Assignments : asg[a].status = "completed" => o[a] = "completed"

\* A lane that works holds an assignment or a control, and what it is about to
\* write as completed is.
LaunchPlaced(x, o) ==
    /\ x \in LaunchRows
    /\ x.pc # "idle" => x.a \in Assignments
    /\ x.pc = "settling" => /\ x.status # "none"
                            /\ x.status = "completed" => o[x.a] = "completed"

DispatchPlaced(x, o) ==
    /\ x \in DispatchRows
    /\ x.pc # "idle" => x.c \in Controls
    /\ x.pc = "reconcile" => /\ x.a \in Assignments
                             /\ x.status \in Terminal \cup {"outcome_unknown"}
                             /\ x.status = "completed" => o[x.a] = "completed"

LanesOf(l, d, o) ==
    /\ l \in [Workers -> LaunchRows] /\ d \in [Workers -> DispatchRows]
    /\ \A w \in Workers : LaunchPlaced(l[w], o) /\ DispatchPlaced(d[w], o)

\* An assignment that was given no Run has none to show.
Unstarted(o, n) == \A a \in Assignments : n[a] = 0 => o[a] = "none"

Typed == work \in WorkRows /\ control \in [Controls -> ControlRows] /\ crashes \in 0 .. MaxCrashes

IInv ==
    /\ Typed
    /\ PairsOf(assignment, reservation, work.generation, launched)
    /\ RealOf(assignment, outcome)
    /\ LanesOf(launch, dispatch, outcome)
    /\ Unstarted(outcome, launched)

\* A completed Run stays completed.
Stands(o, p) ==
    /\ p \in [Assignments -> Run!Outcomes]
    /\ \A a \in Assignments : o[a] = "completed" => p[a] = "completed"

LEMMA InvImplies == IInv => TypeOK /\ OneRunPerAssignment /\ ClaimedIsRunning /\ CompletedIsReal
  <1> SUFFICES ASSUME IInv PROVE TypeOK /\ OneRunPerAssignment /\ ClaimedIsRunning /\ CompletedIsReal
    OBVIOUS
  <1>1. TypeOK
    <2>1. launched \in [Assignments -> Nat]
      BY DEF IInv, PairsOf
    <2> QED BY <2>1 DEF TypeOK, IInv, Typed, PairsOf, RealOf, LanesOf, WorkRows, ControlRows,
             AssignmentRows, ReservationRows, LaunchRows, DispatchRows
  <1>2. OneRunPerAssignment
    BY DEF OneRunPerAssignment, IInv, PairsOf
  <1>3. ClaimedIsRunning
    BY DEF ClaimedIsRunning, IInv, PairsOf, Paired
  <1>4. CompletedIsReal
    BY DEF CompletedIsReal, IInv, RealOf
  <1> QED BY <1>1, <1>2, <1>3, <1>4

LEMMA InitInv == Init => IInv
  <1> SUFFICES ASSUME Init PROVE IInv
    OBVIOUS
  <1>1. MaxAssignments \in Nat /\ MaxGeneration \in Nat /\ MaxCrashes \in Nat
    BY RoomWorkAssumption
  <1>2. Typed
    BY <1>1 DEF Init, Typed, WorkRows, ControlRows, NoControl, Stops, Owners, Dispatchable
  <1>3. \A a \in Assignments : Paired(assignment[a], reservation[a], 0, 0)
    <2> TAKE a \in Assignments
    <2>1. /\ assignment[a] \in {NoAssignment, [NoAssignment EXCEPT !.status = "ready"]}
          /\ reservation[a] \in {NoReservation, [NoReservation EXCEPT !.status = "reserved"]}
          /\ assignment[a].status = "ready" <=> reservation[a].status = "reserved"
      BY DEF Init, NoAssignment, NoReservation
    <2>2. assignment[a] \in AssignmentRows /\ ~assignment[a].linked
          /\ assignment[a].status \in {"absent", "ready"}
      <3>1. NoAssignment \in AssignmentRows
        BY <1>1 DEF NoAssignment, AssignmentRows, Active, Terminal, Results
      <3>2. [NoAssignment EXCEPT !.status = "ready"] \in AssignmentRows
        BY <3>1 DEF AssignmentRows, Active
      <3>3. ~NoAssignment.linked /\ NoAssignment.status = "absent"
            /\ ~[NoAssignment EXCEPT !.status = "ready"].linked
            /\ [NoAssignment EXCEPT !.status = "ready"].status = "ready"
        BY DEF NoAssignment
      <3> QED BY <2>1, <3>1, <3>2, <3>3
    <2>3. reservation[a] \in ReservationRows /\ reservation[a].generation = 0
          /\ reservation[a].status \in {"absent", "reserved"}
      <3>1. NoReservation \in ReservationRows
        BY <1>1 DEF NoReservation, ReservationRows, Owners
      <3>2. [NoReservation EXCEPT !.status = "reserved"] \in ReservationRows
        BY <3>1 DEF ReservationRows
      <3>3. NoReservation.generation = 0 /\ NoReservation.status = "absent"
            /\ [NoReservation EXCEPT !.status = "reserved"].generation = 0
            /\ [NoReservation EXCEPT !.status = "reserved"].status = "reserved"
        BY DEF NoReservation
      <3> QED BY <2>1, <3>1, <3>2, <3>3
    <2> QED BY <2>1, <2>2, <2>3 DEF Paired
  <1>4. PairsOf(assignment, reservation, work.generation, launched)
    BY <1>3 DEF Init, PairsOf, Paired
  <1>5. RealOf(assignment, outcome)
    BY DEF Init, RealOf, Run!Outcomes, NoAssignment
  <1>6. \A w \in Workers : LaunchPlaced(launch[w], outcome) /\ DispatchPlaced(dispatch[w], outcome)
    BY <1>1 DEF Init, LaunchPlaced, DispatchPlaced, LaunchRows, DispatchRows, NoLaunch, NoDispatch,
                Results
  <1>7. LanesOf(launch, dispatch, outcome)
    BY <1>6 DEF LanesOf, LaunchPlaced, DispatchPlaced, Init
  <1>8. Unstarted(outcome, launched)
    BY DEF Init, Unstarted
  <1> QED BY <1>2, <1>4, <1>5, <1>7, <1>8 DEF IInv

-----------------------------------------------------------------------------
\* What becomes of the lanes.

LEMMA LanesStand ==
  ASSUME NEW l, NEW d, NEW o, NEW p, LanesOf(l, d, o), Stands(o, p)
  PROVE  LanesOf(l, d, p)
  BY DEF LanesOf, Stands, LaunchPlaced, DispatchPlaced

LEMMA LaunchMoves ==
  ASSUME NEW l, NEW d, NEW o, NEW p, LanesOf(l, d, o), Stands(o, p),
         NEW w \in Workers, NEW x, LaunchPlaced(x, p)
  PROVE  LanesOf([l EXCEPT ![w] = x], d, p)
  <1>1. LanesOf(l, d, p)
    BY LanesStand
  <1>2. x \in LaunchRows
    BY DEF LaunchPlaced
  <1>3. [l EXCEPT ![w] = x] \in [Workers -> LaunchRows]
    BY <1>1, <1>2 DEF LanesOf
  <1>4. \A v \in Workers : LaunchPlaced([l EXCEPT ![w] = x][v], p)
    BY <1>1 DEF LanesOf
  <1> QED BY <1>1, <1>3, <1>4 DEF LanesOf

LEMMA DispatchMoves ==
  ASSUME NEW l, NEW d, NEW o, NEW p, LanesOf(l, d, o), Stands(o, p),
         NEW w \in Workers, NEW x, DispatchPlaced(x, p)
  PROVE  LanesOf(l, [d EXCEPT ![w] = x], p)
  <1>1. LanesOf(l, d, p)
    BY LanesStand
  <1>2. x \in DispatchRows
    BY DEF DispatchPlaced
  <1>3. [d EXCEPT ![w] = x] \in [Workers -> DispatchRows]
    BY <1>1, <1>2 DEF LanesOf
  <1>4. \A v \in Workers : DispatchPlaced([d EXCEPT ![w] = x][v], p)
    BY <1>1 DEF LanesOf
  <1> QED BY <1>1, <1>3, <1>4 DEF LanesOf

LEMMA IdleLanes ==
  ASSUME NEW o
  PROVE  LaunchPlaced(NoLaunch, o) /\ DispatchPlaced(NoDispatch, o)
  BY RoomWorkAssumption DEF LaunchPlaced, DispatchPlaced, LaunchRows, DispatchRows, NoLaunch,
     NoDispatch, Results

\* A lane that goes on with its assignment, or has something to settle.
LEMMA LaneGoes ==
  ASSUME NEW x, NEW o, LaunchPlaced(x, o), x.pc # "idle",
         NEW pc \in {"claimed", "admitted", "awaiting", "recovering"}
  PROVE  LaunchPlaced([x EXCEPT !.pc = pc], o)
  BY DEF LaunchPlaced, LaunchRows

LEMMA LaneSettles ==
  ASSUME NEW x, NEW o, NEW p, LaunchPlaced(x, o), x.pc # "idle",
         NEW s \in Results \ {"none"}, s = "completed" => p[x.a] = "completed",
         NEW b \in BOOLEAN
  PROVE  LaunchPlaced([x EXCEPT !.pc = "settling", !.status = s, !.linked = b], p)
  BY DEF LaunchPlaced, LaunchRows

-----------------------------------------------------------------------------
\* What becomes of the rows of an assignment.

Pairs == PairsOf(assignment, reservation, work.generation, launched)

LEMMA NumbersFit ==
  ASSUME Typed
  PROVE  work.generation \in Nat /\ work.generation <= MaxGeneration /\ MaxGeneration \in Nat
  BY RoomWorkAssumption DEF Typed, WorkRows

LEMMA Closed ==
  ASSUME Pairs, NEW A, NEW how \in {"released", "cancelled"}
  PROVE  /\ CloseAll(A, how) \in [Assignments -> ReservationRows]
         /\ \A a \in Assignments :
              /\ CloseAll(A, how)[a].generation = reservation[a].generation
              /\ a \in A => CloseAll(A, how)[a].status \notin {"reserved", "claimed"}
              /\ a \notin A => CloseAll(A, how)[a] = reservation[a]
  <1> DEFINE q(r) == [r EXCEPT !.status = how, !.owner = "none", !.fresh = FALSE]
  <1>1. ASSUME NEW r \in ReservationRows
        PROVE  q(r) \in ReservationRows /\ q(r).generation = r.generation /\ q(r).status = how
    BY DEF ReservationRows, Owners
  <1>2. \A a \in Assignments : reservation[a] \in ReservationRows
    BY DEF Pairs, PairsOf
  <1>3. \A a \in Assignments :
          CloseAll(A, how)[a] = IF a \in A /\ reservation[a].status \in {"reserved", "claimed"}
                                THEN q(reservation[a]) ELSE reservation[a]
    BY DEF CloseAll
  <1> HIDE DEF q
  <1>4. CloseAll(A, how) = [a \in Assignments |-> CloseAll(A, how)[a]]
    BY DEF CloseAll
  <1>5. \A a \in Assignments : CloseAll(A, how)[a] \in ReservationRows
    BY <1>1, <1>2, <1>3
  <1> QED BY <1>1, <1>2, <1>3, <1>4, <1>5

\* The row of an assignment that is given a new status, nothing else of it.
NewStatus(asg, a, s) ==
    /\ asg \in [Assignments -> AssignmentRows]
    /\ asg[a].status = s /\ asg[a].parent = assignment[a].parent
    /\ asg[a].linked => assignment[a].linked
    /\ \A b \in Assignments \ {a} : asg[b] = assignment[b]

LEMMA WokenPairs ==
  ASSUME NEW asg, NEW res, NEW g, NEW n, PairsOf(asg, res, g, n), NEW a
  PROVE  PairsOf(Wake(asg, a), res, g, n)
  <1> DEFINE q(x) == [x EXCEPT !.status = "ready"]
  <1>1. ASSUME NEW x \in AssignmentRows, x.status = "waiting", NEW r, NEW m, Paired(x, r, g, m)
        PROVE  Paired(q(x), r, g, m)
    <2>1. q(x) \in AssignmentRows /\ q(x).status = "ready" /\ q(x).linked = x.linked
      BY DEF AssignmentRows, Active
    <2> HIDE DEF q
    <2> QED BY <1>1, <2>1 DEF Paired, Active
  <1>2. \A b \in Assignments : \/ Wake(asg, a)[b] = asg[b]
                               \/ asg[b].status = "waiting" /\ Wake(asg, a)[b] = q(asg[b])
    BY DEF Wake
  <1> HIDE DEF q
  <1>3. \A b \in Assignments : Paired(Wake(asg, a)[b], res[b], g, n[b])
    BY <1>1, <1>2 DEF PairsOf
  <1>4. Wake(asg, a) \in [Assignments -> AssignmentRows]
    <2>1. Wake(asg, a) = [b \in Assignments |-> Wake(asg, a)[b]]
      BY DEF Wake
    <2>2. \A b \in Assignments : Wake(asg, a)[b] \in AssignmentRows
      BY <1>3 DEF Paired
    <2> QED BY <2>1, <2>2
  <1> QED BY <1>3, <1>4 DEF PairsOf

LEMMA WokenReal ==
  ASSUME NEW asg \in [Assignments -> AssignmentRows], NEW o, RealOf(asg, o), NEW a
  PROVE  RealOf(Wake(asg, a), o)
  <1>1. \A b \in Assignments : Wake(asg, a)[b].status = "completed" => asg[b].status = "completed"
    <2> TAKE b \in Assignments
    <2>1. Wake(asg, a)[b] = asg[b] \/ Wake(asg, a)[b] = [asg[b] EXCEPT !.status = "ready"]
      BY DEF Wake
    <2>2. asg[b] \in AssignmentRows
      OBVIOUS
    <2> QED BY <2>1, <2>2 DEF AssignmentRows
  <1> QED BY <1>1 DEF RealOf

\* An assignment is settled: its reservation is closed, what waited for it wakes.
LEMMA EndedPairs ==
  ASSUME Pairs, NEW a \in Assignments, NEW s \in Terminal \cup {"waiting", "outcome_unknown"},
         NEW asg, NewStatus(asg, a, s), NEW how
  PROVE  PairsOf(Wake(asg, a), Close(a, how), work.generation, launched)
  <1>1. PICK h \in {"released", "cancelled"} : Close(a, how) = CloseAll({a}, h)
    BY DEF Close
  <1>2. /\ Close(a, how) \in [Assignments -> ReservationRows]
        /\ \A b \in Assignments \ {a} : Close(a, how)[b] = reservation[b]
        /\ Close(a, how)[a].generation = reservation[a].generation
        /\ Close(a, how)[a].status \notin {"reserved", "claimed"}
    BY <1>1, Closed
  <1>3. Paired(asg[a], Close(a, how)[a], work.generation, launched[a])
    <2>1. asg[a] \in AssignmentRows /\ Close(a, how)[a] \in ReservationRows
      BY <1>2 DEF NewStatus
    <2>2. asg[a].status \notin {"running", "absent"}
      BY DEF NewStatus, Terminal
    <2>3. Paired(assignment[a], reservation[a], work.generation, launched[a])
      BY DEF Pairs, PairsOf
    <2> QED BY <1>2, <2>1, <2>2, <2>3 DEF Paired, NewStatus
  <1>4. \A b \in Assignments \ {a} : Paired(asg[b], Close(a, how)[b], work.generation, launched[b])
    BY <1>2 DEF NewStatus, Pairs, PairsOf
  <1>5. PairsOf(asg, Close(a, how), work.generation, launched)
    BY <1>2, <1>3, <1>4 DEF PairsOf, NewStatus, Pairs
  <1> QED BY <1>5, WokenPairs

LEMMA EndedReal ==
  ASSUME RealOf(assignment, outcome), NEW o, Stands(outcome, o),
         NEW a \in Assignments, NEW s, s = "completed" => o[a] = "completed",
         NEW asg, NewStatus(asg, a, s)
  PROVE  RealOf(Wake(asg, a), o)
  <1>1. RealOf(asg, o)
    BY DEF RealOf, NewStatus, Stands
  <1>2. asg \in [Assignments -> AssignmentRows]
    BY DEF NewStatus
  <1> QED BY <1>1, <1>2, WokenReal

\* The status and the result of a row are written, and its link perhaps dropped.
LEMMA Written ==
  ASSUME Pairs, NEW a \in Assignments,
         NEW s \in Terminal \cup {"waiting", "outcome_unknown"}, NEW t \in Results
  PROVE  /\ NewStatus([assignment EXCEPT ![a].status = s], a, s)
         /\ NewStatus([assignment EXCEPT ![a].status = s, ![a].result = t], a, s)
         /\ NewStatus([assignment EXCEPT ![a].status = s, ![a].linked = FALSE, ![a].result = t], a, s)
  <1>1. assignment \in [Assignments -> AssignmentRows] /\ assignment[a] \in AssignmentRows
    BY DEF Pairs, PairsOf
  <1>2. s \in Active \cup Terminal \cup {"absent", "outcome_unknown"}
    BY DEF Active
  <1>3. NewStatus([assignment EXCEPT ![a].status = s], a, s)
    BY <1>1, <1>2 DEF NewStatus, AssignmentRows
  <1>4. NewStatus([assignment EXCEPT ![a].status = s, ![a].result = t], a, s)
    BY <1>1, <1>2 DEF NewStatus, AssignmentRows
  <1>5. NewStatus([assignment EXCEPT ![a].status = s, ![a].linked = FALSE, ![a].result = t], a, s)
    BY <1>1, <1>2 DEF NewStatus, AssignmentRows
  <1> QED BY <1>3, <1>4, <1>5

\* A newer generation outdates every claim.
LEMMA RaisedPair ==
  ASSUME NEW x, NEW r, NEW g \in Nat, NEW n, Paired(x, r, g, n)
  PROVE  Paired(x, r, g + 1, n)
  <1>1. r.generation \in Nat /\ r.generation <= g
    BY RoomWorkAssumption DEF Paired, ReservationRows
  <1> QED BY <1>1 DEF Paired

\* A stop cancels what has entered no Run.
LEMMA CancelledPairs ==
  ASSUME Pairs, Typed, NEW A
  PROVE  \A a \in Assignments :
           Paired(CancelBeforeRun(A)[a], CloseAll(A \cap BeforeRun, "cancelled")[a],
                  work.generation + 1, launched[a])
  <1> TAKE a \in Assignments
  <1> DEFINE x == CancelBeforeRun(A)[a]
             r == CloseAll(A \cap BeforeRun, "cancelled")[a]
             g == work.generation
  <1>1. g \in Nat
    BY NumbersFit
  <1>2. Paired(assignment[a], reservation[a], g, launched[a])
    BY DEF Pairs, PairsOf
  <1>3. CASE a \in A \cap BeforeRun
    <2>1. x = [assignment[a] EXCEPT !.status = "cancelled"]
      BY <1>3 DEF CancelBeforeRun
    <2>2. x \in AssignmentRows /\ x.status = "cancelled" /\ x.linked = assignment[a].linked
      BY <1>2, <2>1 DEF Paired, AssignmentRows, Terminal
    <2>3. r \in ReservationRows /\ r.generation = reservation[a].generation
          /\ r.status \notin {"reserved", "claimed"}
      BY <1>3, Closed
    <2> HIDE DEF x, r, g
    <2>4. Paired(x, r, g, launched[a])
      BY <1>2, <2>2, <2>3 DEF Paired
    <2>5. Paired(x, r, g + 1, launched[a])
      BY <1>1, <2>4, RaisedPair
    <2> QED BY <2>5 DEF x, r, g
  <1>4. CASE a \notin A \cap BeforeRun
    <2>1. x = assignment[a] /\ r = reservation[a]
      BY <1>4, Closed DEF CancelBeforeRun
    <2> HIDE DEF x, r, g
    <2>2. Paired(x, r, g + 1, launched[a])
      BY <1>1, <1>2, <2>1, RaisedPair
    <2> QED BY <2>2 DEF x, r, g
  <1> QED BY <1>3, <1>4

LEMMA RegeneratedPairs ==
  ASSUME Pairs, Typed, work.generation < MaxGeneration, NEW A, Regenerate(A)
  PROVE  PairsOf(assignment', reservation', work.generation + 1, launched)
  <1> DEFINE aside == Assignments \ A
             left == CancelBeforeRun(A)
             back == {a \in aside : /\ left[a].status = "running" /\ ~left[a].linked
                                     /\ reservation[a].status = "claimed"}
             found == {a \in aside : /\ left[a].status = "ready" /\ ~left[a].linked
                                     /\ reservation[a].status = "claimed"}
             moved == {a \in aside : /\ reservation[a].status = "reserved"
                                     /\ left[a].status \in {"ready", "waiting"}}
                      \cup {a \in back : ReadyOrWaiting(left, a) = "ready"} \cup found
             anew == [NoReservation EXCEPT !.status = "reserved", !.generation = work.generation + 1]
             g == work.generation
  <1>1. g \in Nat /\ g + 1 <= MaxGeneration /\ MaxGeneration \in Nat
    BY NumbersFit
  <1>2. /\ assignment' = [a \in Assignments |->
              IF a \in back THEN [left[a] EXCEPT !.status = ReadyOrWaiting(left, a)] ELSE left[a]]
        /\ reservation' = [a \in Assignments |->
              IF a \in moved THEN anew ELSE CloseAll(A \cap BeforeRun, "cancelled")[a]]
    BY DEF Regenerate
  <1>3. anew \in ReservationRows /\ anew.status = "reserved" /\ anew.generation = g + 1
    <2>1. g + 1 \in 0 .. MaxGeneration
      BY <1>1
    <2> QED BY <2>1 DEF NoReservation, ReservationRows, Owners
  <1>4. ASSUME NEW a \in Assignments
        PROVE  Paired(assignment'[a], reservation'[a], g + 1, launched[a])
    <2>1. Paired(left[a], CloseAll(A \cap BeforeRun, "cancelled")[a], g + 1, launched[a])
      BY CancelledPairs
    <2>2. a \in aside => /\ left[a] = assignment[a]
                         /\ CloseAll(A \cap BeforeRun, "cancelled")[a] = reservation[a]
      BY Closed DEF CancelBeforeRun
    <2>3. Paired(assignment[a], reservation[a], g, launched[a])
      BY DEF Pairs, PairsOf
    <2>4. ReadyOrWaiting(left, a) \in {"ready", "waiting"}
      BY DEF ReadyOrWaiting
    <2>5. CASE a \in back
      <3>1. assignment'[a] = [assignment[a] EXCEPT !.status = ReadyOrWaiting(left, a)]
        BY <1>2, <2>2, <2>5
      <3>2. /\ assignment[a] \in AssignmentRows /\ ~assignment[a].linked
            /\ reservation[a].status = "claimed"
        BY <2>2, <2>3, <2>5 DEF Paired
      <3>3. assignment'[a] \in AssignmentRows /\ assignment'[a].status = ReadyOrWaiting(left, a)
            /\ ~assignment'[a].linked
        BY <2>4, <3>1, <3>2 DEF AssignmentRows, Active
      <3>4. reservation'[a] = IF ReadyOrWaiting(left, a) = "ready" THEN anew ELSE reservation[a]
        BY <1>2, <2>2, <2>5, <3>2
      <3>5. reservation[a] \in ReservationRows /\ reservation[a].generation \in Nat
            /\ reservation[a].generation <= g /\ launched[a] = 0
        BY <2>3, <3>2, RoomWorkAssumption DEF Paired, ReservationRows
      <3> HIDE DEF anew, left, back, moved, g
      <3>6. ReadyOrWaiting(left, a) \in Active
        BY <2>4 DEF Active
      <3> QED BY <1>1, <1>3, <2>4, <3>2, <3>3, <3>4, <3>5, <3>6 DEF Paired
    <2>6. CASE a \notin back /\ a \in moved
      <3>1. /\ assignment'[a] = assignment[a] /\ reservation'[a] = anew
            /\ \/ reservation[a].status = "reserved"
               \/ /\ reservation[a].status = "claimed" /\ ~assignment[a].linked
                  /\ assignment[a].status = "ready"
        BY <1>2, <2>2, <2>6
      <3> HIDE DEF anew, left, back, moved, g
      <3> QED BY <1>1, <1>3, <2>3, <3>1 DEF Paired
    <2>7. CASE a \notin back /\ a \notin moved
      BY <1>2, <2>1, <2>7
    <2> QED BY <2>5, <2>6, <2>7
  <1>5. assignment' \in [Assignments -> AssignmentRows]
    <2>1. assignment' = [a \in Assignments |-> assignment'[a]]
      BY <1>2
    <2>2. \A a \in Assignments : assignment'[a] \in AssignmentRows
      BY <1>4 DEF Paired
    <2> QED BY <2>1, <2>2
  <1>6. reservation' \in [Assignments -> ReservationRows]
    <2>1. reservation' = [a \in Assignments |-> reservation'[a]]
      BY <1>2
    <2>2. \A a \in Assignments : reservation'[a] \in ReservationRows
      BY <1>4 DEF Paired
    <2> QED BY <2>1, <2>2
  <1> QED BY <1>4, <1>5, <1>6 DEF PairsOf, Pairs

-----------------------------------------------------------------------------
\* The steps.

Lanes == LanesOf(launch, dispatch, outcome)
Real == RealOf(assignment, outcome)

LEMMA SameStands == ASSUME Real PROVE Stands(outcome, outcome)
  BY DEF Stands, Real, RealOf

\* Rows in which nothing becomes completed.
LEMMA StillReal ==
  ASSUME Real, NEW asg, NEW o, Stands(outcome, o),
         \A a \in Assignments : asg[a].status = "completed" => assignment[a].status = "completed"
  PROVE  RealOf(asg, o)
  BY DEF Real, RealOf, Stands

LEMMA NewControl ==
  ASSUME Typed, NEW action \in {"stop_request", "stop_confirm", "stop_unconfirmed", "assignment_stop"},
         NEW target \in 0 .. MaxAssignments, NEW state \in {"accepted", "confirmed", "unconfirmed"},
         Issue(action, target, state)
  PROVE  /\ control' \in [Controls -> ControlRows]
         /\ work.generation + 1 \in 0 .. MaxGeneration
         /\ work.generation < MaxGeneration
  <1>1. work.generation + 1 \in 0 .. MaxGeneration /\ work.generation < MaxGeneration
    BY NumbersFit DEF Issue
  <1> DEFINE q == [NoControl EXCEPT !.action = action, !.target = target, !.state = state]
  <1>2. q \in ControlRows
    BY DEF NoControl, ControlRows, Owners, Dispatchable
  <1>3. control' = [control EXCEPT ![work.generation + 1] = q]
    BY DEF Issue
  <1> HIDE DEF q
  <1>4. control' \in [Controls -> ControlRows]
    BY <1>2, <1>3 DEF Typed
  <1> QED BY <1>1, <1>4

\* What the requests do to the rows, and nothing to the lanes.
LEMMA RequestRows ==
  ASSUME IInv, work' \in WorkRows, control' \in [Controls -> ControlRows],
         PairsOf(assignment', reservation', work'.generation, launched),
         RealOf(assignment', outcome), UNCHANGED <<outcome, launched, lanes, crashes>>
  PROVE  IInv'
  <1>1. Typed'
    BY DEF IInv, Typed
  <1>2. PairsOf(assignment', reservation', work'.generation, launched')
    BY DEF lanes
  <1>3. RealOf(assignment', outcome')
    BY DEF lanes
  <1>4. LanesOf(launch', dispatch', outcome') /\ Unstarted(outcome', launched')
    BY DEF IInv, lanes
  <1> QED BY <1>1, <1>2, <1>3, <1>4 DEF IInv

LEMMA CancelledReal ==
  ASSUME Pairs, NEW A
  PROVE  \A a \in Assignments :
           CancelBeforeRun(A)[a].status = "completed" => assignment[a].status = "completed"
  <1> TAKE a \in Assignments
  <1>1. assignment[a] \in AssignmentRows
    BY DEF Pairs, PairsOf
  <1>2. \/ CancelBeforeRun(A)[a] = assignment[a]
        \/ CancelBeforeRun(A)[a] = [assignment[a] EXCEPT !.status = "cancelled"]
    BY DEF CancelBeforeRun
  <1> QED BY <1>1, <1>2 DEF AssignmentRows

LEMMA StopRequestStep ==
  ASSUME IInv, StopRequest, UNCHANGED <<outcome, launched, lanes, crashes>>
  PROVE  IInv'
  <1> DEFINE g == work.generation
  <1>1. Typed /\ Pairs /\ Real
    BY DEF IInv, Pairs, Real
  <1>2. control' \in [Controls -> ControlRows] /\ g + 1 \in 0 .. MaxGeneration
    BY <1>1, NewControl, RoomWorkAssumption DEF StopRequest
  <1>3. work' \in WorkRows /\ work'.generation = g + 1
    BY <1>1, <1>2 DEF StopRequest, Typed, WorkRows, Stops
  <1>4. /\ assignment' = CancelBeforeRun(Assignments)
        /\ reservation' = CloseAll(Assignments \cap BeforeRun, "cancelled")
    <2>1. Assignments \cap BeforeRun = BeforeRun
      BY DEF BeforeRun
    <2> QED BY <2>1 DEF StopRequest
  <1>5. \A a \in Assignments : Paired(assignment'[a], reservation'[a], g + 1, launched[a])
    BY <1>1, <1>4, CancelledPairs
  <1>6. /\ assignment' \in [Assignments -> AssignmentRows]
        /\ reservation' \in [Assignments -> ReservationRows]
    <2>1. \A a \in Assignments : assignment'[a] \in AssignmentRows
      BY <1>5 DEF Paired
    <2>2. assignment' = [a \in Assignments |-> assignment'[a]]
      BY <1>4 DEF CancelBeforeRun
    <2> QED BY <1>1, <1>4, <2>1, <2>2, Closed
  <1>7. PairsOf(assignment', reservation', work'.generation, launched)
    BY <1>1, <1>3, <1>5, <1>6 DEF PairsOf, Pairs
  <1>8. RealOf(assignment', outcome)
    BY <1>1, <1>4, CancelledReal, SameStands, StillReal
  <1> QED BY <1>2, <1>3, <1>7, <1>8, RequestRows

LEMMA StopConfirmStep ==
  ASSUME IInv, StopConfirm \/ StopUnconfirmed, UNCHANGED <<outcome, launched, lanes, crashes>>
  PROVE  IInv'
  <1> DEFINE g == work.generation
  <1>1. Typed /\ Pairs /\ Real
    BY DEF IInv, Pairs, Real
  <1>2. control' \in [Controls -> ControlRows] /\ g + 1 \in 0 .. MaxGeneration
    BY <1>1, NewControl, RoomWorkAssumption DEF StopConfirm, StopUnconfirmed
  <1>3. work' \in WorkRows /\ work'.generation = g + 1
    <2>1. work \in WorkRows
      BY <1>1 DEF Typed
    <2>2. CASE StopConfirm
      BY <1>2, <2>1, <2>2 DEF StopConfirm, WorkRows, Stops
    <2>3. CASE StopUnconfirmed
      BY <1>2, <2>1, <2>3 DEF StopUnconfirmed, WorkRows, Stops
    <2> QED BY <2>2, <2>3
  <1>4. assignment' = assignment /\ reservation' = reservation
    BY DEF StopConfirm, StopUnconfirmed
  <1>5. \A a \in Assignments : Paired(assignment[a], reservation[a], g + 1, launched[a])
    BY <1>1, NumbersFit, RaisedPair DEF Pairs, PairsOf
  <1>6. PairsOf(assignment', reservation', work'.generation, launched)
    BY <1>1, <1>3, <1>4, <1>5 DEF Pairs, PairsOf
  <1> QED BY <1>1, <1>2, <1>3, <1>4, <1>6, RequestRows DEF Real

LEMMA AssignmentStopStep ==
  ASSUME IInv, NEW t \in Assignments, AssignmentStop(t),
         UNCHANGED <<outcome, launched, lanes, crashes>>
  PROVE  IInv'
  <1> DEFINE g == work.generation
  <1>1. Typed /\ Pairs /\ Real
    BY DEF IInv, Pairs, Real
  <1>2. t \in 0 .. MaxAssignments
    BY RoomWorkAssumption DEF Assignments
  <1>3. control' \in [Controls -> ControlRows] /\ g + 1 \in 0 .. MaxGeneration /\ g < MaxGeneration
    BY <1>1, <1>2, NewControl DEF AssignmentStop
  <1>4. work' \in WorkRows /\ work'.generation = g + 1
    BY <1>1, <1>3 DEF AssignmentStop, Typed, WorkRows
  <1>5. PairsOf(assignment', reservation', work'.generation, launched)
    BY <1>1, <1>3, <1>4, RegeneratedPairs DEF AssignmentStop
  <1>6. RealOf(assignment', outcome)
    <2>1. \A a \in Assignments : \/ assignment'[a] = CancelBeforeRun(Tree(t))[a]
                                 \/ assignment'[a].status # "completed"
      <3> TAKE a \in Assignments
      <3>1. ReadyOrWaiting(CancelBeforeRun(Tree(t)), a) \in {"ready", "waiting"}
        BY DEF ReadyOrWaiting
      <3>2. CancelBeforeRun(Tree(t))[a] \in AssignmentRows
        BY <1>1, CancelledPairs DEF Paired
      <3>3. \/ assignment'[a] = CancelBeforeRun(Tree(t))[a]
            \/ assignment'[a] = [CancelBeforeRun(Tree(t))[a] EXCEPT
                                    !.status = ReadyOrWaiting(CancelBeforeRun(Tree(t)), a)]
        BY DEF AssignmentStop, Regenerate
      <3> QED BY <3>1, <3>2, <3>3 DEF AssignmentRows
    <2>2. \A a \in Assignments :
            assignment'[a].status = "completed" => assignment[a].status = "completed"
      BY <1>1, <2>1, CancelledReal
    <2> QED BY <1>1, <2>2, SameStands, StillReal
  <1> QED BY <1>3, <1>4, <1>5, <1>6, RequestRows

LEMMA ReplyStep ==
  ASSUME IInv, NEW source \in Assignments, Reply(source),
         UNCHANGED <<outcome, launched, lanes, crashes>>
  PROVE  IInv'
  <1>1. Typed /\ Pairs /\ Real
    BY DEF IInv, Pairs, Real
  <1>2. PICK a \in Having(assignment, {"absent"}), s \in {"ready", "waiting"} :
          /\ assignment' = [assignment EXCEPT ![a] =
                 [NoAssignment EXCEPT !.status = s, !.parent = source]]
          /\ reservation' = [reservation EXCEPT ![a] =
                 [NoReservation EXCEPT !.status = "reserved", !.generation = work.generation]]
          /\ work' = [work EXCEPT !.status = work'.status]
          /\ work'.status \in {"queued", work.status}
          /\ UNCHANGED control
    <2>1. work \in WorkRows
      BY <1>1 DEF Typed
    <2>2. CASE Having(assignment, Active) = {}
      BY <2>1, <2>2 DEF Reply, WorkRows
    <2>3. CASE Having(assignment, Active) # {}
      BY <2>1, <2>3 DEF Reply, WorkRows
    <2> QED BY <2>2, <2>3
  <1>3. work' \in WorkRows /\ work'.generation = work.generation
    BY <1>1, <1>2 DEF Typed, WorkRows
  <1> DEFINE x == [NoAssignment EXCEPT !.status = s, !.parent = source]
             r == [NoReservation EXCEPT !.status = "reserved", !.generation = work.generation]
  <1>4. x \in AssignmentRows /\ x.status = s /\ ~x.linked
    <2>1. source \in 0 .. MaxAssignments
      BY RoomWorkAssumption DEF Assignments
    <2>2. NoAssignment \in AssignmentRows /\ ~NoAssignment.linked
      BY RoomWorkAssumption DEF NoAssignment, AssignmentRows, Active, Results
    <2>3. s \in Active
      BY DEF Active
    <2> QED BY <2>1, <2>2, <2>3 DEF AssignmentRows
  <1>5. r \in ReservationRows /\ r.status = "reserved" /\ r.generation = work.generation
    BY <1>1 DEF NoReservation, ReservationRows, Owners, Typed, WorkRows
  <1>6. assignment' = [assignment EXCEPT ![a] = x] /\ reservation' = [reservation EXCEPT ![a] = r]
    BY <1>2
  <1> HIDE DEF x, r
  <1>7. \A b \in Assignments : Paired(assignment'[b], reservation'[b], work.generation, launched[b])
    <2> TAKE b \in Assignments
    <2>1. Paired(assignment[b], reservation[b], work.generation, launched[b])
      BY <1>1 DEF Pairs, PairsOf
    <2>2. CASE b # a
      <3>1. assignment'[b] = assignment[b] /\ reservation'[b] = reservation[b]
        BY <1>1, <1>6, <2>2 DEF Pairs, PairsOf
      <3> QED BY <2>1, <3>1
    <2>3. CASE b = a
      <3>1. assignment'[b] = x /\ reservation'[b] = r
        BY <1>1, <1>6, <2>3 DEF Pairs, PairsOf
      <3>2. launched[b] = 0
        BY <2>1, <2>3 DEF Having, Paired
      <3>3. work.generation \in Nat
        BY <1>1, NumbersFit
      <3> QED BY <1>4, <1>5, <3>1, <3>2, <3>3 DEF Paired
    <2> QED BY <2>2, <2>3
  <1>8. PairsOf(assignment', reservation', work'.generation, launched)
    BY <1>1, <1>3, <1>4, <1>5, <1>6, <1>7 DEF Pairs, PairsOf
  <1>9. RealOf(assignment', outcome)
    <2>1. \A b \in Assignments :
            assignment'[b].status = "completed" => assignment[b].status = "completed"
      BY <1>1, <1>4, <1>6 DEF Pairs, PairsOf
    <2> QED BY <1>1, <2>1, SameStands, StillReal
  <1> QED BY <1>1, <1>2, <1>3, <1>8, <1>9, RequestRows DEF Typed

LEMMA LaneTakes ==
  ASSUME NEW o, NEW a \in Assignments, NEW g \in 0 .. MaxGeneration,
         NEW pc \in {"claimed", "recovering"}
  PROVE  LaunchPlaced([NoLaunch EXCEPT !.pc = pc, !.a = a, !.generation = g], o)
  <1>1. NoLaunch \in LaunchRows
    BY RoomWorkAssumption DEF NoLaunch, LaunchRows, Results
  <1>2. a \in 0 .. MaxAssignments
    BY RoomWorkAssumption DEF Assignments
  <1> QED BY <1>1, <1>2 DEF LaunchPlaced, LaunchRows

\* An assignment and its reservation move together and the others stay.
LEMMA OnePair ==
  ASSUME Pairs, NEW a \in Assignments, NEW asg, NEW res,
         asg \in [Assignments -> AssignmentRows], res \in [Assignments -> ReservationRows],
         \A b \in Assignments \ {a} : asg[b] = assignment[b] /\ res[b] = reservation[b],
         Paired(asg[a], res[a], work.generation, launched[a])
  PROVE  PairsOf(asg, res, work.generation, launched)
  BY DEF Pairs, PairsOf

LEMMA TakenRow ==
  ASSUME Pairs, NEW w \in Workers, NEW a \in Assignments,
         reservation[a].status \in {"reserved", "claimed"},
         reservation[a].status = "reserved" => reservation[a].generation = work.generation,
         reservation[a].status = "claimed" => assignment[a].status = "running"
  PROVE  PairsOf([assignment EXCEPT ![a].status = "running"],
                 [reservation EXCEPT ![a].status = "claimed", ![a].owner = w, ![a].fresh = TRUE],
                 work.generation, launched)
  <1> DEFINE asg == [assignment EXCEPT ![a].status = "running"]
             res == [reservation EXCEPT ![a].status = "claimed", ![a].owner = w, ![a].fresh = TRUE]
  <1>1. assignment \in [Assignments -> AssignmentRows] /\ reservation \in [Assignments -> ReservationRows]
        /\ Paired(assignment[a], reservation[a], work.generation, launched[a])
    BY DEF Pairs, PairsOf
  <1>2. w \in Owners /\ "running" \in Active
    BY DEF Owners, Active
  <1>3. /\ asg \in [Assignments -> AssignmentRows] /\ asg[a].status = "running"
        /\ asg[a].linked = assignment[a].linked
        /\ \A b \in Assignments \ {a} : asg[b] = assignment[b]
    BY <1>1, <1>2 DEF AssignmentRows
  <1>4. /\ res \in [Assignments -> ReservationRows] /\ res[a].status = "claimed"
        /\ res[a].generation = reservation[a].generation
        /\ \A b \in Assignments \ {a} : res[b] = reservation[b]
    BY <1>1, <1>2 DEF ReservationRows
  <1> HIDE DEF asg, res
  <1>5. Paired(asg[a], res[a], work.generation, launched[a])
    BY <1>1, <1>2, <1>3, <1>4 DEF Paired
  <1>6. PairsOf(asg, res, work.generation, launched)
    BY <1>3, <1>4, <1>5, OnePair
  <1> QED BY <1>6 DEF asg, res

LEMMA OwnedRow ==
  ASSUME Pairs, NEW w \in Workers, NEW a \in Assignments
  PROVE  PairsOf(assignment, [reservation EXCEPT ![a].owner = w, ![a].fresh = TRUE],
                 work.generation, launched)
  <1> DEFINE res == [reservation EXCEPT ![a].owner = w, ![a].fresh = TRUE]
  <1>1. assignment \in [Assignments -> AssignmentRows] /\ reservation \in [Assignments -> ReservationRows]
        /\ Paired(assignment[a], reservation[a], work.generation, launched[a])
    BY DEF Pairs, PairsOf
  <1>2. w \in Owners
    BY DEF Owners
  <1>3. /\ res \in [Assignments -> ReservationRows] /\ res[a].status = reservation[a].status
        /\ res[a].generation = reservation[a].generation
        /\ \A b \in Assignments \ {a} : res[b] = reservation[b]
    BY <1>1, <1>2 DEF ReservationRows
  <1> HIDE DEF res
  <1>4. Paired(assignment[a], res[a], work.generation, launched[a])
    BY <1>1, <1>3 DEF Paired
  <1>5. PairsOf(assignment, res, work.generation, launched)
    BY <1>1, <1>3, <1>4, OnePair
  <1> QED BY <1>5 DEF res

LEMMA LaneRows ==
  ASSUME IInv, work' \in WorkRows, work'.generation = work.generation,
         UNCHANGED <<control, outcome, launched, dispatch, crashes>>,
         PairsOf(assignment', reservation', work.generation, launched),
         RealOf(assignment', outcome), LanesOf(launch', dispatch, outcome)
  PROVE  IInv'
  <1>1. Typed'
    BY DEF IInv, Typed
  <1>2. PairsOf(assignment', reservation', work'.generation, launched')
    OBVIOUS
  <1>3. /\ RealOf(assignment', outcome') /\ LanesOf(launch', dispatch', outcome')
        /\ Unstarted(outcome', launched')
    BY DEF IInv
  <1> QED BY <1>1, <1>2, <1>3 DEF IInv

LEMMA ClaimReservationStep ==
  ASSUME IInv, NEW w \in Workers, ClaimReservation(w)
  PROVE  IInv'
  <1>1. Typed /\ Pairs /\ Real /\ Lanes /\ Stands(outcome, outcome)
    BY SameStands DEF IInv, Pairs, Real, Lanes
  <1>2. work \in WorkRows
    BY <1>1 DEF Typed
  <1>3. PICK a \in Assignments : TakeOver(w, a) \/ Abandon(a) \/ Claim(w, a) \/ FailPreflight(a)
    BY DEF ClaimReservation
  <1>4. UNCHANGED <<control, outcome, launched, dispatch, crashes>>
    BY DEF ClaimReservation
  <1>5. reservation[a].generation \in 0 .. MaxGeneration
    BY <1>1 DEF Pairs, PairsOf, ReservationRows
  <1>6. CASE TakeOver(w, a)
    <2>1. UNCHANGED <<work, assignment>>
          /\ reservation' = [reservation EXCEPT ![a].owner = w, ![a].fresh = TRUE]
          /\ launch' = [launch EXCEPT ![w] = [NoLaunch EXCEPT
                !.pc = "recovering", !.a = a, !.generation = reservation[a].generation]]
      BY <1>6 DEF TakeOver
    <2>2. LanesOf(launch', dispatch, outcome)
      BY <1>1, <1>5, <2>1, LaneTakes, LaunchMoves DEF Lanes
    <2>3. PairsOf(assignment', reservation', work.generation, launched)
      BY <1>1, <2>1, OwnedRow
    <2> QED BY <1>1, <1>2, <1>4, <2>1, <2>2, <2>3, LaneRows DEF Real
  <1>7. CASE Abandon(a)
    <2> DEFINE asg == [assignment EXCEPT ![a].status = "cancelled", ![a].result = "cancelled"]
    <2>1. UNCHANGED <<work, launch>> /\ assignment' = Wake(asg, a)
          /\ reservation' = Close(a, "cancelled")
      BY <1>7 DEF Abandon
    <2>2. NewStatus(asg, a, "cancelled")
      BY <1>1, Written DEF Terminal, Results
    <2> HIDE DEF asg
    <2>3. PairsOf(assignment', reservation', work.generation, launched)
      BY <1>1, <2>1, <2>2, EndedPairs DEF Terminal
    <2>4. RealOf(assignment', outcome)
      BY <1>1, <2>1, <2>2, EndedReal DEF Real
    <2> QED BY <1>1, <1>2, <1>4, <2>1, <2>3, <2>4, LaneRows DEF Lanes
  <1>8. CASE Claim(w, a)
    <2>1. assignment' = [assignment EXCEPT ![a].status = "running"]
          /\ reservation' = [reservation EXCEPT
                ![a].status = "claimed", ![a].owner = w, ![a].fresh = TRUE]
          /\ work' = [work EXCEPT !.status = "running"]
          /\ launch' = [launch EXCEPT ![w] = [NoLaunch EXCEPT
                !.pc = "claimed", !.a = a, !.generation = reservation[a].generation]]
      BY <1>8 DEF Claim
    <2>2. LanesOf(launch', dispatch, outcome)
      BY <1>1, <1>5, <2>1, LaneTakes, LaunchMoves DEF Lanes
    <2>3. \/ /\ reservation[a].status = "reserved"
             /\ reservation[a].generation = work.generation
          \/ /\ reservation[a].status = "claimed" /\ assignment[a].status = "running"
      BY <1>8 DEF Claim, Claimable, Expired
    <2>4. PairsOf(assignment', reservation', work.generation, launched)
      BY <1>1, <2>1, <2>3, TakenRow
    <2>5. \A b \in Assignments :
            assignment'[b].status = "completed" => assignment[b].status = "completed"
      BY <1>1, <2>1 DEF Pairs, PairsOf, AssignmentRows
    <2>6. RealOf(assignment', outcome)
      BY <1>1, <2>5, StillReal
    <2>7. work' \in WorkRows /\ work'.generation = work.generation
      BY <1>2, <2>1 DEF WorkRows
    <2> QED BY <1>4, <2>2, <2>4, <2>6, <2>7, LaneRows
  <1>9. CASE FailPreflight(a)
    <2> DEFINE asg == [assignment EXCEPT ![a].status = "failed", ![a].result = "failed"]
    <2>1. UNCHANGED launch /\ assignment' = Wake(asg, a) /\ reservation' = Close(a, "failed")
          /\ \E s \in {"failed", "waiting"} : work' = [work EXCEPT !.status = s]
      BY <1>9 DEF FailPreflight
    <2>2. NewStatus(asg, a, "failed")
      BY <1>1, Written DEF Terminal, Results
    <2> HIDE DEF asg
    <2>3. PairsOf(assignment', reservation', work.generation, launched)
      BY <1>1, <2>1, <2>2, EndedPairs DEF Terminal
    <2>4. RealOf(assignment', outcome)
      BY <1>1, <2>1, <2>2, EndedReal DEF Real
    <2>5. work' \in WorkRows /\ work'.generation = work.generation
      BY <1>2, <2>1 DEF WorkRows
    <2> QED BY <1>1, <1>4, <2>1, <2>3, <2>4, <2>5, LaneRows DEF Lanes
  <1> QED BY <1>3, <1>6, <1>7, <1>8, <1>9

\* What a lane has seen of its Run when it comes to settle.
LEMMA Settles ==
  ASSUME IInv, NEW w \in Workers, launch[w].pc # "idle",
         NEW s \in Results \ {"none"}, NEW b \in BOOLEAN, ToSettle(w, s, b),
         s = "completed" => outcome[launch[w].a] = "completed"
  PROVE  LanesOf(launch', dispatch, outcome)
  <1>1. Lanes /\ Stands(outcome, outcome) /\ LaunchPlaced(launch[w], outcome)
    BY SameStands DEF IInv, Lanes, Real, LanesOf
  <1> DEFINE x == [launch[w] EXCEPT !.pc = "settling", !.status = s, !.linked = b]
  <1>2. LaunchPlaced(x, outcome)
    BY <1>1, LaneSettles
  <1>3. launch' = [launch EXCEPT ![w] = x]
    BY DEF ToSettle
  <1> HIDE DEF x
  <1> QED BY <1>1, <1>2, <1>3, LaunchMoves DEF Lanes

LEMMA Goes ==
  ASSUME IInv, NEW w \in Workers, launch[w].pc # "idle",
         NEW pc \in {"claimed", "admitted", "awaiting", "recovering"}, To(w, pc)
  PROVE  LanesOf(launch', dispatch, outcome)
  <1>1. Lanes /\ Stands(outcome, outcome) /\ LaunchPlaced(launch[w], outcome)
    BY SameStands DEF IInv, Lanes, Real, LanesOf
  <1> DEFINE x == [launch[w] EXCEPT !.pc = pc]
  <1>2. LaunchPlaced(x, outcome)
    BY <1>1, LaneGoes
  <1>3. launch' = [launch EXCEPT ![w] = x]
    BY DEF To
  <1> HIDE DEF x
  <1> QED BY <1>1, <1>2, <1>3, LaunchMoves DEF Lanes

LEMMA WaitStep ==
  ASSUME IInv, NEW w \in Workers, Start(w) \/ Return(w) \/ Throw(w) \/ Recover(w)
  PROVE  IInv'
  <1>1. UNCHANGED <<rows, outcome, launched, dispatch, crashes>> /\ launch[w].pc # "idle"
    BY DEF Start, Return, Throw, Recover
  <1>2. LanesOf(launch', dispatch, outcome)
    <2>1. CASE Start(w)
      BY <1>1, <2>1, Goes DEF Start
    <2>2. CASE Return(w)
      <3>1. PICK s \in Reported(outcome[launch[w].a]) : ToSettle(w, s, TRUE)
        BY <2>2 DEF Return
      <3>2. s \in Results \ {"none"} /\ (s = "completed" => outcome[launch[w].a] = "completed")
        BY DEF Reported, Results, Terminal
      <3> QED BY <1>1, <3>1, <3>2, Settles
    <2>3. CASE Throw(w)
      <3>1. PICK s \in {"failed", "outcome_unknown"} : ToSettle(w, s, FALSE)
        BY <2>3 DEF Throw
      <3>2. s \in Results \ {"none"} /\ s # "completed"
        BY DEF Results, Terminal
      <3> QED BY <1>1, <3>1, <3>2, Settles
    <2>4. CASE Recover(w)
      <3>1. PICK s \in Recovered(outcome[launch[w].a]) : ToSettle(w, s, TRUE)
        BY <2>4 DEF Recover
      <3>2. s \in Results \ {"none"} /\ (s = "completed" => outcome[launch[w].a] = "completed")
        BY DEF Recovered, Results, Terminal
      <3> QED BY <1>1, <3>1, <3>2, Settles
    <2> QED BY <2>1, <2>2, <2>3, <2>4
  <1> QED BY <1>1, <1>2, LaneRows DEF IInv, Typed, rows

LEMMA AdmitStep ==
  ASSUME IInv, NEW w \in Workers, Admit(w)
  PROVE  IInv'
  <1> DEFINE a == launch[w].a
  <1>1. Typed /\ Pairs /\ Real /\ Lanes /\ LaunchPlaced(launch[w], outcome)
    BY DEF IInv, Pairs, Real, Lanes, LanesOf
  <1>2. a \in Assignments /\ launch[w].pc # "idle"
    BY <1>1 DEF Admit, LaunchPlaced
  <1>3. UNCHANGED <<work, reservation, control, dispatch, crashes>>
    BY DEF Admit
  <1>4. CASE AdmissionOpen(w, a)
    <2>1. /\ assignment' = [assignment EXCEPT ![a].linked = TRUE]
          /\ outcome' = [outcome EXCEPT ![a] = "open"]
          /\ launched' = [launched EXCEPT ![a] = launched[a] + 1]
          /\ To(w, "admitted")
      BY <1>4 DEF Admit
    <2>2. assignment[a].status = "running" /\ ~assignment[a].linked /\ reservation[a].status = "claimed"
      BY <1>4 DEF AdmissionOpen, Holds
    <2>3. Paired(assignment[a], reservation[a], work.generation, launched[a])
      BY <1>1, <1>2 DEF Pairs, PairsOf
    <2>4. launched[a] = 0 /\ outcome[a] = "none"
      BY <1>2, <2>2, <2>3 DEF IInv, Unstarted, Paired
    <2>5. Stands(outcome, outcome')
      BY <1>1, <1>2, <2>1, <2>4 DEF Real, RealOf, Stands, Run!Outcomes
    <2>6. /\ assignment' \in [Assignments -> AssignmentRows]
          /\ assignment'[a] = [assignment[a] EXCEPT !.linked = TRUE]
          /\ \A b \in Assignments \ {a} : assignment'[b] = assignment[b]
      BY <1>1, <1>2, <2>1 DEF Pairs, PairsOf, AssignmentRows
    <2>7. assignment'[a].status = assignment[a].status /\ assignment'[a].linked
          /\ assignment'[a] \in AssignmentRows
      BY <1>2, <2>3, <2>6 DEF Paired, AssignmentRows
    <2>8. /\ launched' \in [Assignments -> {0, 1}] /\ launched'[a] = 1
          /\ \A b \in Assignments \ {a} : launched'[b] = launched[b]
      BY <1>1, <1>2, <2>1, <2>4 DEF Pairs, PairsOf
    <2>9. Paired(assignment'[a], reservation[a], work.generation, launched'[a])
      BY <2>2, <2>3, <2>7, <2>8 DEF Paired
    <2>10. PairsOf(assignment', reservation', work'.generation, launched')
      BY <1>1, <1>3, <2>6, <2>8, <2>9 DEF Pairs, PairsOf
    <2>11. RealOf(assignment', outcome')
      <3>1. \A b \in Assignments :
              assignment'[b].status = "completed" => assignment[b].status = "completed"
        BY <2>6, <2>7
      <3> QED BY <1>1, <2>5, <3>1, StillReal
    <2>12. LanesOf(launch', dispatch', outcome')
      <3> DEFINE x == [launch[w] EXCEPT !.pc = "admitted"]
      <3>1. LaunchPlaced(x, outcome')
        BY <1>1, <1>2 DEF LaunchPlaced, LaunchRows
      <3>2. launch' = [launch EXCEPT ![w] = x]
        BY <2>1 DEF To
      <3> HIDE DEF x
      <3>3. LanesOf(launch', dispatch, outcome')
        BY <1>1, <2>5, <3>1, <3>2, LaunchMoves DEF Lanes
      <3> QED BY <1>3, <3>3
    <2>13. Unstarted(outcome', launched')
      BY <1>1, <1>2, <2>1, <2>8 DEF IInv, Unstarted, Real, RealOf
    <2>14. Typed'
      BY <1>1, <1>3 DEF Typed
    <2> QED BY <2>10, <2>11, <2>12, <2>13, <2>14 DEF IInv
  <1>5. CASE ~AdmissionOpen(w, a)
    <2>1. ToSettle(w, "cancelled", FALSE) /\ UNCHANGED <<assignment, outcome, launched>>
      BY <1>5 DEF Admit
    <2>2. LanesOf(launch', dispatch, outcome)
      BY <1>2, <2>1, Settles DEF Results, Terminal
    <2> QED BY <1>1, <1>3, <2>1, <2>2, LaneRows DEF Typed, Pairs, Real
  <1> QED BY <1>4, <1>5

\* A Run moves by itself or is cancelled: what is written of it still holds.
LEMMA OutcomeMoves ==
  ASSUME Real, Unstarted(outcome, launched), NEW a \in Assignments,
         NEW to \in Run!Outcomes, outcome[a] \notin {"none", "completed"},
         outcome' = [outcome EXCEPT ![a] = to]
  PROVE  Stands(outcome, outcome') /\ Unstarted(outcome', launched)
  BY DEF Stands, Real, RealOf, Unstarted

LEMMA DiscardStep ==
  ASSUME IInv, NEW w \in Workers, Discard(w)
  PROVE  IInv'
  <1> DEFINE a == launch[w].a
             asg == [assignment EXCEPT ![a].status = "failed", ![a].linked = FALSE,
                                       ![a].result = "failed"]
             x == [launch[w] EXCEPT !.pc = "settling", !.status = "failed", !.linked = FALSE]
  <1>1. Typed /\ Pairs /\ Real /\ Lanes /\ LaunchPlaced(launch[w], outcome)
    BY DEF IInv, Pairs, Real, Lanes, LanesOf
  <1>2. a \in Assignments /\ launch[w].pc # "idle"
    BY <1>1 DEF Discard, LaunchPlaced
  <1>3. UNCHANGED <<work, control, launched, dispatch, crashes>>
        /\ assignment' = Wake(asg, a) /\ reservation' = Close(a, "failed")
        /\ launch' = [launch EXCEPT ![w] = x]
    BY DEF Discard, ToSettle
  <1>4. Stands(outcome, outcome') /\ Unstarted(outcome', launched)
    <2>1. outcome[a] = "open" /\ outcome' = [outcome EXCEPT ![a] = "withdrawn"]
      BY DEF Discard, Run!Withdraw, Run!Become
    <2>2. "withdrawn" \in Run!Outcomes
      BY DEF Run!Outcomes
    <2> QED BY <1>1, <1>2, <2>1, <2>2, OutcomeMoves DEF IInv
  <1>5. NewStatus(asg, a, "failed")
    BY <1>1, <1>2, Written DEF Terminal, Results
  <1>6. LaunchPlaced(x, outcome')
    BY <1>1, <1>2, LaneSettles DEF Results, Terminal
  <1> HIDE DEF asg, x
  <1>7. PairsOf(assignment', reservation', work'.generation, launched')
    BY <1>1, <1>2, <1>3, <1>5, EndedPairs DEF Terminal
  <1>8. RealOf(assignment', outcome')
    BY <1>1, <1>2, <1>3, <1>4, <1>5, EndedReal DEF Real
  <1>9. LanesOf(launch', dispatch, outcome')
    BY <1>1, <1>3, <1>4, <1>6, LaunchMoves DEF Lanes
  <1>10. Typed' /\ LanesOf(launch', dispatch', outcome') /\ Unstarted(outcome', launched')
    BY <1>1, <1>3, <1>4, <1>9 DEF Typed
  <1> QED BY <1>7, <1>8, <1>10 DEF IInv

LEMMA WorkAfterRow ==
  ASSUME Typed, NEW asg, NEW s
  PROVE  WorkAfter(asg, s) \in WorkRows /\ WorkAfter(asg, s).generation = work.generation
  <1> DEFINE stop == IF s = "outcome_unknown" /\ work.stop = "requested"
                     THEN "unconfirmed" ELSE work.stop
             ended == Having(asg, Active) = {} /\ s \in {"completed", "failed"}
             status == CASE stop = "confirmed" -> "cancelled"
                         [] stop = "unconfirmed" -> work.status
                         [] OTHER -> IF ended THEN s ELSE "waiting"
  <1>1. work \in WorkRows
    BY DEF Typed
  <1>2. stop \in Stops
    BY <1>1 DEF WorkRows, Stops
  <1>3. status \in {"queued", "running", "waiting", "completed", "failed", "cancelled"}
    BY <1>1 DEF WorkRows
  <1>4. WorkAfter(asg, s) = [work EXCEPT !.stop = stop, !.status = status]
    <2>1. work.status = work.status
      OBVIOUS
    <2> QED BY DEF WorkAfter
  <1> HIDE DEF stop, status, ended
  <1> QED BY <1>1, <1>2, <1>3, <1>4 DEF WorkRows

LEMMA SettleStep ==
  ASSUME IInv, NEW w \in Workers, Settle(w)
  PROVE  IInv'
  <1> DEFINE a == launch[w].a
             s == launch[w].status
             asg == [assignment EXCEPT ![a].status = s, ![a].result = s]
  <1>1. /\ Typed /\ Pairs /\ Real /\ Lanes /\ LaunchPlaced(launch[w], outcome)
        /\ Stands(outcome, outcome)
    BY SameStands DEF IInv, Pairs, Real, Lanes, LanesOf
  <1>2. /\ a \in Assignments /\ s \in Results \ {"none"}
        /\ s = "completed" => outcome[a] = "completed"
    BY <1>1 DEF Settle, LaunchPlaced, LaunchRows
  <1>3. UNCHANGED <<control, outcome, launched, dispatch, crashes>>
        /\ launch' = [launch EXCEPT ![w] = NoLaunch]
    BY DEF Settle
  <1>4. LanesOf(launch', dispatch, outcome)
    BY <1>1, <1>3, IdleLanes, LaunchMoves DEF Lanes
  <1>5. CASE SettleAccepted(w)
    <2>1. /\ assignment' = Wake(asg, a) /\ reservation' = Close(a, s)
          /\ work' = work \/ work' = WorkAfter(Wake(asg, a), s)
      BY <1>5 DEF Settle
    <2>2. s \in Terminal \cup {"waiting", "outcome_unknown"} /\ s \in Results
      BY <1>2 DEF Results
    <2>3. NewStatus(asg, a, s)
      BY <1>1, <1>2, <2>2, Written
    <2>4. work' \in WorkRows /\ work'.generation = work.generation
      BY <1>1, <2>1, WorkAfterRow DEF Typed
    <2> HIDE DEF asg, s
    <2>5. PairsOf(assignment', reservation', work.generation, launched)
      BY <1>1, <1>2, <2>1, <2>2, <2>3, EndedPairs
    <2>6. RealOf(assignment', outcome)
      BY <1>1, <1>2, <2>1, <2>3, EndedReal DEF Real
    <2> QED BY <1>3, <1>4, <2>4, <2>5, <2>6, LaneRows
  <1>6. CASE ~SettleAccepted(w)
    BY <1>1, <1>3, <1>4, <1>6, LaneRows DEF Settle, Typed, Pairs, Real
  <1> QED BY <1>5, <1>6

\* The state a stop takes, and the work after it.
LEMMA WorkStoppedRow ==
  ASSUME Typed, NEW c, NEW state \in {"pending", "unconfirmed", "confirmed"}
  PROVE  WorkStopped(c, state) \in WorkRows /\ WorkStopped(c, state).generation = work.generation
  <1>1. work \in WorkRows
    BY DEF Typed
  <1>2. \/ WorkStopped(c, state) = work
        \/ state # "pending" /\ WorkStopped(c, state) = [work EXCEPT !.stop = state, !.status = work.status]
        \/ state # "pending" /\ WorkStopped(c, state) = [work EXCEPT !.stop = state, !.status = "cancelled"]
    BY DEF WorkStopped
  <1> QED BY <1>1, <1>2 DEF WorkRows, Stops

LEMMA StopRow ==
  ASSUME Typed, NEW c \in Controls, NEW state \in {"pending", "unconfirmed", "confirmed"},
         NEW o \in Owners, NEW b \in BOOLEAN
  PROVE  [control EXCEPT ![c].state = state, ![c].owner = o, ![c].fresh = b] \in [Controls -> ControlRows]
  <1>1. control \in [Controls -> ControlRows] /\ state \in {"none", "confirmed"} \cup Dispatchable
    BY DEF Typed, Dispatchable
  <1> DEFINE q == [control[c] EXCEPT !.state = state, !.owner = o, !.fresh = b]
  <1>2. q \in ControlRows
    BY <1>1 DEF ControlRows
  <1>3. [control EXCEPT ![c].state = state, ![c].owner = o, ![c].fresh = b] = [control EXCEPT ![c] = q]
    BY <1>1
  <1> HIDE DEF q
  <1> QED BY <1>1, <1>2, <1>3

LEMMA ClaimStopStep ==
  ASSUME IInv, NEW w \in Workers, NEW c \in Controls, ClaimStop(w, c)
  PROVE  IInv'
  <1> DEFINE scope == Scope(c)
             targets == {a \in scope : assignment[a].status \in {"running", "outcome_unknown"}}
             state == StopState(assignment, Having(reservation, {"claimed"}), scope)
             x == [NoDispatch EXCEPT !.pc = "cancel", !.c = c, !.targets = targets,
                                     !.linked = {a \in targets : assignment[a].linked}]
  <1>1. Typed /\ Pairs /\ Real /\ Lanes /\ Stands(outcome, outcome)
    BY SameStands DEF IInv, Pairs, Real, Lanes
  <1>2. state \in {"pending", "unconfirmed", "confirmed"}
    BY DEF StopState
  <1>3. /\ control' = [control EXCEPT ![c].state = state,
                ![c].owner = IF state = "pending" THEN w ELSE "none", ![c].fresh = (state = "pending")]
        /\ work' = WorkStopped(c, state)
        /\ dispatch' = dispatch \/ dispatch' = [dispatch EXCEPT ![w] = x]
        /\ UNCHANGED <<assignment, reservation, outcome, launched, launch, crashes>>
    BY DEF ClaimStop
  <1>4. DispatchPlaced(x, outcome)
    <2>1. scope \subseteq Assignments
      BY DEF Scope, Tree
    <2>2. NoDispatch \in DispatchRows
      BY RoomWorkAssumption DEF NoDispatch, DispatchRows, Results
    <2>3. c \in 0 .. MaxGeneration
      BY RoomWorkAssumption DEF Controls
    <2>4. targets \in SUBSET Assignments /\ {a \in targets : assignment[a].linked} \in SUBSET Assignments
      BY <2>1
    <2> HIDE DEF targets, scope
    <2> QED BY <2>2, <2>3, <2>4 DEF DispatchPlaced, DispatchRows
  <1> HIDE DEF x, state, targets, scope
  <1>5. LanesOf(launch', dispatch', outcome')
    BY <1>1, <1>3, <1>4, DispatchMoves DEF Lanes
  <1>6. work' \in WorkRows /\ work'.generation = work.generation
    BY <1>1, <1>2, <1>3, WorkStoppedRow
  <1>7. control' \in [Controls -> ControlRows]
    <2>1. (IF state = "pending" THEN w ELSE "none") \in Owners /\ (state = "pending") \in BOOLEAN
      BY DEF Owners
    <2> QED BY <1>1, <1>2, <1>3, <2>1, StopRow
  <1>8. Typed'
    BY <1>1, <1>3, <1>6, <1>7 DEF Typed
  <1>9. /\ PairsOf(assignment', reservation', work'.generation, launched')
        /\ RealOf(assignment', outcome') /\ Unstarted(outcome', launched')
    BY <1>1, <1>3, <1>6 DEF IInv, Pairs, Real
  <1> QED BY <1>5, <1>8, <1>9 DEF IInv

\* A step that touches no row of the work.
LEMMA OutsideRows ==
  ASSUME IInv, UNCHANGED <<rows, launched>>, crashes' \in 0 .. MaxCrashes,
         Stands(outcome, outcome'), Unstarted(outcome', launched),
         LanesOf(launch', dispatch', outcome')
  PROVE  IInv'
  <1>1. Typed'
    BY DEF IInv, Typed, rows
  <1>2. PairsOf(assignment', reservation', work'.generation, launched')
    BY DEF IInv, rows
  <1>3. RealOf(assignment', outcome')
    BY DEF IInv, RealOf, Stands, rows
  <1> QED BY <1>1, <1>2, <1>3 DEF IInv, rows

LEMMA RunEnds ==
  ASSUME IInv, NEW a \in Assignments, NEW to \in Endings, Run!End(a, to)
  PROVE  Stands(outcome, outcome') /\ Unstarted(outcome', launched)
  <1>1. outcome[a] \notin {"none", "completed"} /\ outcome' = [outcome EXCEPT ![a] = to]
    BY DEF Run!End, Run!Become
  <1>2. to \in Run!Outcomes
    BY RoomWorkAssumption DEF Run!Outcomes, Run!Final
  <1> QED BY <1>1, <1>2, OutcomeMoves DEF IInv, Real

LEMMA CancelTargetStep ==
  ASSUME IInv, NEW w \in Workers, CancelTarget(w)
  PROVE  IInv'
  <1>1. Lanes /\ Real /\ DispatchPlaced(dispatch[w], outcome)
    BY DEF IInv, Lanes, LanesOf, Real
  <1>2. PICK a \in dispatch[w].targets, status \in Terminal \cup {"outcome_unknown"} :
          /\ \/ UNCHANGED outcome /\ status = "outcome_unknown"
             \/ /\ a \in dispatch[w].linked
                /\ \/ UNCHANGED outcome
                   \/ /\ outcome[a] \in {"open", "waiting"}
                      /\ \E to \in {"cancelled", "unknown"} \cap Endings : Run!End(a, to)
                /\ status = StopOutcome(outcome'[a])
          /\ dispatch' = [dispatch EXCEPT ![w].pc = "reconcile", ![w].a = a, ![w].status = status]
    BY DEF CancelTarget
  <1>3. a \in Assignments
    BY <1>1 DEF DispatchPlaced, DispatchRows
  <1>4. Stands(outcome, outcome') /\ Unstarted(outcome', launched)
    <2>1. CASE UNCHANGED outcome
      BY <1>1, <2>1, SameStands DEF IInv
    <2>2. CASE \E to \in {"cancelled", "unknown"} \cap Endings : Run!End(a, to)
      BY <1>3, <2>2, RunEnds
    <2> QED BY <1>2, <2>1, <2>2
  <1>5. status = "completed" => outcome'[a] = "completed"
    BY <1>2 DEF StopOutcome
  <1> DEFINE x == [dispatch[w] EXCEPT !.pc = "reconcile", !.a = a, !.status = status]
  <1>6. DispatchPlaced(x, outcome')
    <2>1. a \in 0 .. MaxAssignments
      BY <1>3, RoomWorkAssumption DEF Assignments
    <2>2. status \in Results
      BY DEF Results
    <2>3. dispatch[w] \in DispatchRows /\ dispatch[w].c \in Controls
      BY <1>1 DEF DispatchPlaced, CancelTarget
    <2>4. x \in DispatchRows /\ x.a = a /\ x.status = status /\ x.c = dispatch[w].c
      BY <2>1, <2>2, <2>3 DEF DispatchRows
    <2> HIDE DEF x
    <2> QED BY <1>3, <1>5, <2>3, <2>4 DEF DispatchPlaced
  <1>7. dispatch' = [dispatch EXCEPT ![w] = x]
    BY <1>2
  <1> HIDE DEF x
  <1>8. LanesOf(launch, dispatch', outcome')
    BY <1>1, <1>4, <1>6, <1>7, DispatchMoves DEF Lanes
  <1>9. UNCHANGED <<rows, launched, launch, crashes>>
    BY DEF CancelTarget
  <1>10. crashes' \in 0 .. MaxCrashes /\ LanesOf(launch', dispatch', outcome')
    BY <1>8, <1>9 DEF IInv, Typed
  <1> QED BY <1>4, <1>9, <1>10, OutsideRows

LEMMA NextTargetPlaced ==
  ASSUME IInv, NEW w \in Workers, dispatch[w].pc = "reconcile", NextTarget(w)
  PROVE  LanesOf(launch, dispatch', outcome)
  <1> DEFINE left == dispatch[w].targets \ {dispatch[w].a}
             x == [dispatch[w] EXCEPT !.pc = "cancel", !.targets = left, !.a = 0, !.status = "none"]
  <1>1. Lanes /\ Stands(outcome, outcome) /\ DispatchPlaced(dispatch[w], outcome)
        /\ dispatch \in [Workers -> DispatchRows]
    BY SameStands DEF IInv, Lanes, LanesOf, Real
  <1>2. dispatch' = [dispatch EXCEPT ![w] = NoDispatch] \/ dispatch' = [dispatch EXCEPT ![w] = x]
    BY <1>1 DEF NextTarget
  <1>3. DispatchPlaced(x, outcome)
    <2>1. left \in SUBSET Assignments
      BY <1>1 DEF DispatchPlaced, DispatchRows
    <2>2. 0 \in 0 .. MaxAssignments /\ "none" \in Results
      BY RoomWorkAssumption DEF Results
    <2> HIDE DEF left
    <2> QED BY <1>1, <2>1, <2>2 DEF DispatchPlaced, DispatchRows
  <1> HIDE DEF x
  <1> QED BY <1>1, <1>2, <1>3, IdleLanes, DispatchMoves DEF Lanes

LEMMA ReconcileStep ==
  ASSUME IInv, NEW w \in Workers, Reconcile(w)
  PROVE  IInv'
  <1> DEFINE a == dispatch[w].a
             c == dispatch[w].c
             s == dispatch[w].status
             asg == [assignment EXCEPT ![a].status = s]
             held == HoldsStop(w) /\ Current(c) /\ StopEvidence(w)
  <1>1. /\ Typed /\ Pairs /\ Real /\ DispatchPlaced(dispatch[w], outcome)
        /\ Stands(outcome, outcome)
    BY SameStands DEF IInv, Pairs, Real, LanesOf
  <1>2. /\ a \in Assignments /\ c \in Controls /\ s \in Terminal \cup {"outcome_unknown"}
        /\ s = "completed" => outcome[a] = "completed"
    BY <1>1 DEF Reconcile, DispatchPlaced
  <1>3. UNCHANGED <<outcome, launched, launch, crashes>> /\ LanesOf(launch, dispatch', outcome)
    BY NextTargetPlaced DEF Reconcile
  <1>4. CASE held
    <2>1. PICK state \in {"pending", "unconfirmed", "confirmed"} :
            /\ assignment' = Wake(asg, a) /\ reservation' = Close(a, s)
            /\ control' = [control EXCEPT ![c].state = state,
                  ![c].owner = IF state = "pending" THEN control[c].owner ELSE "none",
                  ![c].fresh = (state = "pending")]
            /\ work' = WorkStopped(c, state)
      <3> DEFINE open == Having(Close(a, s), {"reserved", "claimed"})
                 unknown == \E b \in Scope(c) : Wake(asg, a)[b].status = "outcome_unknown"
                 st == IF unknown THEN "unconfirmed" ELSE StopState(Wake(asg, a), open, Scope(c))
      <3>1. st \in {"pending", "unconfirmed", "confirmed"}
        BY DEF StopState
      <3>2. /\ assignment' = Wake(asg, a) /\ reservation' = Close(a, s)
            /\ control' = [control EXCEPT ![c].state = st,
                  ![c].owner = IF st = "pending" THEN @ ELSE "none",
                  ![c].fresh = (st = "pending")]
            /\ work' = WorkStopped(c, st)
        BY <1>4 DEF Reconcile
      <3> HIDE DEF st
      <3>3. control \in [Controls -> ControlRows]
        BY <1>1 DEF Typed
      <3> QED BY <1>2, <3>1, <3>2, <3>3
    <2>2. NewStatus(asg, a, s)
      BY <1>1, <1>2, Written DEF Results
    <2> HIDE DEF asg, s
    <2>3. work' \in WorkRows /\ work'.generation = work.generation
      BY <1>1, <2>1, WorkStoppedRow
    <2>4. PairsOf(assignment', reservation', work.generation, launched)
      BY <1>1, <1>2, <2>1, <2>2, EndedPairs
    <2>5. RealOf(assignment', outcome)
      BY <1>1, <1>2, <2>1, <2>2, EndedReal DEF Real
    <2>6. control' \in [Controls -> ControlRows]
      <3>1. control[c].owner \in Owners
        BY <1>1, <1>2 DEF Typed, ControlRows
      <3>2. (IF state = "pending" THEN control[c].owner ELSE "none") \in Owners
            /\ (state = "pending") \in BOOLEAN
        BY <3>1 DEF Owners
      <3> QED BY <1>1, <1>2, <2>1, <3>2, StopRow
    <2>7. Typed'
      BY <1>1, <1>3, <2>3, <2>6 DEF Typed
    <2> QED BY <1>3, <2>3, <2>4, <2>5, <2>7 DEF IInv
  <1>5. CASE ~held
    <2>1. UNCHANGED rows
      BY <1>5 DEF Reconcile
    <2>2. crashes' \in 0 .. MaxCrashes /\ Unstarted(outcome', launched)
      BY <1>1, <1>3 DEF Typed, IInv
    <2> QED BY <1>1, <1>3, <2>1, <2>2, OutsideRows
  <1> QED BY <1>4, <1>5

LEMMA CrashStep ==
  ASSUME IInv, NEW w \in Workers, Crash(w)
  PROVE  IInv'
  <1>1. Lanes /\ Real /\ Stands(outcome, outcome)
    BY SameStands DEF IInv, Lanes, Real
  <1>2. /\ launch' = [launch EXCEPT ![w] = NoLaunch] /\ dispatch' = [dispatch EXCEPT ![w] = NoDispatch]
        /\ UNCHANGED <<rows, outcome, launched>>
    BY DEF Crash
  <1>3. LanesOf(launch', dispatch, outcome)
    BY <1>1, <1>2, IdleLanes, LaunchMoves DEF Lanes
  <1>4. LanesOf(launch', dispatch', outcome)
    BY <1>1, <1>2, <1>3, IdleLanes, DispatchMoves
  <1>5. crashes' \in 0 .. MaxCrashes
    BY RoomWorkAssumption DEF Crash, IInv, Typed
  <1> QED BY <1>1, <1>2, <1>4, <1>5, OutsideRows DEF IInv

LEMMA RunStepStep ==
  ASSUME IInv, NEW a \in Assignments, RunStep(a)
  PROVE  IInv'
  <1>1. UNCHANGED <<rows, launched, lanes, crashes>>
    BY DEF RunStep
  <1>2. Stands(outcome, outcome') /\ Unstarted(outcome', launched)
    <2>1. CASE Run!Pause(a) \/ Run!Resume(a)
      <3>1. PICK to \in {"open", "waiting"} :
              outcome[a] \in {"open", "waiting"} /\ outcome' = [outcome EXCEPT ![a] = to]
        BY <2>1 DEF Run!Pause, Run!Resume, Run!Become
      <3>2. to \in Run!Outcomes
        BY DEF Run!Outcomes
      <3> QED BY <3>1, <3>2, OutcomeMoves DEF IInv, Real
    <2>2. CASE \E to \in Endings : Run!End(a, to)
      BY <2>2, RunEnds
    <2> QED BY <2>1, <2>2 DEF RunStep
  <1>3. LanesOf(launch', dispatch', outcome')
    BY <1>1, <1>2, LanesStand DEF IInv, lanes
  <1>4. crashes' \in 0 .. MaxCrashes
    BY <1>1 DEF IInv, Typed
  <1> QED BY <1>1, <1>2, <1>3, <1>4, OutsideRows

LEMMA LeaseStep ==
  ASSUME IInv, (\E a \in Assignments : LaunchLeaseExpires(a))
               \/ (\E c \in Controls : StopLeaseExpires(c))
  PROVE  IInv'
  <1>1. Typed /\ Pairs
    BY DEF IInv, Pairs
  <1>2. CASE \E a \in Assignments : LaunchLeaseExpires(a)
    <2>1. PICK a \in Assignments :
            /\ reservation' = [reservation EXCEPT ![a].fresh = FALSE]
            /\ UNCHANGED <<work, assignment, control, outcome, launched, lanes, crashes>>
      BY <1>2 DEF LaunchLeaseExpires
    <2>2. reservation \in [Assignments -> ReservationRows] /\ reservation[a] \in ReservationRows
          /\ assignment \in [Assignments -> AssignmentRows]
          /\ Paired(assignment[a], reservation[a], work.generation, launched[a])
      BY <1>1 DEF Pairs, PairsOf
    <2>3. /\ reservation' \in [Assignments -> ReservationRows]
          /\ reservation'[a].status = reservation[a].status
          /\ reservation'[a].generation = reservation[a].generation
          /\ \A b \in Assignments \ {a} : reservation'[b] = reservation[b]
      BY <2>1, <2>2 DEF ReservationRows
    <2>4. Paired(assignment[a], reservation'[a], work.generation, launched[a])
      BY <2>2, <2>3 DEF Paired
    <2>5. PairsOf(assignment, reservation', work.generation, launched)
      BY <1>1, <2>2, <2>3, <2>4, OnePair
    <2> QED BY <2>1, <2>5 DEF IInv, Typed, lanes
  <1>3. CASE \E c \in Controls : StopLeaseExpires(c)
    <2>1. PICK c \in Controls :
            /\ control' = [control EXCEPT ![c].fresh = FALSE]
            /\ UNCHANGED <<work, assignment, reservation, outcome, launched, lanes, crashes>>
      BY <1>3 DEF StopLeaseExpires
    <2>2. control' \in [Controls -> ControlRows]
      BY <1>1, <2>1 DEF Typed, ControlRows
    <2> QED BY <2>1, <2>2 DEF IInv, Typed, lanes
  <1> QED BY <1>2, <1>3

LEMMA StepInv == IInv /\ [Next]_vars => IInv'
  <1> SUFFICES ASSUME IInv, [Next]_vars PROVE IInv'
    OBVIOUS
  <1>1. CASE Request
    <2>1. UNCHANGED <<outcome, launched, lanes, crashes>>
      BY <1>1 DEF Request
    <2> QED BY <1>1, <2>1, StopRequestStep, StopConfirmStep, AssignmentStopStep, ReplyStep DEF Request
  <1>2. ASSUME NEW w \in Launchers, LaunchLane(w) PROVE IInv'
    <2>1. w \in Workers
      BY DEF Workers
    <2> QED BY <1>2, <2>1, ClaimReservationStep, AdmitStep, WaitStep, DiscardStep, SettleStep
        DEF LaunchLane
  <1>3. ASSUME NEW w \in Stoppers, StopLane(w) PROVE IInv'
    <2>1. w \in Workers
      BY DEF Workers
    <2> QED BY <1>3, <2>1, ClaimStopStep, CancelTargetStep, ReconcileStep DEF StopLane
  <1>4. ASSUME NEW w \in Workers, Crash(w) PROVE IInv'
    BY <1>4, CrashStep
  <1>5. ASSUME NEW a \in Assignments, RunStep(a) \/ LaunchLeaseExpires(a) PROVE IInv'
    BY <1>5, RunStepStep, LeaseStep
  <1>6. ASSUME NEW c \in Controls, StopLeaseExpires(c) PROVE IInv'
    BY <1>6, LeaseStep
  <1>7. CASE UNCHANGED vars
    BY <1>7 DEF vars, rows, lanes, IInv, Typed
  <1> QED BY <1>1, <1>2, <1>3, <1>4, <1>5, <1>6, <1>7 DEF Next

LEMMA Invariance == Spec => []IInv
  BY InitInv, StepInv, PTL DEF Spec

-----------------------------------------------------------------------------
\* The rows of a work, its Runs and what the lanes are in the middle of keep
\* their types, whatever people ask for and whenever a worker dies.
THEOREM TypeCorrect == Spec => []TypeOK
  BY Invariance, InvImplies, PTL

\* No assignment is given a second Run: not by a claim after an expired lease, a
\* worker that comes back late, a stop, or a claim sent back to be made again.
THEOREM OneRun == Spec => []OneRunPerAssignment
  BY Invariance, InvImplies, PTL

\* An assignment and its reservation are never written apart.
THEOREM RowsAgree == Spec => []ClaimedIsRunning
  BY Invariance, InvImplies, PTL

\* Whoever settles an assignment as completed, its Run has completed.
THEOREM CompletionReal == Spec => []CompletedIsReal
  BY Invariance, InvImplies, PTL

-----------------------------------------------------------------------------
\* What has ended is written again only on evidence.

\* The outcome a stop lane is about to write as an end is that of a Run it named.
Named == \A w \in Workers :
    dispatch[w].pc = "reconcile" /\ dispatch[w].status \in Terminal => dispatch[w].a \in dispatch[w].linked

ReconciledBy(w, a) == Reconcile(w) /\ dispatch[w].a = a

\* An assignment that has ended is written again only by a stop lane that took
\* it for a target, and then becomes what its Run ended as, or unknown: neither
\* a late settlement nor a recovery nor another stop touches it.
EndedByEvidence == [][\A a \in Assignments :
    assignment[a].status \in Terminal /\ assignment'[a] # assignment[a] =>
        /\ \E w \in Stoppers : ReconciledBy(w, a)
        /\ assignment'[a].linked = assignment[a].linked
        /\ \/ assignment'[a].status = "outcome_unknown"
           \/ assignment[a].linked /\ assignment'[a].status = outcome[a]]_vars

LEMMA NamedKept == IInv /\ Named /\ [Next]_vars => Named'
  <1> SUFFICES ASSUME IInv, Named, [Next]_vars PROVE Named'
    OBVIOUS
  <1>1. dispatch \in [Workers -> DispatchRows]
    BY DEF IInv, LanesOf
  <1>2. CASE UNCHANGED dispatch
    BY <1>2 DEF Named
  <1>3. ASSUME NEW w \in Workers, NEW x, dispatch' = [dispatch EXCEPT ![w] = x],
               x.pc = "reconcile" /\ x.status \in Terminal => x.a \in x.linked
        PROVE  Named'
    BY <1>1, <1>3 DEF Named
  <1>4. NoDispatch.pc # "reconcile"
    BY DEF NoDispatch
  <1>5. ASSUME NEW w \in Workers, NEW c \in Controls, ClaimStop(w, c) PROVE Named'
    <2> DEFINE targets == {a \in Scope(c) : assignment[a].status \in {"running", "outcome_unknown"}}
               x == [NoDispatch EXCEPT !.pc = "cancel", !.c = c, !.targets = targets,
                                       !.linked = {a \in targets : assignment[a].linked}]
    <2>1. dispatch' = dispatch \/ dispatch' = [dispatch EXCEPT ![w] = x]
      BY <1>5 DEF ClaimStop
    <2>2. x.pc = "cancel"
      BY DEF NoDispatch
    <2> HIDE DEF x
    <2> QED BY <1>2, <1>3, <2>1, <2>2
  <1>6. ASSUME NEW w \in Workers, CancelTarget(w) PROVE Named'
    <2>1. PICK a \in dispatch[w].targets, status \in Terminal \cup {"outcome_unknown"} :
            /\ status = "outcome_unknown" \/ a \in dispatch[w].linked
            /\ dispatch' = [dispatch EXCEPT ![w].pc = "reconcile", ![w].a = a, ![w].status = status]
      BY <1>6 DEF CancelTarget
    <2> DEFINE x == [dispatch[w] EXCEPT !.pc = "reconcile", !.a = a, !.status = status]
    <2>2. dispatch' = [dispatch EXCEPT ![w] = x]
      BY <2>1
    <2>3. x.a = a /\ x.status = status /\ x.linked = dispatch[w].linked
      BY <1>1 DEF DispatchRows
    <2> HIDE DEF x
    <2> QED BY <1>3, <2>1, <2>2, <2>3 DEF Terminal
  <1>7. ASSUME NEW w \in Workers, Reconcile(w) PROVE Named'
    <2> DEFINE left == dispatch[w].targets \ {dispatch[w].a}
               x == [dispatch[w] EXCEPT !.pc = "cancel", !.targets = left, !.a = 0, !.status = "none"]
    <2>1. dispatch' = [dispatch EXCEPT ![w] = NoDispatch] \/ dispatch' = [dispatch EXCEPT ![w] = x]
      BY <1>1, <1>7 DEF Reconcile, NextTarget
    <2>2. x.pc = "cancel"
      BY <1>1 DEF DispatchRows
    <2> HIDE DEF x
    <2> QED BY <1>3, <1>4, <2>1, <2>2
  <1>8. ASSUME NEW w \in Workers, Crash(w) PROVE Named'
    BY <1>3, <1>4, <1>8 DEF Crash
  <1>9. ASSUME NEW w \in Launchers, LaunchLane(w) PROVE UNCHANGED dispatch
    BY <1>9 DEF LaunchLane, ClaimReservation, Admit, Start, Discard, Return, Throw, Recover, Settle
  <1>10. CASE Request \/ (\E a \in Assignments : RunStep(a) \/ LaunchLeaseExpires(a))
              \/ (\E c \in Controls : StopLeaseExpires(c)) \/ UNCHANGED vars
    BY <1>2, <1>10 DEF Request, RunStep, LaunchLeaseExpires, StopLeaseExpires, vars, lanes
  <1>11. Stoppers \subseteq Workers
    BY DEF Workers
  <1> QED BY <1>2, <1>5, <1>6, <1>7, <1>8, <1>9, <1>10, <1>11 DEF Next, StopLane

\* The end of another assignment wakes only what waits.
LEMMA EndedKept ==
  ASSUME NEW a \in Assignments, NEW b \in Assignments, NEW asg, assignment[b].status \in Terminal,
         asg[b] = assignment[b]
  PROVE  Wake(asg, a)[b] = assignment[b]
  BY DEF Wake, Terminal

LEMMA RequestKeepsEnded ==
  ASSUME Pairs, Request, NEW b \in Assignments, assignment[b].status \in Terminal
  PROVE  assignment'[b] = assignment[b]
  <1>1. assignment \in [Assignments -> AssignmentRows]
    BY DEF Pairs, PairsOf
  <1>2. b \notin BeforeRun /\ assignment[b].status \notin {"running", "absent"}
    BY DEF BeforeRun, Terminal
  <1>3. \A A : CancelBeforeRun(A)[b] = assignment[b]
    BY <1>2 DEF CancelBeforeRun
  <1>4. CASE StopRequest
    BY <1>3, <1>4 DEF StopRequest
  <1>5. CASE StopConfirm \/ StopUnconfirmed
    BY <1>5 DEF StopConfirm, StopUnconfirmed
  <1>6. ASSUME NEW t \in Assignments, AssignmentStop(t) PROVE assignment'[b] = assignment[b]
    <2> DEFINE left == CancelBeforeRun(Tree(t))
               back == {a \in Assignments \ Tree(t) :
                          /\ left[a].status = "running" /\ ~left[a].linked
                          /\ reservation[a].status = "claimed"}
    <2>1. assignment' = [a \in Assignments |->
             IF a \in back THEN [left[a] EXCEPT !.status = ReadyOrWaiting(left, a)] ELSE left[a]]
      BY <1>6 DEF AssignmentStop, Regenerate
    <2>2. left[b] = assignment[b]
      BY <1>3
    <2> HIDE DEF left
    <2>3. b \notin back
      BY <1>2, <2>2
    <2> HIDE DEF back
    <2> QED BY <2>1, <2>2, <2>3
  <1>7. ASSUME NEW t \in Assignments, Reply(t) PROVE assignment'[b] = assignment[b]
    <2>1. PICK a \in Having(assignment, {"absent"}) :
            \E x : assignment' = [assignment EXCEPT ![a] = x]
      BY <1>7 DEF Reply
    <2>2. a # b
      BY <1>2 DEF Having
    <2> QED BY <1>1, <2>1, <2>2
  <1> QED BY <1>4, <1>5, <1>6, <1>7 DEF Request

LEMMA LaunchKeepsEnded ==
  ASSUME IInv, NEW w \in Workers, LaunchLane(w), NEW b \in Assignments,
         assignment[b].status \in Terminal
  PROVE  assignment'[b] = assignment[b]
  <1>1. assignment \in [Assignments -> AssignmentRows] /\ LaunchPlaced(launch[w], outcome)
    BY DEF IInv, PairsOf, LanesOf
  <1>2. assignment[b].status \notin {"ready", "running", "outcome_unknown"}
    BY DEF Terminal
  <1>3. CASE ClaimReservation(w)
    <2>1. PICK a \in Assignments : TakeOver(w, a) \/ Abandon(a) \/ Claim(w, a) \/ FailPreflight(a)
      BY <1>3 DEF ClaimReservation
    <2>2. CASE TakeOver(w, a)
      BY <2>2 DEF TakeOver
    <2>3. CASE Abandon(a) \/ FailPreflight(a)
      <3>1. a # b
        BY <1>2, <2>3 DEF Abandon, FailPreflight, Claimable, Expired
      <3>2. PICK s \in {"cancelled", "failed"} :
              assignment' = Wake([assignment EXCEPT ![a].status = s, ![a].result = s], a)
        BY <2>3 DEF Abandon, FailPreflight
      <3> DEFINE asg == [assignment EXCEPT ![a].status = s, ![a].result = s]
      <3>3. asg[b] = assignment[b]
        BY <1>1, <3>1
      <3> HIDE DEF asg
      <3>4. Wake(asg, a)[b] = assignment[b]
        BY <3>3, EndedKept
      <3> QED BY <3>2, <3>4 DEF asg
    <2>4. CASE Claim(w, a)
      <3>1. a # b
        BY <1>2, <2>4 DEF Claim, Claimable, Expired
      <3> QED BY <1>1, <2>4, <3>1 DEF Claim
    <2> QED BY <2>1, <2>2, <2>3, <2>4
  <1>4. CASE Admit(w)
    <2>1. launch[w].a \in Assignments
      BY <1>1, <1>4 DEF Admit, LaunchPlaced
    <2>2. CASE AdmissionOpen(w, launch[w].a)
      <3>1. launch[w].a # b
        BY <1>2, <2>2 DEF AdmissionOpen
      <3> QED BY <1>1, <1>4, <2>1, <2>2, <3>1 DEF Admit
    <2>3. CASE ~AdmissionOpen(w, launch[w].a)
      BY <1>4, <2>3 DEF Admit
    <2> QED BY <2>2, <2>3
  <1>5. CASE Discard(w)
    <2> DEFINE a == launch[w].a
               asg == [assignment EXCEPT ![a].status = "failed", ![a].linked = FALSE,
                                         ![a].result = "failed"]
    <2>1. a \in Assignments /\ a # b
      BY <1>1, <1>2, <1>5 DEF Discard, LaunchPlaced
    <2>2. assignment' = Wake(asg, a)
      BY <1>5 DEF Discard
    <2>3. asg[b] = assignment[b]
      BY <1>1, <2>1
    <2> HIDE DEF asg
    <2> QED BY <2>1, <2>2, <2>3, EndedKept
  <1>6. CASE Settle(w)
    <2> DEFINE a == launch[w].a
               s == launch[w].status
               asg == [assignment EXCEPT ![a].status = s, ![a].result = s]
    <2>1. a \in Assignments
      BY <1>1, <1>6 DEF Settle, LaunchPlaced
    <2>2. CASE SettleAccepted(w)
      <3>1. a # b
        BY <1>2, <2>2 DEF SettleAccepted
      <3>2. assignment' = Wake(asg, a)
        BY <1>6, <2>2 DEF Settle
      <3>3. asg[b] = assignment[b]
        BY <1>1, <2>1, <3>1
      <3> HIDE DEF asg
      <3> QED BY <2>1, <3>2, <3>3, EndedKept
    <2>3. CASE ~SettleAccepted(w)
      BY <1>6, <2>3 DEF Settle
    <2> QED BY <2>2, <2>3
  <1>7. CASE Start(w) \/ Return(w) \/ Throw(w) \/ Recover(w)
    BY <1>7 DEF Start, Return, Throw, Recover, rows
  <1> QED BY <1>3, <1>4, <1>5, <1>6, <1>7 DEF LaunchLane

LEMMA ReconcileOnEvidence ==
  ASSUME IInv, Named, NEW w \in Workers, Reconcile(w), NEW b \in Assignments,
         assignment[b].status \in Terminal, assignment'[b] # assignment[b]
  PROVE  /\ dispatch[w].a = b
         /\ assignment'[b].linked = assignment[b].linked
         /\ \/ assignment'[b].status = "outcome_unknown"
            \/ assignment[b].linked /\ assignment'[b].status = outcome[b]
  <1> DEFINE a == dispatch[w].a
             s == dispatch[w].status
             asg == [assignment EXCEPT ![a].status = s]
  <1>1. assignment \in [Assignments -> AssignmentRows] /\ DispatchPlaced(dispatch[w], outcome)
    BY DEF IInv, PairsOf, LanesOf
  <1>2. a \in Assignments /\ s \in Terminal \cup {"outcome_unknown"}
    BY <1>1 DEF Reconcile, DispatchPlaced
  <1>3. HoldsStop(w) /\ StopEvidence(w) /\ assignment' = Wake(asg, a)
    BY DEF Reconcile, rows
  <1>4. a = b
    <2> SUFFICES ASSUME a # b PROVE FALSE
      OBVIOUS
    <2>1. asg[b] = assignment[b]
      BY <1>1, <1>2
    <2> HIDE DEF asg
    <2> QED BY <1>2, <1>3, <2>1, EndedKept
  <1>5. asg[b].status = s /\ asg[b].linked = assignment[b].linked
    BY <1>1, <1>2, <1>4 DEF AssignmentRows
  <1> HIDE DEF asg
  <1>6. assignment'[b] = asg[b]
    <2>1. asg[b].status # "waiting"
      BY <1>2, <1>5 DEF Terminal
    <2> QED BY <1>3, <2>1 DEF Wake
  <1>7. s \in Terminal => assignment[b].linked /\ outcome[b] = s
    BY <1>3, <1>4 DEF Named, StopEvidence, Reconcile
  <1> QED BY <1>2, <1>4, <1>5, <1>6, <1>7

\* An assignment that has ended is written again only by the stop lane that had
\* taken it for a target before, and on evidence of its own Run.
THEOREM EndsOnEvidence == Spec => EndedByEvidence
  <1> DEFINE Kept(a) ==
        assignment[a].status \in Terminal /\ assignment'[a] # assignment[a] =>
          /\ \E w \in Stoppers : ReconciledBy(w, a)
          /\ assignment'[a].linked = assignment[a].linked
          /\ \/ assignment'[a].status = "outcome_unknown"
             \/ assignment[a].linked /\ assignment'[a].status = outcome[a]
  <1>1. Init => Named
    BY DEF Init, Named, NoDispatch
  <1>2. IInv /\ Named /\ [Next]_vars => [\A a \in Assignments : Kept(a)]_vars
    <2> SUFFICES ASSUME IInv, Named, Next, NEW a \in Assignments,
                        assignment[a].status \in Terminal, assignment'[a] # assignment[a]
                 PROVE  /\ \E w \in Stoppers : ReconciledBy(w, a)
                        /\ assignment'[a].linked = assignment[a].linked
                        /\ \/ assignment'[a].status = "outcome_unknown"
                           \/ assignment[a].linked /\ assignment'[a].status = outcome[a]
      OBVIOUS
    <2>1. Pairs /\ Launchers \subseteq Workers /\ Stoppers \subseteq Workers
      BY DEF IInv, Pairs, Workers
    <2>2. ~Request
      BY <2>1, RequestKeepsEnded
    <2>3. \A w \in Launchers : ~LaunchLane(w)
      BY <2>1, LaunchKeepsEnded
    <2>4. \A w \in Workers : ~Crash(w)
      BY DEF Crash, rows
    <2>5. /\ \A b \in Assignments : ~RunStep(b) /\ ~LaunchLeaseExpires(b)
          /\ \A c \in Controls : ~StopLeaseExpires(c)
      BY DEF RunStep, LaunchLeaseExpires, StopLeaseExpires, rows
    <2>6. PICK w \in Stoppers : StopLane(w)
      BY <2>2, <2>3, <2>4, <2>5 DEF Next
    <2>7. Reconcile(w)
      BY <2>6 DEF StopLane, ClaimStop, CancelTarget, rows
    <2> QED BY <2>1, <2>7, ReconcileOnEvidence DEF ReconciledBy
  <1>3. Spec => []Named
    BY <1>1, Invariance, NamedKept, PTL DEF Spec
  <1> QED BY <1>2, <1>3, Invariance, PTL DEF Spec, EndedByEvidence

-----------------------------------------------------------------------------
\* The Runs of a work keep the promise of RunOutcome, which RuntimeRun keeps too.

LEMMA RunsRest == UNCHANGED outcome => UNCHANGED Run!vars
  BY DEF Run!vars

LEMMA AdmitRun ==
  ASSUME IInv, NEW w \in Workers, Admit(w)
  PROVE  (\E a \in Assignments : Run!Admit(a)) \/ UNCHANGED Run!vars
  <1> DEFINE a == launch[w].a
  <1>1. Pairs /\ Real /\ LaunchPlaced(launch[w], outcome)
    BY DEF IInv, Pairs, Real, LanesOf
  <1>2. a \in Assignments
    BY <1>1 DEF Admit, LaunchPlaced
  <1>3. CASE AdmissionOpen(w, a)
    <2>1. outcome' = [outcome EXCEPT ![a] = "open"]
      BY <1>3 DEF Admit
    <2>2. ~assignment[a].linked /\ reservation[a].status = "claimed"
      BY <1>3 DEF AdmissionOpen, Holds
    <2>3. outcome[a] = "none"
      BY <1>1, <1>2, <2>2 DEF Pairs, PairsOf, Paired, IInv, Unstarted
    <2>4. \A b \in Assignments : (outcome'[b] = "completed") = (outcome[b] = "completed")
      BY <1>1, <1>2, <2>1, <2>3 DEF Real, RealOf
    <2>5. Run!Admit(a)
      BY <2>1, <2>3, <2>4 DEF Run!Admit, Run!Become
    <2> QED BY <1>2, <2>5
  <1>4. CASE ~AdmissionOpen(w, a)
    BY <1>4, RunsRest DEF Admit
  <1> QED BY <1>3, <1>4

LEMMA RunsStep == IInv /\ [Next]_vars => [Run!Next]_(Run!vars)
  <1> SUFFICES ASSUME IInv, [Next]_vars PROVE Run!Next \/ UNCHANGED Run!vars
    OBVIOUS
  <1>1. Launchers \subseteq Workers /\ Stoppers \subseteq Workers
    BY DEF Workers
  <1>2. \A a \in Assignments, to \in Endings : Run!End(a, to) => Run!Next
    <2>1. Endings \subseteq Run!Final \cup {"unknown"}
      BY RoomWorkAssumption DEF Run!Final
    <2> QED BY <2>1 DEF Run!Next
  <1>3. CASE UNCHANGED outcome
    BY <1>3, RunsRest
  <1>4. ASSUME NEW w \in Launchers, LaunchLane(w) PROVE Run!Next \/ UNCHANGED Run!vars
    <2>1. CASE Admit(w)
      BY <1>1, <2>1, AdmitRun DEF Run!Next
    <2>2. CASE Discard(w)
      <3>1. launch[w].a \in Assignments
        BY <1>1, <2>2 DEF Discard, IInv, LanesOf, LaunchPlaced
      <3>2. Run!Withdraw(launch[w].a)
        BY <2>2 DEF Discard
      <3> QED BY <3>1, <3>2 DEF Run!Next
    <2>3. CASE ClaimReservation(w) \/ Start(w) \/ Return(w) \/ Throw(w) \/ Recover(w) \/ Settle(w)
      BY <1>3, <2>3 DEF ClaimReservation, Start, Return, Throw, Recover, Settle
    <2> QED BY <1>4, <2>1, <2>2, <2>3 DEF LaunchLane
  <1>5. ASSUME NEW w \in Stoppers, StopLane(w) PROVE Run!Next \/ UNCHANGED Run!vars
    <2>1. CASE CancelTarget(w)
      <3>1. PICK a \in dispatch[w].targets :
              UNCHANGED outcome \/ \E to \in {"cancelled", "unknown"} \cap Endings : Run!End(a, to)
        BY <2>1 DEF CancelTarget
      <3>2. a \in Assignments
        BY <1>1 DEF IInv, LanesOf, DispatchRows
      <3> QED BY <1>2, <1>3, <3>1, <3>2
    <2>2. CASE (\E c \in Controls : ClaimStop(w, c)) \/ Reconcile(w)
      BY <1>3, <2>2 DEF ClaimStop, Reconcile
    <2> QED BY <1>5, <2>1, <2>2 DEF StopLane
  <1>6. ASSUME NEW a \in Assignments, RunStep(a) PROVE Run!Next
    <2>1. CASE Run!Pause(a) \/ Run!Resume(a)
      BY <2>1 DEF Run!Next
    <2> QED BY <1>2, <1>6, <2>1 DEF RunStep
  <1>7. CASE Request \/ (\E w \in Workers : Crash(w))
             \/ (\E a \in Assignments : LaunchLeaseExpires(a))
             \/ (\E c \in Controls : StopLeaseExpires(c)) \/ UNCHANGED vars
    BY <1>3, <1>7 DEF Request, Crash, LaunchLeaseExpires, StopLeaseExpires, vars
  <1> QED BY <1>4, <1>5, <1>6, <1>7 DEF Next

\* The Runs that the lanes launch, withdraw and cancel move only as a reader of
\* the store is promised: each is admitted once, pauses and ends, and what has
\* ended stays, with an unknown end resolved at most once.
THEOREM RunsRefined == Spec => Run!Spec
  <1>1. Init => Run!Init
    BY DEF Init, Run!Init
  <1> QED BY <1>1, RunsStep, Invariance, PTL DEF Spec, Run!Spec

=============================================================================

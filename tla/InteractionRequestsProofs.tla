----------------------- MODULE InteractionRequestsProofs -----------------------
(* Theorems about InteractionRequests: for any clients, ticks and responses.  *)
EXTENDS InteractionRequests, TLAPS

-----------------------------------------------------------------------------
\* What the write of a handler relies on when its compare-and-set succeeds: the
\* status that the handler saw with the version it compares.
PutPoints == {"respond", "cancel", "claim", "release", "recover", "settle", "failStale",
              "expire", "interrupt", "mark"}

Expected(k) ==
    /\ k.pc \in {"respond", "cancel"} => req.status = "pending"
    /\ k.pc = "claim" => req.status = "accepted"
    /\ k.pc \in {"release", "recover", "settle", "failStale", "interrupt"} =>
         req.status = "executing"
    /\ k.pc = "expire" => req.status \in {"pending", "accepted"}

Guarded(k) ==
    k.put => /\ k.pc \in PutPoints /\ k.version <= req.version
             /\ k.version = req.version => Expected(k)

Ended(k) ==
    /\ k.pc \in {"record", "settle"} => k.ending \in {"completed", "failed"}
    /\ k.pc \in {"expire", "emit", "mark"} => k.ending \in {"expired", "failed"}
    /\ k.pc = "expire" => k.ending = "expired"
    /\ k.pc = "interrupt" => k.ending = "failed"
    /\ k.pc = "respond" => k.life \in Responses

Guards == \A c \in Callers : Guarded(call[c]) /\ Ended(call[c])

Records ==
    [pc : Points, put : BOOLEAN, life : Responses \cup {"none", "tick"}, version : Nat,
     x : Executions, refused : BOOLEAN, recovered : BOOLEAN, ending : Endings]

Requests ==
    [kind : Kinds, status : Settled \cup {"pending", "accepted", "executing"},
     version : Nat, by : Responses \cup {"none"}, exec : Executions \cup {Unclaimed},
     over : BOOLEAN, stale : BOOLEAN, event : {"none", "expired", "failed"},
     delivered : BOOLEAN]

LEMMA IdleType == Idle \in Records /\ Ended(Idle) /\ ~Idle.put /\ Idle.pc = "idle"
  BY DEF Idle, Initial, Records, Points, Endings, Executions, Ended

\* A step of one handler that writes nothing.
LEMMA QuietStep ==
  ASSUME TypeOK, Guards, NEW c \in Callers, NEW k \in Records, Goto(c, k),
         Ended(k), k.put => k.pc \in PutPoints /\ k.version = req.version /\ Expected(k),
         req' = req
  PROVE  call' \in [Callers -> Records] /\ Guards'
  <1>1. call' = [call EXCEPT ![c] = k] /\ call \in [Callers -> Records]
    BY DEF Goto, TypeOK, Records
  <1>2. call' \in [Callers -> Records]
    BY <1>1
  <1>3. ASSUME NEW d \in Callers PROVE Guarded(call[d])' /\ Ended(call[d])'
    <2>1. CASE d = c
      BY <1>1, <2>1 DEF Guarded, Ended, Expected, TypeOK
    <2>2. CASE d # c
      BY <1>1, <2>2 DEF Guards, Guarded, Ended, Expected
    <2> QED BY <2>1, <2>2
  <1> QED BY <1>2, <1>3 DEF Guards

\* What is not in question when the record stays as it is.
Rest ==
    /\ target' \in [started : Nat, effect : BOOLEAN, record : {"none", "ok", "failed"},
                   by : Executions]
    /\ told' \subseteq {"expired", "failed"}
    /\ seen' \in [calls : Nat, outages : Nat, faults : Nat, reason : BOOLEAN,
                 attempt : BOOLEAN]

Base == TypeOK /\ Guards

LEMMA QuietBase ==
  ASSUME Base, NEW c \in Callers, NEW k \in Records, Goto(c, k),
         Ended(k), k.put => k.pc \in PutPoints /\ k.version = req.version /\ Expected(k),
         req' = req, Rest
  PROVE  Base'
  <1>1. call' \in [Callers -> Records] /\ Guards'
    BY QuietStep DEF Base
  <1>2. req' \in Requests
    BY DEF Base, TypeOK, Requests
  <1> QED BY <1>1, <1>2 DEF Base, TypeOK, Rest, Records, Requests

LEMMA Unchanged ==
  ASSUME Base, UNCHANGED <<target, told, seen>>
  PROVE  Rest
  BY DEF Base, TypeOK, Rest

LEMMA CallType ==
  ASSUME Base, NEW c \in Callers
  PROVE  call[c] \in Records /\ Guarded(call[c]) /\ Ended(call[c])
  BY DEF Base, TypeOK, Guards, Records

LEMMA FaultType ==
  ASSUME Base, NEW kind \in {"outages", "faults"}, Fault(kind), UNCHANGED <<target, told>>
  PROVE  Rest
  BY DEF Base, TypeOK, Rest, Fault

LEMMA FailingType ==
  ASSUME NEW k \in Records
  PROVE  Failing(k) \in Records /\ Ended(Failing(k)) /\ Failing(k).put = k.put
  BY DEF Failing, Records, Points, Endings, Ended

LEMMA Goes ==
  ASSUME NEW k \in Records, NEW pc \in Points
  PROVE  LET r == [k EXCEPT !.pc = pc] IN
         /\ r \in Records /\ r.pc = pc /\ r.put = k.put /\ r.ending = k.ending
         /\ r.life = k.life /\ r.version = k.version /\ r.x = k.x
  BY DEF Records

LEMMA NextExecutionType ==
  ASSUME NEW k \in Records
  PROVE  NextExecution(k) \in Executions
  BY DEF NextExecution, Records, Executions

\* The record that a handler finds where its write was to go.
LEMMA ReplayedType ==
  ASSUME Base, NEW k \in Records
  PROVE  Replayed(k) \in Records /\ Ended(Replayed(k)) /\ ~Replayed(k).put
  <1>1. req.version \in Nat
    BY DEF Base, TypeOK
  <1> DEFINE on == [k EXCEPT !.put = FALSE, !.version = req.version]
  <1>2. on \in Records /\ ~on.put
    BY <1>1 DEF Records
  <1>3. [on EXCEPT !.pc = "recover"] \in Records /\ [on EXCEPT !.pc = "replay"] \in Records
    BY <1>2 DEF Records, Points
  <1>4. /\ Ended([on EXCEPT !.pc = "recover"]) /\ ~[on EXCEPT !.pc = "recover"].put
        /\ Ended([on EXCEPT !.pc = "replay"]) /\ ~[on EXCEPT !.pc = "replay"].put
    BY <1>2 DEF Records, Ended
  <1> HIDE DEF on
  <1>5. Replayed(k) \in {Idle, [on EXCEPT !.pc = "recover"], [on EXCEPT !.pc = "replay"],
                        Failing(on)}
    BY DEF Replayed, on
  <1> QED BY <1>2, <1>3, <1>4, <1>5, IdleType, FailingType

LEMMA AfterWriteType ==
  ASSUME NEW k \in Records, Ended(k)
  PROVE  AfterWrite(k) \in Records /\ Ended(AfterWrite(k)) /\ ~AfterWrite(k).put
  <1> DEFINE on == [k EXCEPT !.put = FALSE, !.version = @ + 1]
             next(r) == [r EXCEPT !.x = NextExecution(k), !.recovered = TRUE]
  <1>1. on \in Records /\ ~on.put
    <2>1. k.version + 1 \in Nat
      BY DEF Records
    <2> QED BY <2>1 DEF Records
  <1> HIDE DEF on
  <1>2. CASE k.pc = "respond" /\ k.ending = "approve"
    <2>1. AfterWrite(k) = [on EXCEPT !.pc = "preauth", !.ending = "none"]
      BY <1>2 DEF AfterWrite, on
    <2>2. /\ [on EXCEPT !.pc = "preauth", !.ending = "none"] \in Records
          /\ [on EXCEPT !.pc = "preauth", !.ending = "none"].pc = "preauth"
          /\ ~[on EXCEPT !.pc = "preauth", !.ending = "none"].put
      BY <1>1 DEF Records, Points, Endings
    <2> QED BY <2>1, <2>2 DEF Ended
  <1>3. CASE k.pc = "claim"
    <2>1. AfterWrite(k) = [on EXCEPT !.pc = "assert"]
      BY <1>3 DEF AfterWrite, on
    <2> QED BY <1>1, <2>1 DEF Records, Points, Ended
  <1>4. CASE k.pc = "recover"
    <2>1. AfterWrite(k) = next(IF k.refused THEN Failing(on) ELSE [on EXCEPT !.pc = "find"])
      BY <1>4 DEF AfterWrite, on
    <2>2. /\ Failing(on) \in Records /\ Ended(Failing(on)) /\ ~Failing(on).put
          /\ Failing(on).pc = "settle" /\ Failing(on).ending = "failed"
      BY <1>1, FailingType DEF Failing, Records
    <2>3. NextExecution(k) \in Executions
      BY NextExecutionType
    <2>4. ASSUME NEW r \in Records, Ended(r), ~r.put
          PROVE  next(r) \in Records /\ Ended(next(r)) /\ ~next(r).put
      <3>1. next(r) \in Records /\ next(r).pc = r.pc /\ next(r).ending = r.ending
            /\ next(r).life = r.life /\ next(r).put = r.put
        BY <2>3 DEF Records
      <3> QED BY <2>4, <3>1 DEF Ended
    <2>5. [on EXCEPT !.pc = "find"] \in Records /\ ~[on EXCEPT !.pc = "find"].put
          /\ [on EXCEPT !.pc = "find"].pc = "find"
      BY <1>1 DEF Records, Points
    <2>6. Ended([on EXCEPT !.pc = "find"])
      BY <2>5 DEF Ended
    <2> QED BY <2>1, <2>2, <2>4, <2>5, <2>6
  <1>5. CASE k.pc \in {"expire", "interrupt"}
    <2>1. AfterWrite(k) = [on EXCEPT !.pc = "emit"]
      BY <1>5 DEF AfterWrite, on
    <2>2. on.ending = k.ending
      BY DEF on, Records
    <2>3. k.ending \in {"expired", "failed"}
      BY <1>5 DEF Ended
    <2>4. "emit" \in Points
      BY DEF Points
    <2> QED BY <1>1, <2>1, <2>2, <2>3, <2>4, Goes DEF Ended
  <1>6. CASE /\ ~(k.pc = "respond" /\ k.ending = "approve")
             /\ k.pc \notin {"claim", "recover", "expire", "interrupt"}
    <2>1. AfterWrite(k) = Idle
      BY <1>6 DEF AfterWrite, on
    <2> QED BY <2>1, IdleType
  <1> QED BY <1>2, <1>3, <1>4, <1>5, <1>6

LEMMA AfterReplayType ==
  ASSUME Base, NEW k \in Records, Ended(k)
  PROVE  AfterReplay(k) \in Records /\ Ended(AfterReplay(k)) /\ ~AfterReplay(k).put
  <1> DEFINE on == [k EXCEPT !.put = FALSE, !.version = req.version]
  <1>1. on \in Records /\ ~on.put
    BY DEF Records, Base, TypeOK
  <1> HIDE DEF on
  <1>2. CASE k.pc = "claim"
    BY <1>2, ReplayedType DEF AfterReplay, on
  <1>3. CASE k.pc = "recover"
    <2>1. AfterReplay(k) = [AfterWrite(k) EXCEPT !.version = req.version]
      BY <1>3 DEF AfterReplay, on
    <2>2. AfterWrite(k) \in Records /\ Ended(AfterWrite(k)) /\ ~AfterWrite(k).put
      BY AfterWriteType
    <2>3. req.version \in Nat
      BY DEF Base, TypeOK
    <2> QED BY <2>1, <2>2, <2>3 DEF Records, Ended
  <1>4. CASE k.pc = "respond" /\ req.status = "accepted"
    <2>1. AfterReplay(k) = [on EXCEPT !.pc = "preauth", !.ending = "none"]
      BY <1>4 DEF AfterReplay, on
    <2>2. /\ [on EXCEPT !.pc = "preauth", !.ending = "none"] \in Records
          /\ [on EXCEPT !.pc = "preauth", !.ending = "none"].pc = "preauth"
          /\ ~[on EXCEPT !.pc = "preauth", !.ending = "none"].put
      BY <1>1 DEF Records, Points, Endings
    <2> QED BY <2>1, <2>2 DEF Ended
  <1>5. CASE k.pc \in {"expire", "interrupt"} /\ ~req.delivered
    <2>1. AfterReplay(k) = [on EXCEPT !.pc = "emit"]
      BY <1>5 DEF AfterReplay, on
    <2>2. on.ending = k.ending
      BY DEF on, Records
    <2>3. k.ending \in {"expired", "failed"}
      BY <1>5 DEF Ended
    <2>4. "emit" \in Points
      BY DEF Points
    <2> QED BY <1>1, <2>1, <2>2, <2>3, <2>4, Goes DEF Ended
  <1>6. CASE /\ k.pc \notin {"claim", "recover"}
             /\ ~(k.pc = "respond" /\ req.status = "accepted")
             /\ ~(k.pc \in {"expire", "interrupt"} /\ ~req.delivered)
    <2>1. AfterReplay(k) = Idle
      BY <1>6 DEF AfterReplay, on
    <2> QED BY <2>1, IdleType
  <1> QED BY <1>2, <1>3, <1>4, <1>5, <1>6

\* A write leaves a record, of the next version.
LEMMA WrittenType ==
  ASSUME Base, NEW k \in Records, Ended(k), k.pc \in PutPoints
  PROVE  Written(k) \in Requests /\ Written(k).version = req.version + 1
  <1> DEFINE saved == [req EXCEPT !.version = @ + 1]
  <1>1. req \in Requests
    BY DEF Base, TypeOK, Requests
  <1>2. saved \in Requests /\ saved.version = req.version + 1
    BY <1>1 DEF Requests
  <1>3. k.x \in Executions \cup {Unclaimed} /\ NextExecution(k) \in Executions \cup {Unclaimed}
    BY NextExecutionType DEF Records
  <1> HIDE DEF saved
  <1>4. CASE k.pc = "respond"
    BY <1>2, <1>4 DEF Written, saved, Requests, Settled, Ended
  <1>5. CASE k.pc \in {"cancel", "failStale", "mark", "expire", "interrupt"}
    BY <1>2, <1>5 DEF Written, saved, Requests, Settled
  <1>6. CASE k.pc = "settle"
    BY <1>2, <1>6 DEF Written, saved, Requests, Settled, Ended
  <1>7. CASE k.pc = "claim"
    BY <1>2, <1>3, <1>7 DEF Written, saved, Requests
  <1>8. CASE k.pc = "release"
    BY <1>2, <1>8 DEF Written, saved, Requests
  <1>9. CASE k.pc = "recover"
    BY <1>2, <1>3, <1>9 DEF Written, saved, Requests
  <1> QED BY <1>4, <1>5, <1>6, <1>7, <1>8, <1>9 DEF PutPoints

-----------------------------------------------------------------------------
\* The types and the guards of the writes are kept by every step.

LEMMA InitBase == Init => Base
  <1> SUFFICES ASSUME Init PROVE Base
    OBVIOUS
  <1>1. req \in Requests
    <2>1. /\ {"pending"} \subseteq Settled \cup {"pending", "accepted", "executing"}
          /\ {1} \subseteq Nat /\ {"none"} \subseteq Responses \cup {"none"}
          /\ {Unclaimed} \subseteq Executions \cup {Unclaimed} /\ {FALSE} \subseteq BOOLEAN
          /\ {"none"} \subseteq {"none", "expired", "failed"}
      OBVIOUS
    <2> QED BY <2>1, Zenon DEF Init, Requests
  <1>2. call \in [Callers -> Records] /\ \A c \in Callers : call[c] = Idle
    BY IdleType DEF Init
  <1>3. Guards
    BY <1>2, IdleType DEF Guards, Guarded
  <1>4. /\ target \in [started : Nat, effect : BOOLEAN, record : {"none", "ok", "failed"},
                       by : Executions]
        /\ told \subseteq {"expired", "failed"}
        /\ seen \in [calls : Nat, outages : Nat, faults : Nat, reason : BOOLEAN,
                     attempt : BOOLEAN]
    BY DEF Init, Initial, Executions
  <1> QED BY <1>1, <1>2, <1>3, <1>4 DEF Base, TypeOK, Requests, Records

\* A step of a handler that ends its call, or goes on without a write.
LEMMA LeaveBase ==
  ASSUME Base, NEW c \in Callers, Leave(c), req' = req, Rest
  PROVE  Base'
  BY IdleType, QuietBase DEF Leave

LEMMA GoBase ==
  ASSUME Base, NEW c \in Callers, NEW k \in Records, Goto(c, k), Ended(k), ~k.put,
         req' = req, Rest
  PROVE  Base'
  BY QuietBase

LEMMA CheckBase ==
  ASSUME Base, NEW c \in Callers, NEW ok \in BOOLEAN, Check(c, ok), call[c].pc \in PutPoints,
         ok => call[c].version = req.version /\ Expected(call[c])
  PROVE  Base'
  <1>1. Rest /\ req' = req
    BY Unchanged DEF Check
  <1>2. CASE ~ok
    BY <1>1, <1>2, LeaveBase DEF Check
  <1>3. CASE ok
    <2> DEFINE k == [call[c] EXCEPT !.put = TRUE]
    <2>1. call[c] \in Records /\ Ended(call[c])
      BY CallType
    <2>2. /\ k \in Records /\ k.pc = call[c].pc /\ k.version = call[c].version
          /\ k.ending = call[c].ending /\ k.life = call[c].life
      BY <2>1 DEF Records
    <2>3. Goto(c, k)
      BY <1>3 DEF Check
    <2> HIDE DEF k
    <2>4. Ended(k) /\ Expected(k)
      BY <1>3, <2>1, <2>2 DEF Ended, Expected
    <2> QED BY <1>1, <1>3, <2>2, <2>3, <2>4, QuietBase
  <1> QED BY <1>2, <1>3

LEMMA AuthorizeBase ==
  ASSUME Base, NEW c \in Callers, NEW a \in Records, NEW b \in Records, NEW d \in Records,
         Authorize(c, a, b, d), Ended(a), Ended(b), Ended(d), ~a.put, ~b.put, ~d.put
  PROVE  Base'
  <1>1. req' = req /\ UNCHANGED <<target, told>>
    BY DEF Authorize
  <1>2. Rest
    <2>1. CASE UNCHANGED seen
      BY <1>1, <2>1, Unchanged
    <2>2. CASE seen' = [seen EXCEPT !.reason = TRUE]
      BY <1>1, <2>2 DEF Rest, Base, TypeOK
    <2>3. CASE Fault("outages")
      BY <1>1, <2>3, FaultType
    <2> QED BY <2>1, <2>2, <2>3 DEF Authorize
  <1> QED BY <1>1, <1>2, GoBase DEF Authorize

LEMMA PutBase ==
  ASSUME Base, NEW c \in Callers, Put(c)
  PROVE  Base'
  <1> DEFINE k == call[c]
  <1>1. k \in Records /\ Guarded(k) /\ Ended(k) /\ k.put /\ k.pc \in PutPoints
    BY CallType DEF Put, Guarded
  <1>2. UNCHANGED <<target, told>>
    BY DEF Put
  <1>3. CASE ~Conflict(k) /\ req' = Written(k) /\ Goto(c, AfterWrite(k)) /\ UNCHANGED seen
    <2>1. Rest
      BY <1>2, <1>3, Unchanged
    <2>2. req' \in Requests /\ req'.version = req.version + 1
      BY <1>1, <1>3, WrittenType
    <2>3. AfterWrite(k) \in Records /\ Ended(AfterWrite(k)) /\ ~AfterWrite(k).put
      BY <1>1, AfterWriteType
    <2>4. call' = [call EXCEPT ![c] = AfterWrite(k)] /\ call \in [Callers -> Records]
      BY <1>3 DEF Goto, Base, TypeOK, Records
    <2>5. call' \in [Callers -> Records]
      BY <2>3, <2>4
    <2>6. ASSUME NEW d \in Callers PROVE Guarded(call[d])' /\ Ended(call[d])'
      <3>1. CASE d = c
        BY <2>3, <2>4, <3>1 DEF Guarded, Ended
      <3>2. CASE d # c
        <4>1. call'[d] = call[d] /\ call[d] \in Records /\ Guarded(call[d]) /\ Ended(call[d])
          BY <2>4, <3>2, CallType
        <4>2. call[d].version \in Nat /\ req.version \in Nat
          BY <4>1 DEF Records, Base, TypeOK
        <4>3. call[d].put => call[d].version < req'.version
          BY <2>2, <4>1, <4>2 DEF Guarded
        <4> QED BY <4>1, <4>2, <4>3, <2>2 DEF Guarded, Ended
      <3> QED BY <3>1, <3>2
    <2> QED BY <2>1, <2>2, <2>5, <2>6 DEF Base, TypeOK, Guards, Rest, Records, Requests
  <1>4. CASE Fault("faults") /\ Leave(c) /\ UNCHANGED req
    BY <1>2, <1>4, FaultType, LeaveBase
  <1>5. CASE Goto(c, AfterReplay(k)) /\ UNCHANGED <<req, seen>>
    BY <1>1, <1>2, <1>5, Unchanged, AfterReplayType, GoBase
  <1>6. CASE Leave(c) /\ UNCHANGED <<req, seen>>
    BY <1>2, <1>6, Unchanged, LeaveBase
  <1> QED BY <1>3, <1>4, <1>5, <1>6 DEF Put

LEMMA ContinueBase ==
  ASSUME Base, NEW c \in Callers, Continue(c)
  PROVE  Base'
  <1> DEFINE k == call[c]
  <1>1. k \in Records /\ Guarded(k) /\ Ended(k)
    BY CallType
  <1>2. Failing(k) \in Records /\ Ended(Failing(k)) /\ Failing(k).put = k.put
    BY <1>1, FailingType
  <1>3. ASSUME NEW pc \in {"release", "reauth", "dispatch", "find", "recover", "failStale",
                           "claim"}
        PROVE  LET r == [k EXCEPT !.pc = pc] IN
               r \in Records /\ Ended(r) /\ r.put = k.put /\ r.pc = pc
    <2>1. pc \in Points
      BY DEF Points
    <2> QED BY <1>1, <2>1, Goes DEF Ended
  <1>4. ASSUME NEW r \in Records, Ended(r)
        PROVE  LET n == [r EXCEPT !.refused = TRUE] IN
               n \in Records /\ Ended(n) /\ n.put = r.put /\ n.pc = r.pc
    <2>1. LET n == [r EXCEPT !.refused = TRUE] IN
          /\ n \in Records /\ n.put = r.put /\ n.pc = r.pc /\ n.ending = r.ending
          /\ n.life = r.life
      BY DEF Records
    <2> QED BY <1>4, <2>1 DEF Ended
  <1> HIDE DEF k
  <1>5. CASE Put(c)
    BY <1>5, PutBase
  <1>6. CASE PreAuthorize(c)
    <2> DEFINE claim == [k EXCEPT !.pc = "claim"]
    <2>1. claim \in Records /\ Ended(claim) /\ ~claim.put
      BY <1>3, <1>6 DEF PreAuthorize, At, k
    <2>2. Authorize(c, claim, [claim EXCEPT !.refused = TRUE], Idle)
      BY <1>6 DEF PreAuthorize, k
    <2> HIDE DEF claim
    <2> QED BY <1>4, <2>1, <2>2, IdleType, AuthorizeBase
  <1>7. CASE ClaimExecution(c)
    <2>1. CASE Goto(c, Replayed(k)) /\ UNCHANGED <<req, used, target, told, seen>>
      BY <1>1, <2>1, ReplayedType, Unchanged, GoBase
    <2>2. CASE Check(c, req.status = "accepted" /\ ~req.over /\ req.version = k.version)
      <3>1. k.pc = "claim"
        BY <1>7 DEF ClaimExecution, At, k
      <3> QED BY <2>2, <3>1, CheckBase DEF Expected, PutPoints, k
    <2> QED BY <1>7, <2>1, <2>2 DEF ClaimExecution, k
  <1>8. CASE AssertExecutionClaim(c)
    <2>1. ~k.put /\ UNCHANGED <<req, used, target, told, seen>>
      BY <1>8 DEF AssertExecutionClaim, At, k
    <2>2. \/ Goto(c, [k EXCEPT !.pc = "release"]) \/ Goto(c, Failing(k))
          \/ Goto(c, [k EXCEPT !.pc = "reauth"])
      BY <1>8, Zenon DEF AssertExecutionClaim, k
    <2> QED BY <1>2, <1>3, <2>1, <2>2, Unchanged, GoBase
  <1>9. CASE Reauthorize(c)
    <2>1. ~k.put /\ Authorize(c, [k EXCEPT !.pc = "dispatch"], Failing(k),
                              [k EXCEPT !.pc = "release"])
      BY <1>9 DEF Reauthorize, At, k
    <2> QED BY <1>2, <1>3, <2>1, AuthorizeBase
  <1>10. CASE ReleaseExecutionClaim(c)
    <2>1. k.pc = "release" /\ Check(c, HoldsLease(k))
      BY <1>10 DEF ReleaseExecutionClaim, At, k
    <2> QED BY <2>1, CheckBase DEF Expected, PutPoints, HoldsLease, Holds, k
  <1>11. CASE Dispatch(c)
    <2> DEFINE ended(ok) ==
          [k EXCEPT !.pc = IF req.kind = "surface" THEN "record" ELSE "settle",
                    !.ending = IF ok THEN "completed" ELSE "failed"]
    <2>1. ~k.put /\ UNCHANGED <<req, used, told>> /\ seen' = [seen EXCEPT !.attempt = TRUE]
      BY <1>11 DEF Dispatch, At, k
    <2>2. ASSUME NEW ok \in BOOLEAN
          PROVE  ended(ok) \in Records /\ Ended(ended(ok)) /\ ~ended(ok).put
      <3> DEFINE pc == IF req.kind = "surface" THEN "record" ELSE "settle"
                 ending == IF ok THEN "completed" ELSE "failed"
      <3>1. pc \in Points /\ ending \in Endings /\ pc \in {"record", "settle"}
        BY DEF Points, Endings
      <3>2. ending \in {"completed", "failed"}
        OBVIOUS
      <3>3. ended(ok) = [k EXCEPT !.pc = pc, !.ending = ending]
        OBVIOUS
      <3> HIDE DEF pc, ending, ended
      <3>4. /\ ended(ok) \in Records /\ ended(ok).pc = pc /\ ended(ok).ending = ending
            /\ ended(ok).put = k.put
        BY <1>1, <3>1, <3>3 DEF Records
      <3> QED BY <2>1, <3>1, <3>2, <3>4 DEF Ended
    <2>3. CASE Goto(c, Failing(k)) /\ UNCHANGED target
      <3>1. Rest
        BY <2>1, <2>3 DEF Base, TypeOK, Rest
      <3> QED BY <1>2, <2>1, <2>3, <3>1, GoBase
    <2>4. ASSUME NEW ok \in BOOLEAN, NEW effect \in BOOLEAN, Goto(c, ended(ok)),
                 target' = [target EXCEPT !.started = @ + 1, !.effect = @ \/ effect]
          PROVE  Base'
      <3>1. target.started + 1 \in Nat /\ (target.effect \/ effect) \in BOOLEAN
        BY DEF Base, TypeOK
      <3>2. Rest
        BY <2>1, <2>4, <3>1 DEF Base, TypeOK, Rest
      <3> HIDE DEF ended
      <3> QED BY <2>1, <2>2, <2>4, <3>2, GoBase
    <2> QED BY <1>11, <2>3, <2>4 DEF Dispatch, k
  <1>12. CASE RecordInteraction(c)
    <2>1. ~k.put /\ k.pc = "record" /\ UNCHANGED <<req, used, told, seen>>
      BY <1>12 DEF RecordInteraction, At, k
    <2>2. CASE Goto(c, Failing(k)) /\ UNCHANGED target
      BY <1>2, <2>1, <2>2, Unchanged, GoBase
    <2>3. CASE /\ Goto(c, [k EXCEPT !.pc = "settle"])
               /\ target' = [target EXCEPT
                               !.record = IF k.ending = "completed" THEN "ok" ELSE "failed",
                               !.by = k.x]
      <3>1. k.ending \in {"completed", "failed"} /\ k.x \in Executions
        BY <1>1, <2>1 DEF Ended, Records
      <3>2. Rest
        BY <2>1, <2>3, <3>1 DEF Base, TypeOK, Rest
      <3>3. "settle" \in Points
        BY DEF Points
      <3>4. LET r == [k EXCEPT !.pc = "settle"] IN
            r \in Records /\ r.pc = "settle" /\ r.put = k.put /\ r.ending = k.ending
        BY <1>1, <3>3, Goes
      <3>5. Ended([k EXCEPT !.pc = "settle"])
        BY <3>1, <3>4 DEF Ended
      <3> QED BY <2>1, <2>3, <3>2, <3>4, <3>5, GoBase
    <2> QED BY <1>12, <2>2, <2>3 DEF RecordInteraction, k
  <1>13. CASE SettleExecution(c)
    <2>1. k.pc = "settle" /\ Check(c, HoldsLease(k))
      BY <1>13 DEF SettleExecution, At, k
    <2> QED BY <2>1, CheckBase DEF Expected, PutPoints, HoldsLease, Holds, k
  <1>14. CASE ReauthorizeReplay(c)
    <2> DEFINE refused == [k EXCEPT !.refused = TRUE]
    <2>1. refused \in Records /\ Ended(refused) /\ ~refused.put
      BY <1>1, <1>4, <1>14 DEF ReauthorizeReplay, At, k
    <2>2. [k EXCEPT !.pc = "find"] \in Records /\ Ended([k EXCEPT !.pc = "find"])
          /\ ~[k EXCEPT !.pc = "find"].put
      BY <1>3, <1>14 DEF ReauthorizeReplay, At, k
    <2>3. Authorize(c, [k EXCEPT !.pc = "find"],
                    IF StaleClaim(k) THEN [refused EXCEPT !.pc = "recover"]
                    ELSE Failing(refused), Idle)
      BY <1>14 DEF ReauthorizeReplay, k
    <2> HIDE DEF refused
    <2>4. [refused EXCEPT !.pc = "recover"] \in Records
          /\ Ended([refused EXCEPT !.pc = "recover"]) /\ ~[refused EXCEPT !.pc = "recover"].put
      <3>1. "recover" \in Points
        BY DEF Points
      <3> QED BY <2>1, <3>1, Goes DEF Ended
    <2>5. Failing(refused) \in Records /\ Ended(Failing(refused)) /\ ~Failing(refused).put
      BY <2>1, FailingType
    <2> QED BY <2>2, <2>3, <2>4, <2>5, IdleType, AuthorizeBase
  <1>15. CASE FindTargetResult(c)
    <2> DEFINE settle == [k EXCEPT !.pc = "settle",
                                   !.ending = IF FoundResult(k) THEN "completed" ELSE "failed"]
    <2>1. ~k.put /\ UNCHANGED <<req, used, target, told, seen>>
      BY <1>15 DEF FindTargetResult, At, k
    <2>2. settle \in Records /\ Ended(settle) /\ ~settle.put
      <3> DEFINE ending == IF FoundResult(k) THEN "completed" ELSE "failed"
      <3>1. ending \in Endings /\ ending \in {"completed", "failed"} /\ "settle" \in Points
        BY DEF Endings, Points
      <3>2. settle = [k EXCEPT !.pc = "settle", !.ending = ending]
        OBVIOUS
      <3> HIDE DEF ending, settle
      <3>3. settle \in Records /\ settle.pc = "settle" /\ settle.ending = ending /\ ~settle.put
        BY <1>1, <2>1, <3>1, <3>2 DEF Records
      <3> QED BY <3>1, <3>3 DEF Ended
    <2>3. k.recovered \in BOOLEAN
      BY <1>1 DEF Records
    <2>4. Goto(c, settle) \/ Goto(c, [k EXCEPT !.pc = "recover"]) \/ Goto(c, Idle)
      BY <1>15, <2>3 DEF FindTargetResult, k
    <2> HIDE DEF settle
    <2> QED BY <1>3, <2>1, <2>2, <2>4, IdleType, Unchanged, GoBase
  <1>16. CASE RecoverExecution(c)
    <2>1. ~k.put /\ k.pc = "recover"
      BY <1>16 DEF RecoverExecution, At, k
    <2>2. CASE Goto(c, AfterReplay(k)) /\ UNCHANGED <<req, used, target, told, seen>>
      BY <1>1, <2>2, AfterReplayType, Unchanged, GoBase
    <2>3. CASE Goto(c, [k EXCEPT !.pc = "failStale"])
               /\ UNCHANGED <<req, used, target, told, seen>>
      BY <1>3, <2>1, <2>3, Unchanged, GoBase
    <2>4. CASE Check(c, Holds(k) /\ req.stale)
      BY <2>1, <2>4, CheckBase DEF Expected, PutPoints, Holds, k, Base, TypeOK
    <2> QED BY <1>16, <2>2, <2>3, <2>4 DEF RecoverExecution, k
  <1>17. CASE FailStaleExecution(c)
    <2>1. k.pc = "failStale" /\ Check(c, Holds(k) /\ req.stale)
      BY <1>17 DEF FailStaleExecution, At, k
    <2> QED BY <2>1, CheckBase DEF Expected, PutPoints, Holds, k, Base, TypeOK
  <1>18. CASE Emit(c)
    <2>1. k.pc = "emit" /\ ~k.put /\ Goto(c, [k EXCEPT !.pc = "mark"])
          /\ told' = told \cup {k.ending} /\ UNCHANGED <<req, target, seen>>
      BY <1>18 DEF Emit, At, k
    <2>2. k.ending \in {"expired", "failed"} /\ "mark" \in Points
      BY <1>1, <2>1 DEF Ended, Points
    <2>3. Rest
      BY <2>1, <2>2 DEF Base, TypeOK, Rest
    <2>4. LET r == [k EXCEPT !.pc = "mark"] IN
          r \in Records /\ r.pc = "mark" /\ r.put = k.put /\ r.ending = k.ending
      BY <1>1, <2>2, Goes
    <2>5. Ended([k EXCEPT !.pc = "mark"])
      BY <2>2, <2>4 DEF Ended
    <2> QED BY <2>1, <2>3, <2>4, <2>5, GoBase
  <1>19. CASE MarkMaintenanceEventDelivered(c)
    <2>1. k.pc = "mark" /\ Check(c, ~req.delivered /\ req.version = k.version)
      BY <1>19 DEF MarkMaintenanceEventDelivered, At, k
    <2> QED BY <2>1, CheckBase DEF Expected, PutPoints, k, Base, TypeOK
  <1> QED BY <1>5, <1>6, <1>7, <1>8, <1>9, <1>10, <1>11, <1>12, <1>13, <1>14, <1>15, <1>16,
             <1>17, <1>18, <1>19 DEF Continue

LEMMA NextBase == Base /\ [Next]_vars => Base'
  <1> SUFFICES ASSUME Base, [Next]_vars PROVE Base'
    OBVIOUS
  <1>1. ASSUME NEW c \in Clients, NEW r \in Responses, NEW answer \in {"approve", "deny"},
               Respond(c, r, answer)
        PROVE  Base'
    <2> DEFINE k == [Idle EXCEPT !.pc = "respond", !.life = r, !.ending = answer,
                                 !.version = req.version]
    <2>1. c \in Callers /\ req.version \in Nat
      BY DEF Callers, Base, TypeOK
    <2>2. /\ k \in Records /\ k.version = req.version /\ k.pc = "respond" /\ k.life = r
          /\ ~k.put
      <3>1. /\ "respond" \in Points /\ answer \in Endings
            /\ r \in Responses \cup {"none", "tick"}
        BY DEF Points, Endings
      <3> QED BY <2>1, <3>1, IdleType DEF Records
    <2>3. Rest /\ req' = req
      BY <1>1 DEF Respond, Base, TypeOK, Rest
    <2>4. \/ req.status = "pending" /\ Goto(c, [k EXCEPT !.put = TRUE])
          \/ Goto(c, [k EXCEPT !.pc = "preauth", !.ending = "none"])
      BY <1>1 DEF Respond
    <2> HIDE DEF k
    <2>5. /\ [k EXCEPT !.put = TRUE] \in Records /\ [k EXCEPT !.put = TRUE].pc = "respond"
          /\ [k EXCEPT !.put = TRUE].version = req.version
          /\ [k EXCEPT !.put = TRUE].life = r
      BY <2>2 DEF Records
    <2>6. /\ [k EXCEPT !.pc = "preauth", !.ending = "none"] \in Records
          /\ [k EXCEPT !.pc = "preauth", !.ending = "none"].pc = "preauth"
          /\ ~[k EXCEPT !.pc = "preauth", !.ending = "none"].put
      BY <2>2 DEF Records, Points, Endings
    <2>7. CASE req.status = "pending" /\ Goto(c, [k EXCEPT !.put = TRUE])
      <3>1. Expected([k EXCEPT !.put = TRUE]) /\ Ended([k EXCEPT !.put = TRUE])
        BY <2>5, <2>7 DEF Expected, Ended
      <3> QED BY <2>1, <2>3, <2>5, <2>7, <3>1, QuietBase DEF PutPoints
    <2>8. CASE Goto(c, [k EXCEPT !.pc = "preauth", !.ending = "none"])
      <3>1. Ended([k EXCEPT !.pc = "preauth", !.ending = "none"])
        BY <2>6 DEF Ended
      <3> QED BY <2>1, <2>3, <2>6, <2>8, <3>1, GoBase
    <2> QED BY <2>4, <2>7, <2>8
  <1>2. ASSUME NEW c \in Clients, NEW r \in Responses, Cancel(c, r)
        PROVE  Base'
    <2> DEFINE k == [Idle EXCEPT !.pc = "cancel", !.put = TRUE, !.life = r,
                                 !.version = req.version]
    <2>1. c \in Callers /\ req.version \in Nat
      BY DEF Callers, Base, TypeOK
    <2>2. k \in Records /\ k.version = req.version /\ k.pc = "cancel"
      <3>1. "cancel" \in Points /\ r \in Responses \cup {"none", "tick"}
        BY DEF Points
      <3> QED BY <2>1, <3>1, IdleType DEF Records
    <2>3. Rest /\ req' = req
      BY <1>2 DEF Cancel, Base, TypeOK, Rest
    <2>4. req.status = "pending" /\ Goto(c, k)
      BY <1>2 DEF Cancel
    <2> HIDE DEF k
    <2>5. Expected(k) /\ Ended(k)
      BY <2>2, <2>4 DEF Expected, Ended
    <2> QED BY <2>1, <2>2, <2>3, <2>4, <2>5, QuietBase DEF PutPoints
  <1>3. ASSUME NEW t \in Ticks, StartTick(t)
        PROVE  Base'
    <2> DEFINE k == [Idle EXCEPT !.life = "tick", !.version = req.version,
                                 !.x = IF req.exec = Unclaimed THEN Initial ELSE req.exec]
               to(pc, ending, put) == [k EXCEPT !.pc = pc, !.ending = ending, !.put = put]
    <2>1. t \in Callers /\ req.version \in Nat /\ Rest /\ req' = req
      BY <1>3, Unchanged DEF StartTick, Callers, Base, TypeOK
    <2>2. k \in Records /\ k.version = req.version
      <3>1. (IF req.exec = Unclaimed THEN Initial ELSE req.exec) \in Executions
        BY DEF Base, TypeOK, Initial, Executions
      <3> QED BY <2>1, <3>1, IdleType DEF Records
    <2>3. \/ req.event # "none" /\ Goto(t, to("emit", req.event, FALSE))
          \/ /\ req.status \in {"pending", "accepted"}
             /\ Goto(t, to("expire", "expired", TRUE))
          \/ req.status = "executing" /\ Goto(t, to("interrupt", "failed", TRUE))
          \/ Goto(t, to("preauth", "none", FALSE))
      BY <1>3 DEF StartTick
    <2> HIDE DEF k
    <2>5. /\ "emit" \in Points /\ "expire" \in Points /\ "interrupt" \in Points
          /\ "preauth" \in Points /\ "none" \in Endings /\ "expired" \in Endings
          /\ "failed" \in Endings /\ TRUE \in BOOLEAN /\ FALSE \in BOOLEAN
      BY DEF Points, Endings
    <2>6. CASE req.event # "none" /\ Goto(t, to("emit", req.event, FALSE))
      <3>1. req.event \in {"expired", "failed"} /\ req.event \in Endings
        BY <2>6 DEF Base, TypeOK, Endings
      <3>2. LET r == to("emit", req.event, FALSE) IN
            r \in Records /\ r.pc = "emit" /\ r.ending = req.event /\ ~r.put
        BY <2>2, <2>5, <3>1 DEF Records
      <3>3. Ended(to("emit", req.event, FALSE))
        BY <3>1, <3>2 DEF Ended
      <3> QED BY <2>1, <2>6, <3>2, <3>3, GoBase
    <2>7. CASE /\ req.status \in {"pending", "accepted"}
               /\ Goto(t, to("expire", "expired", TRUE))
      <3>1. LET r == to("expire", "expired", TRUE) IN
            /\ r \in Records /\ r.pc = "expire" /\ r.ending = "expired"
            /\ r.version = req.version
        BY <2>2, <2>5 DEF Records
      <3>2. Ended(to("expire", "expired", TRUE)) /\ Expected(to("expire", "expired", TRUE))
        BY <2>7, <3>1 DEF Ended, Expected
      <3> QED BY <2>1, <2>7, <3>1, <3>2, QuietBase DEF PutPoints
    <2>8. CASE req.status = "executing" /\ Goto(t, to("interrupt", "failed", TRUE))
      <3>1. LET r == to("interrupt", "failed", TRUE) IN
            /\ r \in Records /\ r.pc = "interrupt" /\ r.ending = "failed"
            /\ r.version = req.version
        BY <2>2, <2>5 DEF Records
      <3>2. /\ Ended(to("interrupt", "failed", TRUE))
            /\ Expected(to("interrupt", "failed", TRUE))
        BY <2>8, <3>1 DEF Ended, Expected
      <3> QED BY <2>1, <2>8, <3>1, <3>2, QuietBase DEF PutPoints
    <2>9. CASE Goto(t, to("preauth", "none", FALSE))
      <3>1. LET r == to("preauth", "none", FALSE) IN
            r \in Records /\ r.pc = "preauth" /\ ~r.put
        BY <2>2, <2>5 DEF Records
      <3>2. Ended(to("preauth", "none", FALSE))
        BY <3>1 DEF Ended
      <3> QED BY <2>1, <2>9, <3>1, <3>2, GoBase
    <2> QED BY <2>3, <2>6, <2>7, <2>8, <2>9
  <1>4. ASSUME NEW c \in Callers, Die(c)
        PROVE  Base'
    BY <1>4, FaultType, LeaveBase DEF Die
  <1>5. ASSUME \/ TimeRunsOut \/ LeaseRunsOut \/ UNCHANGED vars
        PROVE  Base'
    <2>1. /\ call' = call /\ Rest /\ req'.status = req.status /\ req'.version = req.version
          /\ req' \in Requests
      BY <1>5 DEF TimeRunsOut, LeaseRunsOut, vars, Base, TypeOK, Rest, Requests
    <2>2. Guards'
      BY <2>1 DEF Base, Guards, Guarded, Ended, Expected
    <2> QED BY <2>1, <2>2 DEF Base, TypeOK, Rest, Requests
  <1> QED BY <1>1, <1>2, <1>3, <1>4, <1>5, ContinueBase DEF Next

\* Every variable keeps its type, through every call, tick, death and timeout.
THEOREM TypeCorrect == Spec => []TypeOK
  <1>1. Base => TypeOK
    BY DEF Base
  <1> QED BY <1>1, InitBase, NextBase, PTL DEF Spec

-----------------------------------------------------------------------------
\* What a step may do, in the terms of the safety properties.

\* Where a handler is that claimed the execution and has not ended the attempt.
Attempting == {"assert", "reauth", "release", "dispatch", "record"}

\* The call of c becomes k and nothing else changes: it begins no attempt,
\* completes only what it found completed, and emits only what is recorded.
Quiet(c, k) ==
    /\ Goto(c, k)
    /\ k.pc \in Attempting => k.pc # "record" /\ call[c].pc \in Attempting \ {"record"}
    /\ k.pc = "settle" /\ k.ending = "completed" =>
         \/ target.record = "ok"
         \/ call[c].pc = "settle" /\ call[c].ending = "completed"
    /\ k.pc = "emit" => req.event = k.ending /\ k.ending \in {"expired", "failed"}
    /\ req' = req /\ UNCHANGED <<target, told>>

\* The compare-and-set of c succeeds.
Commits(c) ==
    /\ call[c].put /\ call[c].pc \in PutPoints /\ Expected(call[c])
    /\ req' = Written(call[c]) /\ Goto(c, AfterWrite(call[c]))
    /\ UNCHANGED <<target, told>>

\* The action is called.
Runs(c) ==
    /\ call[c].pc = "dispatch"
    /\ \E k \in Records, effect \in BOOLEAN :
         /\ Goto(c, k)
         /\ k.pc = IF req.kind = "surface" THEN "record" ELSE "settle"
         /\ k.ending = "completed" => effect
         /\ target' = [target EXCEPT !.started = @ + 1, !.effect = @ \/ effect]
    /\ req' = req /\ told' = told

\* Its interaction record is saved.
Saves(c) ==
    /\ call[c].pc = "record" /\ Goto(c, [call[c] EXCEPT !.pc = "settle"])
    /\ target' = [target EXCEPT !.record = IF call[c].ending = "completed" THEN "ok" ELSE "failed",
                                !.by = call[c].x]
    /\ req' = req /\ told' = told

Tells(c) ==
    /\ call[c].pc = "emit" /\ Goto(c, [call[c] EXCEPT !.pc = "mark"])
    /\ told' = told \cup {call[c].ending} /\ UNCHANGED <<req, target>>

Waits ==
    /\ req'.status = req.status /\ req'.event = req.event /\ req'.kind = req.kind
    /\ UNCHANGED <<call, target, told>>

StepOf(c) ==
    \/ \E k \in Records : Quiet(c, k)
    \/ Commits(c) \/ Runs(c) \/ Saves(c) \/ Tells(c)

LEMMA ReplayedQuiet ==
  ASSUME NEW k, Replayed(k).pc \in Attempting \cup {"emit", "settle"}
  PROVE  Replayed(k).pc = "settle" /\ Replayed(k).ending = "failed"
  BY DEF Replayed, Failing, Attempting, Idle

LEMMA RefusedSettles ==
  ASSUME NEW k \in Records
  PROVE  Failing(k).pc = "settle" /\ Failing(k).ending = "failed"
  BY DEF Failing, Records

LEMMA LeaveQuiet ==
  ASSUME NEW c \in Callers, Leave(c), req' = req, UNCHANGED <<target, told>>
  PROVE  StepOf(c)
  <1>1. Quiet(c, Idle)
    BY IdleType DEF Quiet, Leave, Attempting
  <1> QED BY <1>1, IdleType DEF StepOf

\* A call that goes on elsewhere than to a settlement or an event.
LEMMA GoQuiet ==
  ASSUME NEW c \in Callers, NEW k \in Records, Goto(c, k), req' = req,
         UNCHANGED <<target, told>>, k.pc \notin {"record", "emit"},
         k.pc \in Attempting => call[c].pc \in Attempting \ {"record"},
         k.pc = "settle" => k.ending = "failed"
  PROVE  StepOf(c)
  <1>1. Quiet(c, k)
    BY DEF Quiet, Attempting
  <1> QED BY <1>1 DEF StepOf

LEMMA CheckQuiet ==
  ASSUME Base, NEW c \in Callers, NEW ok \in BOOLEAN, Check(c, ok),
         call[c].pc \notin {"record", "emit"}
  PROVE  StepOf(c)
  <1>1. req' = req /\ UNCHANGED <<target, told>>
    BY DEF Check
  <1>2. CASE ~ok
    BY <1>1, <1>2, LeaveQuiet DEF Check
  <1>3. CASE ok
    <2> DEFINE k == [call[c] EXCEPT !.put = TRUE]
    <2>1. Goto(c, k)
      BY <1>3 DEF Check
    <2>2. k \in Records /\ k.pc = call[c].pc /\ k.ending = call[c].ending
      BY CallType DEF Records
    <2> HIDE DEF k
    <2>3. Quiet(c, k)
      BY <1>1, <2>1, <2>2 DEF Quiet, Attempting
    <2> QED BY <2>2, <2>3 DEF StepOf
  <1> QED BY <1>2, <1>3

LEMMA RecoveredGoes ==
  ASSUME NEW k \in Records, k.pc = "recover"
  PROVE  /\ AfterReplay(k).pc \in {"settle", "find"}
         /\ AfterReplay(k).pc = "settle" => AfterReplay(k).ending = "failed"
  <1> DEFINE on == [k EXCEPT !.put = FALSE, !.version = @ + 1]
             to == IF k.refused THEN Failing(on) ELSE [on EXCEPT !.pc = "find"]
             r == AfterReplay(k)
  <1>1. on \in Records
    <2>1. k.version + 1 \in Nat
      BY DEF Records
    <2> QED BY <2>1 DEF Records
  <1>2. r = [[to EXCEPT !.x = NextExecution(k), !.recovered = TRUE] EXCEPT !.version = req.version]
    BY DEF AfterReplay, AfterWrite
  <1> HIDE DEF on
  <1>3. to \in Records /\ to.pc \in {"settle", "find"} /\ (to.pc = "settle" => to.ending = "failed")
    BY <1>1, FailingType, RefusedSettles DEF Records, Points
  <1> HIDE DEF to, r
  <1>4. r.pc = to.pc /\ r.ending = to.ending
    BY <1>2, <1>3 DEF Records
  <1> QED BY <1>3, <1>4 DEF r

LEMMA PutStep ==
  ASSUME Base, NEW c \in Callers, Put(c)
  PROVE  StepOf(c)
  <1> DEFINE k == call[c]
  <1>1. k \in Records /\ Guarded(k) /\ Ended(k) /\ k.put /\ k.pc \in PutPoints
    BY CallType DEF Put, Guarded
  <1>2. UNCHANGED <<target, told>>
    BY DEF Put
  <1>3. CASE ~Conflict(k) /\ req' = Written(k) /\ Goto(c, AfterWrite(k)) /\ UNCHANGED seen
    <2>1. Expected(k)
      BY <1>1, <1>3 DEF Guarded, Conflict
    <2> QED BY <1>1, <1>2, <1>3, <2>1 DEF StepOf, Commits
  <1>4. CASE Leave(c) /\ UNCHANGED req
    BY <1>2, <1>4, LeaveQuiet
  <1>5. CASE Goto(c, AfterReplay(k)) /\ AlreadyThere(k) /\ UNCHANGED <<req, seen>>
    <2> DEFINE r == AfterReplay(k)
    <2>1. r \in Records
      BY <1>1, AfterReplayType
    <2>2. /\ r.pc \notin Attempting
          /\ r.pc = "settle" => r.ending = "failed"
          /\ r.pc = "emit" => req.event = r.ending /\ r.ending \in {"expired", "failed"}
      <3>1. CASE k.pc = "claim"
        <4>1. r = Replayed(k)
          BY <3>1 DEF AfterReplay
        <4> HIDE DEF r
        <4> QED BY <4>1, ReplayedQuiet DEF Attempting
      <3>2. CASE k.pc = "recover"
        BY <1>1, <3>2, RecoveredGoes DEF Attempting
      <3>3. CASE k.pc = "respond" /\ req.status = "accepted"
        <4>1. r.pc = "preauth"
          BY <1>1, <3>3 DEF AfterReplay, Records
        <4> HIDE DEF r
        <4> QED BY <4>1 DEF Attempting
      <3>4. CASE k.pc \in {"expire", "interrupt"} /\ ~req.delivered
        <4>1. r.pc = "emit" /\ r.ending = k.ending
          BY <1>1, <3>4 DEF AfterReplay, Records
        <4>2. req.event = k.ending /\ k.ending \in {"expired", "failed"}
          BY <1>1, <1>5, <3>4 DEF AlreadyThere, Ended
        <4> HIDE DEF r
        <4> QED BY <4>1, <4>2 DEF Attempting
      <3>5. CASE /\ k.pc \notin {"claim", "recover"}
                 /\ ~(k.pc = "respond" /\ req.status = "accepted")
                 /\ ~(k.pc \in {"expire", "interrupt"} /\ ~req.delivered)
        <4>1. r = Idle
          BY <3>5 DEF AfterReplay
        <4> QED BY <4>1, IdleType DEF Attempting
      <3> QED BY <3>1, <3>2, <3>3, <3>4, <3>5
    <2> HIDE DEF r
    <2>3. Goto(c, r)
      BY <1>5 DEF r
    <2>4. Quiet(c, r)
      BY <1>2, <1>5, <2>2, <2>3 DEF Quiet
    <2> QED BY <2>1, <2>4 DEF StepOf
  <1> QED BY <1>3, <1>4, <1>5 DEF Put

LEMMA AuthorizeQuiet ==
  ASSUME NEW c \in Callers, NEW a \in Records, NEW b \in Records, NEW d \in Records,
         Authorize(c, a, b, d),
         \A k \in {a, b, d} :
           /\ k.pc \notin {"record", "emit"}
           /\ k.pc \in Attempting => call[c].pc \in Attempting \ {"record"}
           /\ k.pc = "settle" => k.ending = "failed"
  PROVE  StepOf(c)
  BY GoQuiet DEF Authorize

LEMMA ContinueStep ==
  ASSUME Base, NEW c \in Callers, Continue(c)
  PROVE  StepOf(c)
  <1> DEFINE k == call[c]
  <1>1. k \in Records /\ Ended(k)
    BY CallType
  <1>2. /\ Failing(k) \in Records /\ Failing(k).pc = "settle"
        /\ Failing(k).ending = "failed"
    BY <1>1, FailingType, RefusedSettles
  <1>3. ASSUME NEW pc \in {"release", "reauth", "dispatch", "find", "recover", "failStale",
                           "claim"}
        PROVE  [k EXCEPT !.pc = pc] \in Records /\ [k EXCEPT !.pc = pc].pc = pc
    <2>1. pc \in Points
      BY DEF Points
    <2> QED BY <1>1, <2>1, Goes
  <1>4. [k EXCEPT !.refused = TRUE] \in Records
    BY <1>1 DEF Records
  <1> HIDE DEF k
  <1>5. CASE Put(c)
    BY <1>5, PutStep
  <1>6. CASE PreAuthorize(c)
    <2> DEFINE claim == [k EXCEPT !.pc = "claim"]
    <2>1. claim \in Records /\ claim.pc = "claim"
      BY <1>3
    <2>2. Authorize(c, claim, [claim EXCEPT !.refused = TRUE], Idle)
      BY <1>6 DEF PreAuthorize, k
    <2> HIDE DEF claim
    <2>3. /\ [claim EXCEPT !.refused = TRUE] \in Records
          /\ [claim EXCEPT !.refused = TRUE].pc = "claim"
      BY <2>1 DEF Records
    <2> QED BY <2>1, <2>2, <2>3, IdleType, AuthorizeQuiet DEF Attempting
  <1>7. CASE ClaimExecution(c)
    <2>1. CASE Goto(c, Replayed(k)) /\ UNCHANGED <<req, used, target, told, seen>>
      BY <1>1, <2>1, ReplayedType, ReplayedQuiet, GoQuiet DEF Attempting
    <2>2. CASE Check(c, req.status = "accepted" /\ ~req.over /\ req.version = k.version)
      BY <1>7, <2>2, CheckQuiet DEF ClaimExecution, At, Base, TypeOK
    <2> QED BY <1>7, <2>1, <2>2 DEF ClaimExecution, k
  <1>8. CASE AssertExecutionClaim(c)
    <2>1. k.pc = "assert" /\ UNCHANGED <<req, used, target, told, seen>>
      BY <1>8 DEF AssertExecutionClaim, At, k
    <2>2. \/ Goto(c, [k EXCEPT !.pc = "release"]) \/ Goto(c, Failing(k))
          \/ Goto(c, [k EXCEPT !.pc = "reauth"])
      BY <1>8, Zenon DEF AssertExecutionClaim, k
    <2> QED BY <1>2, <1>3, <2>1, <2>2, GoQuiet DEF Attempting, k
  <1>9. CASE Reauthorize(c)
    <2>1. k.pc = "reauth" /\ Authorize(c, [k EXCEPT !.pc = "dispatch"], Failing(k),
                                       [k EXCEPT !.pc = "release"])
      BY <1>9 DEF Reauthorize, At, k
    <2> QED BY <1>2, <1>3, <2>1, AuthorizeQuiet DEF Attempting, k
  <1>10. CASE ReleaseExecutionClaim(c)
    BY <1>10, CheckQuiet DEF ReleaseExecutionClaim, At, HoldsLease, Holds, Base, TypeOK
  <1>11. CASE Dispatch(c)
    <2> DEFINE pc == IF req.kind = "surface" THEN "record" ELSE "settle"
               ended(ok) == [k EXCEPT !.pc = pc, !.ending = IF ok THEN "completed" ELSE "failed"]
    <2>1. k.pc = "dispatch" /\ UNCHANGED <<req, used, told>>
      BY <1>11 DEF Dispatch, At, k
    <2>2. CASE Goto(c, Failing(k)) /\ UNCHANGED target
      BY <1>2, <2>1, <2>2, GoQuiet DEF Attempting
    <2>3. ASSUME NEW ok \in BOOLEAN, NEW effect \in BOOLEAN, ok => effect, Goto(c, ended(ok)),
                 target' = [target EXCEPT !.started = @ + 1, !.effect = @ \/ effect]
          PROVE  Runs(c)
      <3> DEFINE ending == IF ok THEN "completed" ELSE "failed"
                 r == [k EXCEPT !.pc = pc, !.ending = ending]
      <3>1. pc \in Points /\ ending \in Endings /\ (ending = "completed" => effect)
        BY <2>3 DEF Points, Endings
      <3>2. Goto(c, r)
        BY <2>3
      <3> HIDE DEF pc, ending
      <3>3. r \in Records /\ r.pc = pc /\ r.ending = ending
        BY <1>1, <3>1 DEF Records
      <3> HIDE DEF r
      <3> QED BY <2>1, <2>3, <3>1, <3>2, <3>3 DEF Runs, pc, k
    <2> QED BY <1>11, <2>2, <2>3 DEF Dispatch, StepOf, k
  <1>12. CASE RecordInteraction(c)
    <2>1. CASE Goto(c, Failing(k)) /\ UNCHANGED target
      BY <1>2, <1>12, <2>1, GoQuiet DEF RecordInteraction, Attempting
    <2>2. CASE Saves(c)
      BY <2>2 DEF StepOf
    <2> QED BY <1>12, <2>1, <2>2 DEF RecordInteraction, At, Saves, k
  <1>13. CASE SettleExecution(c)
    BY <1>13, CheckQuiet DEF SettleExecution, At, HoldsLease, Holds, Base, TypeOK
  <1>14. CASE ReauthorizeReplay(c)
    <2> DEFINE refused == [k EXCEPT !.refused = TRUE]
    <2>1. refused \in Records
      BY <1>4
    <2>2. [k EXCEPT !.pc = "find"] \in Records /\ [k EXCEPT !.pc = "find"].pc = "find"
      BY <1>3
    <2>3. Authorize(c, [k EXCEPT !.pc = "find"],
                    IF StaleClaim(k) THEN [refused EXCEPT !.pc = "recover"]
                    ELSE Failing(refused), Idle)
      BY <1>14 DEF ReauthorizeReplay, k
    <2> HIDE DEF refused
    <2>4. [refused EXCEPT !.pc = "recover"] \in Records
          /\ [refused EXCEPT !.pc = "recover"].pc = "recover"
      <3>1. "recover" \in Points
        BY DEF Points
      <3> QED BY <2>1, <3>1, Goes
    <2>5. Failing(refused) \in Records /\ Failing(refused).pc = "settle"
          /\ Failing(refused).ending = "failed"
      BY <2>1, FailingType, RefusedSettles
    <2> QED BY <2>2, <2>3, <2>4, <2>5, IdleType, AuthorizeQuiet DEF Attempting
  <1>15. CASE FindTargetResult(c)
    <2> DEFINE ending == IF FoundResult(k) THEN "completed" ELSE "failed"
               settle == [k EXCEPT !.pc = "settle", !.ending = ending]
    <2>1. UNCHANGED <<req, used, target, told, seen>>
      BY <1>15 DEF FindTargetResult
    <2>2. ending \in Endings /\ "settle" \in Points
          /\ (ending = "completed" => target.record = "ok")
      BY DEF Endings, Points, FoundResult
    <2>3. k.recovered \in BOOLEAN
      BY <1>1 DEF Records
    <2>4. Goto(c, settle) \/ Goto(c, [k EXCEPT !.pc = "recover"]) \/ Goto(c, Idle)
      BY <1>15, <2>3 DEF FindTargetResult, k
    <2> HIDE DEF ending
    <2>5. settle \in Records /\ settle.pc = "settle" /\ settle.ending = ending
      BY <1>1, <2>2 DEF Records
    <2> HIDE DEF settle
    <2>6. CASE Goto(c, settle)
      <3>1. Quiet(c, settle)
        BY <2>1, <2>2, <2>5, <2>6 DEF Quiet, Attempting
      <3> QED BY <2>5, <3>1 DEF StepOf
    <2> QED BY <1>3, <2>1, <2>4, <2>6, IdleType, GoQuiet DEF Attempting
  <1>16. CASE RecoverExecution(c)
    <2>1. k.pc = "recover"
      BY <1>16 DEF RecoverExecution, At, k
    <2>2. CASE Goto(c, AfterReplay(k)) /\ UNCHANGED <<req, used, target, told, seen>>
      <3>1. AfterReplay(k) \in Records
        BY <1>1, AfterReplayType
      <3>2. /\ AfterReplay(k).pc \in {"settle", "find"}
            /\ AfterReplay(k).pc = "settle" => AfterReplay(k).ending = "failed"
        BY <1>1, <2>1, RecoveredGoes
      <3> QED BY <2>2, <3>1, <3>2, GoQuiet DEF Attempting
    <2>3. CASE Goto(c, [k EXCEPT !.pc = "failStale"])
               /\ UNCHANGED <<req, used, target, told, seen>>
      BY <1>3, <2>3, GoQuiet DEF Attempting
    <2>4. CASE Check(c, Holds(k) /\ req.stale)
      BY <2>1, <2>4, CheckQuiet DEF Holds, k, Base, TypeOK
    <2> QED BY <1>16, <2>2, <2>3, <2>4 DEF RecoverExecution, k
  <1>17. CASE FailStaleExecution(c)
    BY <1>17, CheckQuiet DEF FailStaleExecution, At, Holds, Base, TypeOK
  <1>18. CASE Emit(c)
    BY <1>18 DEF Emit, At, Tells, StepOf
  <1>19. CASE MarkMaintenanceEventDelivered(c)
    BY <1>19, CheckQuiet DEF MarkMaintenanceEventDelivered, At, Base, TypeOK
  <1> QED BY <1>5, <1>6, <1>7, <1>8, <1>9, <1>10, <1>11, <1>12, <1>13, <1>14, <1>15, <1>16,
             <1>17, <1>18, <1>19 DEF Continue

\* Every step is a step of one handler, or time passes.
LEMMA Steps ==
  ASSUME Base, [Next]_vars
  PROVE  Waits \/ \E c \in Callers : StepOf(c)
  <1>1. ASSUME NEW c \in Clients, NEW r \in Responses, NEW answer \in {"approve", "deny"},
               Respond(c, r, answer)
        PROVE  \E d \in Callers : StepOf(d)
    <2> DEFINE k == [Idle EXCEPT !.pc = "respond", !.life = r, !.ending = answer,
                                 !.version = req.version]
    <2>1. c \in Callers /\ req.version \in Nat
      BY DEF Callers, Base, TypeOK
    <2>2. k \in Records /\ k.pc = "respond"
      <3>1. /\ "respond" \in Points /\ answer \in Endings
            /\ r \in Responses \cup {"none", "tick"}
        BY DEF Points, Endings
      <3> QED BY <2>1, <3>1, IdleType DEF Records
    <2>3. /\ req' = req /\ UNCHANGED <<target, told>>
          /\ \/ Goto(c, [k EXCEPT !.put = TRUE])
             \/ Goto(c, [k EXCEPT !.pc = "preauth", !.ending = "none"])
      BY <1>1 DEF Respond
    <2> HIDE DEF k
    <2>4. [k EXCEPT !.put = TRUE] \in Records /\ [k EXCEPT !.put = TRUE].pc = "respond"
      BY <2>2 DEF Records
    <2>5. /\ [k EXCEPT !.pc = "preauth", !.ending = "none"] \in Records
          /\ [k EXCEPT !.pc = "preauth", !.ending = "none"].pc = "preauth"
      BY <2>2 DEF Records, Points, Endings
    <2> QED BY <2>1, <2>3, <2>4, <2>5, GoQuiet DEF Attempting
  <1>2. ASSUME NEW c \in Clients, NEW r \in Responses, Cancel(c, r)
        PROVE  \E d \in Callers : StepOf(d)
    <2> DEFINE k == [Idle EXCEPT !.pc = "cancel", !.put = TRUE, !.life = r,
                                 !.version = req.version]
    <2>1. c \in Callers /\ req.version \in Nat
      BY DEF Callers, Base, TypeOK
    <2>2. k \in Records /\ k.pc = "cancel"
      <3>1. "cancel" \in Points /\ r \in Responses \cup {"none", "tick"}
        BY DEF Points
      <3> QED BY <2>1, <3>1, IdleType DEF Records
    <2>3. req' = req /\ UNCHANGED <<target, told>> /\ Goto(c, k)
      BY <1>2 DEF Cancel
    <2> HIDE DEF k
    <2> QED BY <2>1, <2>2, <2>3, GoQuiet DEF Attempting
  <1>3. ASSUME NEW t \in Ticks, StartTick(t)
        PROVE  \E d \in Callers : StepOf(d)
    <2> DEFINE k == [Idle EXCEPT !.life = "tick", !.version = req.version,
                                 !.x = IF req.exec = Unclaimed THEN Initial ELSE req.exec]
               to(pc, ending, put) == [k EXCEPT !.pc = pc, !.ending = ending, !.put = put]
    <2>1. t \in Callers /\ req' = req /\ UNCHANGED <<target, told>> /\ req.version \in Nat
      BY <1>3 DEF StartTick, Callers, Base, TypeOK
    <2>2. k \in Records
      <3>1. (IF req.exec = Unclaimed THEN Initial ELSE req.exec) \in Executions
        BY DEF Base, TypeOK, Initial, Executions
      <3> QED BY <2>1, <3>1, IdleType DEF Records
    <2>3. \/ req.event # "none" /\ Goto(t, to("emit", req.event, FALSE))
          \/ Goto(t, to("expire", "expired", TRUE))
          \/ Goto(t, to("interrupt", "failed", TRUE))
          \/ Goto(t, to("preauth", "none", FALSE))
      BY <1>3 DEF StartTick
    <2> HIDE DEF k
    <2>4. /\ "emit" \in Points /\ "expire" \in Points /\ "interrupt" \in Points
          /\ "preauth" \in Points /\ "none" \in Endings /\ "expired" \in Endings
          /\ "failed" \in Endings /\ TRUE \in BOOLEAN /\ FALSE \in BOOLEAN
      BY DEF Points, Endings
    <2>5. CASE req.event # "none" /\ Goto(t, to("emit", req.event, FALSE))
      <3>1. req.event \in {"expired", "failed"} /\ req.event \in Endings
        BY <2>5 DEF Base, TypeOK, Endings
      <3>2. /\ to("emit", req.event, FALSE) \in Records
            /\ to("emit", req.event, FALSE).pc = "emit"
            /\ to("emit", req.event, FALSE).ending = req.event
        BY <2>2, <2>4, <3>1 DEF Records
      <3> HIDE DEF to
      <3>3. Quiet(t, to("emit", req.event, FALSE))
        BY <2>1, <2>5, <3>1, <3>2 DEF Quiet, Attempting
      <3> QED BY <2>1, <3>2, <3>3 DEF StepOf
    <2>6. /\ to("expire", "expired", TRUE) \in Records
          /\ to("expire", "expired", TRUE).pc = "expire"
      BY <2>2, <2>4 DEF Records
    <2>7. /\ to("interrupt", "failed", TRUE) \in Records
          /\ to("interrupt", "failed", TRUE).pc = "interrupt"
      BY <2>2, <2>4 DEF Records
    <2>8. /\ to("preauth", "none", FALSE) \in Records
          /\ to("preauth", "none", FALSE).pc = "preauth"
      BY <2>2, <2>4 DEF Records
    <2> HIDE DEF to
    <2> QED BY <2>1, <2>3, <2>5, <2>6, <2>7, <2>8, GoQuiet DEF Attempting
  <1>4. ASSUME NEW c \in Callers, Die(c)
        PROVE  StepOf(c)
    BY <1>4, LeaveQuiet DEF Die
  <1>5. ASSUME TimeRunsOut \/ LeaseRunsOut \/ UNCHANGED vars
        PROVE  Waits
    BY <1>5 DEF TimeRunsOut, LeaseRunsOut, vars, Waits, Base, TypeOK
  <1> QED BY <1>1, <1>2, <1>3, <1>4, <1>5, ContinueStep DEF Next

\* What a commit makes of the request, and where its handler goes on.
LEMMA Committed ==
  ASSUME Base, NEW c \in Callers, Commits(c)
  PROVE  /\ req.status \in Settled => req'.status = req.status
         /\ req'.kind = req.kind
         /\ call[c].pc = "claim" =>
              /\ req.status = "accepted" /\ req'.status = "executing"
              /\ AfterWrite(call[c]).pc = "assert"
         /\ call[c].pc # "claim" => AfterWrite(call[c]).pc \notin Attempting
         /\ call[c].pc = "release" => req.status = "executing" /\ req'.status = "accepted"
         /\ call[c].pc # "release" /\ req'.status \notin {"executing", "completed", "failed"} =>
              req.status \notin {"executing", "completed", "failed"}
         /\ req'.status = "completed" =>
              \/ req.status = "completed"
              \/ call[c].pc = "settle" /\ call[c].ending = "completed"
         /\ AfterWrite(call[c]).pc = "settle" => AfterWrite(call[c]).ending = "failed"
         /\ AfterWrite(call[c]).pc = "emit" =>
              req'.event = AfterWrite(call[c]).ending /\ req'.status = AfterWrite(call[c]).ending
         /\ AfterWrite(call[c]).pc # "record"
         /\ req'.event # req.event => req'.status = req'.event
  <1> DEFINE k == call[c]
             on == [k EXCEPT !.put = FALSE, !.version = @ + 1]
             saved == [req EXCEPT !.version = @ + 1]
             a == AfterWrite(k)
  <1>1. /\ k \in Records /\ Ended(k) /\ k.put /\ k.pc \in PutPoints /\ Expected(k)
        /\ req \in Requests /\ req' = Written(k)
    BY CallType DEF Commits, Base, TypeOK, Requests
  <1>2. on \in Records /\ on.ending = k.ending
    <2>1. k.version + 1 \in Nat
      BY <1>1 DEF Records
    <2> QED BY <1>1, <2>1 DEF Records
  <1>3. /\ saved \in Requests /\ saved.status = req.status /\ saved.event = req.event
        /\ saved.kind = req.kind
    BY <1>1 DEF Requests
  <1> HIDE DEF on, saved
  <1>4. CASE k.pc = "respond"
    <2>1. a.pc \in {"preauth", "idle"}
      BY <1>2, <1>4 DEF AfterWrite, Idle, Records, on
    <2>2. req'.status \in {"denied", "accepted"} /\ req'.event = req.event
          /\ req'.kind = req.kind
      BY <1>1, <1>3, <1>4 DEF Written, Requests, saved
    <2>3. req.status = "pending"
      BY <1>1, <1>4 DEF Expected
    <2> QED BY <1>4, <2>1, <2>2, <2>3 DEF Attempting, Settled
  <1>5. CASE k.pc = "claim"
    <2>1. a.pc = "assert"
      BY <1>2, <1>5 DEF AfterWrite, Records, on
    <2>2. req'.status = "executing" /\ req'.event = req.event /\ req'.kind = req.kind
      BY <1>1, <1>3, <1>5 DEF Written, Requests, saved
    <2>3. req.status = "accepted"
      BY <1>1, <1>5 DEF Expected
    <2> QED BY <1>5, <2>1, <2>2, <2>3 DEF Attempting, Settled
  <1>6. CASE k.pc = "recover"
    <2>1. a.pc \in {"settle", "find"} /\ (a.pc = "settle" => a.ending = "failed")
      <3> DEFINE to == IF k.refused THEN Failing(on) ELSE [on EXCEPT !.pc = "find"]
      <3>1. a = [to EXCEPT !.x = NextExecution(k), !.recovered = TRUE]
        BY <1>6 DEF AfterWrite, on
      <3>2. /\ to \in Records /\ to.pc \in {"settle", "find"}
            /\ to.pc = "settle" => to.ending = "failed"
        BY <1>2, FailingType, RefusedSettles DEF Records, Points
      <3> HIDE DEF to, a
      <3> QED BY <3>1, <3>2 DEF Records
    <2>2. req'.status = req.status /\ req'.event = req.event /\ req'.kind = req.kind
      BY <1>1, <1>3, <1>6 DEF Written, Requests, saved
    <2> HIDE DEF a
    <2> QED BY <1>6, <2>1, <2>2 DEF Attempting, Settled, a
  <1>7. CASE k.pc \in {"expire", "interrupt"}
    <2>1. a.pc = "emit" /\ a.ending = k.ending
      BY <1>2, <1>7 DEF AfterWrite, Records, on
    <2>2. req'.status = k.ending /\ req'.event = k.ending /\ req'.kind = req.kind
      BY <1>1, <1>3, <1>7 DEF Written, Requests, saved, Ended
    <2>3. /\ k.pc = "expire" => k.ending = "expired" /\ req.status \in {"pending", "accepted"}
          /\ k.pc = "interrupt" => k.ending = "failed" /\ req.status = "executing"
      BY <1>1 DEF Expected, Ended
    <2> QED BY <1>7, <2>1, <2>2, <2>3 DEF Attempting, Settled
  <1>8. CASE k.pc \in {"cancel", "release", "settle", "failStale", "mark"}
    <2>1. a.pc = "idle"
      BY <1>8 DEF AfterWrite, Idle
    <2>2. /\ req'.event = req.event /\ req'.kind = req.kind
          /\ k.pc = "cancel" => req'.status = "cancelled" /\ req.status = "pending"
          /\ k.pc = "release" => req'.status = "accepted" /\ req.status = "executing"
          /\ k.pc = "settle" => req'.status = k.ending /\ req.status = "executing"
          /\ k.pc = "failStale" => req'.status = "failed" /\ req.status = "executing"
          /\ k.pc = "mark" => req'.status = req.status
      BY <1>1, <1>3, <1>8 DEF Written, Requests, saved, Expected
    <2>3. k.pc = "settle" => k.ending \in {"completed", "failed"}
      BY <1>1 DEF Ended
    <2> QED BY <1>8, <2>1, <2>2, <2>3 DEF Attempting, Settled
  <1> QED BY <1>1, <1>4, <1>5, <1>6, <1>7, <1>8 DEF PutPoints

LEMMA Gone ==
  ASSUME Base, NEW c \in Callers, NEW k, Goto(c, k), NEW d \in Callers
  PROVE  call'[d] = IF d = c THEN k ELSE call[d]
  BY DEF Goto, Base, TypeOK

\* A settled request keeps its outcome, whoever else still holds it: every
\* write was decided on the version that it replaces.
THEOREM OutcomesStand == Spec => OutcomeStands
  <1>1. Base /\ [Next]_vars => [req.status \in Settled => req'.status = req.status]_vars
    <2> SUFFICES ASSUME Base, [Next]_vars, req.status \in Settled
                 PROVE  req'.status = req.status
      OBVIOUS
    <2>1. CASE Waits
      BY <2>1 DEF Waits
    <2>2. ASSUME NEW c \in Callers, StepOf(c)
          PROVE  req'.status = req.status
      BY <2>2, Committed DEF StepOf, Quiet, Runs, Saves, Tells
    <2> QED BY <2>1, <2>2, Steps
  <1> QED BY <1>1, InitBase, NextBase, PTL DEF Spec, OutcomeStands

-----------------------------------------------------------------------------
\* The action is started once: at most one handler is attempting it; it was not
\* started before the handler starts it, and nobody attempts an open request.

Untouched == target.started = 0 /\ target.record = "none"

Attempts ==
    /\ \A c, d \in Callers :
         call[c].pc \in Attempting /\ call[d].pc \in Attempting => c = d
    /\ \A c \in Callers : call[c].pc \in Attempting =>
         /\ req.status \in {"executing", "completed", "failed"}
         /\ target.record = "none"
         /\ call[c].pc # "record" => target.started = 0
    /\ target.started <= 1
    /\ req.status \notin {"executing", "completed", "failed"} => Untouched

LEMMA InitAttempts == Init => Attempts
  <1> SUFFICES ASSUME Init PROVE Attempts
    OBVIOUS
  <1>1. \A c \in Callers : call[c].pc = "idle"
    BY DEF Init, Idle
  <1>2. target.started = 0 /\ target.record = "none"
    BY DEF Init
  <1> QED BY <1>1, <1>2 DEF Attempts, Attempting, Untouched

LEMMA NextAttempts == Base /\ Attempts /\ [Next]_vars => Attempts'
  <1> SUFFICES ASSUME Base, Attempts, [Next]_vars PROVE Attempts'
    OBVIOUS
  <1>1. CASE Waits
    BY <1>1 DEF Waits, Attempts, Attempting, Untouched
  <1>2. ASSUME NEW c \in Callers, StepOf(c)
        PROVE  Attempts'
    <2>1. ASSUME NEW k \in Records, Quiet(c, k)
          PROVE  Attempts'
      <3>1. req' = req /\ target' = target /\ Goto(c, k)
        BY <2>1 DEF Quiet
      <3>2. k.pc \in Attempting => k.pc # "record" /\ call[c].pc \in Attempting \ {"record"}
        BY <2>1 DEF Quiet
      <3>3. \A d \in Callers : call'[d] = IF d = c THEN k ELSE call[d]
        BY <3>1, Gone
      <3>4. \A d \in Callers : call'[d].pc \in Attempting =>
              /\ call[d].pc \in Attempting
              /\ call'[d].pc # "record" => call[d].pc # "record"
        BY <3>2, <3>3
      <3> QED BY <3>1, <3>4 DEF Attempts, Untouched
    <2>2. CASE Commits(c)
      <3> DEFINE k == AfterWrite(call[c])
      <3>1. target' = target /\ Goto(c, k)
        BY <2>2 DEF Commits
      <3>2. \A d \in Callers : call'[d] = IF d = c THEN k ELSE call[d]
        BY <3>1, Gone
      <3>3. CASE call[c].pc = "claim"
        <4>1. /\ req.status = "accepted" /\ req'.status = "executing" /\ k.pc = "assert"
          BY <2>2, <3>3, Committed
        <4>2. Untouched /\ \A d \in Callers : call[d].pc \notin Attempting
          BY <4>1 DEF Attempts
        <4> HIDE DEF k
        <4>3. \A d \in Callers : call'[d].pc \in Attempting => d = c
          BY <3>2, <4>2
        <4> QED BY <3>1, <4>1, <4>2, <4>3 DEF Attempts, Untouched
      <3>4. CASE call[c].pc # "claim"
        <4>1. /\ k.pc \notin Attempting
              /\ call[c].pc = "release" => req.status = "executing" /\ req'.status = "accepted"
              /\ call[c].pc # "release" /\ req'.status \notin {"executing", "completed", "failed"} =>
                   req.status \notin {"executing", "completed", "failed"}
          BY <2>2, <3>4, Committed
        <4> HIDE DEF k
        <4>2. \A d \in Callers : call'[d].pc \in Attempting =>
                d # c /\ call'[d] = call[d]
          BY <3>2, <4>1
        <4>3. CASE call[c].pc = "release"
          <5>1. call[c].pc \in Attempting /\ call[c].pc # "record"
            BY <4>3 DEF Attempting
          <5>2. Untouched /\ \A d \in Callers : call[d].pc \in Attempting => d = c
            BY <5>1 DEF Attempts, Untouched
          <5>3. \A d \in Callers : call'[d].pc \notin Attempting
            BY <4>2, <5>2
          <5> QED BY <3>1, <5>2, <5>3 DEF Attempts, Untouched
        <4>4. CASE call[c].pc # "release"
          <5>1. \/ req'.status \in {"executing", "completed", "failed"}
                \/ /\ Untouched
                   /\ \A d \in Callers : call[d].pc \notin Attempting
            BY <4>1, <4>4 DEF Attempts
          <5> QED BY <3>1, <4>2, <5>1 DEF Attempts, Untouched
        <4> QED BY <4>3, <4>4
      <3> QED BY <3>3, <3>4
    <2>3. CASE Runs(c)
      <3>1. PICK k \in Records, effect \in BOOLEAN :
              /\ Goto(c, k)
              /\ k.pc = IF req.kind = "surface" THEN "record" ELSE "settle"
              /\ target' = [target EXCEPT !.started = @ + 1, !.effect = @ \/ effect]
        BY <2>3 DEF Runs
      <3>2. call[c].pc = "dispatch" /\ req' = req
        BY <2>3 DEF Runs
      <3>3. /\ target.started = 0 /\ target.record = "none"
            /\ req.status \in {"executing", "completed", "failed"}
            /\ \A d \in Callers : call[d].pc \in Attempting => d = c
        BY <3>2 DEF Attempts, Attempting
      <3>4. target'.started = 1 /\ target'.record = "none"
        BY <3>1, <3>3 DEF Base, TypeOK
      <3>5. \A d \in Callers : call'[d] = IF d = c THEN k ELSE call[d]
        BY <3>1, Gone
      <3>6. \A d \in Callers : call'[d].pc \in Attempting => d = c /\ call'[d].pc = "record"
        BY <3>1, <3>3, <3>5 DEF Attempting
      <3> QED BY <3>2, <3>3, <3>4, <3>6 DEF Attempts, Untouched
    <2>4. CASE Saves(c)
      <3> DEFINE k == [call[c] EXCEPT !.pc = "settle"]
      <3>1. k.pc = "settle"
        BY CallType DEF Records
      <3>2. /\ call[c].pc = "record" /\ req' = req /\ Goto(c, k)
            /\ target'.started = target.started
        BY <2>4 DEF Saves, Base, TypeOK
      <3>3. /\ req.status \in {"executing", "completed", "failed"}
            /\ \A d \in Callers : call[d].pc \in Attempting => d = c
        BY <3>2 DEF Attempts, Attempting
      <3> HIDE DEF k
      <3>4. \A d \in Callers : call'[d] = IF d = c THEN k ELSE call[d]
        BY <3>2, Gone
      <3>5. \A d \in Callers : call'[d].pc \notin Attempting
        BY <3>1, <3>3, <3>4 DEF Attempting
      <3> QED BY <3>2, <3>3, <3>5 DEF Attempts
    <2>5. CASE Tells(c)
      <3> DEFINE k == [call[c] EXCEPT !.pc = "mark"]
      <3>1. k.pc = "mark"
        BY CallType DEF Records
      <3>2. UNCHANGED <<req, target>> /\ Goto(c, k)
        BY <2>5 DEF Tells
      <3> HIDE DEF k
      <3>3. \A d \in Callers : call'[d] = IF d = c THEN k ELSE call[d]
        BY <3>2, Gone
      <3>4. \A d \in Callers : call'[d].pc \in Attempting => call'[d] = call[d]
        BY <3>1, <3>3 DEF Attempting
      <3> QED BY <3>2, <3>4 DEF Attempts, Untouched
    <2> QED BY <1>2, <2>1, <2>2, <2>3, <2>4, <2>5 DEF StepOf
  <1> QED BY <1>1, <1>2, Steps

\* However many handlers, retries and ticks hold one request, its action is
\* started at most once.
THEOREM StartsOnce == Spec => []StartedOnce
  <1>1. Attempts => StartedOnce
    BY DEF Attempts, StartedOnce
  <1> QED BY <1>1, InitBase, NextBase, InitAttempts, NextAttempts, PTL DEF Spec

\* The action of a request that waits for an answer or an execution, or was
\* denied, cancelled or has expired, was never started.
THEOREM OpenIsUntouched == Spec => []UnapprovedIsUntouched
  <1>1. Attempts => UnapprovedIsUntouched
    BY DEF Attempts, UnapprovedIsUntouched, Untouched
  <1> QED BY <1>1, InitBase, NextBase, InitAttempts, NextAttempts, PTL DEF Spec

-----------------------------------------------------------------------------
\* Completion is real: whoever is about to settle a request as completed, or to
\* save its result, knows that the action took effect.

Effective == target.effect /\ (req.kind = "surface" => target.record = "ok")

Effects ==
    /\ req.status = "completed" => Effective
    /\ \A c \in Callers : call[c].pc = "settle" /\ call[c].ending = "completed" => Effective
    /\ \A c \in Callers : call[c].pc = "record" =>
         req.kind = "surface" /\ (call[c].ending = "completed" => target.effect)
    /\ target.record = "ok" => target.effect

LEMMA InitEffects == Init => Effects
  <1> SUFFICES ASSUME Init PROVE Effects
    OBVIOUS
  <1>1. \A c \in Callers : call[c].pc = "idle"
    BY DEF Init, Idle
  <1>2. req.status = "pending" /\ target.record = "none"
    BY DEF Init
  <1> QED BY <1>1, <1>2 DEF Effects

LEMMA NextEffects == Base /\ Attempts /\ Effects /\ [Next]_vars => Effects'
  <1> SUFFICES ASSUME Base, Attempts, Effects, [Next]_vars PROVE Effects'
    OBVIOUS
  <1>1. CASE Waits
    BY <1>1 DEF Waits, Effects, Effective
  <1>2. ASSUME NEW c \in Callers, StepOf(c)
        PROVE  Effects'
    <2>1. ASSUME NEW k \in Records, Quiet(c, k)
          PROVE  Effects'
      <3>1. req' = req /\ target' = target /\ Goto(c, k) /\ k.pc # "record"
            /\ (k.pc = "settle" /\ k.ending = "completed" =>
                  \/ target.record = "ok"
                  \/ call[c].pc = "settle" /\ call[c].ending = "completed")
        BY <2>1 DEF Quiet, Attempting
      <3>2. \A d \in Callers : call'[d] = IF d = c THEN k ELSE call[d]
        BY <3>1, Gone
      <3>3. k.pc = "settle" /\ k.ending = "completed" => Effective
        BY <3>1 DEF Effects, Effective
      <3> QED BY <3>1, <3>2, <3>3 DEF Effects, Effective
    <2>2. CASE Commits(c)
      <3> DEFINE k == AfterWrite(call[c])
      <3>1. target' = target /\ Goto(c, k)
        BY <2>2 DEF Commits
      <3>2. \A d \in Callers : call'[d] = IF d = c THEN k ELSE call[d]
        BY <3>1, Gone
      <3>3. /\ req'.kind = req.kind /\ k.pc # "record"
            /\ k.pc = "settle" => k.ending = "failed"
            /\ req'.status = "completed" =>
                 \/ req.status = "completed"
                 \/ call[c].pc = "settle" /\ call[c].ending = "completed"
        BY <2>2, Committed
      <3> HIDE DEF k
      <3>4. req'.status = "completed" => Effective
        BY <3>3 DEF Effects
      <3> QED BY <3>1, <3>2, <3>3, <3>4 DEF Effects, Effective
    <2>3. CASE Runs(c)
      <3>1. PICK k \in Records, effect \in BOOLEAN :
              /\ Goto(c, k)
              /\ k.pc = IF req.kind = "surface" THEN "record" ELSE "settle"
              /\ k.ending = "completed" => effect
              /\ target' = [target EXCEPT !.started = @ + 1, !.effect = @ \/ effect]
        BY <2>3 DEF Runs
      <3>2. req' = req
        BY <2>3 DEF Runs
      <3>3. target'.record = target.record /\ (target'.effect <=> target.effect \/ effect)
        BY <3>1 DEF Base, TypeOK
      <3>4. \A d \in Callers : call'[d] = IF d = c THEN k ELSE call[d]
        BY <3>1, Gone
      <3>5. Effective => Effective'
        BY <3>2, <3>3 DEF Effective
      <3>6. k.pc = "settle" /\ k.ending = "completed" => Effective'
        BY <3>1, <3>2, <3>3 DEF Effective
      <3>7. k.pc = "record" => req.kind = "surface" /\ (k.ending = "completed" => target'.effect)
        BY <3>1, <3>3
      <3> QED BY <3>2, <3>3, <3>4, <3>5, <3>6, <3>7 DEF Effects
    <2>4. CASE Saves(c)
      <3> DEFINE k == [call[c] EXCEPT !.pc = "settle"]
      <3>1. k.pc = "settle" /\ k.ending = call[c].ending
        BY CallType DEF Records
      <3>2. /\ call[c].pc = "record" /\ req' = req /\ Goto(c, k)
            /\ target'.effect = target.effect
            /\ target'.record = IF call[c].ending = "completed" THEN "ok" ELSE "failed"
        BY <2>4 DEF Saves, Base, TypeOK
      <3>3. /\ req.kind = "surface" /\ target.record = "none" /\ ~Effective
            /\ call[c].ending = "completed" => target.effect
            /\ \A d \in Callers : call[d].pc \in Attempting => d = c
        BY <3>2 DEF Effects, Effective, Attempts, Attempting
      <3> HIDE DEF k
      <3>4. \A d \in Callers : call'[d] = IF d = c THEN k ELSE call[d]
        BY <3>2, Gone
      <3>5. req'.status # "completed"
        BY <3>2, <3>3 DEF Effects
      <3>6. \A d \in Callers : call'[d].pc = "settle" /\ call'[d].ending = "completed" => d = c
        BY <3>3, <3>4 DEF Effects
      <3>7. call[c].ending = "completed" => Effective'
        BY <3>2, <3>3 DEF Effective
      <3>8. \A d \in Callers : call'[d].pc # "record"
        BY <3>1, <3>3, <3>4 DEF Attempting
      <3> QED BY <3>1, <3>2, <3>3, <3>4, <3>5, <3>6, <3>7, <3>8 DEF Effects
    <2>5. CASE Tells(c)
      <3> DEFINE k == [call[c] EXCEPT !.pc = "mark"]
      <3>1. k.pc = "mark"
        BY CallType DEF Records
      <3>2. UNCHANGED <<req, target>> /\ Goto(c, k)
        BY <2>5 DEF Tells
      <3> HIDE DEF k
      <3>3. \A d \in Callers : call'[d] = IF d = c THEN k ELSE call[d]
        BY <3>2, Gone
      <3> QED BY <3>1, <3>2, <3>3 DEF Effects, Effective
    <2> QED BY <1>2, <2>1, <2>2, <2>3, <2>4, <2>5 DEF StepOf
  <1> QED BY <1>1, <1>2, Steps

\* A request is recorded as completed only when its action took effect and,
\* for a surface, the result can be shown; also by a tick that found the result
\* of an execution that died.
THEOREM CompletionsAreReal == Spec => []CompletedTookEffect
  <1>1. Effects => CompletedTookEffect
    BY DEF Effects, Effective, CompletedTookEffect
  <1> QED BY <1>1, InitBase, NextBase, InitAttempts, NextAttempts, InitEffects, NextEffects,
             PTL DEF Spec

-----------------------------------------------------------------------------
\* Events are true: they are recorded with the outcome that they announce.

Events ==
    /\ req.event # "none" => req.status = req.event
    /\ \A c \in Callers : call[c].pc = "emit" => req.status = call[c].ending
    /\ \A e \in told : req.status = e

LEMMA NextEvents == Base /\ Events /\ [Next]_vars => Events'
  <1> SUFFICES ASSUME Base, Events, [Next]_vars PROVE Events'
    OBVIOUS
  <1>1. CASE Waits
    BY <1>1 DEF Waits, Events
  <1>2. ASSUME NEW c \in Callers, StepOf(c)
        PROVE  Events'
    <2>1. ASSUME NEW k \in Records, Quiet(c, k)
          PROVE  Events'
      <3>1. req' = req /\ told' = told /\ Goto(c, k)
            /\ (k.pc = "emit" => req.event = k.ending /\ k.ending \in {"expired", "failed"})
        BY <2>1 DEF Quiet
      <3>2. \A d \in Callers : call'[d] = IF d = c THEN k ELSE call[d]
        BY <3>1, Gone
      <3> QED BY <3>1, <3>2 DEF Events
    <2>2. CASE Commits(c)
      <3> DEFINE k == AfterWrite(call[c])
      <3>1. told' = told /\ Goto(c, k)
        BY <2>2 DEF Commits
      <3>2. \A d \in Callers : call'[d] = IF d = c THEN k ELSE call[d]
        BY <3>1, Gone
      <3>3. /\ req.status \in Settled => req'.status = req.status
            /\ k.pc = "emit" => req'.event = k.ending /\ req'.status = k.ending
            /\ req'.event # req.event => req'.status = req'.event
        BY <2>2, Committed
      <3>4. /\ told \subseteq {"expired", "failed"} /\ req.event \in {"none", "expired", "failed"}
            /\ \A d \in Callers : call[d].pc = "emit" => call[d].ending \in {"expired", "failed"}
        BY CallType DEF Base, TypeOK, Ended
      <3> HIDE DEF k
      <3>5. req'.event # "none" => req'.status = req'.event
        BY <3>3, <3>4 DEF Events, Settled
      <3>6. \A d \in Callers : call'[d].pc = "emit" => req'.status = call'[d].ending
        BY <3>2, <3>3, <3>4 DEF Events, Settled
      <3>7. \A e \in told' : req'.status = e
        BY <3>1, <3>3, <3>4 DEF Events, Settled
      <3> QED BY <3>5, <3>6, <3>7 DEF Events
    <2>3. CASE Runs(c)
      <3>1. PICK k \in Records :
              Goto(c, k) /\ k.pc = IF req.kind = "surface" THEN "record" ELSE "settle"
        BY <2>3 DEF Runs
      <3>2. \A d \in Callers : call'[d] = IF d = c THEN k ELSE call[d]
        BY <3>1, Gone
      <3>3. req' = req /\ told' = told /\ k.pc # "emit"
        BY <2>3, <3>1 DEF Runs
      <3> QED BY <3>2, <3>3 DEF Events
    <2>4. CASE Saves(c)
      <3> DEFINE k == [call[c] EXCEPT !.pc = "settle"]
      <3>1. k.pc = "settle"
        BY CallType DEF Records
      <3>2. req' = req /\ told' = told /\ Goto(c, k)
        BY <2>4 DEF Saves
      <3> HIDE DEF k
      <3>3. \A d \in Callers : call'[d] = IF d = c THEN k ELSE call[d]
        BY <3>2, Gone
      <3> QED BY <3>1, <3>2, <3>3 DEF Events
    <2>5. CASE Tells(c)
      <3> DEFINE k == [call[c] EXCEPT !.pc = "mark"]
      <3>1. k.pc = "mark"
        BY CallType DEF Records
      <3>2. /\ req' = req /\ Goto(c, k) /\ call[c].pc = "emit"
            /\ told' = told \cup {call[c].ending}
        BY <2>5 DEF Tells
      <3> HIDE DEF k
      <3>3. \A d \in Callers : call'[d] = IF d = c THEN k ELSE call[d]
        BY <3>2, Gone
      <3> QED BY <3>1, <3>2, <3>3 DEF Events
    <2> QED BY <1>2, <2>1, <2>2, <2>3, <2>4, <2>5 DEF StepOf
  <1> QED BY <1>1, <1>2, Steps

\* No client is told of an outcome that the record does not have.
THEOREM EventsAreTrue == Spec => []ToldIsTrue
  <1>1. Init => Events
    BY DEF Init, Events, Idle
  <1>2. Events => ToldIsTrue
    BY DEF Events, ToldIsTrue
  <1> QED BY <1>1, <1>2, InitBase, NextBase, NextEvents, PTL DEF Spec

-----------------------------------------------------------------------------
\* One outage does not fail the request.  While nothing has gone wrong but one
\* check that could not be had, there is one claim, of the first execution, with
\* the handler that made it; it was released at most once, so that the operation
\* id of the release is still free when it is needed.

Tried == {"assert", "reauth", "release", "dispatch"}

Calm ==
    /\ ~seen.attempt /\ ~seen.reason /\ seen.faults = 0 /\ seen.outages <= 1
    /\ ~req.over

NoRelease(u) == \A op \in u : op[1] # "release"

\* Where a handler may be, for a record r, n outages and the spent ids u.
Early(k, r, n, u) ==
    /\ k.pc \in Tried \cup {"idle", "respond", "cancel", "preauth", "claim", "replay",
                            "find", "recover"}
    /\ ~k.refused /\ ~k.recovered /\ k.x = Initial
    /\ k.pc = "recover" => ~k.put
    /\ k.pc \in Tried => r.status = "executing" /\ r.version = k.version
    /\ k.pc = "release" => n = 1 /\ NoRelease(u)

Open(r) ==
    /\ r.status \notin {"completed", "failed", "expired"} /\ r.event = "none" /\ ~r.stale
    /\ r.exec = IF r.status = "executing" THEN Initial ELSE Unclaimed

Lonely ==
    /\ Open(req) /\ target.record = "none"
    /\ \A c \in Callers : Early(call[c], req, seen.outages, used)
    /\ req.status = "executing" => \E c \in Callers : call[c].pc \in Tried
    /\ seen.outages = 0 => NoRelease(used)

LEMMA InitLonely == Init => Lonely
  <1> SUFFICES ASSUME Init PROVE Lonely
    OBVIOUS
  <1>1. /\ req.status = "pending" /\ req.event = "none" /\ ~req.stale /\ req.exec = Unclaimed
        /\ target.record = "none" /\ used = {}
        /\ \A c \in Callers : call[c] = Idle
    BY DEF Init
  <1>2. Early(Idle, req, seen.outages, used)
    BY DEF Early, Idle, Tried
  <1> QED BY <1>1, <1>2 DEF Lonely, Open, NoRelease

\* A handler goes on, or leaves, without a write.
LEMMA LonelyGoes ==
  ASSUME Base, Lonely, Calm', NEW c \in Callers, NEW k \in Records, Goto(c, k),
         UNCHANGED <<req, used, target>>, seen.outages \in Nat, seen'.outages \in Nat,
         seen.outages <= seen'.outages, Early(k, req, seen'.outages, used),
         call[c].pc \in Tried => k.pc \in Tried
  PROVE  Lonely'
  <1>1. \A d \in Callers : call'[d] = IF d = c THEN k ELSE call[d]
    BY Gone
  <1>2. ASSUME NEW d \in Callers
        PROVE  Early(call'[d], req', seen'.outages, used')
    <2>1. CASE d = c
      BY <1>1, <2>1
    <2>2. CASE d # c
      <3>1. Early(call[d], req, seen.outages, used)
        BY DEF Lonely
      <3>2. seen.outages = 1 => seen'.outages = 1
        BY DEF Calm
      <3> QED BY <1>1, <2>2, <3>1, <3>2 DEF Early
    <2> QED BY <2>1, <2>2
  <1>3. req'.status = "executing" => \E d \in Callers : call'[d].pc \in Tried
    BY <1>1 DEF Lonely
  <1>4. seen'.outages = 0 => NoRelease(used')
    BY DEF Lonely
  <1> QED BY <1>2, <1>3, <1>4 DEF Lonely, Open

LEMMA IdleEarly ==
  ASSUME NEW r, NEW n, NEW u
  PROVE  Early(Idle, r, n, u)
  BY DEF Early, Idle, Tried

LEMMA SpentIds ==
  ASSUME NEW k \in Records
  PROVE  /\ Spend(k) \subseteq used \cup {OperationId(k)}
         /\ OperationId(k)[1] = k.pc
  BY DEF Spend, OperationId

\* A write of a handler: it succeeds, or it is answered from what is there.
LEMMA PutLonely ==
  ASSUME Base, Attempts, Lonely, Calm, Calm', NEW c \in Callers, Put(c)
  PROVE  Lonely'
  <1> DEFINE k == call[c]
             saved == [req EXCEPT !.version = @ + 1]
             on == [k EXCEPT !.put = FALSE, !.version = @ + 1]
             back == [k EXCEPT !.put = FALSE, !.version = req.version]
  <1>1. /\ k \in Records /\ Guarded(k) /\ Ended(k) /\ k.put /\ k.pc \in PutPoints
        /\ Early(k, req, seen.outages, used)
        /\ k.pc \in {"respond", "cancel", "claim", "release"}
    <2>1. k \in Records /\ Guarded(k) /\ Ended(k) /\ k.put
      BY CallType DEF Put
    <2>2. Early(k, req, seen.outages, used)
      BY DEF Lonely
    <2>3. k.pc \in PutPoints
      BY <2>1 DEF Guarded
    <2> QED BY <2>1, <2>2, <2>3 DEF Early, PutPoints, Tried
  <1>2. /\ used' \subseteq used \cup {OperationId(k)} /\ OperationId(k)[1] = k.pc
        /\ UNCHANGED <<target, told>> /\ req.version \in Nat /\ req \in Requests
    BY <1>1, SpentIds DEF Put, Base, TypeOK, Requests
  <1>3. seen.outages \in Nat /\ seen.faults = 0 /\ seen'.faults = 0
    BY DEF Calm, Base, TypeOK
  <1>4. UNCHANGED seen
    <2>1. ~Fault("faults")
      BY <1>3 DEF Fault, Base, TypeOK
    <2> QED BY <2>1 DEF Put
  <1>5. ~Fault("faults")
    BY <1>3 DEF Fault, Base, TypeOK
  <1>6. back \in Records /\ ~back.put /\ back.pc = k.pc /\ back.refused = k.refused
        /\ back.recovered = k.recovered /\ back.x = k.x /\ back.version = req.version
    BY <1>1, <1>2 DEF Records
  <1>7. on \in Records /\ ~on.put /\ on.pc = k.pc /\ on.refused = k.refused
        /\ on.recovered = k.recovered /\ on.x = k.x /\ on.version = k.version + 1
    <2>1. k.version + 1 \in Nat
      BY <1>1 DEF Records
    <2> QED BY <1>1, <2>1 DEF Records
  <1>8. /\ saved \in Requests /\ saved.status = req.status /\ saved.event = req.event
        /\ saved.stale = req.stale /\ saved.exec = req.exec /\ saved.version = req.version + 1
    BY <1>2 DEF Requests
  <1> HIDE DEF k, saved, on, back
  <1>9. k.pc # "release" => (NoRelease(used) => NoRelease(used'))
    BY <1>2 DEF NoRelease
  <1>10. \A d \in Callers : Early(call[d], req, seen.outages, used)
    BY DEF Lonely
  <1>11. CASE ~Conflict(k) /\ req' = Written(k) /\ Goto(c, AfterWrite(k))
    <2>1. Expected(k) /\ req.version = k.version
      BY <1>1, <1>11 DEF Guarded, Conflict
    <2>2. \A d \in Callers : call'[d] = IF d = c THEN AfterWrite(k) ELSE call[d]
      BY <1>11, Gone
    <2>3. CASE k.pc \in {"respond", "cancel"}
      <3>1. req.status = "pending"
        BY <2>1, <2>3 DEF Expected
      <3>2. \A d \in Callers : call[d].pc \notin Tried
        BY <1>10, <3>1 DEF Early
      <3>3. Open(req') /\ req'.status # "executing"
        <4>1. CASE k.pc = "respond"
          <5>1. req' = [saved EXCEPT !.status = IF k.ending = "deny" THEN "denied" ELSE "accepted",
                                     !.by = k.life]
            BY <1>11, <4>1 DEF Written, saved
          <5>2. req'.status \in {"denied", "accepted"} /\ req'.event = saved.event
                /\ req'.stale = saved.stale /\ req'.exec = saved.exec
            BY <1>8, <5>1 DEF Requests
          <5> QED BY <1>8, <3>1, <5>2 DEF Lonely, Open
        <4>2. CASE k.pc = "cancel"
          <5>1. req' = [saved EXCEPT !.status = "cancelled"]
            BY <1>11, <4>2 DEF Written, saved
          <5>2. req'.status = "cancelled" /\ req'.event = saved.event
                /\ req'.stale = saved.stale /\ req'.exec = saved.exec
            BY <1>8, <5>1 DEF Requests
          <5> QED BY <1>8, <3>1, <5>2 DEF Lonely, Open
        <4> QED BY <2>3, <4>1, <4>2
      <3>4. Early(AfterWrite(k), req', seen'.outages, used')
        <4>1. CASE k.pc = "respond" /\ k.ending = "approve"
          <5>1. AfterWrite(k) = [on EXCEPT !.pc = "preauth", !.ending = "none"]
            BY <4>1 DEF AfterWrite, on
          <5>2. /\ AfterWrite(k).pc = "preauth" /\ AfterWrite(k).refused = on.refused
                /\ AfterWrite(k).recovered = on.recovered /\ AfterWrite(k).x = on.x
            BY <1>7, <5>1 DEF Records
          <5> QED BY <1>1, <1>7, <5>2 DEF Early, Tried
        <4>2. CASE ~(k.pc = "respond" /\ k.ending = "approve")
          <5>1. AfterWrite(k) = Idle
            BY <2>3, <4>2 DEF AfterWrite, on
          <5> QED BY <5>1, IdleEarly
        <4> QED BY <4>1, <4>2
      <3>5. ASSUME NEW d \in Callers
            PROVE  Early(call'[d], req', seen'.outages, used')
        <4>1. CASE d # c
          BY <1>10, <2>2, <3>2, <4>1 DEF Early, Tried
        <4> QED BY <2>2, <3>4, <4>1
      <3> QED BY <1>2, <1>4, <1>9, <2>3, <3>3, <3>5 DEF Lonely
    <2>4. CASE k.pc = "claim"
      <3>1. req.status = "accepted"
        BY <2>1, <2>4 DEF Expected
      <3>2. \A d \in Callers : call[d].pc \notin Tried
        BY <1>10, <3>1 DEF Early
      <3>3. req' = [saved EXCEPT !.status = "executing", !.exec = k.x, !.stale = FALSE]
        BY <1>11, <2>4 DEF Written, saved
      <3>4. /\ req'.status = "executing" /\ req'.event = saved.event /\ ~req'.stale
            /\ req'.exec = k.x /\ req'.version = saved.version
        BY <1>8, <3>3 DEF Requests
      <3>5. Open(req')
        BY <1>1, <1>8, <3>4 DEF Lonely, Open, Early
      <3>6. AfterWrite(k) = [on EXCEPT !.pc = "assert"]
        BY <2>4 DEF AfterWrite, on
      <3>7. /\ AfterWrite(k).pc = "assert" /\ AfterWrite(k).refused = on.refused
            /\ AfterWrite(k).recovered = on.recovered /\ AfterWrite(k).x = on.x
            /\ AfterWrite(k).version = on.version
        BY <1>7, <3>6 DEF Records
      <3>8. Early(AfterWrite(k), req', seen'.outages, used')
        BY <1>1, <1>7, <1>8, <2>1, <3>4, <3>7 DEF Early, Tried
      <3>9. ASSUME NEW d \in Callers
            PROVE  Early(call'[d], req', seen'.outages, used')
        <4>1. CASE d # c
          BY <1>10, <2>2, <3>2, <4>1 DEF Early, Tried
        <4> QED BY <2>2, <3>8, <4>1
      <3>10. call'[c].pc \in Tried
        BY <2>2, <3>7 DEF Tried
      <3> QED BY <1>2, <1>4, <1>9, <2>4, <3>5, <3>9, <3>10 DEF Lonely
    <2>5. CASE k.pc = "release"
      <3>1. k.pc \in Tried /\ seen.outages = 1
        BY <1>1, <2>5 DEF Early, Tried
      <3>2. \A d \in Callers \ {c} : call[d].pc \notin Tried
        BY <3>1 DEF Attempts, Attempting, Tried, k
      <3>3. req' = [saved EXCEPT !.status = "accepted", !.exec = Unclaimed]
        BY <1>11, <2>5 DEF Written, saved
      <3>4. /\ req'.status = "accepted" /\ req'.event = saved.event /\ req'.stale = saved.stale
            /\ req'.exec = Unclaimed
        BY <1>8, <3>3 DEF Requests
      <3>5. Open(req') /\ req'.status # "executing"
        BY <1>8, <3>4 DEF Lonely, Open
      <3>6. AfterWrite(k) = Idle
        BY <2>5 DEF AfterWrite, on
      <3>7. ASSUME NEW d \in Callers
            PROVE  Early(call'[d], req', seen'.outages, used')
        <4>1. CASE d # c
          BY <1>10, <2>2, <3>2, <4>1 DEF Early, Tried
        <4> QED BY <2>2, <3>6, <4>1, IdleEarly
      <3> QED BY <1>2, <1>4, <3>1, <3>5, <3>7 DEF Lonely
    <2> QED BY <1>1, <2>3, <2>4, <2>5
  <1>12. CASE Conflict(k) /\ (IF AlreadyThere(k) THEN Goto(c, AfterReplay(k)) ELSE Leave(c))
              /\ UNCHANGED req
    <2>1. k.pc # "release"
      <3>1. SUFFICES ASSUME k.pc = "release" PROVE FALSE
        OBVIOUS
      <3>2. k.version = req.version /\ NoRelease(used)
        BY <1>1, <3>1 DEF Early, Tried
      <3>3. OperationId(k) \in used
        BY <1>12, <3>2 DEF Conflict
      <3> QED BY <1>2, <3>1, <3>2, <3>3 DEF NoRelease
    <2>2. PICK r \in Records : /\ Goto(c, r)
                               /\ Early(r, req, seen.outages, used') /\ r.pc \notin Tried
      <3>1. CASE Leave(c)
        BY <3>1, IdleEarly, IdleType DEF Leave, Tried
      <3>2. CASE AlreadyThere(k) /\ Goto(c, AfterReplay(k)) /\ k.pc = "claim"
        <4>1. AfterReplay(k) = Replayed(k) /\ ~k.refused
          BY <1>1, <3>2 DEF AfterReplay, Early
        <4>2. Replayed(k) \in {Idle, [back EXCEPT !.pc = "replay"]}
          BY <4>1 DEF Replayed, back
        <4>3. LET b == [back EXCEPT !.pc = "replay"] IN
              /\ b \in Records /\ b.pc = "replay" /\ b.refused = back.refused
              /\ b.recovered = back.recovered /\ b.x = back.x
          BY <1>6 DEF Records, Points
        <4>4. Early([back EXCEPT !.pc = "replay"], req, seen.outages, used')
          BY <1>1, <1>6, <4>3 DEF Early, Tried
        <4> QED BY <3>2, <4>1, <4>2, <4>3, <4>4, IdleEarly, IdleType DEF Tried
      <3>3. CASE AlreadyThere(k) /\ Goto(c, AfterReplay(k)) /\ k.pc = "respond"
                 /\ req.status = "accepted"
        <4>1. AfterReplay(k) = [back EXCEPT !.pc = "preauth", !.ending = "none"]
          BY <3>3 DEF AfterReplay, back
        <4>2. LET b == AfterReplay(k) IN
              /\ b \in Records /\ b.pc = "preauth" /\ b.refused = back.refused
              /\ b.recovered = back.recovered /\ b.x = back.x
          BY <1>6, <4>1 DEF Records, Points, Endings
        <4> QED BY <1>1, <1>6, <3>3, <4>2 DEF Early, Tried
      <3>4. CASE AlreadyThere(k) /\ Goto(c, AfterReplay(k)) /\ k.pc \notin {"claim", "release"}
                 /\ ~(k.pc = "respond" /\ req.status = "accepted")
        <4>1. AfterReplay(k) = Idle
          BY <1>1, <3>4 DEF AfterReplay, back
        <4> QED BY <3>4, <4>1, IdleEarly, IdleType DEF Tried
      <3> QED BY <1>12, <2>1, <3>1, <3>2, <3>3, <3>4
    <2>3. \A d \in Callers : call'[d] = IF d = c THEN r ELSE call[d]
      BY <2>2, Gone
    <2>4. NoRelease(used) => NoRelease(used')
      BY <1>9, <2>1
    <2>5. ASSUME NEW d \in Callers
          PROVE  Early(call'[d], req', seen'.outages, used')
      <3>1. CASE d # c
        BY <1>4, <1>10, <1>12, <2>3, <2>4, <3>1 DEF Early
      <3> QED BY <1>4, <1>12, <2>2, <2>3, <3>1
    <2>6. call[c].pc \notin Tried
      BY <1>1, <2>1 DEF Tried, k
    <2>7. req.status = "executing" => \E d \in Callers : call'[d].pc \in Tried
      BY <2>3, <2>6 DEF Lonely
    <2> QED BY <1>2, <1>4, <1>12, <2>4, <2>5, <2>7 DEF Lonely
  <1> QED BY <1>5, <1>11, <1>12 DEF Put, k

\* Only a reason, an outage or a fault can come before a refusal or a death.
LEMMA CalmBefore ==
  ASSUME Base, [Next]_vars, Calm'
  PROVE  /\ Calm /\ seen.outages \in Nat /\ seen'.outages \in Nat
         /\ seen.outages <= seen'.outages
  <1>1. /\ seen' \in [calls : Nat, outages : Nat, faults : Nat, reason : BOOLEAN,
                      attempt : BOOLEAN]
        /\ seen \in [calls : Nat, outages : Nat, faults : Nat, reason : BOOLEAN,
                     attempt : BOOLEAN]
        /\ req \in Requests
    BY NextBase DEF Base, TypeOK, Requests
  <1>2. \/ UNCHANGED seen
        \/ seen' = [seen EXCEPT !.calls = @ + 1]
        \/ seen' = [seen EXCEPT !.reason = TRUE]
        \/ seen' = [seen EXCEPT !.attempt = TRUE]
        \/ seen' = [seen EXCEPT !.outages = @ + 1]
        \/ seen' = [seen EXCEPT !.faults = @ + 1]
        \/ LeaseRunsOut
    <2>1. ASSUME NEW c \in Callers, Continue(c)
          PROVE  \/ UNCHANGED seen
                 \/ seen' = [seen EXCEPT !.reason = TRUE]
                 \/ seen' = [seen EXCEPT !.attempt = TRUE]
                 \/ seen' = [seen EXCEPT !.outages = @ + 1]
                 \/ seen' = [seen EXCEPT !.faults = @ + 1]
      <3>1. CASE Put(c)
        BY <3>1 DEF Put, Fault
      <3>2. CASE PreAuthorize(c) \/ Reauthorize(c) \/ ReauthorizeReplay(c)
        BY <3>2 DEF PreAuthorize, Reauthorize, ReauthorizeReplay, Authorize, Fault
      <3>3. CASE Dispatch(c)
        BY <3>3 DEF Dispatch
      <3>4. CASE \/ ClaimExecution(c) \/ AssertExecutionClaim(c) \/ ReleaseExecutionClaim(c)
                 \/ RecordInteraction(c) \/ SettleExecution(c) \/ FindTargetResult(c)
                 \/ RecoverExecution(c) \/ FailStaleExecution(c) \/ Emit(c)
                 \/ MarkMaintenanceEventDelivered(c)
        BY <3>4 DEF ClaimExecution, AssertExecutionClaim, ReleaseExecutionClaim,
                    RecordInteraction, SettleExecution, FindTargetResult, RecoverExecution,
                    FailStaleExecution, Emit, MarkMaintenanceEventDelivered, Check
      <3> QED BY <2>1, <3>1, <3>2, <3>3, <3>4 DEF Continue
    <2>2. ASSUME NEW c \in Callers, Die(c)
          PROVE  seen' = [seen EXCEPT !.faults = @ + 1]
      BY <2>2 DEF Die, Fault
    <2>3. ASSUME NEW c \in Clients, NEW r \in Responses,
                 Cancel(c, r) \/ \E answer \in {"approve", "deny"} : Respond(c, r, answer)
          PROVE  seen' = [seen EXCEPT !.calls = @ + 1]
      BY <2>3 DEF Cancel, Respond
    <2>4. ASSUME NEW t \in Ticks, StartTick(t) \/ TimeRunsOut \/ UNCHANGED vars
          PROVE  UNCHANGED seen
      BY <2>4 DEF StartTick, TimeRunsOut, vars
    <2>5. TimeRunsOut \/ UNCHANGED vars => UNCHANGED seen
      BY DEF TimeRunsOut, vars
    <2> QED BY <2>1, <2>2, <2>3, <2>4, <2>5 DEF Next
  <1>3. LeaseRunsOut => seen'.outages = seen.outages /\ seen'.faults = seen.faults
                        /\ seen'.attempt = seen.attempt /\ (seen.reason => seen'.reason)
    BY <1>1 DEF LeaseRunsOut
  <1>4. req.over => req'.over
    <2>1. ASSUME NEW c \in Callers, Commits(c)
          PROVE  req'.over = req.over
      <3> DEFINE k == call[c]
                 saved == [req EXCEPT !.version = @ + 1]
      <3>1. k.pc \in PutPoints /\ req' = Written(k)
        BY <2>1 DEF Commits
      <3>2. saved \in Requests /\ saved.over = req.over
        BY <1>1 DEF Requests
      <3> HIDE DEF k, saved
      <3>3. CASE k.pc \in {"respond", "cancel", "claim"}
        BY <3>1, <3>2, <3>3 DEF Written, saved, Requests
      <3>4. CASE k.pc \in {"release", "recover", "settle", "failStale"}
        BY <3>1, <3>2, <3>4 DEF Written, saved, Requests
      <3>5. CASE k.pc \in {"expire", "interrupt", "mark"}
        BY <3>1, <3>2, <3>5 DEF Written, saved, Requests
      <3> QED BY <3>1, <3>3, <3>4, <3>5 DEF PutPoints
    <2>2. \/ req' = req \/ (\E c \in Callers : Commits(c)) \/ TimeRunsOut \/ LeaseRunsOut
      <3>1. ASSUME NEW c \in Callers, Continue(c)
            PROVE  req' = req \/ Commits(c)
        BY <3>1, ContinueStep DEF StepOf, Quiet, Runs, Saves, Tells
      <3>2. ASSUME NEW c \in Callers, Die(c)
            PROVE  req' = req
        BY <3>2 DEF Die
      <3>3. ASSUME NEW c \in Clients, NEW r \in Responses,
                   Cancel(c, r) \/ \E answer \in {"approve", "deny"} : Respond(c, r, answer)
            PROVE  req' = req
        BY <3>3 DEF Cancel, Respond
      <3>4. ASSUME NEW t \in Ticks, StartTick(t)
            PROVE  req' = req
        BY <3>4 DEF StartTick
      <3> QED BY <3>1, <3>2, <3>3, <3>4 DEF Next, vars
    <2>3. TimeRunsOut \/ LeaseRunsOut => (req.over => req'.over)
      BY <1>1 DEF TimeRunsOut, LeaseRunsOut, Requests
    <2> QED BY <2>1, <2>2, <2>3
  <1> QED BY <1>1, <1>2, <1>3, <1>4 DEF Calm

\* A step that waits for an answer of the authorization.
LEMMA AuthorizeLonely ==
  ASSUME Base, Lonely, Calm, Calm', NEW c \in Callers,
         seen.outages \in Nat, seen'.outages \in Nat, seen.outages <= seen'.outages,
         NEW a \in Records, NEW b \in Records, NEW d \in Records, Authorize(c, a, b, d),
         Early(a, req, seen.outages, used),
         NoRelease(used) \/ d.pc # "release" => Early(d, req, 1, used),
         call[c].pc \in Tried => a.pc \in Tried /\ d.pc \in Tried
  PROVE  Lonely'
  <1>1. UNCHANGED <<req, used, target>>
    BY DEF Authorize
  <1>2. CASE Goto(c, a) /\ UNCHANGED seen
    BY <1>1, <1>2, LonelyGoes
  <1>3. CASE seen' = [seen EXCEPT !.reason = TRUE]
    BY <1>3 DEF Calm, Base, TypeOK
  <1>4. CASE Goto(c, d) /\ Fault("outages")
    <2>1. seen'.outages = seen.outages + 1
      BY <1>4 DEF Fault, Base, TypeOK
    <2>2. seen.outages = 0 /\ seen'.outages = 1
      BY <2>1 DEF Calm
    <2>3. NoRelease(used)
      BY <2>2 DEF Lonely
    <2> QED BY <1>1, <1>4, <2>2, <2>3, LonelyGoes
  <1> QED BY <1>2, <1>3, <1>4 DEF Authorize

LEMMA CheckLonely ==
  ASSUME Base, Lonely, Calm', NEW c \in Callers, NEW ok \in BOOLEAN, Check(c, ok),
         ok => call[c].pc # "recover", ~ok => call[c].pc \notin Tried
  PROVE  Lonely'
  <1>1. /\ UNCHANGED <<req, used, target, seen>> /\ seen.outages \in Nat
        /\ call[c] \in Records /\ Early(call[c], req, seen.outages, used)
    BY CallType DEF Check, Base, TypeOK, Lonely
  <1>2. CASE ~ok
    BY <1>1, <1>2, IdleEarly, IdleType, LonelyGoes DEF Check, Leave
  <1>3. CASE ok
    <2> DEFINE k == [call[c] EXCEPT !.put = TRUE]
    <2>1. Goto(c, k)
      BY <1>3 DEF Check
    <2>2. /\ k \in Records /\ k.pc = call[c].pc /\ k.refused = call[c].refused
          /\ k.recovered = call[c].recovered /\ k.x = call[c].x /\ k.version = call[c].version
      BY <1>1 DEF Records
    <2> HIDE DEF k
    <2>3. Early(k, req, seen'.outages, used)
      BY <1>1, <1>3, <2>2 DEF Early
    <2> QED BY <1>1, <2>1, <2>2, <2>3, LonelyGoes
  <1> QED BY <1>2, <1>3

LEMMA ContinueLonely ==
  ASSUME Base, Attempts, Lonely, Calm, Calm', NEW c \in Callers, Continue(c),
         seen.outages \in Nat, seen'.outages \in Nat, seen.outages <= seen'.outages
  PROVE  Lonely'
  <1> DEFINE k == call[c]
  <1>1. k \in Records /\ Early(k, req, seen.outages, used)
    BY CallType DEF Lonely
  <1>2. ASSUME NEW pc \in Points
        PROVE  LET r == [k EXCEPT !.pc = pc] IN
               /\ r \in Records /\ r.pc = pc /\ r.refused = k.refused /\ r.put = k.put
               /\ r.recovered = k.recovered /\ r.x = k.x /\ r.version = k.version
    BY <1>1 DEF Records
  <1>3. ~req.stale /\ target.record = "none" /\ ~req.over
    BY DEF Lonely, Open, Calm
  <1> HIDE DEF k
  <1>4. /\ "claim" \in Points /\ "release" \in Points /\ "reauth" \in Points
        /\ "dispatch" \in Points /\ "find" \in Points /\ "recover" \in Points
    BY DEF Points
  <1>5. CASE Put(c)
    BY <1>5, PutLonely
  <1>6. CASE PreAuthorize(c)
    <2> DEFINE claim == [k EXCEPT !.pc = "claim"]
    <2>1. claim \in Records /\ Early(claim, req, seen.outages, used)
      BY <1>1, <1>2, <1>4 DEF Early, Tried
    <2>2. Authorize(c, claim, [claim EXCEPT !.refused = TRUE], Idle) /\ k.pc = "preauth"
      BY <1>6 DEF PreAuthorize, At, k
    <2> HIDE DEF claim
    <2>3. [claim EXCEPT !.refused = TRUE] \in Records
      BY <2>1 DEF Records
    <2> QED BY <2>1, <2>2, <2>3, IdleEarly, IdleType, AuthorizeLonely DEF Tried, k
  <1>7. CASE ClaimExecution(c)
    <2>1. k.pc = "claim" /\ ~k.refused
      BY <1>1, <1>7 DEF ClaimExecution, At, Early, k
    <2>2. CASE Goto(c, Replayed(k)) /\ UNCHANGED <<req, used, target, told, seen>>
      <3> DEFINE back == [k EXCEPT !.put = FALSE, !.version = req.version]
                 b == [back EXCEPT !.pc = "replay"]
      <3>1. Replayed(k) \in {Idle, b}
        BY <2>1 DEF Replayed
      <3>2. /\ back \in Records /\ back.refused = k.refused
            /\ back.recovered = k.recovered /\ back.x = k.x
        BY <1>1 DEF Records, Base, TypeOK
      <3> HIDE DEF back
      <3>3. /\ b \in Records /\ b.pc = "replay" /\ b.refused = k.refused
            /\ b.recovered = k.recovered /\ b.x = k.x
        BY <3>2 DEF Records, Points
      <3> HIDE DEF b
      <3>4. Early(b, req, seen.outages, used)
        BY <1>1, <3>3 DEF Early, Tried
      <3> QED BY <2>1, <2>2, <3>1, <3>3, <3>4, IdleEarly, IdleType, LonelyGoes DEF Tried, k
    <2>3. CASE Check(c, req.status = "accepted" /\ ~req.over /\ req.version = k.version)
      BY <2>1, <2>3, CheckLonely DEF Tried, k, Base, TypeOK
    <2> QED BY <1>7, <2>2, <2>3 DEF ClaimExecution, k
  <1>8. CASE AssertExecutionClaim(c)
    <2>1. k.pc = "assert" /\ UNCHANGED <<req, used, target, told, seen>>
      BY <1>8 DEF AssertExecutionClaim, At, k
    <2>2. HoldsLease(k) /\ ~k.refused
      BY <1>1, <1>3, <2>1 DEF HoldsLease, Holds, Early, Tried, Lonely, Open
    <2>3. Goto(c, [k EXCEPT !.pc = "reauth"])
      BY <1>3, <1>8, <2>2, Zenon DEF AssertExecutionClaim, k
    <2>4. Early([k EXCEPT !.pc = "reauth"], req, seen.outages, used)
      BY <1>1, <1>2, <1>4, <2>1 DEF Early, Tried
    <2> QED BY <1>2, <1>4, <2>1, <2>3, <2>4, LonelyGoes DEF Tried
  <1>9. CASE Reauthorize(c)
    <2>1. k.pc = "reauth" /\ Authorize(c, [k EXCEPT !.pc = "dispatch"], Failing(k),
                                       [k EXCEPT !.pc = "release"])
      BY <1>9 DEF Reauthorize, At, k
    <2>2. Early([k EXCEPT !.pc = "dispatch"], req, seen.outages, used)
      BY <1>1, <1>2, <1>4, <2>1 DEF Early, Tried
    <2>3. NoRelease(used) => Early([k EXCEPT !.pc = "release"], req, 1, used)
      BY <1>1, <1>2, <1>4, <2>1 DEF Early, Tried
    <2>4. Failing(k) \in Records
      BY <1>1, FailingType
    <2>5. /\ [k EXCEPT !.pc = "dispatch"] \in Records /\ [k EXCEPT !.pc = "release"] \in Records
          /\ [k EXCEPT !.pc = "dispatch"].pc \in Tried /\ [k EXCEPT !.pc = "release"].pc = "release"
          /\ [k EXCEPT !.pc = "release"].pc \in Tried
      BY <1>2, <1>4 DEF Tried
    <2> QED BY <2>1, <2>2, <2>3, <2>4, <2>5, AuthorizeLonely
  <1>10. CASE ReleaseExecutionClaim(c)
    <2>1. k.pc = "release" /\ HoldsLease(k)
      BY <1>1, <1>3, <1>10 DEF ReleaseExecutionClaim, At, HoldsLease, Holds, Early, Tried,
                               Lonely, Open, k
    <2>2. Check(c, TRUE)
      BY <1>10, <2>1 DEF ReleaseExecutionClaim, Check, k
    <2> QED BY <2>1, <2>2, CheckLonely DEF k
  <1>11. CASE Dispatch(c)
    BY <1>11 DEF Dispatch, Calm, Base, TypeOK
  <1>12. CASE RecordInteraction(c) \/ SettleExecution(c) \/ FailStaleExecution(c) \/ Emit(c)
              \/ MarkMaintenanceEventDelivered(c)
    BY <1>1, <1>12 DEF RecordInteraction, SettleExecution, FailStaleExecution, Emit,
                       MarkMaintenanceEventDelivered, At, Early, Tried, k
  <1>13. CASE ReauthorizeReplay(c)
    <2> DEFINE refused == [k EXCEPT !.refused = TRUE]
               b == IF StaleClaim(k) THEN [refused EXCEPT !.pc = "recover"]
                    ELSE Failing(refused)
    <2>1. refused \in Records
      BY <1>1 DEF Records
    <2>2. Authorize(c, [k EXCEPT !.pc = "find"], b, Idle) /\ k.pc = "replay"
      BY <1>13 DEF ReauthorizeReplay, At, k
    <2> HIDE DEF refused
    <2>3. b \in Records
      BY <2>1, <1>4, FailingType, Goes
    <2>4. [k EXCEPT !.pc = "find"] \in Records
          /\ Early([k EXCEPT !.pc = "find"], req, seen.outages, used)
      BY <1>1, <1>2, <1>4 DEF Early, Tried
    <2> HIDE DEF b
    <2> QED BY <2>2, <2>3, <2>4, IdleEarly, IdleType, AuthorizeLonely DEF Tried, k
  <1>14. CASE FindTargetResult(c)
    <2>1. /\ UNCHANGED <<req, used, target, told, seen>> /\ k.pc = "find" /\ ~k.recovered
          /\ ~k.put /\ ~FoundResult(k)
      BY <1>1, <1>3, <1>14 DEF FindTargetResult, At, Early, FoundResult, k
    <2>2. Goto(c, [k EXCEPT !.pc = "recover"]) \/ Goto(c, Idle)
      BY <1>14, <2>1 DEF FindTargetResult, k
    <2>3. [k EXCEPT !.pc = "recover"] \in Records
          /\ Early([k EXCEPT !.pc = "recover"], req, seen.outages, used)
      BY <1>1, <1>2, <1>4, <2>1 DEF Early, Tried
    <2> QED BY <2>1, <2>2, <2>3, IdleEarly, IdleType, LonelyGoes DEF Tried, k
  <1>15. CASE RecoverExecution(c)
    <2>2. req.exec # NextExecution(k)
      <3>1. NextExecution(k) = <<"result">>
        BY <1>1 DEF NextExecution, Early, Initial
      <3> QED BY <3>1 DEF Lonely, Open, Initial, Unclaimed
    <2>3. Check(c, FALSE) /\ k.pc = "recover"
      BY <1>3, <1>15, <2>2 DEF RecoverExecution, At, Check, k
    <2> QED BY <2>3, CheckLonely DEF Tried, k
  <1> QED BY <1>5, <1>6, <1>7, <1>8, <1>9, <1>10, <1>11, <1>12, <1>13, <1>14, <1>15
          DEF Continue

LEMMA IdleFields ==
  Idle \in Records /\ ~Idle.refused /\ ~Idle.recovered /\ Idle.x = Initial /\ Initial \in Executions
  BY IdleType DEF Idle, Initial, Executions

LEMMA NextLonely ==
  ASSUME Base, Attempts, Lonely, [Next]_vars, Calm'
  PROVE  Lonely'
  <1>1. Calm /\ seen.outages \in Nat /\ seen'.outages \in Nat /\ seen.outages <= seen'.outages
    BY CalmBefore
  <1>2. ASSUME NEW c \in Clients, NEW r \in Responses, NEW answer \in {"approve", "deny"},
               Respond(c, r, answer)
        PROVE  Lonely'
    <2> DEFINE k == [Idle EXCEPT !.pc = "respond", !.life = r, !.ending = answer,
                                 !.version = req.version]
               a == [k EXCEPT !.put = TRUE]
               b == [k EXCEPT !.pc = "preauth", !.ending = "none"]
    <2>1. c \in Callers /\ req.version \in Nat /\ call[c] = Idle
      BY <1>2 DEF Callers, Base, TypeOK, Respond
    <2>2. k \in Records /\ k.pc = "respond" /\ ~k.refused /\ ~k.recovered /\ k.x = Initial
      <3>1. /\ "respond" \in Points /\ answer \in Endings
            /\ r \in Responses \cup {"none", "tick"}
        BY DEF Points, Endings
      <3> QED BY <2>1, <3>1, IdleFields DEF Records
    <2>3. UNCHANGED <<req, used, target>> /\ (Goto(c, a) \/ Goto(c, b))
      BY <1>2 DEF Respond
    <2> HIDE DEF k
    <2>4. a \in Records /\ Early(a, req, seen'.outages, used)
      BY <2>2 DEF Records, Early, Tried
    <2>5. b \in Records /\ Early(b, req, seen'.outages, used)
      BY <2>2 DEF Records, Points, Endings, Early, Tried
    <2>6. call[c].pc \notin Tried
      BY <2>1 DEF Idle, Tried
    <2> HIDE DEF a, b
    <2> QED BY <1>1, <2>1, <2>3, <2>4, <2>5, <2>6, LonelyGoes
  <1>3. ASSUME NEW c \in Clients, NEW r \in Responses, Cancel(c, r)
        PROVE  Lonely'
    <2> DEFINE k == [Idle EXCEPT !.pc = "cancel", !.put = TRUE, !.life = r,
                                 !.version = req.version]
    <2>1. c \in Callers /\ req.version \in Nat /\ call[c] = Idle
      BY <1>3 DEF Callers, Base, TypeOK, Cancel
    <2>2. k \in Records /\ k.pc = "cancel" /\ ~k.refused /\ ~k.recovered /\ k.x = Initial
      <3>1. "cancel" \in Points /\ r \in Responses \cup {"none", "tick"}
        BY DEF Points
      <3> QED BY <2>1, <3>1, IdleFields DEF Records
    <2>3. UNCHANGED <<req, used, target>> /\ Goto(c, k)
      BY <1>3 DEF Cancel
    <2> HIDE DEF k
    <2>4. Early(k, req, seen'.outages, used) /\ call[c].pc \notin Tried
      BY <2>1, <2>2 DEF Early, Tried, Idle
    <2> QED BY <1>1, <2>1, <2>2, <2>3, <2>4, LonelyGoes
  <1>4. ASSUME NEW t \in Ticks, StartTick(t)
        PROVE  Lonely'
    <2> DEFINE k == [Idle EXCEPT !.life = "tick", !.version = req.version,
                                 !.x = IF req.exec = Unclaimed THEN Initial ELSE req.exec]
               to(pc, ending, put) == [k EXCEPT !.pc = pc, !.ending = ending, !.put = put]
    <2>1. /\ t \in Callers /\ UNCHANGED <<req, used, target>> /\ req.version \in Nat
          /\ call[t] = Idle
      BY <1>4 DEF StartTick, Callers, Base, TypeOK
    <2>2. /\ ~req.over /\ ~req.stale /\ req.event = "none" /\ req.exec \in {Initial, Unclaimed}
      BY <1>1 DEF Calm, Lonely, Open
    <2>3. /\ k \in Records /\ ~k.refused /\ ~k.recovered /\ k.x = Initial
      <3>1. k = [[Idle EXCEPT !.life = "tick", !.version = req.version] EXCEPT !.x = Initial]
        BY <2>2
      <3> QED BY <2>1, <3>1, IdleFields DEF Records
    <2>4. Goto(t, to("preauth", "none", FALSE))
      BY <1>4, <2>2 DEF StartTick
    <2> HIDE DEF k
    <2>5. /\ to("preauth", "none", FALSE) \in Records
          /\ Early(to("preauth", "none", FALSE), req, seen'.outages, used)
      BY <2>3 DEF Records, Points, Endings, Early, Tried
    <2>6. call[t].pc \notin Tried
      BY <2>1 DEF Idle, Tried
    <2> HIDE DEF to
    <2> QED BY <1>1, <2>1, <2>4, <2>5, <2>6, LonelyGoes
  <1>5. ASSUME NEW c \in Callers, Die(c)
        PROVE  FALSE
    BY <1>1, <1>5 DEF Die, Fault, Calm, Base, TypeOK
  <1>6. CASE TimeRunsOut
    BY <1>6 DEF TimeRunsOut, Calm, Base, TypeOK
  <1>7. CASE LeaseRunsOut
    <2>1. \E c \in Callers : call[c].pc \in Executing
      BY <1>7 DEF LeaseRunsOut, Lonely, Tried, Executing
    <2> QED BY <1>7, <2>1 DEF LeaseRunsOut, Calm, Base, TypeOK
  <1>8. CASE UNCHANGED vars
    BY <1>8 DEF vars, Lonely, Open, Early, NoRelease
  <1> QED BY <1>1, <1>2, <1>3, <1>4, <1>5, <1>6, <1>7, <1>8, ContinueLonely DEF Next

\* A check that could not be had leaves the request open to another execution,
\* as long as nothing else went wrong (executeAccepted releases its claim).
THEOREM OutageRetried == Spec => []OneOutageIsRetried
  <1> DEFINE Lone == Calm => Lonely
  <1>1. Init => Lone
    BY InitLonely
  <1>2. Base /\ Attempts /\ Lone /\ [Next]_vars => Lone'
    BY CalmBefore, NextLonely
  <1>3. Base /\ Lone => OneOutageIsRetried
    <2> SUFFICES ASSUME Base, Lone, req.status = "failed", ~seen.attempt
                 PROVE  seen.reason \/ seen.faults > 0 \/ seen.outages > 1 \/ req.over
      BY DEF OneOutageIsRetried
    <2>1. ~Calm
      BY DEF Lonely, Open
    <2> QED BY <2>1 DEF Calm, Base, TypeOK
  <1> HIDE DEF Lone
  <1> QED BY <1>1, <1>2, <1>3, InitBase, NextBase, InitAttempts, NextAttempts, PTL DEF Spec

=============================================================================

-------------------------- MODULE CompletionJobsProofs --------------------------
(* Theorems about CompletionJobs: for any jobs, ticks and worker ids, and for  *)
(* any number of slow or dead ticks.                                           *)
EXTENDS CompletionJobs, TLAPS

-----------------------------------------------------------------------------
\* The inductive invariant: each job agrees with its attempts, and a tick that
\* works holds the number of an attempt that exists.

Rows == [status : Statuses, owner : Workers \cup {None}, live : BOOLEAN, input : Inputs]

Sound(r, a) ==
    /\ r \in Rows /\ a \in Seq(Attempts)
    /\ r.status = "running" <=> r.owner # None
    /\ r.live => r.status = "running"
    /\ r.status = "completed" <=> \E n \in DOMAIN a : a[n].status = "completed"
    /\ \A m, n \in DOMAIN a : a[m].status = "completed" /\ a[n].status = "completed" => m = n
    /\ r.status = "running" =>
         a # <<>> /\ a[Len(a)].status = "running" /\ a[Len(a)].worker = r.owner

JobsSound ==
    /\ job \in [Jobs -> Rows] /\ attempts \in [Jobs -> Seq(Attempts)]
    /\ \A j \in Jobs : Sound(job[j], attempts[j])

Places ==
    [pc : {"idle", "looked", "read", "running", "answered", "ran", "close"},
     worker : Workers \cup {None}, job : Jobs \cup {None}, number : Nat, input : Inputs,
     as : {"none", "failed", "repairable_validation"}]

Placed(x) ==
    /\ x.pc \in {"looked", "read"} =>
         x.worker \in Workers /\ x.job \in Reviews \cup Evaluations
    /\ x.pc \in {"running", "answered", "ran", "close"} =>
         x.worker \in Workers /\ x.job \in Jobs /\ x.number \in 1 .. Len(attempts[x.job])
    /\ x.pc = "ran" => x.job \in Curators
    /\ x.pc = "close" => x.as \in {"failed", "repairable_validation"}

TicksPlaced == tick \in [Ticks -> Places] /\ \A t \in Ticks : Placed(tick[t])

Others == input \in [Kinds -> Inputs] /\ slow \in 0 .. MaxSlow /\ deaths \in 0 .. MaxDeaths

IInv == JobsSound /\ TicksPlaced /\ Others

-----------------------------------------------------------------------------
\* What becomes of one job.

LEMMA ReleasedSound ==
  ASSUME NEW r, NEW a, Sound(r, a), r.status # "completed",
         NEW s \in {"queued", "blocked", "failed"}
  PROVE  Sound(Released(r, s), a)
  <1>1. Released(r, s) \in Rows /\ Released(r, s).status = s /\ Released(r, s).owner = None
        /\ ~Released(r, s).live
    BY DEF Released, Sound, Rows, Statuses, Done
  <1> HIDE DEF Released
  <1> QED BY <1>1 DEF Sound

LEMMA TakenSound ==
  ASSUME NEW r, NEW a, Sound(r, a), r.status # "completed",
         NEW w \in Workers, NEW read \in Inputs
  PROVE  Sound([status |-> "running", owner |-> w, live |-> TRUE, input |-> read],
               Append(a, [worker |-> w, input |-> read, status |-> "running"]))
  <1> DEFINE q == [status |-> "running", owner |-> w, live |-> TRUE, input |-> read]
             e == [worker |-> w, input |-> read, status |-> "running"]
             b == Append(a, e)
  <1>1. q \in Rows /\ q.status = "running" /\ q.owner = w /\ w # None
    BY CompletionJobsAssumption DEF Rows, Statuses
  <1>2. e \in Attempts /\ e.status = "running" /\ e.worker = w
    BY DEF Attempts
  <1> HIDE DEF q, e
  <1>3. a \in Seq(Attempts) /\ \A n \in DOMAIN a : a[n].status # "completed"
    BY DEF Sound
  <1>4. /\ b \in Seq(Attempts) /\ b # <<>> /\ b[Len(b)] = e
        /\ \A n \in DOMAIN b : b[n] = e \/ (n \in DOMAIN a /\ b[n] = a[n])
    BY <1>2, <1>3
  <1> HIDE DEF b
  <1>5. \A n \in DOMAIN b : b[n].status # "completed"
    BY <1>2, <1>3, <1>4
  <1>6. Sound(q, b)
    BY <1>1, <1>2, <1>4, <1>5 DEF Sound
  <1> QED BY <1>6 DEF q, b, e

\* An attempt of a running job is closed, and the job with it.
LEMMA ClosedSound ==
  ASSUME NEW r, NEW a, Sound(r, a), r.status = "running", NEW n \in 1 .. Len(a),
         NEW as \in {"completed", "failed", "repairable_validation"},
         NEW s \in {"completed", "queued", "failed"}, s = "completed" <=> as = "completed"
  PROVE  Sound(Released(r, s), [a EXCEPT ![n].status = as])
  <1> DEFINE b == [a EXCEPT ![n].status = as]
  <1>1. Released(r, s) \in Rows /\ Released(r, s).status = s /\ Released(r, s).owner = None
        /\ ~Released(r, s).live
    BY DEF Released, Sound, Rows, Statuses, Done
  <1>2. a \in Seq(Attempts) /\ n \in DOMAIN a /\ \A m \in DOMAIN a : a[m].status # "completed"
    BY DEF Sound
  <1>3. a[n] \in Attempts /\ [a[n] EXCEPT !.status = as] \in Attempts
        /\ [a[n] EXCEPT !.status = as].status = as
    <2>1. a[n] \in Attempts
      BY <1>2
    <2> DEFINE x == a[n]
    <2>2. x \in Attempts
      BY <2>1
    <2> HIDE DEF x
    <2>3. [x EXCEPT !.status = as] \in Attempts /\ [x EXCEPT !.status = as].status = as
      BY <2>2 DEF Attempts
    <2> QED BY <2>1, <2>3 DEF x
  <1>4. b = [a EXCEPT ![n] = [a[n] EXCEPT !.status = as]]
    OBVIOUS
  <1>5. /\ b \in Seq(Attempts) /\ DOMAIN b = DOMAIN a
        /\ b[n] = [a[n] EXCEPT !.status = as] /\ \A m \in DOMAIN a \ {n} : b[m] = a[m]
    BY <1>2, <1>3, <1>4
  <1> HIDE DEF Released, b
  <1>6. b[n].status = as /\ \A m \in DOMAIN b : b[m].status = "completed" => m = n
    BY <1>2, <1>3, <1>5
  <1>7. Sound(Released(r, s), b)
    BY <1>1, <1>2, <1>5, <1>6 DEF Sound
  <1> QED BY <1>7 DEF b

-----------------------------------------------------------------------------
\* The steps.

LEMMA KindType == \A j \in Jobs : Kind(j) \in Kinds
  BY DEF Kind, Kinds

LEMMA IdleType == Idle \in Places /\ Placed(Idle) /\ Idle.pc = "idle"
  BY CompletionJobsAssumption DEF Idle, Places, Placed, Inputs

LEMMA InitIInv == Init => IInv
  <1> SUFFICES ASSUME Init PROVE IInv
    OBVIOUS
  <1>1. NoJob \in Rows /\ Sound(NoJob, <<>>)
    BY CompletionJobsAssumption DEF NoJob, Rows, Statuses, Inputs, Sound
  <1>2. JobsSound
    BY <1>1 DEF Init, JobsSound
  <1>3. TicksPlaced
    BY IdleType DEF Init, TicksPlaced
  <1>4. Others
    BY CompletionJobsAssumption DEF Init, Others, Inputs
  <1> QED BY <1>2, <1>3, <1>4 DEF IInv

\* Leases that ran out are given back.
LEMMA RequeuedSound ==
  ASSUME JobsSound
  PROVE  /\ Requeued \in [Jobs -> Rows]
         /\ \A j \in Jobs : Sound(Requeued[j], attempts[j])
         /\ \A j \in Jobs : Requeued[j].input = job[j].input
         /\ \A j \in Jobs : Requeued[j].status = "queued" => job[j].status # "completed"
         /\ \A j \in Jobs : Requeued[j].status = "completed" => job[j].status = "completed"
  <1>1. ASSUME NEW j \in Jobs
        PROVE  /\ Requeued[j] \in Rows /\ Sound(Requeued[j], attempts[j])
               /\ Requeued[j].input = job[j].input
               /\ Requeued[j].status = "queued" => job[j].status # "completed"
               /\ Requeued[j].status = "completed" => job[j].status = "completed"
    <2>1. job[j] \in Rows /\ Sound(job[j], attempts[j])
      BY DEF JobsSound
    <2>2. CASE Lost(j)
      <3>1. Requeued[j] = Released(job[j], "queued")
        BY <2>2 DEF Requeued
      <3>2. Sound(Requeued[j], attempts[j])
        BY <2>1, <2>2, <3>1, ReleasedSound DEF Lost
      <3>3. Requeued[j].input = job[j].input /\ Requeued[j].status = "queued"
        BY <2>1, <3>1 DEF Released, Rows
      <3> QED BY <2>2, <3>2, <3>3 DEF Sound, Lost
    <2>3. CASE ~Lost(j)
      BY <2>1, <2>3 DEF Requeued
    <2> QED BY <2>2, <2>3
  <1>2. Requeued \in [Jobs -> Rows]
    BY <1>1 DEF Requeued
  <1> QED BY <1>1, <1>2

\* A tick moves, and the attempts it may work on are not fewer.
LEMMA Moves ==
  ASSUME TicksPlaced, NEW t \in Ticks, NEW x \in Places, tick' = [tick EXCEPT ![t] = x],
         Placed(x)', \A j \in Jobs : Len(attempts'[j]) >= Len(attempts[j]),
         \A j \in Jobs : Len(attempts[j]) \in Nat /\ Len(attempts'[j]) \in Nat
  PROVE  TicksPlaced'
  <1>1. tick' \in [Ticks -> Places]
    BY DEF TicksPlaced
  <1>2. ASSUME NEW u \in Ticks PROVE Placed(tick[u])'
    <2>1. CASE u = t
      BY <2>1 DEF TicksPlaced
    <2>2. CASE u # t
      <3>1. tick'[u] = tick[u] /\ Placed(tick[u]) /\ tick[u] \in Places
        BY <2>2 DEF TicksPlaced
      <3>2. tick[u].number \in Nat
        BY <3>1 DEF Places
      <3>3. ASSUME tick[u].pc \in {"running", "answered", "ran", "close"}
            PROVE  tick[u].number \in 1 .. Len(attempts'[tick[u].job])
        BY <3>1, <3>2, <3>3 DEF Placed
      <3> QED BY <3>1, <3>3 DEF Placed
    <2> QED BY <2>1, <2>2
  <1> QED BY <1>1, <1>2 DEF TicksPlaced

LEMMA Lengths ==
  ASSUME JobsSound
  PROVE  \A j \in Jobs : Len(attempts[j]) \in Nat
  BY DEF JobsSound

LEMMA Keeps ==
  ASSUME JobsSound, attempts' = attempts
  PROVE  \A j \in Jobs : /\ Len(attempts'[j]) >= Len(attempts[j])
                         /\ Len(attempts[j]) \in Nat /\ Len(attempts'[j]) \in Nat
  BY Lengths

\* A tick that only moves on.
LEMMA OnlyMoves ==
  ASSUME IInv, NEW t \in Ticks, NEW x \in Places, tick' = [tick EXCEPT ![t] = x], Placed(x),
         UNCHANGED <<job, attempts>>, Others'
  PROVE  IInv'
  <1>1. JobsSound'
    BY DEF IInv, JobsSound
  <1>2. Placed(x)'
    BY DEF Placed
  <1>3. TicksPlaced'
    BY <1>2, Keeps, Moves DEF IInv
  <1> QED BY <1>1, <1>3 DEF IInv

LEMMA RowChange ==
  ASSUME IInv, job' \in [Jobs -> Rows], \A j \in Jobs : Sound(job'[j], attempts[j]),
         attempts' = attempts, tick' = tick, Others'
  PROVE  IInv'
  <1>1. JobsSound'
    BY DEF IInv, JobsSound
  <1>2. TicksPlaced'
    BY DEF IInv, TicksPlaced, Placed
  <1> QED BY <1>1, <1>2 DEF IInv

\* A tick claims a job that waits.
LEMMA TakeIInv ==
  ASSUME IInv, NEW t \in Ticks, NEW w \in Workers, NEW j \in Jobs, NEW jobs \in [Jobs -> Rows],
         NEW read \in Inputs, \A i \in Jobs : Sound(jobs[i], attempts[i]),
         jobs[j].status # "completed", Take(t, w, j, jobs, read), UNCHANGED <<input, slow, deaths>>
  PROVE  IInv'
  <1> DEFINE q == [status |-> "running", owner |-> w, live |-> TRUE, input |-> read]
             e == [worker |-> w, input |-> read, status |-> "running"]
             place == [Idle EXCEPT !.pc = "running", !.worker = w, !.job = j,
                                   !.number = Len(attempts[j]) + 1, !.input = read]
  <1>1. /\ job' = [jobs EXCEPT ![j] = q] /\ attempts' = [attempts EXCEPT ![j] = Append(@, e)]
        /\ tick' = [tick EXCEPT ![t] = place]
    BY DEF Take
  <1>2. Len(attempts[j]) \in Nat /\ attempts[j] \in Seq(Attempts)
    BY Lengths DEF IInv, JobsSound
  <1>3. q \in Rows /\ e \in Attempts
    BY DEF Rows, Statuses, Attempts
  <1>4. Sound(q, Append(attempts[j], e))
    BY TakenSound
  <1>5. PICK x \in Places : /\ x = place /\ x.pc = "running" /\ x.worker = w /\ x.job = j
                            /\ x.number = Len(attempts[j]) + 1
    <2>1. /\ Len(attempts[j]) + 1 \in Nat /\ w \in Workers \cup {None}
          /\ j \in Jobs \cup {None}
      BY <1>2
    <2>2. /\ place \in Places /\ place.pc = "running" /\ place.worker = w /\ place.job = j
          /\ place.number = Len(attempts[j]) + 1
      BY <2>1, IdleType DEF Places
    <2> QED BY <2>2
  <1> HIDE DEF q, e, place
  <1>6. Append(attempts[j], e) \in Seq(Attempts) /\ Len(Append(attempts[j], e)) = Len(attempts[j]) + 1
    BY <1>2, <1>3
  <1>7. JobsSound'
    BY <1>1, <1>3, <1>4, <1>6 DEF IInv, JobsSound
  <1>8. \A i \in Jobs : /\ Len(attempts'[i]) >= Len(attempts[i])
                        /\ Len(attempts[i]) \in Nat /\ Len(attempts'[i]) \in Nat
    BY <1>1, <1>2, <1>6, <1>7, Lengths DEF IInv, JobsSound
  <1>9. Placed(x)'
    <2>1. Len(attempts'[j]) = Len(attempts[j]) + 1
      BY <1>1, <1>6 DEF IInv, JobsSound
    <2> QED BY <1>2, <1>5, <2>1 DEF Placed
  <1>10. TicksPlaced'
    BY <1>1, <1>5, <1>8, <1>9, Moves DEF IInv
  <1> QED BY <1>7, <1>10 DEF IInv, Others

\* A tick closes the attempt it holds, and the job.
LEMMA CloseIInv ==
  ASSUME IInv, NEW t \in Ticks, NEW j \in Jobs, NEW n \in 1 .. Len(attempts[j]),
         job[j].status = "running", NEW as \in {"completed", "failed", "repairable_validation"},
         NEW s \in {"completed", "queued", "failed"}, s = "completed" <=> as = "completed",
         job' = [job EXCEPT ![j] = Released(@, s)],
         attempts' = [attempts EXCEPT ![j][n].status = as],
         Rest(t), UNCHANGED <<input, slow, deaths>>
  PROVE  IInv'
  <1> DEFINE b == [attempts[j] EXCEPT ![n].status = as]
             r == Released(job[j], s)
  <1>1. Sound(r, b)
    BY ClosedSound DEF IInv, JobsSound
  <1>2. job' = [job EXCEPT ![j] = r] /\ attempts' = [attempts EXCEPT ![j] = b]
    OBVIOUS
  <1>3. Len(b) = Len(attempts[j]) /\ Len(attempts[j]) \in Nat
    BY Lengths DEF IInv, JobsSound
  <1> HIDE DEF b, r
  <1>4. r \in Rows /\ b \in Seq(Attempts)
    BY <1>1 DEF Sound
  <1>5. JobsSound'
    BY <1>1, <1>2, <1>4 DEF IInv, JobsSound
  <1>6. \A i \in Jobs : /\ Len(attempts'[i]) >= Len(attempts[i])
                        /\ Len(attempts[i]) \in Nat /\ Len(attempts'[i]) \in Nat
    BY <1>2, <1>3, <1>5, Lengths DEF IInv, JobsSound
  <1>7. Placed(Idle)'
    BY DEF Placed, Idle
  <1>8. TicksPlaced'
    BY <1>6, <1>7, IdleType, Moves DEF IInv, Rest
  <1> QED BY <1>5, <1>8 DEF IInv, Others

LEMMA CompleteIInv ==
  ASSUME IInv, NEW t \in Ticks, Complete(t), Open(t), UNCHANGED <<input, slow, deaths>>,
         tick[t].pc \in {"running", "answered", "ran", "close"}
  PROVE  IInv'
  <1>1. tick[t].job \in Jobs /\ tick[t].number \in 1 .. Len(attempts[tick[t].job])
    BY DEF IInv, TicksPlaced, Placed
  <1>2. job[tick[t].job].status = "running"
    BY DEF Open, Owned
  <1> QED BY <1>1, <1>2, CloseIInv DEF Complete

LEMMA ClosingIInv ==
  ASSUME IInv, NEW t \in Ticks, NEW as \in {"failed", "repairable_validation"}, Closing(t, as),
         tick[t].pc \in {"running", "answered", "ran"}, UNCHANGED <<job, attempts>>, Others'
  PROVE  IInv'
  <1> DEFINE x == [tick[t] EXCEPT !.pc = "close", !.as = as]
  <1>1. tick[t] \in Places /\ Placed(tick[t])
    BY DEF IInv, TicksPlaced
  <1>2. tick' = [tick EXCEPT ![t] = x]
    BY DEF Closing
  <1>3. /\ x \in Places /\ x.pc = "close" /\ x.as = as /\ x.worker = tick[t].worker
        /\ x.job = tick[t].job /\ x.number = tick[t].number
    BY <1>1 DEF Places
  <1> HIDE DEF x
  <1>4. Placed(x)
    BY <1>1, <1>3 DEF Placed
  <1> QED BY <1>2, <1>3, <1>4, OnlyMoves

LEMMA GoIInv ==
  ASSUME IInv, NEW t \in Ticks, NEW pc \in {"answered", "ran"}, Go(t, pc),
         tick[t].pc \in {"running", "answered"}, pc = "ran" => tick[t].job \in Curators,
         UNCHANGED <<job, attempts>>, Others'
  PROVE  IInv'
  <1> DEFINE x == [tick[t] EXCEPT !.pc = pc]
  <1>1. tick[t] \in Places /\ Placed(tick[t])
    BY DEF IInv, TicksPlaced
  <1>2. tick' = [tick EXCEPT ![t] = x]
    BY DEF Go
  <1>3. /\ x \in Places /\ x.pc = pc /\ x.worker = tick[t].worker
        /\ x.job = tick[t].job /\ x.number = tick[t].number
    BY <1>1 DEF Places
  <1> HIDE DEF x
  <1>4. Placed(x)
    BY <1>1, <1>3 DEF Placed
  <1> QED BY <1>2, <1>3, <1>4, OnlyMoves

LEMMA RestIInv ==
  ASSUME IInv, NEW t \in Ticks, Rest(t), UNCHANGED <<job, attempts>>, Others'
  PROVE  IInv'
  BY IdleType, OnlyMoves DEF Rest

LEMMA OthersStay ==
  ASSUME IInv, UNCHANGED <<input, slow, deaths>>
  PROVE  Others'
  BY DEF IInv, Others

LEMMA WorkIInv ==
  ASSUME IInv, NEW t \in Ticks, Work(t)
  PROVE  IInv'
  <1> DEFINE j == tick[t].job
  <1>1. tick[t] \in Places /\ Placed(tick[t])
    BY DEF IInv, TicksPlaced
  <1>2. job \in [Jobs -> Rows] /\ \A i \in Jobs : Sound(job[i], attempts[i])
    BY DEF IInv, JobsSound
  <1>3. input \in [Kinds -> Inputs] /\ \A i \in Jobs : Kind(i) \in Kinds
    BY KindType DEF IInv, Others
  <1>4. CASE Read(t)
    <2>1. tick[t].pc = "looked" /\ j \in Reviews \cup Evaluations /\ tick[t].worker \in Workers
      BY <1>1, <1>4 DEF Read, At, Placed
    <2>2. input[Kind(j)] \in Inputs
      BY <1>3, <2>1 DEF Jobs
    <2> DEFINE x == [[tick[t] EXCEPT !.pc = "read"] EXCEPT !.input = input[Kind(j)]]
    <2>3. tick' = [tick EXCEPT ![t] = x] /\ UNCHANGED <<job, attempts, input, slow, deaths>>
      BY <1>4 DEF Read, IInv, TicksPlaced
    <2>4. x \in Places /\ x.pc = "read" /\ x.worker = tick[t].worker /\ x.job = j
      BY <1>1, <2>2 DEF Places
    <2> HIDE DEF x
    <2>5. Placed(x)
      BY <2>1, <2>4 DEF Placed
    <2> QED BY <2>3, <2>4, <2>5, OthersStay, OnlyMoves
  <1>5. CASE BlockSnapshot(t)
    <2>1. j \in Reviews /\ Rest(t) /\ UNCHANGED <<attempts, input, slow, deaths>>
      BY <1>5 DEF BlockSnapshot
    <2>2. CASE job[j].status # "queued"
      BY <1>5, <2>1, <2>2, OthersStay, RestIInv DEF BlockSnapshot
    <2>3. CASE job[j].status = "queued"
      <3>1. job' = [job EXCEPT ![j] = Released(job[j], "blocked")]
        BY <1>5, <2>3 DEF BlockSnapshot
      <3>2. Sound(Released(job[j], "blocked"), attempts[j])
        BY <1>2, <2>1, <2>3, ReleasedSound DEF Jobs
      <3>3. job' \in [Jobs -> Rows] /\ \A i \in Jobs : Sound(job'[i], attempts[i])
        BY <1>2, <3>1, <3>2 DEF Sound
      <3>4. JobsSound'
        BY <2>1, <3>3 DEF JobsSound, IInv
      <3>5. TicksPlaced'
        <4>1. Placed(Idle)'
          BY DEF Placed, Idle
        <4> QED BY <2>1, <4>1, Keeps, IdleType, Moves DEF IInv, Rest
      <3> QED BY <2>1, <3>4, <3>5, OthersStay DEF IInv
    <2> QED BY <2>2, <2>3
  <1>6. CASE Claim(t)
    <2>1. tick[t].pc = "read" /\ UNCHANGED <<input, slow, deaths>>
      BY <1>6 DEF Claim, At
    <2>2. j \in Jobs /\ tick[t].worker \in Workers /\ tick[t].input \in Inputs
      BY <1>1, <2>1 DEF Placed, Places, Jobs
    <2>3. CASE job[j].status = "queued" /\ Take(t, tick[t].worker, j, job, tick[t].input)
      BY <1>2, <2>1, <2>2, <2>3, TakeIInv
    <2>4. CASE Rest(t) /\ UNCHANGED <<job, attempts>>
      BY <2>1, <2>4, OthersStay, RestIInv
    <2> QED BY <1>6, <2>3, <2>4 DEF Claim
  <1>7. CASE Answer(t)
    <2>1. tick[t].pc = "running" /\ UNCHANGED <<job, attempts, input, slow, deaths>>
      BY <1>7 DEF Answer, At
    <2>2. Go(t, "answered") \/ Closing(t, "failed")
      BY <1>7 DEF Answer
    <2> QED BY <2>1, <2>2, OthersStay, GoIInv, ClosingIInv
  <1>8. CASE Apply(t)
    <2>1. tick[t].pc \in {"running", "answered"} /\ UNCHANGED <<input, slow, deaths>>
      BY <1>8 DEF Apply, At
    <2>2. CASE Applicable(t) /\ Complete(t)
      BY <2>1, <2>2, CompleteIInv DEF Applicable
    <2>3. ASSUME NEW as \in {"failed", "repairable_validation"}, Closing(t, as),
                 UNCHANGED <<job, attempts>>
          PROVE  IInv'
      BY <2>1, <2>3, OthersStay, ClosingIInv
    <2> QED BY <1>8, <2>2, <2>3 DEF Apply
  <1>9. CASE Compare(t)
    <2>1. tick[t].pc = "running" /\ UNCHANGED <<job, attempts, input, slow, deaths>>
      BY <1>9 DEF Compare, At
    <2>2. Go(t, "answered") \/ Closing(t, "failed")
      BY <1>9 DEF Compare
    <2> QED BY <2>1, <2>2, OthersStay, GoIInv, ClosingIInv
  <1>10. CASE Curate(t)
    <2>1. /\ tick[t].pc = "answered" /\ j \in Curators
          /\ UNCHANGED <<job, attempts, slow, deaths>>
          /\ Go(t, "ran") \/ Closing(t, "failed")
      BY <1>10 DEF Curate, At
    <2>2. input' \in [Kinds -> Inputs]
      <3>1. CASE UNCHANGED input
        BY <1>3, <3>1
      <3>2. CASE input["curator"] < MaxChanges
                 /\ input' = [input EXCEPT !["curator"] = @ + 1]
        <4>1. input["curator"] + 1 \in Inputs
          BY <1>3, <3>2, CompletionJobsAssumption DEF Inputs, Kinds
        <4> QED BY <1>3, <3>2, <4>1
      <3> QED BY <1>10, <3>1, <3>2 DEF Curate
    <2>3. Others'
      BY <2>1, <2>2 DEF IInv, Others
    <2> QED BY <2>1, <2>3, GoIInv, ClosingIInv
  <1>11. CASE CloseCompleted(t)
    <2>1. tick[t].pc = "ran" /\ UNCHANGED <<input, slow, deaths>>
      BY <1>11 DEF CloseCompleted, At
    <2>2. CASE Open(t) /\ Complete(t)
      BY <2>1, <2>2, CompleteIInv
    <2>3. CASE Closing(t, "failed") /\ UNCHANGED <<job, attempts>>
      BY <2>1, <2>3, OthersStay, ClosingIInv
    <2> QED BY <1>11, <2>2, <2>3 DEF CloseCompleted
  <1>12. CASE Close(t)
    <2>1. tick[t].pc = "close" /\ Rest(t) /\ UNCHANGED <<input, slow, deaths>>
      BY <1>12 DEF Close, At
    <2>2. j \in Jobs /\ tick[t].number \in 1 .. Len(attempts[j])
          /\ tick[t].as \in {"failed", "repairable_validation"}
      BY <1>1, <2>1 DEF Placed
    <2>3. CASE /\ Open(t)
               /\ job' = [job EXCEPT ![j] = Released(@, After(j))]
               /\ attempts' = [attempts EXCEPT ![j][tick[t].number].status = tick[t].as]
      <3>1. job[j].status = "running" /\ After(j) \in {"failed", "queued"}
        BY <2>3 DEF Open, Owned, After
      <3> QED BY <2>1, <2>2, <2>3, <3>1, CloseIInv
    <2>4. CASE UNCHANGED <<job, attempts>>
      BY <2>1, <2>4, OthersStay, RestIInv
    <2> QED BY <1>12, <2>3, <2>4 DEF Close
  <1> QED BY <1>4, <1>5, <1>6, <1>7, <1>8, <1>9, <1>10, <1>11, <1>12 DEF Work

LEMMA NextIInv == IInv /\ [Next]_vars => IInv'
  <1> SUFFICES ASSUME IInv, [Next]_vars PROVE IInv'
    OBVIOUS
  <1>1. job \in [Jobs -> Rows] /\ \A i \in Jobs : Sound(job[i], attempts[i])
    BY DEF IInv, JobsSound
  <1>2. input \in [Kinds -> Inputs] /\ \A i \in Jobs : Kind(i) \in Kinds
    BY KindType DEF IInv, Others
  <1>3. ASSUME NEW j \in Jobs, Enqueue(j)
        PROVE  IInv'
    <2> DEFINE r == [NoJob EXCEPT !.status = "queued", !.input = input[Kind(j)]]
    <2>1. job[j] = NoJob /\ job' = [job EXCEPT ![j] = r]
          /\ UNCHANGED <<attempts, input, tick, slow, deaths>>
      BY <1>3 DEF Enqueue
    <2>2. input[Kind(j)] \in Inputs /\ NoJob \in Rows /\ NoJob.owner = None /\ ~NoJob.live
          /\ NoJob.status = "absent"
      BY <1>2, CompletionJobsAssumption DEF NoJob, Rows, Statuses, Inputs
    <2>3. r \in Rows /\ r.status = "queued" /\ r.owner = None /\ ~r.live
      BY <2>2 DEF Rows, Statuses
    <2> HIDE DEF r
    <2>4. Sound(NoJob, attempts[j])
      BY <1>1, <2>1
    <2>5. Sound(r, attempts[j])
      BY <2>2, <2>3, <2>4 DEF Sound
    <2>6. job' \in [Jobs -> Rows] /\ \A i \in Jobs : Sound(job'[i], attempts[i])
      BY <1>1, <2>1, <2>3, <2>5
    <2> QED BY <2>1, <2>6, OthersStay, RowChange
  <1>4. ASSUME NEW j \in Jobs, Expire(j)
        PROVE  IInv'
    <2> DEFINE r == [job[j] EXCEPT !.live = FALSE]
    <2>1. job' = [job EXCEPT ![j] = r] /\ UNCHANGED <<attempts, input, tick, deaths>>
      BY <1>1, <1>4 DEF Expire
    <2>2. /\ r \in Rows /\ r.status = job[j].status /\ r.owner = job[j].owner /\ ~r.live
      BY <1>1 DEF Rows
    <2> HIDE DEF r
    <2>3. Sound(r, attempts[j])
      BY <1>1, <2>2 DEF Sound
    <2>4. job' \in [Jobs -> Rows] /\ \A i \in Jobs : Sound(job'[i], attempts[i])
      BY <1>1, <2>1, <2>2, <2>3
    <2>5. Others'
      BY <1>4, <2>1, CompletionJobsAssumption DEF Expire, IInv, Others
    <2> QED BY <2>1, <2>4, <2>5, RowChange
  <1>5. ASSUME NEW k \in Kinds, Change(k)
        PROVE  IInv'
    <2>1. input[k] + 1 \in Inputs
      BY <1>2, <1>5, CompletionJobsAssumption DEF Change, Inputs
    <2>2. Others' /\ UNCHANGED <<job, attempts, tick>>
      BY <1>2, <1>5, <2>1 DEF Change, IInv, Others
    <2> QED BY <1>1, <2>2, RowChange
  <1>6. ASSUME NEW t \in Ticks, Recover(t)
        PROVE  IInv'
    <2>1. job' = Requeued /\ UNCHANGED <<attempts, input, tick, slow, deaths>>
      BY <1>6 DEF Recover
    <2> QED BY <2>1, RequeuedSound, OthersStay, RowChange DEF IInv
  <1>7. ASSUME NEW t \in Ticks, BlockQueuedReviews(t)
        PROVE  IInv'
    <2>1. /\ UNCHANGED <<attempts, input, tick, slow, deaths>>
          /\ job' = [j \in Jobs |-> IF j \in Reviews /\ job[j].status = "queued"
                                    THEN Released(job[j], "blocked") ELSE job[j]]
      BY <1>7 DEF BlockQueuedReviews
    <2>2. ASSUME NEW j \in Jobs PROVE job'[j] \in Rows /\ Sound(job'[j], attempts[j])
      <3>1. CASE j \in Reviews /\ job[j].status = "queued"
        <4>1. Sound(Released(job[j], "blocked"), attempts[j])
          BY <1>1, <3>1, ReleasedSound
        <4> QED BY <2>1, <3>1, <4>1 DEF Sound
      <3>2. CASE ~(j \in Reviews /\ job[j].status = "queued")
        BY <1>1, <2>1, <3>2
      <3> QED BY <3>1, <3>2
    <2>3. job' \in [Jobs -> Rows]
      BY <2>1, <2>2
    <2> QED BY <2>1, <2>2, <2>3, OthersStay, RowChange
  <1>8. ASSUME NEW t \in Ticks, NEW j \in Jobs, Look(t, j)
        PROVE  IInv'
    <2>1. PICK w \in Workers :
            tick' = [tick EXCEPT ![t] = [Idle EXCEPT !.pc = "looked", !.worker = w, !.job = j]]
      BY <1>8 DEF Look
    <2>2. /\ job' = Requeued /\ j \in Reviews \cup Evaluations
          /\ UNCHANGED <<attempts, input, slow, deaths>>
      BY <1>8 DEF Look
    <2> DEFINE x == [Idle EXCEPT !.pc = "looked", !.worker = w, !.job = j]
    <2>3. x \in Places /\ x.pc = "looked" /\ x.worker = w /\ x.job = j
      BY IdleType DEF Places
    <2> HIDE DEF x
    <2>4. Placed(x)'
      BY <2>2, <2>3 DEF Placed, x
    <2>5. TicksPlaced'
      BY <2>1, <2>2, <2>3, <2>4, Keeps, Moves DEF IInv, x
    <2>6. JobsSound'
      BY <2>2, RequeuedSound DEF IInv, JobsSound
    <2> QED BY <2>2, <2>5, <2>6, OthersStay DEF IInv
  <1>9. ASSUME NEW t \in Ticks, NEW j \in Jobs, ClaimCurator(t, j)
        PROVE  IInv'
    <2>1. PICK w \in Workers : Take(t, w, j, Requeued, job[j].input)
      BY <1>9 DEF ClaimCurator
    <2>2. UNCHANGED <<input, slow, deaths>> /\ Requeued[j].status = "queued"
      BY <1>9 DEF ClaimCurator
    <2>3. job[j].input \in Inputs
      BY <1>1 DEF Rows
    <2> QED BY <2>1, <2>2, <2>3, RequeuedSound, TakeIInv DEF IInv
  <1>10. ASSUME NEW t \in Ticks, Die(t)
         PROVE  IInv'
    <2>1. Others'
      BY <1>10, CompletionJobsAssumption DEF Die, IInv, Others
    <2> QED BY <1>10, <2>1, RestIInv DEF Die
  <1>11. CASE UNCHANGED vars
    <2>1. UNCHANGED <<job, attempts, tick, input, slow, deaths>>
      BY <1>11 DEF vars
    <2> QED BY <1>1, <2>1, OthersStay, RowChange
  <1> QED BY <1>3, <1>4, <1>5, <1>6, <1>7, <1>8, <1>9, <1>10, <1>11, WorkIInv DEF Next

\* Every variable keeps its type, and a job has an owner exactly while it runs.
THEOREM TypeCorrect == Spec => []TypeOK
  <1>1. IInv => TypeOK
    BY DEF IInv, JobsSound, TicksPlaced, Others, Sound, Rows, Places, TypeOK
  <1> QED BY <1>1, InitIInv, NextIInv, PTL DEF Spec

\* A job is completed by exactly one of its attempts.
THEOREM OneCompletes == Spec => []CompletedByOne
  <1>1. IInv => CompletedByOne
    BY DEF IInv, JobsSound, Sound, CompletedByOne
  <1> QED BY <1>1, InitIInv, NextIInv, PTL DEF Spec

-----------------------------------------------------------------------------
\* Who completes a job.

Becomes(j) == job[j].status # "completed" /\ job'[j].status = "completed"

LEMMA ReleasedStatus ==
  ASSUME NEW r \in Rows, NEW s
  PROVE  Released(r, s).status = s
  BY DEF Released, Rows

\* One row is released to something else than completion.
LEMMA ReleasesNone ==
  ASSUME IInv, NEW j \in Jobs, NEW i \in Jobs, NEW s, s # "completed",
         job' = [job EXCEPT ![i] = Released(@, s)]
  PROVE  ~Becomes(j)
  BY ReleasedStatus DEF IInv, JobsSound, Becomes

LEMMA WhoCompletes ==
  ASSUME IInv, Next, NEW j \in Jobs, Becomes(j)
  PROVE  \E t \in Ticks : tick[t].job = j /\ (Applicable(t) \/ tick[t].pc = "ran")
  <1>1. job \in [Jobs -> Rows]
    BY DEF IInv, JobsSound
  <1>2. ASSUME NEW jobs \in [Jobs -> Rows], jobs[j].status = "completed" => job[j].status = "completed",
               NEW t \in Ticks, NEW w \in Workers, NEW i \in Jobs, NEW read, Take(t, w, i, jobs, read)
        PROVE  FALSE
    BY <1>2 DEF Take, Becomes
  <1>3. ASSUME NEW t \in Ticks, Complete(t)
        PROVE  tick[t].job = j
    BY <1>1, <1>3 DEF Complete, Becomes
  <1>4. ASSUME NEW i \in Jobs, Enqueue(i) \/ Expire(i)
        PROVE  FALSE
    <2>1. CASE Enqueue(i)
      <3> DEFINE r == [NoJob EXCEPT !.status = "queued", !.input = input[Kind(i)]]
      <3>1. job' = [job EXCEPT ![i] = r] /\ r.status = "queued"
        BY <2>1 DEF Enqueue, NoJob
      <3> QED BY <1>1, <3>1 DEF Becomes
    <2>2. CASE Expire(i)
      <3>1. [job[i] EXCEPT !.live = FALSE].status = job[i].status
        BY <1>1 DEF Rows
      <3> QED BY <1>1, <2>2, <3>1 DEF Expire, Becomes
    <2> QED BY <1>4, <2>1, <2>2
  <1>5. ASSUME NEW k \in Kinds, Change(k)
        PROVE  FALSE
    BY <1>5 DEF Change, Becomes
  <1>6. ASSUME NEW t \in Ticks, Recover(t)
        PROVE  FALSE
    BY <1>6, RequeuedSound DEF IInv, Recover, Becomes
  <1>7. ASSUME NEW t \in Ticks, BlockQueuedReviews(t)
        PROVE  FALSE
    <2>1. job'[j] = IF j \in Reviews /\ job[j].status = "queued"
                    THEN Released(job[j], "blocked") ELSE job[j]
      BY <1>7 DEF BlockQueuedReviews
    <2> QED BY <1>1, <2>1, ReleasedStatus DEF Becomes
  <1>8. ASSUME NEW t \in Ticks, NEW i \in Jobs, Look(t, i) \/ ClaimCurator(t, i)
        PROVE  FALSE
    <2>1. CASE Look(t, i)
      BY <2>1, RequeuedSound DEF IInv, Look, Becomes
    <2>2. CASE ClaimCurator(t, i)
      BY <1>2, <2>2, RequeuedSound DEF IInv, ClaimCurator
    <2> QED BY <1>8, <2>1, <2>2
  <1>9. ASSUME NEW t \in Ticks, Work(t)
        PROVE  tick[t].job = j /\ (Applicable(t) \/ tick[t].pc = "ran")
    <2>1. tick[t] \in Places /\ Placed(tick[t])
      BY DEF IInv, TicksPlaced
    <2>2. ~UNCHANGED job
      BY DEF Becomes
    <2>3. CASE BlockSnapshot(t)
      <3>1. tick[t].job \in Jobs
        BY <2>3 DEF BlockSnapshot, Jobs
      <3> QED BY <2>2, <2>3, <3>1, ReleasesNone DEF BlockSnapshot
    <2>4. CASE Claim(t)
      <3>1. tick[t].job \in Jobs /\ tick[t].worker \in Workers
        BY <2>1, <2>4 DEF Claim, At, Placed, Jobs
      <3> QED BY <1>1, <1>2, <2>2, <2>4, <3>1 DEF Claim
    <2>5. CASE Apply(t)
      BY <1>3, <2>2, <2>5 DEF Apply
    <2>6. CASE CloseCompleted(t)
      BY <1>3, <2>2, <2>6 DEF CloseCompleted, At
    <2>7. CASE Close(t)
      <3>1. tick[t].job \in Jobs
        BY <2>1, <2>7 DEF Close, At, Placed
      <3>2. After(tick[t].job) # "completed"
        BY DEF After
      <3> QED BY <2>2, <2>7, <3>1, <3>2, ReleasesNone DEF Close
    <2> QED BY <1>9, <2>2, <2>3, <2>4, <2>5, <2>6, <2>7
            DEF Work, Read, Answer, Compare, Curate
  <1>10. ASSUME NEW t \in Ticks, Die(t)
         PROVE  FALSE
    BY <1>10 DEF Die, Becomes
  <1> QED BY <1>4, <1>5, <1>6, <1>7, <1>8, <1>9, <1>10 DEF Next

\* The result of a review or an evaluation is applied only while what it was
\* made from has not changed.
THEOREM AppliesFresh == Spec => AppliedIsFresh
  <1> DEFINE Fine == \A j \in Reviews \cup Evaluations :
        job[j].status # "completed" /\ job'[j].status = "completed" => job[j].input = input[Kind(j)]
  <1>1. IInv /\ [Next]_vars => [Fine]_vars
    <2> SUFFICES ASSUME IInv, Next, NEW j \in Reviews \cup Evaluations, Becomes(j)
                 PROVE  job[j].input = input[Kind(j)]
      BY DEF Becomes
    <2>1. PICK t \in Ticks : tick[t].job = j /\ (Applicable(t) \/ tick[t].pc = "ran")
      BY WhoCompletes DEF Jobs
    <2>2. tick[t].pc # "ran"
      BY <2>1, CompletionJobsAssumption DEF IInv, TicksPlaced, Placed
    <2> QED BY <2>1, <2>2 DEF Applicable, Fresh
  <1> QED BY <1>1, InitIInv, NextIInv, PTL DEF Spec, AppliedIsFresh


-----------------------------------------------------------------------------
\* Who stops a job whose lease lasts.

Stops(j) == job[j].live /\ job'[j].status # "running"

ByHolder(j) == \E n \in DOMAIN attempts[j] :
    /\ attempts[j][n].status = "running" /\ attempts'[j][n].status # "running"
    /\ attempts[j][n].worker = job[j].owner

\* A tick closes an attempt it may close.
LEMMA ClosesByHolder ==
  ASSUME IInv, NEW t \in Ticks, NEW j \in Jobs, NEW r, Stops(j), Open(t),
         NEW as \in {"completed", "failed", "repairable_validation"},
         tick[t].pc \in {"running", "answered", "ran", "close"},
         job' = [job EXCEPT ![tick[t].job] = r],
         attempts' = [attempts EXCEPT ![tick[t].job][tick[t].number].status = as]
  PROVE  ByHolder(j)
  <1> DEFINE n == tick[t].number
  <1>1. tick[t].job \in Jobs /\ n \in 1 .. Len(attempts[tick[t].job])
    BY DEF IInv, TicksPlaced, Placed
  <1>2. job[j].status = "running" /\ job \in [Jobs -> Rows] /\ attempts[j] \in Seq(Attempts)
    BY DEF IInv, JobsSound, Sound, Stops
  <1>3. tick[t].job = j
    BY <1>1, <1>2 DEF Stops
  <1>4. /\ n \in DOMAIN attempts[j] /\ attempts[j][n].status = "running"
        /\ attempts[j][n].worker = job[j].owner
    BY <1>1, <1>2, <1>3 DEF Open, Owned, Attempt
  <1>5. attempts'[j][n] = [attempts[j][n] EXCEPT !.status = as] /\ attempts[j][n] \in Attempts
    BY <1>2, <1>3, <1>4 DEF IInv, JobsSound
  <1>6. attempts'[j][n].status = as
    BY <1>5 DEF Attempts
  <1> QED BY <1>4, <1>6 DEF ByHolder

\* A row that is released waited, or belongs to another job.
LEMMA StopsNone ==
  ASSUME IInv, NEW j \in Jobs, NEW i \in Jobs, NEW r, job' = [job EXCEPT ![i] = r],
         job[i].live => r.status = "running"
  PROVE  ~Stops(j)
  BY DEF IInv, JobsSound, Sound, Stops

LEMMA RequeuedLive ==
  ASSUME IInv, NEW j \in Jobs, job[j].live
  PROVE  Requeued[j] = job[j] /\ job[j].status = "running"
  BY DEF IInv, JobsSound, Sound, Requeued, Lost

LEMMA TakeStopsNone ==
  ASSUME IInv, NEW j \in Jobs, NEW t \in Ticks, NEW w \in Workers, NEW i \in Jobs, NEW read,
         NEW jobs \in [Jobs -> Rows], job[j].live => jobs[j].status = "running",
         Take(t, w, i, jobs, read)
  PROVE  ~Stops(j)
  BY DEF Take, Stops

LEMMA WhoStops ==
  ASSUME IInv, Next, NEW j \in Jobs, Stops(j)
  PROVE  ByHolder(j)
  <1>1. job \in [Jobs -> Rows] /\ job[j].live /\ job[j].status = "running"
    BY DEF IInv, JobsSound, Sound, Stops
  <1>2. ~UNCHANGED job
    BY <1>1 DEF Stops
  <1>3. Requeued[j].status = "running" /\ Requeued \in [Jobs -> Rows]
    BY <1>1, RequeuedLive, RequeuedSound DEF IInv
  <1>4. ASSUME NEW i \in Jobs, Enqueue(i)
        PROVE  FALSE
    <2>1. job[i] = NoJob /\ ~NoJob.live
      BY <1>4 DEF Enqueue, NoJob
    <2> QED BY <1>4, <2>1, StopsNone DEF Enqueue
  <1>5. ASSUME NEW i \in Jobs, Expire(i)
        PROVE  FALSE
    <2>1. [job[i] EXCEPT !.live = FALSE].status = job[i].status
      BY <1>1 DEF Rows
    <2> QED BY <1>1, <1>5, <2>1 DEF Expire, Stops
  <1>6. ASSUME NEW t \in Ticks, Recover(t) \/ \E i \in Jobs : Look(t, i)
        PROVE  FALSE
    BY <1>3, <1>6 DEF Recover, Look, Stops
  <1>7. ASSUME NEW t \in Ticks, BlockQueuedReviews(t)
        PROVE  FALSE
    BY <1>1, <1>7 DEF BlockQueuedReviews, Stops
  <1>8. ASSUME NEW t \in Ticks, NEW i \in Jobs, ClaimCurator(t, i)
        PROVE  FALSE
    BY <1>3, <1>8, TakeStopsNone DEF ClaimCurator
  <1>9. ASSUME NEW t \in Ticks, Work(t)
        PROVE  ByHolder(j)
    <2>1. tick[t] \in Places /\ Placed(tick[t])
      BY DEF IInv, TicksPlaced
    <2>2. ASSUME Open(t), Complete(t), tick[t].pc \in {"running", "answered", "ran"}
          PROVE  ByHolder(j)
      BY <2>2, ClosesByHolder DEF Complete
    <2>3. CASE BlockSnapshot(t)
      <3>1. tick[t].job \in Jobs
        BY <2>3 DEF BlockSnapshot, Jobs
      <3>2. job[tick[t].job].status = "queued" => ~job[tick[t].job].live
        BY <3>1 DEF IInv, JobsSound, Sound
      <3> QED BY <1>2, <2>3, <3>1, <3>2, StopsNone DEF BlockSnapshot
    <2>4. CASE Claim(t)
      <3>1. tick[t].job \in Jobs /\ tick[t].worker \in Workers
        BY <2>1, <2>4 DEF Claim, At, Placed, Jobs
      <3> QED BY <1>1, <1>2, <2>4, <3>1, TakeStopsNone DEF Claim
    <2>5. CASE Apply(t)
      <3>1. Applicable(t) /\ Complete(t)
        BY <1>2, <2>5 DEF Apply
      <3> QED BY <2>2, <2>5, <3>1 DEF Apply, Applicable, At
    <2>6. CASE CloseCompleted(t)
      BY <1>2, <2>2, <2>6 DEF CloseCompleted, At
    <2>7. CASE Close(t)
      <3>1. tick[t].as \in {"failed", "repairable_validation"}
        BY <2>1, <2>7 DEF Close, At, Placed
      <3>2. tick[t].pc = "close" /\ Open(t)
        BY <1>2, <2>7 DEF Close, At
      <3>3. /\ job' = [job EXCEPT ![tick[t].job] = Released(job[tick[t].job], After(tick[t].job))]
            /\ attempts' = [attempts EXCEPT ![tick[t].job][tick[t].number].status = tick[t].as]
        BY <2>7, <3>2 DEF Close
      <3> QED BY <3>1, <3>2, <3>3, ClosesByHolder
    <2> QED BY <1>2, <1>9, <2>3, <2>4, <2>5, <2>6, <2>7
            DEF Work, Read, Answer, Compare, Curate
  <1>10. ASSUME NEW k \in Kinds, Change(k)
         PROVE  FALSE
    BY <1>2, <1>10 DEF Change
  <1>11. ASSUME NEW t \in Ticks, Die(t)
         PROVE  FALSE
    BY <1>2, <1>11 DEF Die
  <1> QED BY <1>4, <1>5, <1>6, <1>7, <1>8, <1>9, <1>10, <1>11 DEF Next

\* While its lease lasts, a running job stops only together with an open attempt
\* under the worker id that holds it.
THEOREM HolderStops == Spec => StoppedByItsHolder
  <1> DEFINE Held == \A j \in Jobs : job[j].live /\ job'[j].status # "running" => ByHolder(j)
  <1>1. IInv /\ [Next]_vars => [Held]_vars
    BY WhoStops DEF Stops
  <1> QED BY <1>1, InitIInv, NextIInv, PTL DEF Spec, StoppedByItsHolder, ByHolder

=============================================================================

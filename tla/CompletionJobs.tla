---------------------------- MODULE CompletionJobs ----------------------------
(***************************************************************************)
(* The jobs that learn from settled work                                   *)
(* (packages/workspace-server/src/workspace-completion-jobs.ts): reviews   *)
(* and evaluations of an episode, curators of a Room.  The ticks of the    *)
(* maintenance workers claim a job under a lease, do its work outside any  *)
(* transaction and close it.  A tick may be slower than its lease or die;  *)
(* the job is then claimed again.  Ticks may share a worker id (it is the  *)
(* process id, and a constant for the command line).                       *)
(***************************************************************************)
EXTENDS Naturals, Sequences, FiniteSets

CONSTANTS
    Reviews, Evaluations, Curators,   \* the jobs of each kind
    Ticks,        \* the maintenance ticks that may run at the same time
    Workers,      \* the worker ids that ticks run under
    SomePortless, \* whether some ticks have no review port (the command line has none)
    None,
    MaxAttempts,  \* workspace_completion_jobs.max_attempts
    MaxEnqueued,  \* bound: how many jobs are asked for
    MaxChanges,   \* bound: how often the inputs of each kind of job change
    MaxSlow,      \* bound: how often a lease runs out under a live tick
    MaxDeaths     \* bound: how many ticks die at their work

ASSUME CompletionJobsAssumption ==
    /\ MaxAttempts \in Nat \ {0} /\ MaxChanges \in Nat /\ MaxSlow \in Nat /\ MaxDeaths \in Nat
    /\ None \notin Workers /\ SomePortless \in BOOLEAN
    /\ Reviews \cap Evaluations = {} /\ Curators \cap (Reviews \cup Evaluations) = {}
    /\ None \notin Reviews \cup Evaluations \cup Curators

VARIABLES
    job,       \* workspace_completion_jobs
    attempts,  \* workspace_completion_job_attempts of each job, in order
    input,     \* what the jobs of each kind read, as its version
    tick,      \* where each tick is
    slow, deaths

vars == <<job, attempts, input, tick, slow, deaths>>

Jobs == Reviews \cup Evaluations \cup Curators
Kinds == {"review", "evaluation", "curator"}
Kind(j) == IF j \in Reviews THEN "review" ELSE IF j \in Evaluations THEN "evaluation" ELSE "curator"
Inputs == 0 .. MaxChanges
Attempts == [worker : Workers, input : Inputs,
             status : {"running", "completed", "failed", "repairable_validation"}]

-----------------------------------------------------------------------------
NoJob == [status |-> "absent", owner |-> None, live |-> FALSE, input |-> 0]
Idle == [pc |-> "idle", worker |-> None, job |-> None, number |-> 0, input |-> 0, as |-> "none"]

Done == {"completed", "failed", "blocked"}
Statuses == {"absent", "queued", "running"} \cup Done

\* A job has an owner exactly while it runs (a CHECK of the table).
TypeOK ==
    /\ job \in [Jobs -> [status : Statuses, owner : Workers \cup {None},
                         live : BOOLEAN, input : Inputs]]
    /\ \A j \in Jobs :
         /\ (job[j].status = "running") <=> (job[j].owner # None)
         /\ job[j].live => job[j].status = "running"
    /\ attempts \in [Jobs -> Seq(Attempts)]
    /\ input \in [Kinds -> Inputs]
    /\ tick \in [Ticks -> [pc : {"idle", "looked", "read", "running", "answered", "ran", "close"},
                           worker : Workers \cup {None}, job : Jobs \cup {None}, number : Nat,
                           input : Inputs, as : {"none", "failed", "repairable_validation"}]]
    /\ slow \in 0 .. MaxSlow /\ deaths \in 0 .. MaxDeaths

Init ==
    /\ job = [j \in Jobs |-> NoJob]
    /\ attempts = [j \in Jobs |-> <<>>]
    /\ input = [k \in Kinds |-> 0]
    /\ tick = [t \in Ticks |-> Idle]
    /\ slow = 0 /\ deaths = 0

-----------------------------------------------------------------------------
\* An activity asks for its review or evaluation, once; every tick asks for a
\* curator of the Room as it is, once for each state of the Room.
Enqueue(j) ==
    /\ job[j] = NoJob /\ Cardinality({i \in Jobs : job[i] # NoJob}) < MaxEnqueued
    /\ Kind(j) = "curator" => \A c \in Curators : job[c] = NoJob \/ job[c].input # input["curator"]
    /\ job' = [job EXCEPT ![j] = [NoJob EXCEPT !.status = "queued", !.input = input[Kind(j)]]]
    /\ UNCHANGED <<attempts, input, tick, slow, deaths>>

\* Somebody edits what the jobs that were asked for read.
Change(k) ==
    /\ input[k] < MaxChanges /\ \E j \in Jobs : Kind(j) = k /\ job[j] # NoJob
    /\ input' = [input EXCEPT ![k] = @ + 1]
    /\ UNCHANGED <<job, attempts, tick, slow, deaths>>

Released(r, status) == [r EXCEPT !.status = status, !.owner = None, !.live = FALSE]

\* Mutant: leases that ran out are given back only to jobs with an attempt left.
RequeuedLeft == [j \in Jobs |->
    IF job[j].status = "running" /\ ~job[j].live /\ Len(attempts[j]) < MaxAttempts
    THEN Released(job[j], "queued") ELSE job[j]]

\* Leases that ran out are given back, of every kind, whatever the attempts.
Lost(j) == job[j].status = "running" /\ ~job[j].live
Requeued == [j \in Jobs |-> IF Lost(j) THEN Released(job[j], "queued") ELSE job[j]]

Recover(t) ==
    /\ tick[t] = Idle /\ \E j \in Jobs : Lost(j)
    /\ job' = Requeued
    /\ UNCHANGED <<attempts, input, tick, slow, deaths>>

\* A tick without a review port blocks every review that waits.
BlockQueuedReviews(t) ==
    /\ tick[t] = Idle /\ SomePortless
    /\ \E j \in Reviews : job[j].status = "queued"
    /\ job' = [j \in Jobs |-> IF j \in Reviews /\ job[j].status = "queued"
                              THEN Released(job[j], "blocked") ELSE job[j]]
    /\ UNCHANGED <<attempts, input, tick, slow, deaths>>

-----------------------------------------------------------------------------
At(t, pc) == tick[t].pc = pc
Go(t, pc) == tick' = [tick EXCEPT ![t].pc = pc]
Rest(t) == tick' = [tick EXCEPT ![t] = Idle]

\* A review or an evaluation is chosen, its input read and the job claimed in
\* three transactions.
Look(t, j) ==
    /\ tick[t] = Idle
    /\ j \in Reviews \cup Evaluations
    /\ Requeued[j].status = "queued"
    /\ job' = Requeued
    /\ \E w \in Workers : tick' = [tick EXCEPT ![t] = [Idle EXCEPT !.pc = "looked", !.worker = w, !.job = j]]
    /\ UNCHANGED <<attempts, input, slow, deaths>>

Read(t) ==
    /\ At(t, "looked")
    /\ tick' = [tick EXCEPT ![t].pc = "read", ![t].input = input[Kind(tick[t].job)]]
    /\ UNCHANGED <<job, attempts, input, slow, deaths>>

\* A review whose snapshot is too large or no longer complete is blocked.
BlockSnapshot(t) ==
    LET j == tick[t].job
    IN /\ At(t, "looked") /\ j \in Reviews
       /\ job' = IF job[j].status = "queued"
                 THEN [job EXCEPT ![j] = Released(job[j], "blocked")] ELSE job
       /\ Rest(t)
       /\ UNCHANGED <<attempts, input, slow, deaths>>

Take(t, w, j, jobs, read) ==
    /\ job' = [jobs EXCEPT ![j] = [status |-> "running", owner |-> w, live |-> TRUE, input |-> read]]
    /\ attempts' = [attempts EXCEPT ![j] =
           Append(@, [worker |-> w, input |-> read, status |-> "running"])]
    /\ tick' = [tick EXCEPT ![t] = [Idle EXCEPT !.pc = "running", !.worker = w, !.job = j,
                                    !.number = Len(attempts[j]) + 1, !.input = read]]

\* Mutant: the claim does not look again whether the job is still queued.
ClaimAnyway(t) ==
    /\ At(t, "read")
    /\ Take(t, tick[t].worker, tick[t].job, job, tick[t].input)
    /\ UNCHANGED <<input, slow, deaths>>

Claim(t) ==
    LET j == tick[t].job
    IN /\ At(t, "read")
       /\ \/ job[j].status = "queued" /\ Take(t, tick[t].worker, j, job, tick[t].input)
          \/ job[j].status # "queued" /\ Rest(t) /\ UNCHANGED <<job, attempts>>
       /\ UNCHANGED <<input, slow, deaths>>

\* A curator is chosen and claimed at once, for the state of the Room that it
\* was asked for.
ClaimCurator(t, j) ==
    /\ tick[t] = Idle /\ j \in Curators
    /\ Requeued[j].status = "queued"
    /\ \E w \in Workers : Take(t, w, j, Requeued, job[j].input)
    /\ UNCHANGED <<input, slow, deaths>>

-----------------------------------------------------------------------------
Attempt(t) == attempts[tick[t].job][tick[t].number]
Fresh(t) == input[Kind(tick[t].job)] = tick[t].input

\* Mutant: the close only asks that the job is running, whoever holds it.
OwnedByAny(t) == job[tick[t].job].status = "running"

\* The job is running under the worker id of the tick.
Owned(t) ==
    /\ job[tick[t].job].status = "running"
    /\ job[tick[t].job].owner = tick[t].worker

\* The attempt is still open under the worker id of the tick, and so is the job.
Open(t) ==
    /\ Attempt(t).status = "running" /\ Attempt(t).worker = tick[t].worker
    /\ Owned(t)

Closing(t, as) == tick' = [tick EXCEPT ![t].pc = "close", ![t].as = as]

\* The review port answers or fails; a snapshot that has changed since is stale.
Answer(t) ==
    /\ At(t, "running") /\ tick[t].job \in Reviews
    /\ \/ Fresh(t) /\ Go(t, "answered")
       \/ Closing(t, "failed")
    /\ UNCHANGED <<job, attempts, input, slow, deaths>>

Complete(t) ==
    LET j == tick[t].job
    IN /\ job' = [job EXCEPT ![j] = Released(@, "completed")]
       /\ attempts' = [attempts EXCEPT ![j][tick[t].number].status = "completed"]
       /\ Rest(t)

\* Mutant: the input is not read again in the transaction that applies.
ApplicableAsAnswered(t) == Open(t) /\ job[tick[t].job].input = tick[t].input

\* A result is applied, and its job completed, by the claim that it was made
\* under and while its input is as it was read; an evaluation needs its lease.
Applicable(t) ==
    /\ Open(t) /\ Fresh(t)
    /\ job[tick[t].job].input = tick[t].input
    /\ tick[t].job \in Evaluations => job[tick[t].job].live

\* applyReviewResult and applyEvaluationJob; what is wrong with a result, or
\* with the claim, sends the attempt to its closing.
Apply(t) ==
    /\ \/ At(t, "answered") /\ tick[t].job \in Reviews
       \/ At(t, "running") /\ tick[t].job \in Evaluations
    /\ \/ Applicable(t) /\ Complete(t)
       \/ /\ \/ Closing(t, "failed")
             \/ tick[t].job \in Reviews /\ Closing(t, "repairable_validation")
          /\ UNCHANGED <<job, attempts>>
    /\ UNCHANGED <<input, slow, deaths>>

\* A curator compares the Room with the state it was asked for, then works in
\* transactions of its own, which may change the Room.
Compare(t) ==
    /\ At(t, "running") /\ tick[t].job \in Curators
    /\ IF Fresh(t) THEN Go(t, "answered") ELSE Closing(t, "failed")
    /\ UNCHANGED <<job, attempts, input, slow, deaths>>

Curate(t) ==
    /\ At(t, "answered") /\ tick[t].job \in Curators
    /\ \/ Go(t, "ran") /\ UNCHANGED input
       \/ /\ input["curator"] < MaxChanges
          /\ input' = [input EXCEPT !["curator"] = @ + 1]
          /\ Go(t, "ran")
       \/ Closing(t, "failed") /\ UNCHANGED input
    /\ UNCHANGED <<job, attempts, slow, deaths>>

CloseCompleted(t) ==
    /\ At(t, "ran")
    /\ \/ Open(t) /\ Complete(t)
       \/ ~Open(t) /\ Closing(t, "failed") /\ UNCHANGED <<job, attempts>>
    /\ UNCHANGED <<input, slow, deaths>>

\* The job waits for its next attempt, or has failed with its last.
After(j) == IF Len(attempts[j]) >= MaxAttempts THEN "failed" ELSE "queued"

\* closeRepairable, closeStale and closeFailed: an attempt that is no longer
\* the owner's throws, which ends the tick.
Close(t) ==
    LET j == tick[t].job
    IN /\ At(t, "close")
       /\ \/ /\ Open(t)
             /\ job' = [job EXCEPT ![j] = Released(@, After(j))]
             /\ attempts' = [attempts EXCEPT ![j][tick[t].number].status = tick[t].as]
          \/ ~Open(t) /\ UNCHANGED <<job, attempts>>
       /\ Rest(t)
       /\ UNCHANGED <<input, slow, deaths>>

-----------------------------------------------------------------------------
Abandoned(j) == \A t \in Ticks : tick[t].job # j \/ tick[t].number # Len(attempts[j])

\* A lease runs out, of a tick that is slow (nothing renews it) or dead.
Expire(j) ==
    /\ job[j].live
    /\ IF Abandoned(j) THEN UNCHANGED slow ELSE slow < MaxSlow /\ slow' = slow + 1
    /\ job' = [job EXCEPT ![j].live = FALSE]
    /\ UNCHANGED <<attempts, input, tick, deaths>>

Die(t) ==
    /\ tick[t] # Idle /\ deaths < MaxDeaths
    /\ Rest(t)
    /\ deaths' = deaths + 1
    /\ UNCHANGED <<job, attempts, input, slow>>

Work(t) ==
    \/ Read(t) \/ BlockSnapshot(t) \/ Claim(t)
    \/ Answer(t) \/ Apply(t)
    \/ Compare(t) \/ Curate(t) \/ CloseCompleted(t)
    \/ Close(t)

Next ==
    \/ \E j \in Jobs : Enqueue(j) \/ Expire(j)
    \/ \E k \in Kinds : Change(k)
    \/ \E t \in Ticks :
         \/ Recover(t) \/ BlockQueuedReviews(t)
         \/ \E j \in Jobs : Look(t, j) \/ ClaimCurator(t, j)
         \/ Work(t)
         \/ Die(t)

Spec == Init /\ [][Next]_vars

\* The supervisor runs its ticks again and again, each takes the job that has
\* waited longest, and the lease of a dead tick runs out.
FairSpec ==
    /\ Spec
    /\ \A t \in Ticks : WF_vars(Work(t))
    /\ \A j \in Jobs :
         /\ WF_vars(Expire(j))
         /\ SF_vars(\E t \in Ticks : Look(t, j) \/ ClaimCurator(t, j))

-----------------------------------------------------------------------------
\* A job is completed by exactly one of its attempts, however many ticks work
\* on it and under whatever id (applyReviewResult, closeCompleted).
CompletedByOne ==
    \A j \in Jobs :
        LET completed == {n \in DOMAIN attempts[j] : attempts[j][n].status = "completed"}
        IN  /\ job[j].status = "completed" <=> completed # {}
            /\ \A m, n \in completed : m = n

\* While its lease lasts, a running job is its holder's: it stops running only
\* together with an open attempt under the holder's worker id.  A tick that lost
\* the job to a worker with another id cannot give it back or end it, however
\* late it closes (updateJobAfterAttempt, closeCompleted).  Ticks that share the
\* id are not told apart: there an earlier attempt may be the one that closes,
\* and leaves the latest one open.
StoppedByItsHolder ==
    [][\A j \in Jobs :
         job[j].live /\ job'[j].status # "running" =>
             \E n \in DOMAIN attempts[j] :
                 /\ attempts[j][n].status = "running" /\ attempts'[j][n].status # "running"
                 /\ attempts[j][n].worker = job[j].owner]_vars

\* The result of a review or an evaluation is applied only while what it was
\* made from has not changed, edits between the claim and the save included.
AppliedIsFresh ==
    [][\A j \in Reviews \cup Evaluations :
         job[j].status # "completed" /\ job'[j].status = "completed" =>
             job[j].input = input[Kind(j)]]_vars

\* A job that is asked for is completed, failed or blocked in the end, however
\* many ticks die or are slow at it.
JobSettles ==
    \A j \in Jobs : job[j].status = "queued" ~> job[j].status \in Done

=============================================================================

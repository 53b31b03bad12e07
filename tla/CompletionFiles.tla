---------------------------- MODULE CompletionFiles ----------------------------
(***************************************************************************)
(* The files of one learned resource and their versions                    *)
(* (packages/workspace-server/src/workspace-completion-files.ts and the    *)
(* batches of workspace-completion-service.ts).  A call stages every file  *)
(* it changes in a directory of its own, commits rows and batch in one     *)
(* transaction, then moves the files one by one in a second transaction,   *)
(* which marks the batch.  Both may be interrupted anywhere; maintenance   *)
(* and the next boot repeat the second.                                    *)
(***************************************************************************)
EXTENDS Naturals, FiniteSets, Functions

CONSTANTS
    Ops,          \* operation ids, numbered in the order of their first use
    Kinds,        \* what operations may ask for
    Actors,       \* request handlers and maintenance ticks at the same time
    None,
    MaxRequests,  \* bound: how many calls are made, retries included
    MaxFaults     \* bound: how often an actor dies or an error strikes

ASSUME CompletionFilesAssumption ==
    /\ Kinds \subseteq {"write", "candidate", "promote", "redact"}
    /\ Ops \subseteq Nat /\ IsFiniteSet(Ops) /\ None \notin Actors \cup Ops
    /\ MaxRequests \in Nat /\ MaxFaults \in Nat

VARIABLES
    resource,  \* workspace_completion_resources: the version and its pointers
    versions,  \* workspace_completion_resource_versions, by number
    batch,     \* workspace_completion_file_batches and their entries, by operation
    request,   \* workspace_operations: what was asked and what came of it
    staged,    \* the paths left in the staging directory of each recorded batch
    disk,      \* the files
    lock,      \* who holds the row of the resource while it moves files
    actor, requests, faults

vars == <<resource, versions, batch, request, staged, disk, lock, actor, requests, faults>>

Numbers == 0 .. Cardinality(Ops)

\* What an operation writes, and the tombstone it puts in place of a version.
Written(o) == <<o, 0>>
Tombstone(o, n) == <<o, n>>
IsTombstone(x) == x[2] > 0
Contents == Ops \X Numbers

Target == <<"target", 0>>
History(n) == <<"history", n>>
Candidate(n) == <<"candidate", n>>
Paths == {Target} \cup {History(n) : n \in Numbers} \cup {Candidate(n) : n \in Numbers}

NoVersion == [path |-> Target, content |-> None, batch |-> None]
NoBatch == [status |-> "none", entries |-> <<>>]
NoRequest == [kind |-> "none", expected |-> 0, status |-> "none"]
Idle == [pc |-> "idle", op |-> None, own |-> FALSE, reads |-> {}, entries |-> <<>>, seen |-> {}]

Exists(n) == versions[n] # NoVersion
Pointers == {resource.confirmed, resource.provisional, resource.candidate} \ {0}
Current == IF resource.confirmed > 0 THEN resource.confirmed ELSE resource.provisional

\* What the tables may hold: a version is confirmed or provisional, a
\* candidate is the latest version, and what is staged belongs to a batch.
TypeOK ==
    /\ resource \in [version : Numbers, confirmed : Numbers, provisional : Numbers, candidate : Numbers]
    /\ resource.confirmed = 0 \/ resource.provisional = 0
    /\ resource.candidate \in {0, resource.version}
    /\ \A n \in Numbers : n \in 1 .. resource.version <=>
         versions[n] \in [path : Paths, content : Contents, batch : Ops]
    /\ \A o \in Ops :
         /\ batch[o].status \in {"none", "db_committed", "renamed"}
         /\ batch[o].status = "none" <=> request[o].status # "completed"
         /\ staged[o] \subseteq DOMAIN batch[o].entries
         /\ batch[o].status = "renamed" => staged[o] = {}
         /\ request[o] \in [kind : Kinds \cup {"none"}, expected : Numbers,
                            status : {"none", "asked", "completed", "failed"}]
    /\ disk \in [Paths -> Contents \cup {None}]
    /\ lock \in Actors \cup {None}
    /\ lock # None => actor[lock].pc \in {"moving", "marking"}

Init ==
    /\ resource = [version |-> 0, confirmed |-> 0, provisional |-> 0, candidate |-> 0]
    /\ versions = [n \in Numbers |-> NoVersion]
    /\ batch = [o \in Ops |-> NoBatch]
    /\ request = [o \in Ops |-> NoRequest]
    /\ staged = [o \in Ops |-> {}]
    /\ disk = [p \in Paths |-> None]
    /\ lock = None
    /\ actor = [a \in Actors |-> Idle]
    /\ requests = 0 /\ faults = 0

-----------------------------------------------------------------------------
At(a, pc) == actor[a].pc = pc
Rest(a) == actor' = [actor EXCEPT ![a] = Idle]

\* A version can be read once the batch that wrote it is marked.
Ready(n) == n > 0 /\ batch[versions[n].batch].status = "renamed"

\* What the preparation of a request checks (the version that a repeated update
\* wrote is not prepared again: the history would get one path twice) ...
Preparable(kind, expected) ==
    /\ kind \in {"write", "candidate"} /\ expected > 0 => Ready(Current)
    /\ kind = "write" /\ expected > 0 => Current # expected + 1
    /\ kind = "promote" =>
         /\ resource.version = expected /\ Ready(resource.candidate)
         /\ resource.confirmed > 0 => Ready(resource.confirmed)
    /\ kind = "redact" => Current > 0

\* ... and the versions whose files it reads before it stages its own.
Sources(kind, expected) ==
    CASE kind = "write" /\ expected > 0 -> {Current}
      [] kind = "promote" -> {resource.candidate, resource.confirmed} \ {0}
      [] OTHER -> {}

\* What a replaced version leaves in the history, when there is one.
Kept(n) == IF n > 0 THEN {History(n)} ELSE {}

\* Mutant: nothing is put in the history.
EntriesWithoutHistory(o, kind, expected) ==
    CASE kind = "write" -> [p \in {Target} |-> Written(o)]
      [] kind = "candidate" -> [p \in {Candidate(expected + 1)} |-> Written(o)]
      [] kind = "promote" -> [p \in {Target} |-> versions[resource.candidate].content]
      [] kind = "redact" -> <<>>

\* The files of the request: the replaced version goes to the history, and a
\* write puts a copy of its own there.
WriteEntries(o, expected, replaced) ==
    [p \in Kept(replaced) \cup {Target, History(expected + 1)} |->
        IF p \in Kept(replaced) THEN versions[replaced].content ELSE Written(o)]

PromoteEntries ==
    [p \in Kept(resource.confirmed) \cup {Target} |->
        versions[IF p = Target THEN resource.candidate ELSE resource.confirmed].content]

RedactEntries(o) ==
    [p \in {versions[n].path : n \in 1 .. resource.version} |->
        Tombstone(o, CHOOSE n \in 1 .. resource.version : versions[n].path = p)]

Entries(o, kind, expected) ==
    CASE kind = "write" -> WriteEntries(o, expected, IF expected > 0 THEN Current ELSE 0)
      [] kind = "candidate" -> [p \in {Candidate(expected + 1)} |-> Written(o)]
      [] kind = "promote" -> PromoteEntries
      [] kind = "redact" -> RedactEntries(o)

\* A client asks, with the version it has seen, or repeats what it asked.
Ask(a, o) ==
    /\ actor[a] = Idle /\ requests < MaxRequests
    /\ request[o].status \in {"none", "asked", "completed"}
    /\ \A before \in Ops : before < o => request[before] # NoRequest
    /\ \E kind \in Kinds :
         LET asked == IF request[o] # NoRequest THEN request[o]
                      ELSE [kind |-> kind, expected |-> resource.version, status |-> "asked"]
         IN /\ asked.kind = kind /\ Preparable(kind, asked.expected)
            /\ request' = [request EXCEPT ![o] = asked]
            /\ actor' = [actor EXCEPT ![a] =
                 [Idle EXCEPT !.pc = "reading", !.op = o,
                              !.reads = {versions[n] : n \in Sources(kind, asked.expected)},
                              !.entries = Entries(o, kind, asked.expected)]]
    /\ requests' = requests + 1
    /\ UNCHANGED <<resource, versions, batch, staged, disk, lock, faults>>

\* The files are read after the rows; one that is not what its row said fails
\* the call.
Stage(a) ==
    /\ At(a, "reading")
    /\ IF \A v \in actor[a].reads : disk[v.path] = v.content
       THEN actor' = [actor EXCEPT ![a].pc = "staged"]
       ELSE Rest(a)
    /\ UNCHANGED <<resource, versions, batch, request, staged, disk, lock, requests, faults>>

-----------------------------------------------------------------------------
\* What the transaction checks again, under the lock of the row.
Acceptable(o) ==
    LET r == request[o]
    IN /\ r.kind # "redact" => resource.version = r.expected
       /\ r.kind \in {"write", "candidate"} /\ resource.version > 0 => Ready(Current)
       /\ r.kind = "promote" =>
            /\ Ready(resource.candidate)
            /\ resource.confirmed > 0 => Ready(resource.confirmed)

\* The pointers of the resource once its version n is written.
Pointed(kind, n) ==
    IF kind = "candidate"
    THEN [version |-> n, candidate |-> n, confirmed |-> resource.confirmed,
          provisional |-> IF resource.confirmed > 0 THEN resource.provisional ELSE n]
    ELSE [version |-> n, candidate |-> 0, confirmed |-> n, provisional |-> 0]

\* Mutant: the path of the replaced version is left as it was.
MovedNot(kind) == versions

\* The rows once the version that is replaced has moved to the history: the
\* current one of a write, the confirmed one of a promotion.
Moved(kind) ==
    LET replaced == IF kind = "write" THEN Current
                    ELSE IF kind = "promote" THEN resource.confirmed ELSE 0
    IN [n \in Numbers |-> IF n = replaced /\ n > 0 THEN [versions[n] EXCEPT !.path = History(n)]
                          ELSE versions[n]]

WriteVersion(o, entries) ==
    LET kind == request[o].kind
        n == resource.version + 1
        path == IF kind = "candidate" THEN Candidate(n) ELSE Target
    IN /\ versions' = [Moved(kind) EXCEPT ![n] = [path |-> path, content |-> entries[path], batch |-> o]]
       /\ resource' = Pointed(kind, n)

\* A redaction names the versions that it was prepared for.
Redact(o, entries) ==
    /\ versions' = [n \in Numbers |-> IF Tombstone(o, n) \in Range(entries)
                                      THEN [versions[n] EXCEPT !.content = Tombstone(o, n)]
                                      ELSE versions[n]]
    /\ UNCHANGED resource

\* executeBatch: rows and batch in one transaction, once for each operation;
\* what the transaction refuses is recorded and refused again.
Commit(a) ==
    LET o == actor[a].op
        entries == actor[a].entries
    IN /\ At(a, "staged") /\ request[o].status = "asked" /\ lock = None
       /\ IF Acceptable(o)
          THEN /\ IF request[o].kind = "redact" THEN Redact(o, entries) ELSE WriteVersion(o, entries)
               /\ batch' = [batch EXCEPT ![o] = [status |-> "db_committed", entries |-> entries]]
               /\ staged' = [staged EXCEPT ![o] = DOMAIN entries]
               /\ request' = [request EXCEPT ![o].status = "completed"]
               /\ actor' = [actor EXCEPT ![a] = [Idle EXCEPT !.pc = "finalizing", !.op = o, !.own = TRUE]]
          ELSE /\ request' = [request EXCEPT ![o].status = "failed"]
               /\ Rest(a)
               /\ UNCHANGED <<resource, versions, batch, staged>>
       /\ UNCHANGED <<disk, lock, requests, faults>>

\* A repeated operation finalizes the batch of the first and drops its own files.
Replay(a) ==
    LET o == actor[a].op
    IN /\ At(a, "staged") /\ request[o].status # "asked"
       /\ IF request[o].status = "completed"
          THEN actor' = [actor EXCEPT ![a] = [Idle EXCEPT !.pc = "finalizing", !.op = o]]
          ELSE Rest(a)
       /\ UNCHANGED <<resource, versions, batch, request, staged, disk, lock, requests, faults>>

\* recoverFileBatches, of a tick or the boot: every batch that is not marked.
Recover(a, o) ==
    /\ actor[a] = Idle /\ batch[o].status = "db_committed"
    /\ actor' = [actor EXCEPT ![a] = [Idle EXCEPT !.pc = "finalizing", !.op = o]]
    /\ UNCHANGED <<resource, versions, batch, request, staged, disk, lock, requests, faults>>

-----------------------------------------------------------------------------
\* Mutant: what other batches have written is not looked at.
ConflictNever(o) == FALSE

\* A path of the batch holds a pointed-to version that another batch wrote.
Conflict(o) ==
    \E n \in Pointers : versions[n].path \in DOMAIN batch[o].entries /\ versions[n].batch # o

\* The row is locked for the versions that the batch wrote (a redaction wrote none).
Locks(o) == \E n \in Numbers : versions[n].batch = o

Unlock(a) == lock' = IF lock = a THEN None ELSE lock

\* A call that fails drops the files it has staged, committed or not.
GiveUp(a) ==
    /\ staged' = IF actor[a].own THEN [staged EXCEPT ![actor[a].op] = {}] ELSE staged
    /\ Unlock(a)
    /\ Rest(a)

\* The status of the batch is read a moment before the row is locked; a call that
\* acts on an older one goes through files that are in place, so one read stands
\* for both.
FinalizeBegin(a) ==
    LET o == actor[a].op
    IN /\ At(a, "finalizing") /\ (Locks(o) => lock = None)
       /\ IF Conflict(o)
          THEN GiveUp(a)
          ELSE /\ lock' = IF Locks(o) THEN a ELSE lock
               /\ actor' = [actor EXCEPT ![a].pc = IF batch[o].status = "renamed" THEN "marking" ELSE "moving"]
               /\ UNCHANGED staged
       /\ UNCHANGED <<resource, versions, batch, request, disk, requests, faults>>

\* Mutant: a file that is no longer staged is always an error.
InPlaceNever(o, p) == FALSE

\* A file that is no longer staged must be in place.
InPlace(o, p) == disk[p] = batch[o].entries[p]

\* One file after the other, in the order the database sorts the paths in.
Move(a) ==
    LET o == actor[a].op
    IN /\ At(a, "moving")
       /\ \E p \in DOMAIN batch[o].entries \ actor[a].seen :
            IF p \in staged[o]
            THEN /\ disk' = [disk EXCEPT ![p] = batch[o].entries[p]]
                 /\ staged' = [staged EXCEPT ![o] = @ \ {p}]
                 /\ actor' = [actor EXCEPT ![a].seen = @ \cup {p}]
                 /\ UNCHANGED lock
            ELSE IF InPlace(o, p)
            THEN actor' = [actor EXCEPT ![a].seen = @ \cup {p}] /\ UNCHANGED <<disk, staged, lock>>
            ELSE GiveUp(a) /\ UNCHANGED disk
       /\ UNCHANGED <<resource, versions, batch, request, requests, faults>>

\* The batch is marked in the transaction that holds the lock.
Mark(a) ==
    LET o == actor[a].op
    IN /\ \/ At(a, "marking")
          \/ At(a, "moving") /\ actor[a].seen = DOMAIN batch[o].entries
       /\ batch' = [batch EXCEPT ![o].status = "renamed"]
       /\ staged' = [staged EXCEPT ![o] = {}]
       /\ Unlock(a) /\ Rest(a)
       /\ UNCHANGED <<resource, versions, request, disk, requests, faults>>

-----------------------------------------------------------------------------
\* The process dies, or an error strikes after the commit (its answer lost
\* included): the process that dies leaves everything as it is.
Die(a) ==
    /\ actor[a] # Idle /\ faults < MaxFaults
    /\ Unlock(a) /\ Rest(a)
    /\ faults' = faults + 1
    /\ UNCHANGED <<resource, versions, batch, request, staged, disk, requests>>

Error(a) ==
    /\ actor[a].pc \in {"finalizing", "moving", "marking"} /\ faults < MaxFaults
    /\ GiveUp(a)
    /\ faults' = faults + 1
    /\ UNCHANGED <<resource, versions, batch, request, disk, requests>>

Work(a) == Stage(a) \/ Commit(a) \/ Replay(a) \/ FinalizeBegin(a) \/ Move(a) \/ Mark(a)

Next == \E a \in Actors :
    \/ \E o \in Ops : Ask(a, o) \/ Recover(a, o)
    \/ Work(a)
    \/ Die(a) \/ Error(a)

Spec == Init /\ [][Next]_vars

\* Handlers go on, PostgreSQL queues those that wait for the row, and every
\* maintenance tick tries every batch that is not marked.
FairSpec ==
    /\ Spec
    /\ \A a \in Actors : SF_vars(Work(a))
    /\ \A o \in Ops : SF_vars(\E a \in Actors : Recover(a, o))

-----------------------------------------------------------------------------
Redacted(n) == IsTombstone(versions[n].content)
Marked(n) == Exists(n) /\ batch[versions[n].batch].status = "renamed"
Readable(n) == disk[versions[n].path] = versions[n].content

\* What the resource points to can be read once its batch is marked, whatever
\* other calls, recoveries and failures are going on (getResource reads by hash).
PointedIsReadable == \A n \in Pointers : Marked(n) /\ ~Redacted(n) => Readable(n)

\* Once every batch is marked, every version is where its row says, those that
\* later ones replaced included.
QuietIsReadable ==
    (\A o \in Ops : batch[o].status # "db_committed") =>
        \A n \in 1 .. resource.version : ~Redacted(n) => Readable(n)

\* A batch that lost files before they were in place: nothing can finish it.
Dropped(o) ==
    /\ batch[o].status = "db_committed"
    /\ \E p \in DOMAIN batch[o].entries \ staged[o] : disk[p] # batch[o].entries[p]

\* What was acknowledged is on the disk, or staged to be, unless a batch that
\* replaces it dropped it when its call failed.
AcknowledgedIsKept ==
    \A n \in Numbers : Marked(n) /\ ~Redacted(n) =>
        \/ \E p \in Paths : disk[p] = versions[n].content
        \/ \E o \in Ops : batch[o].status = "db_committed"
             /\ \E p \in DOMAIN batch[o].entries :
                  batch[o].entries[p] = versions[n].content /\ (p \in staged[o] \/ Dropped(o))

\* A batch whose call died is finished by recovery, whatever part of it was done,
\* unless it lost files (Dropped) or a path of it now holds what another batch
\* wrote (Conflict), which every redaction of a current version meets.
InterruptedIsFinished ==
    \A o \in Ops :
        batch[o].status = "db_committed" ~> batch[o].status = "renamed" \/ Dropped(o) \/ Conflict(o)

\* A version that the rows show as redacted is overwritten on the disk
\* (redactResource).
RedactionTakesEffect ==
    \A n \in Numbers : Exists(n) /\ Redacted(n) ~> Readable(n)

=============================================================================

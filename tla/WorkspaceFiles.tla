---------------------------- MODULE WorkspaceFiles ----------------------------
(***************************************************************************)
(* One path of a workspace's files                                         *)
(* (packages/workspace-server/src/workspace-files.ts).  The row of the     *)
(* file, the ledger of its transactions and the ledger of operations are   *)
(* in PostgreSQL and change together; the file itself and the staging      *)
(* files are on disk and change one at a time, after the commit.  A call   *)
(* stages its content, commits, then finalizes: it moves the content into  *)
(* place and marks the transaction, under the lock of the path.  A call    *)
(* may end at any point; recovery finalizes what was left.                 *)
(***************************************************************************)
EXTENDS Naturals, Sequences

CONSTANTS
    Contents,   \* the bodies a file may have, told apart by their hash
    None,       \* no file on the disk
    Ops,        \* the operations clients ask for, each under its own id
    MaxCalls,   \* bound: calls, retries of an operation included
    Faults,     \* what goes wrong: "stop" a call dies, "unheard" a commit is not heard of
    MaxFaults   \* bound: how often something does

ASSUME WorkspaceFilesAssumption ==
    /\ None \notin Contents
    /\ Faults \subseteq {"stop", "unheard"}
    /\ MaxCalls \in Nat /\ MaxFaults \in Nat

Calls == 1 .. MaxCalls
Recovery == 0                   \* the actor of recover(), the others are calls

VARIABLES
    file,       \* the row of workspace_files, version 0 when there is none
    log,        \* workspace_file_transactions, oldest first
    applied,    \* workspace_operations: the transaction that each operation committed, or Failed
    disk,       \* the file under files/
    staged,     \* the file each call put under .staging/
    request,    \* what each operation asks for, the same at every retry
    call,       \* where each call is
    pending,    \* the transactions that recover() still has to finalize
    lock,       \* the holder of the lock of the path while it moves the file
    faults

rows == <<file, log, applied>>
vars == <<rows, disk, staged, request, call, pending, lock, faults>>

-----------------------------------------------------------------------------
NoFile == [version |-> 0, content |-> None]
NoRequest == [kind |-> "none", expected |-> 0, content |-> None]
NoCall == [pc |-> "unused", op |-> "none", tx |-> 0]
Free == MaxCalls + 1             \* nobody holds the lock
Failed == MaxCalls + 1           \* the operation was refused
Versions == 0 .. MaxCalls

Files == {NoFile} \cup [version : Versions \ {0}, content : Contents]
Transactions ==
    [by : Calls, op : Ops, kind : {"write", "remove"}, previous : Files, next : Files,
     status : {"db_committed", "renamed"}]

\* The states the store can be in: a file that is there has a version and a
\* body, one that is removed has neither.
TypeOK ==
    /\ file \in Files
    /\ log \in Seq(Transactions)
    /\ applied \in [Ops -> 0 .. Failed]
    /\ disk \in Contents \cup {None}
    /\ staged \in [Calls -> Contents \cup {None}]
    /\ request \in [Ops -> [kind : {"none", "write", "remove"}, expected : Versions,
                            content : Contents \cup {None}]]
    /\ call \in [Calls -> [pc : {"unused", "staged", "finalize", "moved", "cleanup", "done"},
                           op : Ops \cup {"none"}, tx : 0 .. MaxCalls]]
    /\ pending \in SUBSET (1 .. MaxCalls)
    /\ lock \in 0 .. Free
    /\ faults \in 0 .. MaxFaults

Init ==
    /\ file = NoFile
    /\ log = <<>>
    /\ applied = [o \in Ops |-> 0]
    /\ disk = None
    /\ staged = [k \in Calls |-> None]
    /\ request = [o \in Ops |-> NoRequest]
    /\ call = [k \in Calls |-> NoCall]
    /\ pending = {}
    /\ lock = Free
    /\ faults = 0

-----------------------------------------------------------------------------
\* A call of write or remove, for a new operation or one that is retried; calls
\* are numbered in the order in which they are made.
Requests ==
    [kind : {"write"}, expected : Versions, content : Contents]
    \cup [kind : {"remove"}, expected : Versions \ {0}, content : {None}]

Begin(k, o) ==
    /\ call[k] = NoCall /\ \A j \in 1 .. k - 1 : call[j] # NoCall
    /\ \E r \in Requests :
         /\ IF request[o] = NoRequest THEN r.expected <= file.version ELSE r = request[o]
         /\ request' = [request EXCEPT ![o] = r]
         /\ staged' = [staged EXCEPT ![k] = r.content]
    /\ call' = [call EXCEPT ![k] = [pc |-> "staged", op |-> o, tx |-> 0]]
    /\ UNCHANGED <<rows, disk, pending, lock, faults>>

\* What the request makes of the row, if it was made for the row as it is.
Current(r) == file.version = r.expected

After(r) ==
    IF r.kind = "write" THEN [version |-> file.version + 1, content |-> r.content] ELSE NoFile

Record(k, o) ==
    [by |-> k, op |-> o, kind |-> request[o].kind, previous |-> file,
     next |-> After(request[o]), status |-> "db_committed"]

Apply(k, o) ==
    /\ lock = Free
    /\ Current(request[o])
    /\ file' = After(request[o])
    /\ log' = Append(log, Record(k, o))
    /\ applied' = [applied EXCEPT ![o] = Len(log) + 1]

\* Mutant: a retry is not recognised by the id of its operation.
CommitAgain(k) ==
    LET o == call[k].op
    IN /\ call[k].pc = "staged"
       /\ Apply(k, o)
       /\ call' = [call EXCEPT ![k].pc = "finalize", ![k].tx = Len(log) + 1]
       /\ UNCHANGED <<disk, staged, request, pending, lock, faults>>

\* The transaction of the database: a retry finds what its operation did.
Commit(k) ==
    LET o == call[k].op
    IN /\ call[k].pc = "staged"
       /\ \/ /\ applied[o] = 0
             /\ Apply(k, o)
             /\ call' = [call EXCEPT ![k].pc = "finalize", ![k].tx = Len(log) + 1]
          \/ /\ applied[o] \in Calls
             /\ call' = [call EXCEPT ![k].pc = "finalize", ![k].tx = applied[o]]
             /\ UNCHANGED rows
       /\ UNCHANGED <<disk, staged, request, pending, lock, faults>>

\* A version that is not the one expected fails the operation for good, retries
\* included, and the staging file goes.
Refuse(k) ==
    LET o == call[k].op
    IN /\ call[k].pc = "staged"
       /\ \/ applied[o] = 0 /\ lock = Free /\ ~Current(request[o])
          \/ applied[o] = Failed
       /\ applied' = [applied EXCEPT ![o] = Failed]
       /\ staged' = [staged EXCEPT ![k] = None]
       /\ call' = [call EXCEPT ![k].pc = "done"]
       /\ UNCHANGED <<file, log, disk, request, pending, lock, faults>>

-----------------------------------------------------------------------------
\* Mutant: a write may be put in place after the row has moved on.
WriteMovesLate(x) ==
    \/ disk = x.next.content /\ staged[x.by] \in {None, x.next.content}
    \/ disk \in {None, x.previous.content} /\ staged[x.by] = x.next.content

\* Mutant: a move that was made and not marked is not recognised.
WriteMovesOnce(x) ==
    /\ file = x.next
    /\ disk = None \/ (x.previous # NoFile /\ disk = x.previous.content)
    /\ staged[x.by] = x.next.content

\* finalize, for a call or for recovery.  A write goes into place only over the
\* content it replaced, and only while it is the row; a removal removes only
\* the content it was for, and only while there is no row.
WriteMoves(x) ==
    /\ file = x.next
    /\ \/ disk = x.next.content /\ staged[x.by] \in {None, x.next.content}
       \/ /\ disk = None \/ (x.previous # NoFile /\ disk = x.previous.content)
          /\ staged[x.by] = x.next.content

RemoveMoves(x) ==
    /\ file = NoFile
    /\ disk \in {None, x.previous.content}

\* Mutant: what is on the disk is replaced by whatever the transaction says.
MovesAny(x) == IF x.kind = "write" THEN staged[x.by] # None ELSE TRUE

Moves(x) == IF x.kind = "write" THEN WriteMoves(x) ELSE RemoveMoves(x)

Move(i) ==
    /\ Moves(log[i])
    /\ disk' = log[i].next.content
    /\ staged' = IF log[i].kind = "write" THEN [staged EXCEPT ![log[i].by] = None] ELSE staged

Mark(i) == log' = [log EXCEPT ![i].status = "renamed"]

\* A call finalizes the transaction of its operation, its own or an earlier
\* one; when it is refused the call fails and leaves everything as it is.
CallMoves(k) ==
    LET i == call[k].tx
    IN /\ call[k].pc = "finalize"
       /\ \/ /\ log[i].status = "renamed"
             /\ call' = [call EXCEPT ![k].pc = "cleanup"]
             /\ UNCHANGED <<disk, staged, lock>>
          \/ /\ log[i].status = "db_committed" /\ lock = Free
             /\ Move(i)
             /\ lock' = k
             /\ call' = [call EXCEPT ![k].pc = "moved"]
          \/ /\ log[i].status = "db_committed" /\ lock = Free
             /\ ~Moves(log[i])
             /\ call' = [call EXCEPT ![k].pc = "done"]
             /\ UNCHANGED <<disk, staged, lock>>
       /\ UNCHANGED <<rows, request, pending, faults>>

CallMarks(k) ==
    /\ call[k].pc = "moved"
    /\ Mark(call[k].tx)
    /\ lock' = Free
    /\ call' = [call EXCEPT ![k].pc = "cleanup"]
    /\ UNCHANGED <<file, applied, disk, staged, request, pending, faults>>

\* A retry's own staging file was never used.
Cleanup(k) ==
    /\ call[k].pc = "cleanup"
    /\ staged' = IF log[call[k].tx].by = k THEN staged ELSE [staged EXCEPT ![k] = None]
    /\ call' = [call EXCEPT ![k].pc = "done"]
    /\ UNCHANGED <<rows, disk, request, pending, lock, faults>>

-----------------------------------------------------------------------------
\* recover(): what is committed and not marked is finalized, oldest first; what
\* is refused is reported and stays.
Unfinished == {i \in DOMAIN log : log[i].status = "db_committed"}

Recover ==
    /\ pending = {} /\ Unfinished # {}
    /\ pending' = Unfinished
    /\ UNCHANGED <<rows, disk, staged, request, call, lock, faults>>

Oldest(i) == i \in pending /\ \A j \in pending : i <= j

RecoverMoves ==
    /\ lock = Free
    /\ \E i \in pending :
         /\ Oldest(i)
         /\ \/ /\ log[i].status = "db_committed"
               /\ Move(i)
               /\ lock' = Recovery
               /\ UNCHANGED pending
            \/ /\ log[i].status = "renamed" \/ ~Moves(log[i])
               /\ pending' = pending \ {i}
               /\ UNCHANGED <<disk, staged, lock>>
    /\ UNCHANGED <<rows, request, call, faults>>

RecoverMarks ==
    /\ lock = Recovery
    /\ \E i \in pending : Oldest(i) /\ Mark(i) /\ pending' = pending \ {i}
    /\ lock' = Free
    /\ UNCHANGED <<file, applied, disk, staged, request, call, faults>>

-----------------------------------------------------------------------------
\* A call dies with its process or loses its connection: the lock is given
\* back, what is on the disk stays.
Unlocked(actor) == IF lock = actor THEN Free ELSE lock

Stop ==
    /\ "stop" \in Faults /\ faults < MaxFaults
    /\ faults' = faults + 1
    /\ \/ \E k \in Calls :
            /\ call[k].pc \notin {"unused", "done"}
            /\ call' = [call EXCEPT ![k].pc = "done"]
            /\ lock' = Unlocked(k)
            /\ UNCHANGED pending
       \/ /\ pending # {}
          /\ pending' = {}
          /\ lock' = Unlocked(Recovery)
          /\ UNCHANGED call
    /\ UNCHANGED <<rows, disk, staged, request>>

\* The database commits and the answer is lost: the call takes the commit for
\* a failure and removes its staging file.
CommitUnheard(k) ==
    /\ "unheard" \in Faults /\ faults < MaxFaults
    /\ call[k].pc = "staged" /\ applied[call[k].op] = 0
    /\ Apply(k, call[k].op)
    /\ staged' = [staged EXCEPT ![k] = None]
    /\ call' = [call EXCEPT ![k].pc = "done"]
    /\ faults' = faults + 1
    /\ UNCHANGED <<disk, request, pending, lock>>

CallStep(k) ==
    \/ \E o \in Ops : Begin(k, o)
    \/ Commit(k) \/ Refuse(k) \/ CallMoves(k) \/ CallMarks(k) \/ Cleanup(k)
    \/ CommitUnheard(k)

Next ==
    \/ \E k \in Calls : CallStep(k)
    \/ Recover \/ RecoverMoves \/ RecoverMarks
    \/ Stop

Spec == Init /\ [][Next]_vars

\* A call that is under way goes on, and recovery is run again (at the next
\* boot, or by hand).
FairSpec ==
    /\ Spec
    /\ \A k \in Calls : SF_vars(CallMoves(k)) /\ WF_vars(CallMarks(k))
    /\ WF_vars(Recover) /\ SF_vars(RecoverMoves) /\ WF_vars(RecoverMarks)

-----------------------------------------------------------------------------
Last == log[Len(log)]

\* A call that was told of the commit of its transaction.
Heard(i) == call[log[i].by].tx # 0

\* The content of the row is never lost once its call knows it is committed,
\* whoever dies and whatever else is called: it is on the disk, or still in the
\* staging file that the transaction of the row names (write, finalize).
LatestKept ==
    file # NoFile /\ Heard(Len(log)) => disk = file.content \/ staged[Last.by] = file.content

\* Once the latest transaction is marked the disk agrees with the row, so that
\* read succeeds, and no late finalize of an older transaction changes that.
MarkedIsReadable ==
    log # <<>> /\ Last.status = "renamed" => disk = file.content

\* An operation takes effect at most once, however often it is called and
\* whenever the earlier call of it died (runIdempotentResult).
AppliedOnce ==
    \A i, j \in DOMAIN log : log[i].op = log[j].op => i = j

\* An interrupted transaction is finished by its call, a retry or recovery,
\* unless another one is committed on the path before it is (recover).
InterruptedIsFinished ==
    \A i \in 1 .. MaxCalls :
        Len(log) = i /\ Unfinished = {i} /\ Heard(i)
            ~> Len(log) > i \/ (Len(log) = i /\ log[i].status = "renamed")

=============================================================================

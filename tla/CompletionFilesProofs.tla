------------------------- MODULE CompletionFilesProofs -------------------------
(***************************************************************************)
(* Proofs about CompletionFiles: what the resource points to can be read,  *)
(* what was acknowledged is kept, and once every batch is marked every     *)
(* version is where its row says.                                          *)
(***************************************************************************)
EXTENDS CompletionFiles, FiniteSetTheorems, TLAPS

\* Functions from paths to contents: the files of a request or of a batch.
Files == UNION {[D -> Contents] : D \in SUBSET Paths}
Rows == [path : Paths, content : Contents \cup {None}, batch : Ops \cup {None}]
Steps == {"idle", "reading", "staged", "finalizing", "moving", "marking"}

ActorRecords ==
    [pc : Steps, op : Ops \cup {None}, own : BOOLEAN,
     reads : SUBSET Rows, entries : Files, seen : SUBSET Paths]
RequestRecords ==
    [kind : Kinds \cup {"none"}, expected : Numbers,
     status : {"none", "asked", "completed", "failed"}]
BatchRecords == [status : {"none", "db_committed", "renamed"}, entries : Files]

Typed ==
    /\ versions \in [Numbers -> Rows]
    /\ batch \in [Ops -> BatchRecords]
    /\ request \in [Ops -> RequestRecords]
    /\ staged \in [Ops -> SUBSET Paths]
    /\ actor \in [Actors -> ActorRecords]
    /\ \A a \in Actors : actor[a].pc # "idle" => actor[a].op \in Ops
    /\ TypeOK

Versions == 1 .. resource.version
Committed(o) == batch[o].status # "none"
Writer(n) == versions[n].batch

\* Each version was written by a committed batch; the confirmed one, and no
\* other, is the file of the resource, and the other pointers are candidates.
RowsSeen ==
    /\ resource.confirmed \in 0 .. resource.version /\ resource.provisional \in 0 .. resource.version
    /\ \A n \in Numbers \ Versions : versions[n] = NoVersion
    /\ \A n \in Versions :
         /\ Committed(Writer(n))
         /\ versions[n].path \in {Target, History(n), Candidate(n)}
         /\ versions[n].path = Target <=> n = resource.confirmed
         /\ n \in {resource.provisional, resource.candidate} => versions[n].path = Candidate(n)

\* The file of each version is among those of the batch that wrote it.
WritersSeen ==
    \A n \in Versions :
        /\ versions[n].path # History(n) => versions[n].path \in DOMAIN batch[Writer(n)].entries
        /\ versions[n].path = Target =>
             Redacted(n) \/ batch[Writer(n)].entries[Target] = versions[n].content

\* The files of a version that has a path of its own are those its row says,
\* in every batch that was ever committed.
Sound(e) ==
    /\ Target \in DOMAIN e => resource.confirmed > 0
    /\ \A n \in Numbers : \A p \in {History(n), Candidate(n)} :
         p \in DOMAIN e => n \in Versions /\ (Redacted(n) \/ e[p] = versions[n].content)

EntriesSeen == \A o \in Ops : Committed(o) => Sound(batch[o].entries)

\* What has been prepared is what is to be committed, if it still can be.
PreparedWrite(o, e) ==
    /\ DOMAIN e = Kept(Current) \cup {Target, History(resource.version + 1)}
    /\ e[Target] = Written(o) /\ e[History(resource.version + 1)] = Written(o)
    /\ Current > 0 => Redacted(Current) \/ e[History(Current)] = versions[Current].content

PreparedPromote(e) ==
    /\ DOMAIN e = Kept(resource.confirmed) \cup {Target}
    /\ resource.confirmed > 0 =>
         \/ Redacted(resource.confirmed)
         \/ e[History(resource.confirmed)] = versions[resource.confirmed].content

PreparedRedact(o, e) ==
    /\ Target \in DOMAIN e => resource.confirmed > 0
    /\ \A x \in Range(e) : \E n \in Versions : x = Tombstone(o, n)
    /\ \A n \in Numbers : \A p \in {History(n), Candidate(n)} :
         p \in DOMAIN e => n \in Versions /\ e[p] = Tombstone(o, n)

Prepared(o, e) ==
    LET r == request[o]
    IN /\ r.kind = "redact" => PreparedRedact(o, e)
       /\ r.expected = resource.version =>
            /\ r.kind = "write" => PreparedWrite(o, e)
            /\ r.kind = "candidate" => DOMAIN e = {Candidate(resource.version + 1)}
            /\ r.kind = "promote" => PreparedPromote(e)

RequestsSeen ==
    /\ \A o \in Ops : request[o].kind # "none" =>
         request[o].expected <= resource.version /\ request[o].expected + 1 \in Numbers
    /\ \A o \in Ops : request[o].status = "none" <=> request[o].kind = "none"
    /\ \A a \in Actors :
         /\ actor[a].pc \in {"reading", "staged"} => request[actor[a].op].status # "none"
         /\ actor[a].pc \in {"reading", "staged"} /\ request[actor[a].op].status = "asked" =>
              Prepared(actor[a].op, actor[a].entries)

\* There are no more versions than batches.
Counted == resource.version <= Cardinality({o \in Ops : Committed(o)})

\* Whoever moves the file of the resource holds the lock and moves the file of
\* its confirmed version; what it has moved is in place.
MovingSeen(a) ==
    LET o == actor[a].op
        e == batch[o].entries
    IN /\ actor[a].pc \in {"finalizing", "moving", "marking"} => Committed(o)
       /\ actor[a].pc = "finalizing" => actor[a].seen = {}
       /\ actor[a].pc = "marking" => batch[o].status = "renamed"
       /\ actor[a].pc = "moving" =>
            /\ actor[a].seen \subseteq DOMAIN e
            /\ Target \in DOMAIN e =>
                 /\ lock = a /\ batch[o].status = "db_committed"
                 /\ resource.confirmed > 0 /\ Writer(resource.confirmed) = o
            /\ Target \in actor[a].seen => disk[Target] = e[Target]
            /\ \A n \in Versions : \A p \in {History(n), Candidate(n)} :
                 p \in actor[a].seen => Redacted(n) \/ disk[p] = versions[n].content

MovesSeen == \A a \in Actors : MovingSeen(a)

\* A version is where its row says once the batch is marked that put it there:
\* the one that wrote it, and the one that moved it to the history.
Placed ==
    \A n \in Versions :
        \/ Redacted(n)
        \/ versions[n].path # History(n) /\ (batch[Writer(n)].status = "renamed" => Readable(n))
        \/ /\ versions[n].path = History(n)
           /\ \E o \in Ops : /\ Committed(o) /\ History(n) \in DOMAIN batch[o].entries
                             /\ batch[o].status = "renamed" => Readable(n)

IInv ==
    /\ Typed /\ RowsSeen /\ WritersSeen /\ EntriesSeen /\ RequestsSeen /\ Counted
    /\ MovesSeen /\ Placed

-----------------------------------------------------------------------------
\* Paths, numbers and files.

LEMMA PathsApart ==
  /\ \A n : Target # History(n) /\ Target # Candidate(n)
  /\ \A n, m : History(n) # Candidate(m)
  /\ \A n, m : History(n) = History(m) => n = m
  /\ \A n, m : Candidate(n) = Candidate(m) => n = m
  BY DEF Target, History, Candidate

LEMMA PathsAre ==
  /\ Target \in Paths
  /\ \A n \in Numbers : History(n) \in Paths /\ Candidate(n) \in Paths
  /\ \A p \in Paths : p # Target => \E n \in Numbers : p \in {History(n), Candidate(n)}
  BY DEF Paths

LEMMA NumbersAre ==
  /\ Cardinality(Ops) \in Nat /\ Numbers = 0 .. Cardinality(Ops) /\ 0 \in Numbers
  BY CompletionFilesAssumption, FS_CardinalityType DEF Numbers

LEMMA FilesAre ==
  ASSUME NEW D \in SUBSET Paths, NEW e \in [D -> Contents]
  PROVE  e \in Files
  BY DEF Files

LEMMA FileOf ==
  ASSUME NEW e \in Files
  PROVE  DOMAIN e \subseteq Paths /\ \A p \in DOMAIN e : e[p] \in Contents
  BY DEF Files

LEMMA NoFiles == <<>> \in Files /\ DOMAIN <<>> = {}
  <1>1. <<>> \in [{} -> Contents]
    OBVIOUS
  <1> QED BY <1>1, FilesAre

LEMMA IdleIs ==
  /\ Idle \in ActorRecords /\ Idle.pc = "idle"
  BY NoFiles DEF Idle, ActorRecords, Steps

\* A tombstone is one, and is in no way mistaken for what a version was.
LEMMA TombstonesAre ==
  ASSUME NEW o, NEW n \in Nat, n > 0
  PROVE  IsTombstone(Tombstone(o, n))
  BY DEF IsTombstone, Tombstone

LEMMA VersionsAre ==
  ASSUME Typed
  PROVE  /\ Versions \subseteq Numbers /\ Versions \subseteq Nat
         /\ resource.version \in Numbers /\ resource.version \in Nat
         /\ resource.confirmed \in Nat /\ resource.provisional \in Nat /\ resource.candidate \in Nat
         /\ \A n \in Versions : n > 0 /\ n <= resource.version
         /\ \A n \in Nat : n > 0 /\ n <= resource.version => n \in Versions
         /\ \A n \in Versions :
              versions[n].path \in Paths /\ versions[n].content \in Contents /\ Writer(n) \in Ops
  <1>1. /\ resource \in [version : Numbers, confirmed : Numbers, provisional : Numbers, candidate : Numbers]
        /\ \A n \in Numbers : n \in Versions =>
             versions[n] \in [path : Paths, content : Contents, batch : Ops]
    BY DEF Typed, TypeOK, Versions
  <1>2. Versions \subseteq Numbers
    BY <1>1, NumbersAre DEF Versions
  <1> QED BY <1>1, <1>2, NumbersAre DEF Versions, Writer

\* There is a number for the version that a batch is about to write.
LEMMA RoomForOne ==
  ASSUME Typed, Counted, NEW o \in Ops, ~Committed(o)
  PROVE  resource.version + 1 \in Numbers
  <1> DEFINE C == {x \in Ops : Committed(x)}
  <1>1. IsFiniteSet(Ops)
    BY CompletionFilesAssumption
  <1>2. IsFiniteSet(C) /\ C \in SUBSET Ops /\ o \notin C
    BY <1>1, FS_Subset
  <1>3. Cardinality(C) <= Cardinality(Ops) /\ Cardinality(Ops) # Cardinality(C)
    <2> HIDE DEF C
    <2> QED BY <1>1, <1>2, FS_Subset
  <1>4. Cardinality(C) \in Nat
    BY <1>2, FS_CardinalityType
  <1> QED BY <1>3, <1>4, NumbersAre, VersionsAre DEF Counted

-----------------------------------------------------------------------------
LEMMA InitHolds == Init => IInv
  <1> SUFFICES ASSUME Init PROVE IInv
    OBVIOUS
  <1>1. /\ resource.version = 0 /\ resource.confirmed = 0 /\ resource.provisional = 0
        /\ resource.candidate = 0 /\ Versions = {}
    BY DEF Init, Versions
  <1>2. \A o \in Ops : /\ batch[o].status = "none" /\ batch[o].entries = <<>>
                       /\ request[o].status = "none" /\ request[o].kind = "none" /\ staged[o] = {}
    BY DEF Init, NoBatch, NoRequest
  <1>3. \A a \in Actors : actor[a] \in ActorRecords /\ actor[a].pc = "idle"
    BY IdleIs DEF Init
  <1>4. Typed
    <2>1. \A n \in Numbers : versions[n] = NoVersion
      BY DEF Init
    <2>2. NoVersion \in Rows /\ NoVersion.batch \notin Ops
      BY PathsAre, CompletionFilesAssumption DEF NoVersion, Rows
    <2>3. versions \in [Numbers -> Rows]
      BY <2>2 DEF Init
    <2>4. batch \in [Ops -> BatchRecords]
      BY NoFiles DEF Init, NoBatch, BatchRecords
    <2>5. request \in [Ops -> RequestRecords]
      BY NumbersAre DEF Init, NoRequest, RequestRecords
    <2>6. staged \in [Ops -> SUBSET Paths]
      BY DEF Init
    <2>7. actor \in [Actors -> ActorRecords]
      BY IdleIs DEF Init
    <2>8. TypeOK
      <3>1. resource \in [version : Numbers, confirmed : Numbers, provisional : Numbers, candidate : Numbers]
        BY NumbersAre DEF Init
      <3>2. \A n \in Numbers : ~(n \in 1 .. resource.version)
              /\ versions[n] \notin [path : Paths, content : Contents, batch : Ops]
        BY <1>1, <2>1, <2>2 DEF Versions
      <3>3. disk \in [Paths -> Contents \cup {None}] /\ lock = None
        BY DEF Init
      <3>4. \A o \in Ops : request[o] \in RequestRecords
        BY <2>5
      <3> QED BY <1>1, <1>2, <3>1, <3>2, <3>3, <3>4 DEF TypeOK, RequestRecords
    <2> QED BY <1>3, <2>3, <2>4, <2>5, <2>6, <2>7, <2>8 DEF Typed
  <1>5. RowsSeen
    BY <1>1 DEF Init, RowsSeen
  <1>6. WritersSeen /\ EntriesSeen /\ Placed
    BY <1>1, <1>2 DEF WritersSeen, EntriesSeen, Placed, Committed
  <1>7. RequestsSeen /\ MovesSeen
    BY <1>2, <1>3 DEF RequestsSeen, MovesSeen, MovingSeen
  <1>8. Counted
    <2>1. {o \in Ops : Committed(o)} = {}
      BY <1>2 DEF Committed
    <2> QED BY <1>1, <2>1, FS_EmptySet DEF Counted
  <1> QED BY <1>4, <1>5, <1>6, <1>7, <1>8 DEF IInv

-----------------------------------------------------------------------------
\* Steps that leave the rows and the files alone.

LEMMA ActorSet ==
  ASSUME Typed, NEW a \in Actors, NEW x \in ActorRecords, x.pc # "idle" => x.op \in Ops,
         actor' = [actor EXCEPT ![a] = x]
  PROVE  /\ actor' \in [Actors -> ActorRecords]
         /\ actor'[a] = x /\ \A b \in Actors \ {a} : actor'[b] = actor[b]
         /\ \A b \in Actors : actor'[b].pc # "idle" => actor'[b].op \in Ops
  <1>1. actor \in [Actors -> ActorRecords] /\ \A b \in Actors : actor[b].pc # "idle" => actor[b].op \in Ops
    BY DEF Typed
  <1>2. actor' \in [Actors -> ActorRecords] /\ actor'[a] = x /\ \A b \in Actors \ {a} : actor'[b] = actor[b]
    BY <1>1
  <1> QED BY <1>1, <1>2

LEMMA ActorIs ==
  ASSUME Typed, NEW a \in Actors
  PROVE  /\ actor[a] \in ActorRecords /\ actor[a].own \in BOOLEAN
         /\ actor[a].entries \in Files /\ actor[a].seen \subseteq Paths
         /\ actor[a].pc # "idle" => actor[a].op \in Ops
         /\ lock = a => actor[a].pc \in {"moving", "marking"}
  <1>1. actor[a] \in ActorRecords /\ (actor[a].pc # "idle" => actor[a].op \in Ops)
    BY DEF Typed
  <1>2. lock = a => actor[a].pc \in {"moving", "marking"}
    BY CompletionFilesAssumption DEF Typed, TypeOK
  <1> QED BY <1>1, <1>2 DEF ActorRecords

\* The lock is handed over by nobody: it is as it was, let go, or taken by a.
LockBy(a) ==
    /\ lock' \in {None, lock, a}
    /\ \A b \in Actors \ {a} : lock = b => lock' = b
    /\ lock' = a => actor'[a].pc \in {"moving", "marking"}

\* The step of one actor that moves no file.
LEMMA ActorStep ==
  ASSUME IInv, UNCHANGED <<resource, versions, batch, disk>>,
         NEW a \in Actors, NEW x \in ActorRecords, x.pc # "idle" => x.op \in Ops,
         actor' = [actor EXCEPT ![a] = x], LockBy(a),
         staged' \in [Ops -> SUBSET Paths], \A o \in Ops : staged'[o] \subseteq staged[o],
         request' \in [Ops -> RequestRecords], RequestsSeen',
         \A o \in Ops : request'[o].status = "completed" <=> request[o].status = "completed",
         MovingSeen(a)'
  PROVE  IInv'
  <1>1. /\ actor' \in [Actors -> ActorRecords]
        /\ actor'[a] = x /\ \A b \in Actors \ {a} : actor'[b] = actor[b]
        /\ \A b \in Actors : actor'[b].pc # "idle" => actor'[b].op \in Ops
    BY ActorSet DEF IInv
  <1>2. Typed'
    <2>1. \A o \in Ops :
            /\ batch'[o].status \in {"none", "db_committed", "renamed"}
            /\ batch'[o].status = "none" <=> request'[o].status # "completed"
            /\ staged'[o] \subseteq DOMAIN batch'[o].entries
            /\ batch'[o].status = "renamed" => staged'[o] = {}
      BY DEF IInv, Typed, TypeOK
    <2>2. lock' \in Actors \cup {None}
      BY DEF LockBy, IInv, Typed, TypeOK
    <2>3. ASSUME lock' # None PROVE actor'[lock'].pc \in {"moving", "marking"}
      <3>1. CASE lock' = a
        BY <3>1 DEF LockBy
      <3>2. CASE lock' # a
        <4>1. lock' = lock /\ lock # None /\ lock \in Actors
          BY <2>2, <2>3, <3>2 DEF LockBy
        <4>2. actor[lock].pc \in {"moving", "marking"}
          BY <4>1 DEF IInv, Typed, TypeOK
        <4> QED BY <1>1, <3>2, <4>1, <4>2
      <3> QED BY <3>1, <3>2
    <2>4. \A o \in Ops : request'[o] \in RequestRecords
      OBVIOUS
    <2>5. TypeOK'
      BY <2>1, <2>2, <2>3, <2>4 DEF IInv, Typed, TypeOK, RequestRecords
    <2> QED BY <1>1, <2>5 DEF IInv, Typed
  <1>3. (RowsSeen /\ WritersSeen /\ EntriesSeen /\ Counted /\ Placed)'
    BY DEF IInv, RowsSeen, WritersSeen, EntriesSeen, Counted, Placed, Versions, Committed,
           Writer, Redacted, Sound, Readable
  <1>4. ASSUME NEW b \in Actors \ {a} PROVE MovingSeen(b)'
    <2>1. MovingSeen(b)
      BY DEF IInv, MovesSeen
    <2>2. lock = b => lock' = b
      BY DEF LockBy
    <2> QED BY <1>1, <2>1, <2>2 DEF MovingSeen, Versions, Committed, Writer, Redacted
  <1>5. MovesSeen'
    BY <1>4 DEF MovesSeen
  <1> QED BY <1>2, <1>3, <1>5 DEF IInv

\* What others ask for and have prepared is kept with the requests.
LEMMA RequestsStay ==
  ASSUME IInv, UNCHANGED <<resource, versions, request>>,
         NEW a \in Actors, NEW x \in ActorRecords,
         actor' = [actor EXCEPT ![a] = x],
         x.pc \in {"reading", "staged"} =>
             /\ actor[a].pc \in {"reading", "staged"} 
             /\ x.op = actor[a].op /\ x.entries = actor[a].entries
  PROVE  RequestsSeen' /\ request' \in [Ops -> RequestRecords]
  <1>1. actor'[a] = x /\ \A b \in Actors \ {a} : actor'[b] = actor[b]
    BY DEF IInv, Typed
  <1>2. RequestsSeen
    BY DEF IInv
  <1>4. ASSUME NEW b \in Actors, actor'[b].pc \in {"reading", "staged"}
        PROVE  (/\ request[actor[b].op].status # "none"
                /\ request[actor[b].op].status = "asked" =>
                     Prepared(actor[b].op, actor[b].entries))'
    <2>1. /\ actor[b].pc \in {"reading", "staged"}
          /\ actor'[b].op = actor[b].op /\ actor'[b].entries = actor[b].entries
      BY <1>1, <1>4
    <2>2. /\ request[actor[b].op].status # "none"
          /\ request[actor[b].op].status = "asked" => Prepared(actor[b].op, actor[b].entries)
      BY <1>2, <2>1 DEF RequestsSeen
    <2> QED BY <2>1, <2>2 DEF Prepared, PreparedWrite, PreparedPromote, PreparedRedact,
                               Versions, Redacted, Current
  <1>5. request \in [Ops -> RequestRecords]
    BY DEF IInv, Typed
  <1> QED BY <1>2, <1>4, <1>5 DEF RequestsSeen

\* An actor that is done, gives up or dies.
LEMMA Leaves ==
  ASSUME IInv, UNCHANGED <<resource, versions, batch, request, disk>>,
         NEW a \in Actors, Rest(a), Unlock(a),
         staged' \in [Ops -> SUBSET Paths], \A o \in Ops : staged'[o] \subseteq staged[o]
  PROVE  IInv'
  <1>1. Idle \in ActorRecords /\ Idle.pc = "idle" /\ actor' = [actor EXCEPT ![a] = Idle]
    BY IdleIs DEF Rest
  <1>2. RequestsSeen' /\ request' \in [Ops -> RequestRecords]
    BY <1>1, RequestsStay
  <1>3. actor'[a].pc = "idle"
    BY <1>1, ActorSet DEF IInv
  <1>4. LockBy(a)
    BY <1>3, CompletionFilesAssumption DEF LockBy, Unlock
  <1>5. MovingSeen(a)'
    BY <1>3 DEF MovingSeen
  <1> QED BY <1>1, <1>2, <1>4, <1>5, ActorStep

LEMMA StagedLeft ==
  ASSUME IInv, NEW a \in Actors, actor[a].pc # "idle",
         staged' = IF actor[a].own THEN [staged EXCEPT ![actor[a].op] = {}] ELSE staged
  PROVE  staged' \in [Ops -> SUBSET Paths] /\ \A o \in Ops : staged'[o] \subseteq staged[o]
  <1>1. staged \in [Ops -> SUBSET Paths] /\ actor[a].op \in Ops
    BY DEF IInv, Typed
  <1> QED BY <1>1

LEMMA GivenUp ==
  ASSUME IInv, UNCHANGED <<resource, versions, batch, request, disk>>,
         NEW a \in Actors, actor[a].pc # "idle", GiveUp(a)
  PROVE  IInv'
  BY StagedLeft, Leaves DEF GiveUp

LEMMA StagedStay ==
  ASSUME IInv, UNCHANGED staged
  PROVE  staged' \in [Ops -> SUBSET Paths] /\ \A o \in Ops : staged'[o] \subseteq staged[o]
  BY DEF IInv, Typed

\* Whoever is not moving files does not hold the lock.
LEMMA NoLock ==
  ASSUME IInv, NEW a \in Actors, actor[a].pc \notin {"moving", "marking"}, UNCHANGED lock
  PROVE  LockBy(a) /\ Unlock(a)
  <1>1. lock # a
    BY ActorIs DEF IInv
  <1> QED BY <1>1 DEF LockBy, Unlock

LEMMA DieHolds ==
  ASSUME IInv, NEW a \in Actors, Die(a)
  PROVE  IInv'
  BY StagedStay, Leaves DEF Die

LEMMA ErrorHolds ==
  ASSUME IInv, NEW a \in Actors, Error(a)
  PROVE  IInv'
  BY GivenUp DEF Error

LEMMA StageHolds ==
  ASSUME IInv, NEW a \in Actors, Stage(a)
  PROVE  IInv'
  <1>1. /\ actor[a].pc = "reading" /\ UNCHANGED <<resource, versions, batch, request, staged, disk, lock>>
    BY DEF Stage, At
  <1>2. LockBy(a) /\ Unlock(a) /\ staged' \in [Ops -> SUBSET Paths] /\ \A o \in Ops : staged'[o] \subseteq staged[o]
    BY <1>1, NoLock, StagedStay
  <1>3. CASE Rest(a)
    BY <1>1, <1>2, <1>3, Leaves
  <1>4. CASE actor' = [actor EXCEPT ![a].pc = "staged"]
    <2> DEFINE x == [actor[a] EXCEPT !.pc = "staged"]
    <2>1. /\ x \in ActorRecords /\ x.pc = "staged" /\ x.op = actor[a].op /\ x.entries = actor[a].entries
          /\ x.op \in Ops /\ actor' = [actor EXCEPT ![a] = x]
      BY <1>1, <1>4, ActorIs DEF ActorRecords, Steps, IInv
    <2> HIDE DEF x
    <2>2. RequestsSeen' /\ request' \in [Ops -> RequestRecords]
      BY <1>1, <2>1, RequestsStay
    <2>3. actor'[a] = x
      BY <2>1, ActorSet DEF IInv
    <2>4. MovingSeen(a)'
      BY <2>1, <2>3 DEF MovingSeen
    <2> QED BY <1>1, <1>2, <2>1, <2>2, <2>4, ActorStep
  <1> QED BY <1>3, <1>4 DEF Stage

\* An actor that goes to finalize the batch of an operation.
LEMMA Finalizes ==
  ASSUME IInv, NEW a \in Actors, NEW o \in Ops, Committed(o),
         actor[a].pc \notin {"moving", "marking"},
         actor' = [actor EXCEPT ![a] = [Idle EXCEPT !.pc = "finalizing", !.op = o]],
         UNCHANGED <<resource, versions, batch, request, staged, disk, lock>>
  PROVE  IInv'
  <1> DEFINE x == [Idle EXCEPT !.pc = "finalizing", !.op = o]
  <1>1. /\ x \in ActorRecords /\ x.pc = "finalizing" /\ x.op = o /\ x.seen = {}
        /\ actor' = [actor EXCEPT ![a] = x]
    BY IdleIs DEF ActorRecords, Steps, Idle
  <1> HIDE DEF x
  <1>2. RequestsSeen' /\ request' \in [Ops -> RequestRecords]
    BY <1>1, RequestsStay
  <1>3. actor'[a] = x
    BY <1>1, ActorSet DEF IInv
  <1>4. MovingSeen(a)'
    BY <1>1, <1>3 DEF MovingSeen, Committed
  <1> QED BY <1>1, <1>2, <1>4, NoLock, StagedStay, ActorStep

LEMMA ReplayHolds ==
  ASSUME IInv, NEW a \in Actors, Replay(a)
  PROVE  IInv'
  <1>1. /\ actor[a].pc = "staged" /\ UNCHANGED <<resource, versions, batch, request, staged, disk, lock>>
        /\ actor[a].op \in Ops
    BY ActorIs DEF Replay, At, IInv
  <1>2. CASE Rest(a)
    BY <1>1, <1>2, NoLock, StagedStay, Leaves
  <1>3. CASE /\ request[actor[a].op].status = "completed"
             /\ actor' = [actor EXCEPT ![a] = [Idle EXCEPT !.pc = "finalizing", !.op = actor[a].op]]
    <2>1. Committed(actor[a].op)
      BY <1>1, <1>3 DEF IInv, Typed, TypeOK, Committed
    <2> QED BY <1>1, <1>3, <2>1, Finalizes
  <1> QED BY <1>2, <1>3 DEF Replay

LEMMA RecoverHolds ==
  ASSUME IInv, NEW a \in Actors, NEW o \in Ops, Recover(a, o)
  PROVE  IInv'
  <1>1. Committed(o) /\ actor[a].pc = "idle"
    BY IdleIs DEF Recover, Committed
  <1> QED BY <1>1, Finalizes DEF Recover

-----------------------------------------------------------------------------
\* Moving files.

LEMMA BatchIs ==
  ASSUME Typed, NEW o \in Ops
  PROVE  /\ batch[o] \in BatchRecords /\ batch[o].entries \in Files
         /\ DOMAIN batch[o].entries \subseteq Paths
         /\ \A p \in DOMAIN batch[o].entries : batch[o].entries[p] \in Contents
         /\ staged[o] \subseteq DOMAIN batch[o].entries
  <1>1. batch[o] \in BatchRecords /\ staged[o] \subseteq DOMAIN batch[o].entries
    BY DEF Typed, TypeOK
  <1>2. batch[o].entries \in Files
    BY <1>1 DEF BatchRecords
  <1> QED BY <1>1, <1>2, FileOf

\* A batch without a conflict that has the file of the resource is the one of
\* the confirmed version.
LEMMA OwnTarget ==
  ASSUME IInv, NEW o \in Ops, Committed(o), ~Conflict(o), Target \in DOMAIN batch[o].entries
  PROVE  /\ resource.confirmed > 0 /\ Writer(resource.confirmed) = o /\ Locks(o)
         /\ resource.confirmed \in Versions
  <1>1. resource.confirmed > 0
    BY DEF IInv, EntriesSeen, Sound
  <1>2. resource.confirmed \in Versions
    BY <1>1, VersionsAre DEF IInv, RowsSeen
  <1>3. versions[resource.confirmed].path = Target
    BY <1>2 DEF IInv, RowsSeen
  <1>4. Writer(resource.confirmed) = o
    BY <1>1, <1>3 DEF Conflict, Pointers, Writer
  <1> QED BY <1>1, <1>2, <1>4, VersionsAre DEF Locks, Writer, IInv

LEMMA FinalizeBeginHolds ==
  ASSUME IInv, NEW a \in Actors, FinalizeBegin(a)
  PROVE  IInv'
  <1> DEFINE o == actor[a].op
  <1>1. /\ actor[a].pc = "finalizing" /\ o \in Ops /\ actor[a] \in ActorRecords
        /\ UNCHANGED <<resource, versions, batch, request, disk>> /\ (Locks(o) => lock = None)
    BY ActorIs DEF FinalizeBegin, At, IInv
  <1>2. CASE Conflict(o)
    BY <1>1, <1>2, GivenUp DEF FinalizeBegin
  <1>3. CASE ~Conflict(o)
    <2> DEFINE pc == IF batch[o].status = "renamed" THEN "marking" ELSE "moving"
               x == [actor[a] EXCEPT !.pc = pc]
    <2>1. /\ lock' = (IF Locks(o) THEN a ELSE lock) /\ UNCHANGED staged
          /\ actor' = [actor EXCEPT ![a] = x]
      BY <1>1, <1>3 DEF FinalizeBegin
    <2>2. x \in ActorRecords /\ x.pc = pc /\ x.op = o /\ x.seen = actor[a].seen
      BY <1>1 DEF ActorRecords, Steps
    <2>3. pc \in {"moving", "marking"}
      OBVIOUS
    <2>4. actor[a].seen = {}
      BY <1>1 DEF IInv, MovesSeen, MovingSeen
    <2> HIDE DEF x
    <2>5. actor'[a] = x
      BY <1>1, <2>1, <2>2, ActorSet DEF IInv
    <2>6. LockBy(a)
      BY <1>1, <2>1, <2>2, <2>3, <2>5, ActorIs, CompletionFilesAssumption DEF LockBy, IInv
    <2>7. RequestsSeen' /\ request' \in [Ops -> RequestRecords]
      BY <1>1, <2>1, <2>2, <2>3, RequestsStay
    <2>8. MovingSeen(a)'
      <3>1. Committed(o) /\ batch[o].status \in {"none", "db_committed", "renamed"}
        BY <1>1 DEF IInv, MovesSeen, MovingSeen, Typed, TypeOK
      <3>2. Target \in DOMAIN batch[o].entries =>
              resource.confirmed > 0 /\ Writer(resource.confirmed) = o /\ Locks(o)
        BY <1>1, <1>3, <3>1, OwnTarget
      <3> QED BY <1>1, <2>1, <2>2, <2>3, <2>4, <2>5, <3>1, <3>2 DEF MovingSeen, Committed, Writer
    <2> QED BY <1>1, <2>1, <2>2, <2>6, <2>7, <2>8, StagedStay, ActorStep
  <1> QED BY <1>2, <1>3

\* A batch never has another content for the file of a version than its row.
LEMMA SoundBatch ==
  ASSUME IInv, NEW o \in Ops, Committed(o), NEW n \in Versions,
         NEW p \in {History(n), Candidate(n)}, p \in DOMAIN batch[o].entries
  PROVE  Redacted(n) \/ batch[o].entries[p] = versions[n].content
  <1>1. Sound(batch[o].entries) /\ n \in Numbers
    BY VersionsAre DEF IInv, EntriesSeen
  <1> QED BY <1>1 DEF Sound

\* So a file of a version that is in place stays there, whoever moves what.
LEMMA StaysInPlace ==
  ASSUME IInv, NEW o \in Ops, Committed(o), NEW q \in DOMAIN batch[o].entries,
         disk' = [disk EXCEPT ![q] = batch[o].entries[q]],
         UNCHANGED <<resource, versions>>,
         NEW n \in Versions, NEW p \in {History(n), Candidate(n)},
         Redacted(n) \/ disk[p] = versions[n].content
  PROVE  Redacted(n) \/ disk'[p] = versions[n].content
  <1>1. disk \in [Paths -> Contents \cup {None}] /\ n \in Numbers
    BY VersionsAre DEF IInv, Typed, TypeOK
  <1>2. p \in Paths
    BY <1>1, PathsAre
  <1>3. CASE p = q
    BY <1>1, <1>2, <1>3, SoundBatch
  <1>4. CASE p # q
    BY <1>1, <1>4
  <1> QED BY <1>3, <1>4

\* One file is moved.
LEMMA MoveOne ==
  ASSUME IInv, NEW a \in Actors, actor[a].pc = "moving", NEW p \in staged[actor[a].op],
         disk' = [disk EXCEPT ![p] = batch[actor[a].op].entries[p]],
         staged' = [staged EXCEPT ![actor[a].op] = @ \ {p}],
         actor' = [actor EXCEPT ![a].seen = @ \cup {p}],
         UNCHANGED <<resource, versions, batch, request, lock>>
  PROVE  IInv'
  <1> DEFINE o == actor[a].op
             e == batch[o].entries
             x == [actor[a] EXCEPT !.seen = @ \cup {p}]
  <1>1. /\ o \in Ops /\ actor[a] \in ActorRecords /\ actor[a].seen \subseteq Paths
        /\ Committed(o) /\ p \in DOMAIN e /\ p \in Paths /\ e[p] \in Contents /\ Typed
    BY ActorIs, BatchIs DEF IInv, MovesSeen, MovingSeen
  <1>2. /\ x \in ActorRecords /\ x.pc = "moving" /\ x.op = o /\ x.seen = actor[a].seen \cup {p}
        /\ actor' = [actor EXCEPT ![a] = x]
    BY <1>1 DEF ActorRecords
  <1> HIDE DEF x
  <1>3. /\ actor' \in [Actors -> ActorRecords]
        /\ actor'[a] = x /\ \A b \in Actors \ {a} : actor'[b] = actor[b]
        /\ \A b \in Actors : actor'[b].pc # "idle" => actor'[b].op \in Ops
    BY <1>1, <1>2, ActorSet
  <1>4. /\ disk \in [Paths -> Contents \cup {None}] /\ disk' \in [Paths -> Contents \cup {None}]
        /\ disk'[p] = e[p] /\ \A q \in Paths \ {p} : disk'[q] = disk[q]
    BY <1>1 DEF Typed, TypeOK
  <1>5. /\ staged' \in [Ops -> SUBSET Paths]
        /\ \A y \in Ops : staged'[y] \subseteq staged[y]
    BY <1>1 DEF Typed
  <1>6. Typed'
    <2>1. \A y \in Ops :
            /\ batch'[y].status \in {"none", "db_committed", "renamed"}
            /\ batch'[y].status = "none" <=> request'[y].status # "completed"
            /\ staged'[y] \subseteq DOMAIN batch'[y].entries
            /\ batch'[y].status = "renamed" => staged'[y] = {}
      BY <1>1, <1>5 DEF Typed, TypeOK
    <2>2. lock' # None => actor'[lock'].pc \in {"moving", "marking"}
      BY <1>1, <1>2, <1>3 DEF Typed, TypeOK
    <2>3. TypeOK'
      BY <1>1, <1>4, <2>1, <2>2 DEF Typed, TypeOK
    <2> QED BY <1>1, <1>3, <1>5, <2>3 DEF Typed
  <1>7. (RowsSeen /\ WritersSeen /\ EntriesSeen /\ Counted)'
    BY DEF IInv, RowsSeen, WritersSeen, EntriesSeen, Counted, Versions, Committed,
           Writer, Redacted, Sound
  <1>8. RequestsSeen'
    BY <1>2, RequestsStay
  <1>9. \A n \in Versions : \A q \in {History(n), Candidate(n)} :
          Redacted(n) \/ disk[q] = versions[n].content => Redacted(n) \/ disk'[q] = versions[n].content
    BY <1>1, StaysInPlace
  <1>10. MovingSeen(a)'
    <2>1. MovingSeen(a)
      BY DEF IInv, MovesSeen
    <2>2. Target \in x.seen => disk'[Target] = e[Target]
      BY <1>2, <1>4, <2>1, PathsAre DEF MovingSeen
    <2>3. ASSUME NEW n \in Versions, NEW q \in {History(n), Candidate(n)}, q \in x.seen
          PROVE  Redacted(n) \/ disk'[q] = versions[n].content
      <3>1. CASE q = p
        BY <1>1, <1>4, <3>1, SoundBatch
      <3>2. CASE q # p
        BY <1>2, <1>9, <2>1, <2>3, <3>2 DEF MovingSeen
      <3> QED BY <3>1, <3>2
    <2> QED BY <1>1, <1>2, <1>3, <2>1, <2>2, <2>3
        DEF MovingSeen, Versions, Committed, Writer, Redacted
  <1>11. ASSUME NEW b \in Actors \ {a} PROVE MovingSeen(b)'
    <2>1. MovingSeen(b) /\ MovingSeen(a) /\ actor'[b] = actor[b]
      BY <1>3 DEF IInv, MovesSeen
    <2>2. actor[b].pc = "moving" /\ Target \in actor[b].seen => disk'[Target] = disk[Target]
      <3>1. SUFFICES ASSUME actor[b].pc = "moving", Target \in actor[b].seen PROVE p # Target
        BY <1>4, PathsAre
      <3>2. lock = b
        BY <2>1, <3>1 DEF MovingSeen
      <3> QED BY <1>1, <2>1, <3>2 DEF MovingSeen
    <2> QED BY <1>9, <2>1, <2>2 DEF MovingSeen, Versions, Committed, Writer, Redacted
  <1>12. MovesSeen'
    BY <1>10, <1>11 DEF MovesSeen
  <1>13. Placed'
    <2> SUFFICES ASSUME NEW n \in Versions, ~Redacted(n)
                 PROVE  \/ /\ versions[n].path # History(n)
                           /\ batch[Writer(n)].status = "renamed" => Readable(n)'
                        \/ /\ versions[n].path = History(n)
                           /\ \E y \in Ops : /\ Committed(y) /\ History(n) \in DOMAIN batch[y].entries
                                             /\ batch[y].status = "renamed" => Readable(n)'
      BY DEF Placed, Versions, Redacted, Writer, Committed, Readable
    <2>1. versions[n].path \in {Target, History(n), Candidate(n)}
      BY DEF IInv, RowsSeen
    <2>2. versions[n].path # Target /\ Readable(n) => Readable(n)'
      BY <1>9, <2>1 DEF Readable
    <2>3. CASE versions[n].path = Target
      <3>1. n = resource.confirmed
        BY <2>3 DEF IInv, RowsSeen
      <3>2. p # Target => disk'[Target] = disk[Target]
        BY <1>4, PathsAre
      <3>3. p = Target => Writer(n) = o /\ batch[o].status = "db_committed"
        BY <1>1, <3>1 DEF IInv, MovesSeen, MovingSeen
      <3> QED BY <2>3, <3>2, <3>3, PathsApart DEF IInv, Placed, Readable
    <2>4. CASE versions[n].path # Target
      BY <2>2, <2>4 DEF IInv, Placed
    <2> QED BY <2>3, <2>4
  <1> QED BY <1>6, <1>7, <1>8, <1>12, <1>13 DEF IInv

LEMMA MoveHolds ==
  ASSUME IInv, NEW a \in Actors, Move(a)
  PROVE  IInv'
  <1> DEFINE o == actor[a].op
  <1>1. /\ actor[a].pc = "moving" /\ o \in Ops /\ actor[a] \in ActorRecords
        /\ actor[a].seen \subseteq Paths /\ Committed(o) /\ MovingSeen(a) /\ DOMAIN batch[o].entries \subseteq Paths
        /\ UNCHANGED <<resource, versions, batch, request>>
    BY ActorIs, BatchIs DEF Move, At, IInv, MovesSeen, MovingSeen
  <1>2. PICK p \in DOMAIN batch[o].entries \ actor[a].seen :
            IF p \in staged[o]
            THEN /\ disk' = [disk EXCEPT ![p] = batch[o].entries[p]]
                 /\ staged' = [staged EXCEPT ![o] = @ \ {p}]
                 /\ actor' = [actor EXCEPT ![a].seen = @ \cup {p}]
                 /\ UNCHANGED lock
            ELSE IF InPlace(o, p)
            THEN actor' = [actor EXCEPT ![a].seen = @ \cup {p}] /\ UNCHANGED <<disk, staged, lock>>
            ELSE GiveUp(a) /\ UNCHANGED disk
    BY DEF Move
  <1>3. CASE p \in staged[o]
    BY <1>1, <1>2, <1>3, MoveOne
  <1>4. CASE p \notin staged[o] /\ InPlace(o, p)
    <2> DEFINE x == [actor[a] EXCEPT !.seen = @ \cup {p}]
    <2>1. /\ x \in ActorRecords /\ x.pc = "moving" /\ x.op = o /\ x.seen = actor[a].seen \cup {p}
          /\ actor' = [actor EXCEPT ![a] = x] /\ UNCHANGED <<disk, staged, lock>>
      BY <1>1, <1>2, <1>4 DEF ActorRecords
    <2> HIDE DEF x
    <2>2. RequestsSeen' /\ request' \in [Ops -> RequestRecords]
      BY <1>1, <2>1, RequestsStay
    <2>3. actor'[a] = x
      BY <1>1, <2>1, ActorSet DEF IInv
    <2>4. LockBy(a)
      BY <2>1, <2>3 DEF LockBy
    <2>5. disk[p] = batch[o].entries[p]
      BY <1>4 DEF InPlace
    <2>6. ASSUME NEW n \in Versions, NEW q \in {History(n), Candidate(n)}, q \in x.seen
          PROVE  Redacted(n) \/ disk[q] = versions[n].content
      <3>1. CASE q = p
        BY <1>1, <2>5, <3>1, SoundBatch
      <3>2. CASE q # p
        BY <1>1, <2>1, <2>6, <3>2 DEF MovingSeen
      <3> QED BY <3>1, <3>2
    <2>7. MovingSeen(a)'
      BY <1>1, <2>1, <2>3, <2>5, <2>6 DEF MovingSeen, Versions, Committed, Writer, Redacted
    <2> QED BY <1>1, <2>1, <2>2, <2>4, <2>7, StagedStay, ActorStep
  <1>5. CASE p \notin staged[o] /\ ~InPlace(o, p)
    BY <1>1, <1>2, <1>5, GivenUp
  <1> QED BY <1>3, <1>4, <1>5

-----------------------------------------------------------------------------
\* The batch is marked.

LEMMA MarkHolds ==
  ASSUME IInv, NEW a \in Actors, Mark(a)
  PROVE  IInv'
  <1> DEFINE o == actor[a].op
             e == batch[o].entries
  <1>1. /\ actor[a].pc \in {"moving", "marking"} /\ o \in Ops /\ Committed(o) /\ Typed
        /\ actor[a].pc = "moving" => actor[a].seen = DOMAIN e
        /\ actor[a].pc = "marking" => batch[o].status = "renamed"
        /\ MovingSeen(a)
        /\ UNCHANGED <<resource, versions, request, disk>>
    BY ActorIs DEF Mark, At, IInv, MovesSeen, MovingSeen
  <1>2. /\ batch' \in [Ops -> BatchRecords]
        /\ \A y \in Ops : /\ batch'[y].entries = batch[y].entries
                          /\ batch'[y].status = IF y = o THEN "renamed" ELSE batch[y].status
    <2> DEFINE r == [batch[o] EXCEPT !.status = "renamed"]
    <2>1. batch \in [Ops -> BatchRecords] /\ batch' = [batch EXCEPT ![o] = r]
      BY <1>1 DEF Mark, Typed
    <2>2. r \in BatchRecords /\ r.status = "renamed" /\ r.entries = batch[o].entries
      BY <1>1, BatchIs DEF BatchRecords
    <2> HIDE DEF r
    <2> QED BY <1>1, <2>1, <2>2
  <1>3. \A y \in Ops : Committed(y)' <=> Committed(y)
    BY <1>1, <1>2 DEF Committed
  <1>4. /\ staged' \in [Ops -> SUBSET Paths] /\ staged'[o] = {}
        /\ \A y \in Ops : staged'[y] \subseteq staged[y]
    BY <1>1 DEF Mark, Typed
  <1>5. /\ actor' \in [Actors -> ActorRecords]
        /\ actor'[a] = Idle /\ \A b \in Actors \ {a} : actor'[b] = actor[b]
        /\ \A b \in Actors : actor'[b].pc # "idle" => actor'[b].op \in Ops
        /\ actor' = [actor EXCEPT ![a] = Idle]
    BY <1>1, IdleIs, ActorSet DEF Mark, Rest
  <1>6. lock' = IF lock = a THEN None ELSE lock
    BY DEF Mark, Unlock
  <1>7. Typed'
    <2>1. \A y \in Ops :
            /\ batch'[y].status \in {"none", "db_committed", "renamed"}
            /\ batch'[y].status = "none" <=> request'[y].status # "completed"
            /\ staged'[y] \subseteq DOMAIN batch'[y].entries
            /\ batch'[y].status = "renamed" => staged'[y] = {}
      BY <1>1, <1>2, <1>4 DEF Typed, TypeOK, Committed
    <2>2. lock' \in Actors \cup {None} /\ (lock' # None => actor'[lock'].pc \in {"moving", "marking"})
      BY <1>5, <1>6, <1>1 DEF Typed, TypeOK
    <2>3. TypeOK'
      BY <1>1, <2>1, <2>2 DEF Typed, TypeOK
    <2> QED BY <1>1, <1>2, <1>4, <1>5, <2>3 DEF Typed
  <1>8. RowsSeen' /\ WritersSeen' /\ EntriesSeen'
    <2>1. \A n \in Versions : Writer(n) \in Ops
      BY <1>1, VersionsAre
    <2> QED BY <1>1, <1>2, <1>3, <2>1 DEF IInv, RowsSeen, WritersSeen, EntriesSeen, Versions,
                                       Writer, Redacted, Sound, Committed
  <1>9. Counted'
    <2>1. {y \in Ops : Committed(y)}' = {y \in Ops : Committed(y)}
      BY <1>3
    <2> QED BY <1>1, <2>1 DEF IInv, Counted
  <1>10. RequestsSeen'
    BY <1>1, <1>5, IdleIs, RequestsStay
  <1>11. ASSUME NEW b \in Actors PROVE MovingSeen(b)'
    <2>1. CASE b = a
      BY <1>5, <2>1, IdleIs DEF MovingSeen
    <2>2. CASE b # a
      <3>1. actor'[b] = actor[b] /\ MovingSeen(b) /\ (lock = b => lock' = b)
        BY <1>5, <1>6, <2>2 DEF IInv, MovesSeen
      <3>2. actor[b].pc # "idle" => actor[b].op \in Ops
        BY <1>1, ActorIs
      <3>3. actor[b].pc = "moving" /\ Target \in DOMAIN batch[actor[b].op].entries => actor[b].op # o
        BY <1>1, <2>2, <3>1 DEF MovingSeen
      <3> QED BY <1>1, <1>2, <1>3, <3>1, <3>2, <3>3 DEF MovingSeen, Versions, Writer, Redacted
    <2> QED BY <2>1, <2>2
  <1>12. MovesSeen'
    BY <1>11 DEF MovesSeen
  <1>13. Placed'
    <2> SUFFICES ASSUME NEW n \in Versions, ~Redacted(n)
                 PROVE  \/ /\ versions[n].path # History(n)
                           /\ batch'[Writer(n)].status = "renamed" => Readable(n)
                        \/ /\ versions[n].path = History(n)
                           /\ \E y \in Ops : /\ Committed(y)' /\ History(n) \in DOMAIN batch'[y].entries
                                             /\ batch'[y].status = "renamed" => Readable(n)
      BY <1>1 DEF Placed, Versions, Redacted, Writer, Readable
    <2>1. versions[n].path \in {Target, History(n), Candidate(n)} /\ Writer(n) \in Ops
      BY <1>1, VersionsAre DEF IInv, RowsSeen
    <2>2. ASSUME actor[a].pc = "moving", NEW p \in {History(n), Candidate(n)}, p \in DOMAIN e
          PROVE  disk[p] = versions[n].content
      BY <1>1, <2>2 DEF MovingSeen
    <2>3. CASE versions[n].path = History(n)
      <3>1. PICK y \in Ops : /\ Committed(y) /\ History(n) \in DOMAIN batch[y].entries
                             /\ batch[y].status = "renamed" => Readable(n)
        BY <2>3 DEF IInv, Placed
      <3>2. y = o => Readable(n)
        BY <1>1, <2>2, <2>3, <3>1 DEF Readable
      <3> QED BY <1>2, <1>3, <2>3, <3>1, <3>2
    <2>4. CASE versions[n].path # History(n)
      <3>1. batch[Writer(n)].status = "renamed" => Readable(n)
        BY <2>4 DEF IInv, Placed
      <3>2. ASSUME Writer(n) = o, actor[a].pc = "moving" PROVE Readable(n)
        <4>1. versions[n].path \in DOMAIN e
          BY <2>4, <3>2 DEF IInv, WritersSeen
        <4>2. CASE versions[n].path = Target
          <5>1. e[Target] = versions[n].content
            BY <3>2, <4>2 DEF IInv, WritersSeen
          <5> QED BY <1>1, <3>2, <4>1, <4>2, <5>1 DEF MovingSeen, Readable
        <4>3. CASE versions[n].path = Candidate(n)
          BY <2>2, <3>2, <4>1, <4>3 DEF Readable
        <4> QED BY <2>1, <2>4, <4>2, <4>3
      <3> QED BY <1>1, <1>2, <2>1, <2>4, <3>1, <3>2
    <2> QED BY <2>3, <2>4
  <1> QED BY <1>7, <1>8, <1>9, <1>10, <1>12, <1>13 DEF IInv

-----------------------------------------------------------------------------
\* What a request prepares.

LEMMA CurrentIs ==
  ASSUME IInv
  PROVE  /\ Current \in Numbers /\ Current \in Nat /\ (Current > 0 => Current \in Versions)
         /\ resource.confirmed \in Numbers
         /\ resource.confirmed > 0 => resource.confirmed \in Versions
         /\ Current \in {resource.confirmed, resource.provisional}
         /\ Current <= resource.version
  BY VersionsAre, NumbersAre DEF IInv, RowsSeen, Current

LEMMA ContentsAre ==
  ASSUME NEW o \in Ops, NEW n \in Numbers
  PROVE  Tombstone(o, n) \in Contents /\ Written(o) \in Contents
  BY NumbersAre DEF Tombstone, Written, Contents

LEMMA WritePrepared ==
  ASSUME IInv, NEW o \in Ops, NEW expected \in Numbers, expected + 1 \in Numbers,
         NEW e, e = WriteEntries(o, expected, IF expected > 0 THEN Current ELSE 0),
         expected <= resource.version
  PROVE  e \in Files /\ (expected = resource.version => PreparedWrite(o, e))
  <1> DEFINE k == IF expected > 0 THEN Current ELSE 0
             D == Kept(k) \cup {Target, History(expected + 1)}
  <1>1. k \in Numbers /\ (k > 0 => k \in Versions /\ versions[k].content \in Contents)
    BY CurrentIs, NumbersAre, VersionsAre DEF IInv
  <1>2. D \in SUBSET Paths
    BY <1>1, PathsAre DEF Kept
  <1>3. e = [p \in D |-> IF p \in Kept(k) THEN versions[k].content ELSE Written(o)]
    BY DEF WriteEntries
  <1>4. \A p \in Kept(k) : k > 0 /\ p = History(k)
    BY DEF Kept
  <1>5. e \in Files
    <2>1. \A p \in D : e[p] \in Contents
      BY <1>1, <1>3, <1>4, ContentsAre
    <2> HIDE DEF D
    <2>2. e \in [D -> Contents]
      BY <1>3, <2>1
    <2> QED BY <1>2, <2>2, FilesAre
  <1>6. ASSUME expected = resource.version PROVE PreparedWrite(o, e)
    <2>1. k = Current
      BY <1>6, CurrentIs, NumbersAre
    <2>2. DOMAIN e = Kept(Current) \cup {Target, History(resource.version + 1)}
      BY <1>3, <1>6, <2>1
    <2>3. Target \notin Kept(k) /\ History(expected + 1) \notin Kept(k)
      <3>1. k # expected + 1
        BY <1>6, <2>1, CurrentIs, NumbersAre
      <3> QED BY <1>4, <3>1, PathsApart
    <2>4. e[Target] = Written(o) /\ e[History(expected + 1)] = Written(o)
      BY <1>3, <2>3
    <2>5. k > 0 => e[History(k)] = versions[k].content
      BY <1>3 DEF Kept
    <2> HIDE DEF k
    <2> QED BY <1>6, <2>1, <2>2, <2>4, <2>5 DEF PreparedWrite
  <1> QED BY <1>5, <1>6

LEMMA PromotePrepared ==
  ASSUME IInv, resource.candidate > 0
  PROVE  PromoteEntries \in Files /\ PreparedPromote(PromoteEntries)
  <1> DEFINE D == Kept(resource.confirmed) \cup {Target}
             e == PromoteEntries
             from(p) == IF p = Target THEN resource.candidate ELSE resource.confirmed
  <1>1. resource.candidate \in Versions
    BY VersionsAre DEF IInv, Typed, TypeOK
  <1>2. \A p \in Kept(resource.confirmed) : resource.confirmed > 0 /\ p = History(resource.confirmed)
    BY DEF Kept
  <1>3. e = [p \in D |-> versions[from(p)].content]
    BY DEF PromoteEntries
  <1>4. D \in SUBSET Paths
    BY <1>2, PathsAre, CurrentIs
  <1>5. \A p \in D : from(p) \in Versions
    BY <1>1, <1>2, CurrentIs
  <1>6. e \in Files
    <2>1. \A p \in D : e[p] \in Contents
      BY <1>3, <1>5, VersionsAre DEF IInv
    <2> HIDE DEF D, e
    <2>2. e \in [D -> Contents]
      BY <1>3, <2>1
    <2> QED BY <1>4, <2>2, FilesAre
  <1>7. PreparedPromote(e)
    <2>1. DOMAIN e = D
      BY <1>3
    <2>2. resource.confirmed > 0 => e[History(resource.confirmed)] = versions[resource.confirmed].content
      BY <1>3, PathsApart DEF Kept
    <2> HIDE DEF e
    <2> QED BY <2>1, <2>2 DEF PreparedPromote
  <1> QED BY <1>6, <1>7

LEMMA RedactPrepared ==
  ASSUME IInv, NEW o \in Ops
  PROVE  RedactEntries(o) \in Files /\ PreparedRedact(o, RedactEntries(o))
  <1> DEFINE D == {versions[n].path : n \in Versions}
             pick(p) == CHOOSE n \in Versions : versions[n].path = p
             e == RedactEntries(o)
  <1>1. e = [p \in D |-> Tombstone(o, pick(p))]
    BY DEF RedactEntries, Versions
  <1>2. \A p \in D : pick(p) \in Versions /\ versions[pick(p)].path = p
    OBVIOUS
  <1>3. D \in SUBSET Paths /\ Versions \subseteq Numbers
    BY VersionsAre DEF IInv
  <1>4. e \in Files
    <2>1. \A p \in D : e[p] \in Contents
      BY <1>1, <1>2, <1>3, ContentsAre
    <2> HIDE DEF D, e, pick
    <2>2. e \in [D -> Contents]
      BY <1>1, <2>1
    <2> QED BY <1>3, <2>2, FilesAre
  <1> HIDE DEF e, pick
  <1>5. \A p \in D : e[p] = Tombstone(o, pick(p))
    BY <1>1
  <1>6. DOMAIN e = D
    BY <1>1
  <1>7. Target \in D => resource.confirmed > 0
    <2>1. ASSUME NEW n \in Versions, versions[n].path = Target PROVE resource.confirmed > 0
      BY <2>1, VersionsAre DEF IInv, RowsSeen
    <2> QED BY <2>1
  <1>8. \A x \in Range(e) : \E n \in Versions : x = Tombstone(o, n)
    BY <1>2, <1>5, <1>6 DEF Range
  <1>9. ASSUME NEW n \in Numbers, NEW p \in {History(n), Candidate(n)}, p \in D
        PROVE  n \in Versions /\ e[p] = Tombstone(o, n)
    <2>1. /\ pick(p) \in Versions /\ versions[pick(p)].path = p
          /\ versions[pick(p)].path \in {Target, History(pick(p)), Candidate(pick(p))}
      BY <1>2, <1>9 DEF IInv, RowsSeen
    <2>2. pick(p) = n
      BY <2>1, PathsApart
    <2> QED BY <1>5, <1>9, <2>1, <2>2
  <1> HIDE DEF D
  <1>10. PreparedRedact(o, e)
    BY <1>6, <1>7, <1>8, <1>9 DEF PreparedRedact
  <1> QED BY <1>4, <1>10 DEF e

LEMMA EntriesPrepared ==
  ASSUME IInv, NEW o \in Ops, NEW kind \in Kinds, NEW expected \in Numbers,
         expected <= resource.version, expected + 1 \in Numbers,
         kind = "promote" => resource.candidate > 0
  PROVE  LET e == Entries(o, kind, expected)
         IN /\ e \in Files
            /\ kind = "redact" => PreparedRedact(o, e)
            /\ expected = resource.version =>
                 /\ kind = "write" => PreparedWrite(o, e)
                 /\ kind = "candidate" => DOMAIN e = {Candidate(resource.version + 1)}
                 /\ kind = "promote" => PreparedPromote(e)
  <1> DEFINE e == Entries(o, kind, expected)
  <1>1. CASE kind = "write"
    <2>1. e = WriteEntries(o, expected, IF expected > 0 THEN Current ELSE 0)
      BY <1>1 DEF Entries
    <2>2. e \in Files /\ (expected = resource.version => PreparedWrite(o, e))
      BY <2>1, WritePrepared
    <2> QED BY <1>1, <2>2
  <1>2. CASE kind = "candidate"
    <2> DEFINE D == {Candidate(expected + 1)}
    <2>1. e = [p \in D |-> Written(o)]
      BY <1>2 DEF Entries
    <2>2. D \in SUBSET Paths /\ Written(o) \in Contents
      BY PathsAre, ContentsAre
    <2>3. e \in [D -> Contents]
      BY <2>1, <2>2
    <2>4. e \in Files
      BY <2>2, <2>3, FilesAre
    <2>5. DOMAIN e = D
      BY <2>1
    <2> QED BY <1>2, <2>4, <2>5
  <1>3. CASE kind = "promote"
    <2>1. e = PromoteEntries
      BY <1>3 DEF Entries
    <2> QED BY <1>3, <2>1, PromotePrepared
  <1>4. CASE kind = "redact"
    <2>1. e = RedactEntries(o)
      BY <1>4 DEF Entries
    <2> QED BY <1>4, <2>1, RedactPrepared
  <1> QED BY <1>1, <1>2, <1>3, <1>4, CompletionFilesAssumption

LEMMA AskHolds ==
  ASSUME IInv, NEW a \in Actors, NEW o \in Ops, Ask(a, o)
  PROVE  IInv'
  <1> DEFINE Asked(kind) ==
        IF request[o] # NoRequest THEN request[o]
        ELSE [kind |-> kind, expected |-> resource.version, status |-> "asked"]
  <1>1. /\ actor[a].pc = "idle" /\ request[o].status \in {"none", "asked", "completed"}
        /\ UNCHANGED <<resource, versions, batch, staged, disk, lock>> /\ Typed
    BY IdleIs DEF Ask, IInv
  <1>2. PICK kind \in Kinds :
          /\ Asked(kind).kind = kind /\ Preparable(kind, Asked(kind).expected)
          /\ request' = [request EXCEPT ![o] = Asked(kind)]
          /\ actor' = [actor EXCEPT ![a] =
                [Idle EXCEPT !.pc = "reading", !.op = o,
                    !.reads = {versions[n] : n \in Sources(kind, Asked(kind).expected)},
                    !.entries = Entries(o, kind, Asked(kind).expected)]]
    BY DEF Ask
  <1> DEFINE r == Asked(kind)
             e == Entries(o, kind, r.expected)
             s == {versions[n] : n \in Sources(kind, r.expected)}
             x == [Idle EXCEPT !.pc = "reading", !.op = o, !.reads = s, !.entries = e]
  <1>3. kind # "none" /\ kind \in {"write", "candidate", "promote", "redact"}
    BY CompletionFilesAssumption
  <1>4. request \in [Ops -> RequestRecords] /\ request[o] \in RequestRecords
    BY <1>1 DEF Typed
  <1>5. /\ r \in RequestRecords /\ r.kind = kind /\ r.expected \in Numbers
        /\ r.expected <= resource.version /\ r.expected + 1 \in Numbers
        /\ r.status \in {"asked", "completed"}
        /\ r.status = "completed" <=> request[o].status = "completed"
        /\ request[o] # NoRequest => r = request[o]
    <2>1. CASE request[o] # NoRequest
      <3>1. r = request[o]
        BY <2>1
      <3> QED BY <1>1, <1>2, <1>3, <1>4, <2>1, <3>1 DEF IInv, RequestsSeen, RequestRecords
    <2>2. CASE request[o] = NoRequest
      <3>1. r.kind = kind /\ r.expected = resource.version /\ r.status = "asked"
        BY <2>2
      <3>2. ~Committed(o)
        BY <1>1, <2>2 DEF Typed, TypeOK, Committed, NoRequest
      <3>3. resource.version + 1 \in Numbers /\ resource.version \in Numbers /\ resource.version \in Nat
        BY <1>1, <3>2, RoomForOne, VersionsAre DEF IInv
      <3>4. r \in RequestRecords
        BY <2>2, <3>3 DEF RequestRecords
      <3>5. request[o].status # "completed"
        BY <2>2 DEF NoRequest
      <3> QED BY <2>2, <3>1, <3>3, <3>4, <3>5
    <2> QED BY <2>1, <2>2
  <1>6. request' = [request EXCEPT ![o] = r]
    BY <1>2
  <1>7. actor' = [actor EXCEPT ![a] = x]
    BY <1>2
  <1>8. kind = "promote" => resource.candidate > 0
    BY <1>2 DEF Preparable, Ready
  <1> HIDE DEF r
  <1>9. /\ e \in Files
        /\ kind = "redact" => PreparedRedact(o, e)
        /\ r.expected = resource.version =>
             /\ kind = "write" => PreparedWrite(o, e)
             /\ kind = "candidate" => DOMAIN e = {Candidate(resource.version + 1)}
             /\ kind = "promote" => PreparedPromote(e)
    BY <1>5, <1>8, EntriesPrepared
  <1>10. s \in SUBSET Rows
    <2>1. Sources(kind, r.expected) \subseteq Numbers
      <3>1. resource.candidate \in Numbers
        BY <1>1 DEF Typed, TypeOK
      <3> QED BY <3>1, CurrentIs DEF Sources
    <2>2. versions \in [Numbers -> Rows]
      BY <1>1 DEF Typed
    <2> QED BY <2>1, <2>2
  <1> HIDE DEF e, s
  <1>11. /\ x \in ActorRecords /\ x.pc = "reading" /\ x.op = o /\ x.entries = e
    BY <1>9, <1>10, IdleIs DEF ActorRecords, Steps, Idle
  <1> HIDE DEF x
  <1>12. actor'[a] = x /\ \A b \in Actors \ {a} : actor'[b] = actor[b]
    BY <1>1, <1>7, <1>11, ActorSet
  <1>13. /\ request' \in [Ops -> RequestRecords] /\ request'[o] = r
         /\ \A y \in Ops \ {o} : request'[y] = request[y]
    BY <1>4, <1>5, <1>6
  <1>14. \A y \in Ops : request'[y].status = "completed" <=> request[y].status = "completed"
    BY <1>5, <1>13
  <1>15. RequestsSeen'
    <2>1. \A y \in Ops : request'[y].kind # "none" =>
            request'[y].expected <= resource'.version /\ request'[y].expected + 1 \in Numbers
      BY <1>1, <1>5, <1>13 DEF IInv, RequestsSeen
    <2>2. \A y \in Ops : request'[y].status = "none" <=> request'[y].kind = "none"
      BY <1>3, <1>5, <1>13 DEF IInv, RequestsSeen
    <2>3. ASSUME NEW b \in Actors, actor'[b].pc \in {"reading", "staged"}
          PROVE  (/\ request[actor[b].op].status # "none"
                  /\ request[actor[b].op].status = "asked" =>
                       Prepared(actor[b].op, actor[b].entries))'
      <3>1. CASE b = a
        <4>1. actor'[b].op = o /\ actor'[b].entries = e /\ request'[actor'[b].op] = r
          BY <1>11, <1>12, <1>13, <3>1
        <4> QED BY <1>1, <1>5, <1>9, <4>1 DEF Prepared, PreparedWrite, PreparedPromote,
                                        PreparedRedact, Versions, Redacted, Current
      <3>2. CASE b # a
        <4>1. actor'[b] = actor[b] /\ actor[b].op \in Ops
          BY <1>1, <1>12, <2>3, <3>2, ActorIs
        <4>2. request[actor[b].op].status # "none"
          BY <2>3, <4>1 DEF IInv, RequestsSeen
        <4>3. request'[actor[b].op] = request[actor[b].op]
          BY <1>5, <1>13, <4>1, <4>2 DEF NoRequest
        <4>4. request[actor[b].op].status = "asked" => Prepared(actor[b].op, actor[b].entries)
          BY <2>3, <4>1 DEF IInv, RequestsSeen
        <4> QED BY <1>1, <4>1, <4>2, <4>3, <4>4 DEF Prepared, PreparedWrite, PreparedPromote,
                                        PreparedRedact, Versions, Redacted, Current
      <3> QED BY <3>1, <3>2
    <2> QED BY <2>1, <2>2, <2>3 DEF RequestsSeen
  <1>16. MovingSeen(a)'
    BY <1>11, <1>12 DEF MovingSeen
  <1>17. LockBy(a)
    BY <1>1, NoLock
  <1> QED BY <1>1, <1>7, <1>11, <1>13, <1>14, <1>15, <1>16, <1>17, StagedStay, ActorStep

-----------------------------------------------------------------------------
\* The commit.

\* Rows and batch are written: what an actor has prepared for another request,
\* or is doing with another batch, is not its concern.
CommitBy(a, o, e) ==
    /\ batch' = [batch EXCEPT ![o] = [status |-> "db_committed", entries |-> e]]
    /\ staged' = [staged EXCEPT ![o] = DOMAIN e]
    /\ request' = [request EXCEPT ![o].status = "completed"]
    /\ actor' = [actor EXCEPT ![a] = [Idle EXCEPT !.pc = "finalizing", !.op = o, !.own = TRUE]]
    /\ UNCHANGED <<disk, lock>>

Committing(a) ==
    /\ actor[a].pc = "staged" /\ request[actor[a].op].status = "asked" /\ lock = None

LEMMA CommittingIs ==
  ASSUME IInv, NEW a \in Actors, Committing(a)
  PROVE  /\ actor[a].op \in Ops /\ actor[a].entries \in Files
         /\ ~Committed(actor[a].op) /\ batch[actor[a].op].status = "none"
         /\ Prepared(actor[a].op, actor[a].entries)
         /\ request[actor[a].op] \in RequestRecords /\ request[actor[a].op].kind \in Kinds
         /\ resource.version + 1 \in Numbers
  <1> DEFINE o == actor[a].op
  <1>1. o \in Ops /\ actor[a].entries \in Files
    BY ActorIs DEF IInv, Committing
  <1>2. batch[o].status = "none"
    BY <1>1 DEF IInv, Typed, TypeOK, Committing
  <1>3. Prepared(o, actor[a].entries)
    BY DEF IInv, RequestsSeen, Committing
  <1>4. request[o] \in RequestRecords /\ request[o].kind # "none"
    BY <1>1 DEF IInv, Typed, RequestsSeen, Committing
  <1>5. resource.version + 1 \in Numbers
    BY <1>1, <1>2, RoomForOne DEF IInv, Committed
  <1> QED BY <1>1, <1>2, <1>3, <1>4, <1>5 DEF Committed, RequestRecords

LEMMA CommitTyped ==
  ASSUME IInv, NEW a \in Actors, Committing(a), CommitBy(a, actor[a].op, actor[a].entries)
  PROVE  LET o == actor[a].op
             e == actor[a].entries
         IN /\ batch' \in [Ops -> BatchRecords] /\ batch'[o].status = "db_committed" /\ batch'[o].entries = e
            /\ \A y \in Ops \ {o} : batch'[y] = batch[y]
            /\ \A y \in Ops : Committed(y)' <=> Committed(y) \/ y = o
            /\ staged' \in [Ops -> SUBSET Paths] /\ staged'[o] = DOMAIN e
            /\ \A y \in Ops \ {o} : staged'[y] = staged[y]
            /\ request' \in [Ops -> RequestRecords] /\ request'[o].status = "completed"
            /\ request'[o].kind = request[o].kind /\ request'[o].expected = request[o].expected
            /\ \A y \in Ops \ {o} : request'[y] = request[y]
            /\ actor' \in [Actors -> ActorRecords]
            /\ actor'[a].pc = "finalizing" /\ actor'[a].op = o /\ actor'[a].seen = {}
            /\ \A b \in Actors \ {a} : actor'[b] = actor[b]
            /\ \A b \in Actors : actor'[b].pc # "idle" => actor'[b].op \in Ops
  <1> DEFINE o == actor[a].op
             e == actor[a].entries
             bx == [status |-> "db_committed", entries |-> e]
             rx == [request[o] EXCEPT !.status = "completed"]
             ax == [Idle EXCEPT !.pc = "finalizing", !.op = o, !.own = TRUE]
  <1>1. o \in Ops /\ e \in Files /\ DOMAIN e \subseteq Paths /\ Typed
    BY CommittingIs, FileOf DEF IInv
  <1>2. /\ bx \in BatchRecords /\ bx.status = "db_committed" /\ bx.entries = e
        /\ batch' = [batch EXCEPT ![o] = bx] /\ batch \in [Ops -> BatchRecords]
    BY <1>1 DEF BatchRecords, CommitBy, Typed
  <1>3. /\ rx \in RequestRecords /\ rx.status = "completed" /\ rx.kind = request[o].kind
        /\ rx.expected = request[o].expected
        /\ request' = [request EXCEPT ![o] = rx] /\ request \in [Ops -> RequestRecords]
    BY <1>1, CommittingIs DEF RequestRecords, CommitBy, Typed
  <1>4. /\ ax \in ActorRecords /\ ax.pc = "finalizing" /\ ax.op = o /\ ax.seen = {}
        /\ actor' = [actor EXCEPT ![a] = ax]
    BY <1>1, IdleIs DEF ActorRecords, Steps, Idle, CommitBy
  <1>5. /\ staged' \in [Ops -> SUBSET Paths] /\ staged'[o] = DOMAIN e
        /\ \A y \in Ops \ {o} : staged'[y] = staged[y]
    <2>1. staged' = [staged EXCEPT ![o] = DOMAIN e] /\ staged \in [Ops -> SUBSET Paths]
      BY <1>1 DEF CommitBy, Typed
    <2> HIDE DEF e
    <2> QED BY <1>1, <2>1
  <1> HIDE DEF bx, rx, ax, e
  <1>6. /\ batch' \in [Ops -> BatchRecords] /\ batch'[o] = bx
        /\ \A y \in Ops \ {o} : batch'[y] = batch[y]
    BY <1>1, <1>2
  <1>7. /\ request' \in [Ops -> RequestRecords] /\ request'[o] = rx
        /\ \A y \in Ops \ {o} : request'[y] = request[y]
    BY <1>1, <1>3
  <1>8. /\ actor' \in [Actors -> ActorRecords] /\ actor'[a] = ax
        /\ \A b \in Actors \ {a} : actor'[b] = actor[b]
        /\ \A b \in Actors : actor'[b].pc # "idle" => actor'[b].op \in Ops
    BY <1>1, <1>4, ActorSet
  <1>9. \A y \in Ops : Committed(y)' <=> Committed(y) \/ y = o
    BY <1>1, <1>2, <1>6 DEF Committed
  <1> QED BY <1>2, <1>3, <1>4, <1>5, <1>6, <1>7, <1>8, <1>9 DEF e

\* One batch more.
LEMMA CountOne ==
  ASSUME IInv, NEW o \in Ops, ~Committed(o),
         \A y \in Ops : Committed(y)' <=> Committed(y) \/ y = o,
         resource'.version \in {resource.version, resource.version + 1}
  PROVE  Counted'
  <1> DEFINE C == {x \in Ops : Committed(x)}
  <1>1. IsFiniteSet(C) /\ o \notin C
    BY CompletionFilesAssumption, FS_Subset
  <1>2. {x \in Ops : Committed(x)}' = C \cup {o}
    OBVIOUS
  <1>3. Cardinality(C \cup {o}) = Cardinality(C) + 1 /\ Cardinality(C) \in Nat
    <2> HIDE DEF C
    <2> QED BY <1>1, FS_AddElement, FS_CardinalityType
  <1>4. resource.version <= Cardinality(C)
    BY DEF IInv, Counted
  <1>5. Counted' <=> resource'.version <= Cardinality(C \cup {o})
    BY <1>2 DEF Counted
  <1> HIDE DEF C
  <1> QED BY <1>3, <1>4, <1>5, VersionsAre DEF IInv

\* What the refusal of a request leaves.
LEMMA RefuseHolds ==
  ASSUME IInv, NEW a \in Actors, Committing(a), Rest(a),
         request' = [request EXCEPT ![actor[a].op].status = "failed"],
         UNCHANGED <<resource, versions, batch, staged, disk, lock>>
  PROVE  IInv'
  <1> DEFINE o == actor[a].op
             rx == [request[o] EXCEPT !.status = "failed"]
  <1>1. /\ o \in Ops /\ request[o] \in RequestRecords /\ request[o].kind \in Kinds
        /\ request[o].status = "asked"
    BY CommittingIs DEF Committing
  <1>2. /\ rx \in RequestRecords /\ rx.status = "failed" /\ rx.kind = request[o].kind
        /\ rx.expected = request[o].expected
        /\ request' = [request EXCEPT ![o] = rx] /\ request \in [Ops -> RequestRecords]
    BY <1>1 DEF RequestRecords, IInv, Typed
  <1> HIDE DEF rx
  <1>3. /\ request' \in [Ops -> RequestRecords] /\ request'[o] = rx
        /\ \A y \in Ops \ {o} : request'[y] = request[y]
    BY <1>1, <1>2
  <1>4. /\ Idle \in ActorRecords /\ Idle.pc = "idle" /\ actor' = [actor EXCEPT ![a] = Idle]
        /\ actor'[a] = Idle /\ \A b \in Actors \ {a} : actor'[b] = actor[b]
    BY IdleIs, ActorSet DEF Rest, IInv
  <1>5. RequestsSeen'
    <2>1. \A y \in Ops : request'[y].kind # "none" =>
            request'[y].expected <= resource'.version /\ request'[y].expected + 1 \in Numbers
      BY <1>1, <1>2, <1>3 DEF IInv, RequestsSeen
    <2>2. \A y \in Ops : request'[y].status = "none" <=> request'[y].kind = "none"
      BY <1>1, <1>2, <1>3 DEF IInv, RequestsSeen
    <2>3. ASSUME NEW b \in Actors, actor'[b].pc \in {"reading", "staged"}
          PROVE  (/\ request[actor[b].op].status # "none"
                  /\ request[actor[b].op].status = "asked" =>
                       Prepared(actor[b].op, actor[b].entries))'
      <3>1. actor'[b] = actor[b] /\ actor[b].op \in Ops /\ actor[b].pc \in {"reading", "staged"}
        BY <1>4, <2>3, ActorIs DEF IInv
      <3>2. /\ request[actor[b].op].status # "none"
            /\ request[actor[b].op].status = "asked" => Prepared(actor[b].op, actor[b].entries)
        BY <3>1 DEF IInv, RequestsSeen
      <3>3. actor[b].op = o \/ request'[actor[b].op] = request[actor[b].op]
        BY <1>3, <3>1
      <3> QED BY <1>2, <1>3, <3>1, <3>2, <3>3 DEF Prepared, PreparedWrite, PreparedPromote,
                                        PreparedRedact, Versions, Redacted, Current
    <2> QED BY <2>1, <2>2, <2>3 DEF RequestsSeen
  <1>6. MovingSeen(a)'
    BY <1>4 DEF MovingSeen
  <1>7. LockBy(a)
    BY NoLock DEF Committing
  <1>8. \A y \in Ops : request'[y].status = "completed" <=> request[y].status = "completed"
    BY <1>1, <1>2, <1>3
  <1> QED BY <1>3, <1>4, <1>5, <1>6, <1>7, <1>8, StagedStay, ActorStep

\* What both kinds of commits leave of the versions there are.
RowsKept ==
    /\ resource'.version \in {resource.version, resource.version + 1}
    /\ resource.confirmed > 0 => resource'.confirmed > 0
    /\ \A n \in Versions :
         /\ versions'[n].batch = Writer(n)
         /\ Redacted(n)' \/ (~Redacted(n) /\ versions'[n].content = versions[n].content)

LEMMA VersionsStay ==
  ASSUME Typed, RowsKept
  PROVE  /\ Versions \subseteq Versions' /\ resource'.version \in Nat
         /\ \A n \in Versions' : n \in Versions \/ n = resource.version + 1
         /\ resource'.version = resource.version => Versions' = Versions
  BY VersionsAre DEF RowsKept, Versions

LEMMA SoundStays ==
  ASSUME IInv, RowsKept, NEW e, Sound(e)
  PROVE  Sound(e)'
  <1>1. Versions \subseteq Versions'
    BY VersionsStay DEF IInv
  <1>2. Target \in DOMAIN e => resource'.confirmed > 0
    BY DEF Sound, RowsKept
  <1>3. ASSUME NEW n \in Numbers, NEW p \in {History(n), Candidate(n)}, p \in DOMAIN e
        PROVE  n \in Versions' /\ (Redacted(n)' \/ e[p] = versions'[n].content)
    BY <1>1, <1>3 DEF Sound, RowsKept
  <1> QED BY <1>2, <1>3 DEF Sound

LEMMA CommitOthers ==
  ASSUME IInv, NEW a \in Actors, Committing(a), CommitBy(a, actor[a].op, actor[a].entries),
         RowsKept, NEW o, NEW e, o = actor[a].op, e = actor[a].entries, Sound(e)',
         \A y \in Ops \ {o} : \A f \in Files :
            request[y].kind # "none" /\ Prepared(y, f) => Prepared(y, f)'
  PROVE  EntriesSeen' /\ RequestsSeen' /\ MovesSeen' /\ Counted'
  <1>1. /\ o \in Ops /\ e \in Files /\ ~Committed(o) /\ Typed
        /\ Versions \subseteq Versions' /\ resource'.version \in Nat /\ resource.version \in Nat
        /\ \A n \in Versions' : n \in Numbers
    <2>1. resource.version + 1 \in Numbers
      BY CommittingIs
    <2> QED BY <2>1, CommittingIs, VersionsStay, VersionsAre DEF IInv
  <1>2. /\ batch'[o].status = "db_committed" /\ batch'[o].entries = e
        /\ \A y \in Ops \ {o} : batch'[y] = batch[y]
        /\ \A y \in Ops : Committed(y)' <=> Committed(y) \/ y = o
    BY CommitTyped
  <1>3. /\ request'[o].status = "completed" /\ request'[o].kind = request[o].kind
        /\ request'[o].expected = request[o].expected
        /\ \A y \in Ops \ {o} : request'[y] = request[y]
    BY CommitTyped
  <1>4. /\ actor'[a].pc = "finalizing" /\ actor'[a].op = o /\ actor'[a].seen = {}
        /\ \A b \in Actors \ {a} : actor'[b] = actor[b]
        /\ lock = None /\ UNCHANGED <<lock, disk>>
    BY CommitTyped DEF Committing, CommitBy
  <1>5. EntriesSeen'
    <2>1. ASSUME NEW y \in Ops, Committed(y)' PROVE Sound(batch[y].entries)'
      <3>1. CASE y = o
        BY <1>1, <1>2, <3>1 DEF Sound
      <3>2. CASE y # o
        <4>1. Sound(batch[y].entries)
          BY <1>2, <2>1, <3>2 DEF IInv, EntriesSeen
        <4>2. batch'[y] = batch[y]
          BY <1>2, <3>2
        <4>3. PICK f : f = batch[y].entries
          OBVIOUS
        <4>4. Sound(f)'
          BY <4>1, <4>3, SoundStays
        <4> QED BY <4>2, <4>3, <4>4 DEF Sound
      <3> QED BY <3>1, <3>2
    <2> QED BY <2>1 DEF EntriesSeen
  <1>6. RequestsSeen'
    <2>1. \A y \in Ops : request'[y].kind # "none" =>
            request'[y].expected <= resource'.version /\ request'[y].expected + 1 \in Numbers
      <3>1. \A y \in Ops : request[y].expected \in Numbers
        BY <1>1 DEF Typed, RequestRecords
      <3>2. \A y \in Ops : request'[y].kind = request[y].kind /\ request'[y].expected = request[y].expected
        BY <1>3
      <3>3. resource.version <= resource'.version
        BY <1>1 DEF RowsKept
      <3> QED BY <1>1, <3>1, <3>2, <3>3, NumbersAre DEF IInv, RequestsSeen
    <2>2. \A y \in Ops : request'[y].status = "none" <=> request'[y].kind = "none"
      BY <1>1, <1>3, CommittingIs DEF IInv, RequestsSeen, Committing
    <2>3. ASSUME NEW b \in Actors, actor'[b].pc \in {"reading", "staged"}
          PROVE  (/\ request[actor[b].op].status # "none"
                  /\ request[actor[b].op].status = "asked" =>
                       Prepared(actor[b].op, actor[b].entries))'
      <3>1. b # a /\ actor'[b] = actor[b] /\ actor[b].op \in Ops /\ actor[b].entries \in Files
        BY <1>1, <1>4, <2>3, ActorIs
      <3>2. /\ request[actor[b].op].status # "none" /\ request[actor[b].op].kind # "none"
            /\ request[actor[b].op].status = "asked" => Prepared(actor[b].op, actor[b].entries)
        BY <2>3, <3>1 DEF IInv, RequestsSeen
      <3>3. CASE actor[b].op = o
        BY <1>3, <3>1, <3>3
      <3>4. CASE actor[b].op # o
        <4>1. ASSUME request[actor[b].op].status = "asked"
              PROVE  Prepared(actor[b].op, actor[b].entries)'
          <5>1. PICK y, f : y = actor[b].op /\ f = actor[b].entries
            OBVIOUS
          <5>2. Prepared(y, f)'
            BY <3>1, <3>2, <3>4, <4>1, <5>1
          <5>3. y = actor'[b].op /\ f = actor'[b].entries
            BY <3>1, <5>1
          <5> QED BY <5>2, <5>3 DEF Prepared, PreparedWrite, PreparedPromote, PreparedRedact
        <4> QED BY <1>3, <3>1, <3>2, <3>4, <4>1
      <3> QED BY <3>3, <3>4
    <2> QED BY <2>1, <2>2, <2>3 DEF RequestsSeen
  <1>7. ASSUME NEW b \in Actors PROVE MovingSeen(b)'
    <2>1. CASE b = a
      BY <1>1, <1>2, <1>4, <2>1 DEF MovingSeen
    <2>2. CASE b # a
      <3>1. actor'[b] = actor[b] /\ MovingSeen(b)
        BY <1>4, <2>2 DEF IInv, MovesSeen
      <3>2. CASE actor[b].pc \notin {"finalizing", "moving", "marking"}
        BY <3>1, <3>2 DEF MovingSeen
      <3>3. CASE actor[b].pc \in {"finalizing", "moving", "marking"}
        <4> PICK y : y = actor[b].op
          OBVIOUS
        <4>1. y \in Ops /\ Committed(y) /\ y # o
          BY <1>1, <3>1, <3>3, ActorIs DEF MovingSeen
        <4>2. batch'[y] = batch[y] /\ Committed(y)' /\ Sound(batch[y].entries)
          BY <1>2, <4>1 DEF IInv, EntriesSeen
        <4>3. CASE actor[b].pc # "moving"
          BY <3>1, <4>1, <4>2, <4>3 DEF MovingSeen, Committed
        <4>4. CASE actor[b].pc = "moving"
          <5>1. Target \notin DOMAIN batch[y].entries /\ Target \notin actor[b].seen
            BY <1>4, <3>1, <4>4, CompletionFilesAssumption DEF MovingSeen
          <5>2. ASSUME NEW n \in Versions', NEW p \in {History(n), Candidate(n)}, p \in actor[b].seen
                PROVE  Redacted(n)' \/ disk'[p] = versions'[n].content
            <6>1. n \in Versions
              BY <1>1, <3>1, <4>2, <4>4, <5>2 DEF MovingSeen, Sound
            <6> QED BY <1>4, <3>1, <4>4, <5>2, <6>1 DEF MovingSeen, RowsKept
          <5> QED BY <3>1, <4>1, <4>2, <4>4, <5>1, <5>2 DEF MovingSeen
        <4> QED BY <4>3, <4>4
      <3> QED BY <3>2, <3>3
    <2> QED BY <2>1, <2>2
  <1>8. Counted'
    BY <1>1, <1>2, CountOne DEF RowsKept
  <1> QED BY <1>5, <1>6, <1>7, <1>8 DEF MovesSeen

LEMMA CommitTypeOK ==
  ASSUME IInv, NEW a \in Actors, Committing(a), CommitBy(a, actor[a].op, actor[a].entries),
         versions' \in [Numbers -> Rows],
         resource' \in [version : Numbers, confirmed : Numbers, provisional : Numbers, candidate : Numbers],
         resource'.confirmed = 0 \/ resource'.provisional = 0,
         resource'.candidate \in {0, resource'.version},
         \A n \in Numbers : n \in Versions' <=>
            versions'[n] \in [path : Paths, content : Contents, batch : Ops]
  PROVE  Typed'
  <1> PICK o, e : o = actor[a].op /\ e = actor[a].entries
    OBVIOUS
  <1>1. /\ o \in Ops /\ Typed /\ lock = None /\ UNCHANGED <<disk, lock>>
    BY CommittingIs DEF IInv, Committing, CommitBy
  <1>2. /\ batch' \in [Ops -> BatchRecords] /\ batch'[o].status = "db_committed" /\ batch'[o].entries = e
        /\ \A y \in Ops \ {o} : batch'[y] = batch[y]
        /\ staged' \in [Ops -> SUBSET Paths] /\ staged'[o] = DOMAIN e
        /\ \A y \in Ops \ {o} : staged'[y] = staged[y]
        /\ request' \in [Ops -> RequestRecords] /\ request'[o].status = "completed"
        /\ \A y \in Ops \ {o} : request'[y] = request[y]
        /\ actor' \in [Actors -> ActorRecords]
        /\ \A b \in Actors : actor'[b].pc # "idle" => actor'[b].op \in Ops
    BY CommitTyped
  <1>3. \A y \in Ops :
          /\ batch'[y].status \in {"none", "db_committed", "renamed"}
          /\ batch'[y].status = "none" <=> request'[y].status # "completed"
          /\ staged'[y] \subseteq DOMAIN batch'[y].entries
          /\ batch'[y].status = "renamed" => staged'[y] = {}
    BY <1>1, <1>2 DEF Typed, TypeOK
  <1>4. \A y \in Ops : request'[y] \in RequestRecords
    BY <1>2
  <1>5. TypeOK'
    BY <1>1, <1>3, <1>4 DEF Typed, TypeOK, RequestRecords, Versions
  <1> QED BY <1>2, <1>5 DEF Typed

LEMMA CommitRedactHolds ==
  ASSUME IInv, NEW a \in Actors, Committing(a), CommitBy(a, actor[a].op, actor[a].entries),
         request[actor[a].op].kind = "redact", Redact(actor[a].op, actor[a].entries)
  PROVE  IInv'
  <1> PICK o, e : o = actor[a].op /\ e = actor[a].entries
    OBVIOUS
  <1>1. /\ o \in Ops /\ e \in Files /\ ~Committed(o) /\ Typed /\ PreparedRedact(o, e)
        /\ batch[o].status = "none"
    BY CommittingIs DEF IInv, Prepared
  <1>2. UNCHANGED resource /\ Versions' = Versions
    BY DEF Redact, Versions
  <1> DEFINE Hit(n) == Tombstone(o, n) \in Range(e)
  <1>3. \A n \in Numbers : Hit(n) => n \in Versions
    BY <1>1 DEF PreparedRedact, Tombstone
  <1>4. ASSUME NEW n \in Numbers
        PROVE  /\ ~Hit(n) => versions'[n] = versions[n]
               /\ versions'[n].path = versions[n].path /\ versions'[n].batch = versions[n].batch
               /\ Hit(n) => versions'[n].content = Tombstone(o, n)
               /\ versions'[n] \in Rows
    <2>1. versions[n] \in Rows /\ Tombstone(o, n) \in Contents
      BY <1>1, ContentsAre DEF Typed
    <2>2. versions'[n] = IF Hit(n) THEN [versions[n] EXCEPT !.content = Tombstone(o, n)] ELSE versions[n]
      BY DEF Redact
    <2> QED BY <2>1, <2>2 DEF Rows
  <1>5. versions' \in [Numbers -> Rows]
    BY <1>4 DEF Redact
  <1> HIDE DEF Hit
  <1>6. \A n \in Versions : n \in Numbers /\ n \in Nat /\ n > 0
    BY <1>1, VersionsAre
  <1>7. \A n \in Versions : Hit(n) => Redacted(n)'
    BY <1>4, <1>6, TombstonesAre DEF Redacted
  <1>8. ASSUME NEW n \in Versions
        PROVE  Redacted(n)' \/ (~Redacted(n) /\ versions'[n].content = versions[n].content)
    <2>1. ~Hit(n) => versions'[n] = versions[n]
      BY <1>4, <1>6
    <2> QED BY <1>7, <2>1 DEF Redacted
  <1>9. RowsKept
    BY <1>2, <1>4, <1>6, <1>8 DEF RowsKept, Writer
  <1>10. Sound(e)'
    <2>1. Target \in DOMAIN e => resource'.confirmed > 0
      BY <1>1, <1>2 DEF PreparedRedact
    <2>2. ASSUME NEW n \in Numbers, NEW p \in {History(n), Candidate(n)}, p \in DOMAIN e
          PROVE  n \in Versions' /\ Redacted(n)'
      <3>1. n \in Versions /\ e[p] = Tombstone(o, n)
        BY <1>1, <2>2 DEF PreparedRedact
      <3>2. Hit(n)
        BY <2>2, <3>1 DEF Hit, Range
      <3> QED BY <1>2, <1>7, <3>1, <3>2
    <2> QED BY <2>1, <2>2 DEF Sound
  <1>11. ASSUME NEW y \in Ops \ {o}, NEW f \in Files, request[y].kind # "none", Prepared(y, f)
         PROVE  Prepared(y, f)'
    <2>1. request'[y] = request[y] /\ Current' = Current
      BY <1>1, <1>2, CommitTyped DEF Current
    <2>2. PreparedRedact(y, f) => PreparedRedact(y, f)'
      BY <1>2 DEF PreparedRedact
    <2>3. PreparedWrite(y, f) => PreparedWrite(y, f)'
      BY <1>2, <1>8, <2>1, CurrentIs DEF PreparedWrite
    <2>4. PreparedPromote(f) => PreparedPromote(f)'
      BY <1>2, <1>8, CurrentIs DEF PreparedPromote
    <2> QED BY <1>2, <1>11, <2>1, <2>2, <2>3, <2>4 DEF Prepared
  <1>12. EntriesSeen' /\ RequestsSeen' /\ MovesSeen' /\ Counted'
    BY <1>9, <1>10, <1>11, CommitOthers
  <1>13. /\ batch' \in [Ops -> BatchRecords] /\ batch'[o].status = "db_committed" /\ batch'[o].entries = e
         /\ \A y \in Ops \ {o} : batch'[y] = batch[y]
         /\ \A y \in Ops : Committed(y)' <=> Committed(y) \/ y = o
         /\ lock = None /\ UNCHANGED <<disk, lock>>
    BY CommitTyped DEF Committing, CommitBy
  <1>14. \A n \in Versions : Writer(n)' = Writer(n) /\ Writer(n) \in Ops \ {o}
    BY <1>1, <1>4, <1>6, VersionsAre DEF IInv, RowsSeen, Writer
  <1>15. Typed'
    <2>1. \A n \in Numbers : n \in Versions <=>
            versions'[n] \in [path : Paths, content : Contents, batch : Ops]
      <3> TAKE n \in Numbers
      <3>1. n \in Versions <=> versions[n] \in [path : Paths, content : Contents, batch : Ops]
        BY <1>1 DEF Typed, TypeOK, Versions
      <3>2. CASE Hit(n)
        <4>1. n \in Versions /\ Tombstone(o, n) \in Contents
          BY <1>1, <1>3, <3>2, ContentsAre
        <4>2. /\ versions'[n].path \in Paths /\ versions'[n].content \in Contents
              /\ versions'[n].batch \in Ops /\ versions'[n] \in Rows
          BY <1>1, <1>4, <3>2, <4>1, VersionsAre DEF Writer
        <4> QED BY <4>1, <4>2 DEF Rows
      <3>3. CASE ~Hit(n)
        BY <1>4, <3>1, <3>3
      <3> QED BY <3>2, <3>3
    <2> QED BY <1>1, <1>2, <1>5, <2>1, CommitTypeOK DEF Typed, TypeOK
  <1>16. RowsSeen'
    <2>1. \A n \in Numbers \ Versions : versions'[n] = NoVersion
      BY <1>3, <1>4 DEF IInv, RowsSeen
    <2>2. \A n \in Versions : Committed(Writer(n))'
      BY <1>13, <1>14 DEF IInv, RowsSeen, Committed, Writer
    <2> QED BY <1>2, <1>4, <1>6, <2>1, <2>2 DEF IInv, RowsSeen
  <1>17. WritersSeen'
    BY <1>2, <1>4, <1>6, <1>8, <1>13, <1>14 DEF IInv, WritersSeen, Writer
  <1>18. Placed'
    <2> SUFFICES ASSUME NEW n \in Versions, ~Redacted(n)'
                 PROVE  \/ /\ versions[n].path # History(n)
                           /\ batch[Writer(n)].status = "renamed" => Readable(n)
                        \/ /\ versions[n].path = History(n)
                           /\ \E y \in Ops : /\ Committed(y)' /\ History(n) \in DOMAIN batch'[y].entries
                                             /\ batch'[y].status = "renamed" => Readable(n)
      BY <1>2, <1>4, <1>6, <1>8, <1>13, <1>14 DEF Placed, Readable, Writer
    <2>1. ~Redacted(n)
      BY <1>8
    <2>2. CASE versions[n].path = History(n)
      <3>1. PICK y \in Ops : /\ Committed(y) /\ History(n) \in DOMAIN batch[y].entries
                             /\ batch[y].status = "renamed" => Readable(n)
        BY <2>1, <2>2 DEF IInv, Placed
      <3> QED BY <1>1, <1>13, <2>2, <3>1
    <2>3. CASE versions[n].path # History(n)
      BY <2>1, <2>3 DEF IInv, Placed
    <2> QED BY <2>2, <2>3
  <1> QED BY <1>12, <1>15, <1>16, <1>17, <1>18 DEF IInv

\* A batch e writes the version after the latest at path p and, when there is
\* one, moves the version r to the history.
Writes(o, e, r, p) ==
    LET n == resource.version + 1
    IN /\ r \in 0 .. resource.version
       /\ p \in {Target, Candidate(n)} /\ p \in DOMAIN e
       /\ Target \in DOMAIN e => p = Target
       /\ r > 0 => History(r) \in DOMAIN e
       /\ \A m \in Numbers : History(m) \in DOMAIN e =>
            \/ m = r /\ m > 0 /\ (Redacted(m) \/ e[History(m)] = versions[m].content)
            \/ m = n /\ e[History(m)] = e[p]
       /\ \A m \in Numbers : Candidate(m) \in DOMAIN e => m = n /\ p = Candidate(n)
       /\ p = Target => resource.confirmed \in {0, r}
       /\ p # Target => r = 0
       /\ versions' = [m \in Numbers |->
            IF m = n THEN [path |-> p, content |-> e[p], batch |-> o]
            ELSE IF m = r /\ m > 0 THEN [versions[m] EXCEPT !.path = History(m)] ELSE versions[m]]
       /\ resource' = IF p = Target
                      THEN [version |-> n, candidate |-> 0, confirmed |-> n, provisional |-> 0]
                      ELSE [version |-> n, candidate |-> n, confirmed |-> resource.confirmed,
                            provisional |-> IF resource.confirmed > 0 THEN resource.provisional ELSE n]

LEMMA WritesIts ==
  ASSUME IInv, NEW a \in Actors, Committing(a), NEW o, NEW e, o = actor[a].op, e = actor[a].entries,
         Acceptable(o), request[o].kind # "redact", WriteVersion(o, e)
  PROVE  \E r, p : Writes(o, e, r, p)
  <1> DEFINE kind == request[o].kind
             n == resource.version + 1
             q == IF kind = "candidate" THEN Candidate(n) ELSE Target
             k == IF kind = "write" THEN Current ELSE IF kind = "promote" THEN resource.confirmed ELSE 0
  <1>1. /\ o \in Ops /\ Typed /\ n \in Numbers /\ kind \in {"write", "candidate", "promote"}
        /\ request[o].expected = resource.version /\ Prepared(o, e)
    BY CommittingIs, CompletionFilesAssumption DEF Acceptable, IInv
  <1>2. k \in 0 .. resource.version /\ resource.version \in Nat
    BY CurrentIs, VersionsAre DEF IInv, RowsSeen
  <1>3. versions' = [m \in Numbers |->
            IF m = n THEN [path |-> q, content |-> e[q], batch |-> o]
            ELSE IF m = k /\ m > 0 THEN [versions[m] EXCEPT !.path = History(m)] ELSE versions[m]]
    <2>1. versions' = [Moved(kind) EXCEPT ![n] = [path |-> q, content |-> e[q], batch |-> o]]
      BY DEF WriteVersion
    <2>2. Moved(kind) = [m \in Numbers |-> IF m = k /\ m > 0 THEN [versions[m] EXCEPT !.path = History(m)]
                                           ELSE versions[m]]
      <3>1. \A m : m = k /\ m > 0 => [versions[m] EXCEPT !.path = History(k)] = [versions[m] EXCEPT !.path = History(m)]
        OBVIOUS
      <3> QED BY DEF Moved
    <2> HIDE DEF q, k, n, kind
    <2> QED BY <1>1, <2>1, <2>2
  <1>4. resource' = IF q = Target
                    THEN [version |-> n, candidate |-> 0, confirmed |-> n, provisional |-> 0]
                    ELSE [version |-> n, candidate |-> n, confirmed |-> resource.confirmed,
                          provisional |-> IF resource.confirmed > 0 THEN resource.provisional ELSE n]
    BY PathsApart DEF WriteVersion, Pointed
  <1>6. /\ q \in {Target, Candidate(n)} /\ q \in DOMAIN e
        /\ Target \in DOMAIN e => q = Target
        /\ k > 0 => History(k) \in DOMAIN e
        /\ \A m \in Numbers : History(m) \in DOMAIN e =>
            \/ m = k /\ m > 0 /\ (Redacted(m) \/ e[History(m)] = versions[m].content)
            \/ m = n /\ e[History(m)] = e[q]
        /\ \A m \in Numbers : Candidate(m) \in DOMAIN e => m = n /\ q = Candidate(n)
        /\ q = Target => resource.confirmed \in {0, k}
        /\ q # Target => k = 0
    <2>1. CASE kind = "write"
      <3>1. PreparedWrite(o, e) /\ q = Target /\ k = Current
        BY <1>1, <2>1 DEF Prepared
      <3>2. resource.confirmed \in {0, k}
        BY <1>1, <3>1, VersionsAre DEF Current
      <3> HIDE DEF q, k
      <3> QED BY <3>1, <3>2, PathsApart DEF PreparedWrite, Kept
    <2>2. CASE kind = "candidate"
      <3>1. DOMAIN e = {Candidate(n)} /\ q = Candidate(n) /\ k = 0
        BY <1>1, <2>2 DEF Prepared
      <3> HIDE DEF q, k
      <3> QED BY <3>1, PathsApart
    <2>3. CASE kind = "promote"
      <3>1. PreparedPromote(e) /\ q = Target /\ k = resource.confirmed
        BY <1>1, <2>3 DEF Prepared
      <3> HIDE DEF q, k
      <3> QED BY <3>1, PathsApart DEF PreparedPromote, Kept
    <2> QED BY <1>1, <2>1, <2>2, <2>3
  <1> HIDE DEF q, k
  <1>7. Writes(o, e, k, q)
    BY <1>2, <1>3, <1>4, <1>6 DEF Writes
  <1> QED BY <1>7

LEMMA CommitWriteHolds ==
  ASSUME IInv, NEW a \in Actors, Committing(a), CommitBy(a, actor[a].op, actor[a].entries),
         NEW r, NEW p, Writes(actor[a].op, actor[a].entries, r, p)
  PROVE  IInv'
  <1> PICK o, e : o = actor[a].op /\ e = actor[a].entries
    OBVIOUS
  <1> DEFINE n == resource.version + 1
  <1>1. /\ o \in Ops /\ e \in Files /\ ~Committed(o) /\ Typed /\ n \in Numbers /\ n \notin Versions
        /\ resource.version \in Nat /\ n \in Nat /\ n > 0 /\ batch[o].status = "none"
        /\ Writes(o, e, r, p) /\ r \in Nat
        /\ \A m \in Versions : m \in Numbers /\ m # n /\ m \in Nat /\ m > 0
    BY CommittingIs, VersionsAre DEF IInv, Writes, Versions
  <1>2. /\ resource'.version = n /\ \A m : m \in Versions' <=> m \in Versions \/ m = n
        /\ p = Target => resource'.confirmed = n /\ resource'.provisional = 0 /\ resource'.candidate = 0
        /\ p # Target => /\ resource'.confirmed = resource.confirmed /\ resource'.candidate = n
                         /\ resource'.provisional \in {0, n}
    <2>1. resource'.version = n
      BY <1>1 DEF Writes
    <2>2. \A m : m \in Versions' <=> m \in Versions \/ m = n
      BY <1>1, <2>1 DEF Versions
    <2>3. resource.confirmed > 0 => resource.provisional = 0
      BY <1>1, VersionsAre DEF Typed, TypeOK
    <2> QED BY <1>1, <2>1, <2>2, <2>3 DEF Writes
  <1>3. /\ versions'[n].path = p /\ versions'[n].content = e[p] /\ versions'[n].batch = o
        /\ versions'[n] \in [path : Paths, content : Contents, batch : Ops]
    <2>1. p \in Paths /\ e[p] \in Contents
      BY <1>1, FileOf DEF Writes
    <2> QED BY <1>1, <2>1 DEF Writes
  <1>4. ASSUME NEW m \in Numbers, m # n
        PROVE  /\ versions'[m].content = versions[m].content /\ versions'[m].batch = versions[m].batch
               /\ versions'[m].path = IF m = r /\ m > 0 THEN History(m) ELSE versions[m].path
               /\ ~(m = r /\ m > 0) => versions'[m] = versions[m]
               /\ versions'[m] \in Rows
    <2>1. versions[m] \in Rows /\ History(m) \in Paths
      BY <1>1, PathsAre DEF Typed
    <2>2. versions'[m] = IF m = r /\ m > 0 THEN [versions[m] EXCEPT !.path = History(m)] ELSE versions[m]
      BY <1>1, <1>4 DEF Writes
    <2> QED BY <2>1, <2>2 DEF Rows
  <1>5. versions' \in [Numbers -> Rows]
    <2>1. \A m \in Numbers : versions'[m] \in Rows
      BY <1>3, <1>4 DEF Rows
    <2>2. versions' = [m \in Numbers |-> versions'[m]]
      BY <1>1 DEF Writes
    <2> QED BY <2>1, <2>2
  <1>6. r > 0 => r \in Versions
    BY <1>1 DEF Writes, Versions
  <1>7. \A m \in Versions : /\ Redacted(m)' <=> Redacted(m)
                            /\ versions'[m].content = versions[m].content
                            /\ Writer(m)' = Writer(m) /\ Writer(m) \in Ops \ {o}
    BY <1>1, <1>4, VersionsAre DEF Redacted, Writer, IInv, RowsSeen
  <1>8. RowsKept
    BY <1>1, <1>2, <1>7 DEF RowsKept, Writer
  <1>9. Sound(e)'
    <2>1. Target \in DOMAIN e => resource'.confirmed > 0
      BY <1>1, <1>2 DEF Writes
    <2>2. ASSUME NEW m \in Numbers, History(m) \in DOMAIN e
          PROVE  m \in Versions' /\ (Redacted(m)' \/ e[History(m)] = versions'[m].content)
      BY <1>1, <1>2, <1>3, <1>6, <1>7, <2>2 DEF Writes
    <2>3. ASSUME NEW m \in Numbers, Candidate(m) \in DOMAIN e
          PROVE  m \in Versions' /\ e[Candidate(m)] = versions'[m].content
      BY <1>1, <1>2, <1>3, <2>3 DEF Writes
    <2> QED BY <2>1, <2>2, <2>3 DEF Sound
  <1>10. ASSUME NEW y \in Ops \ {o}, NEW f \in Files, request[y].kind # "none", Prepared(y, f)
         PROVE  Prepared(y, f)'
    <2>1. request'[y] = request[y] /\ request[y].expected \in Numbers
      BY <1>1, CommitTyped DEF Typed, RequestRecords
    <2>2. request[y].expected # resource'.version
      BY <1>1, <1>2, <1>10, <2>1, NumbersAre DEF IInv, RequestsSeen
    <2>3. PreparedRedact(y, f) => PreparedRedact(y, f)'
      BY <1>2, <1>8 DEF PreparedRedact, RowsKept
    <2> QED BY <1>10, <2>1, <2>2, <2>3 DEF Prepared
  <1>11. EntriesSeen' /\ RequestsSeen' /\ MovesSeen' /\ Counted'
    BY <1>8, <1>9, <1>10, CommitOthers
  <1>12. /\ batch'[o].status = "db_committed" /\ batch'[o].entries = e
         /\ \A y \in Ops \ {o} : batch'[y] = batch[y]
         /\ \A y \in Ops : Committed(y)' <=> Committed(y) \/ y = o
         /\ UNCHANGED <<disk, lock>>
    BY CommitTyped DEF Committing, CommitBy
  <1>13. Typed'
    <2>1. \A m \in Numbers : m \in Versions' <=>
            versions'[m] \in [path : Paths, content : Contents, batch : Ops]
      <3> TAKE m \in Numbers
      <3>1. m \in Versions <=> versions[m] \in [path : Paths, content : Contents, batch : Ops]
        BY <1>1 DEF Typed, TypeOK, Versions
      <3>2. CASE m = n
        BY <1>2, <1>3, <3>2
      <3>3. CASE m # n /\ m = r /\ m > 0
        <4>1. m \in Versions /\ versions[m].content \in Contents /\ Writer(m) \in Ops
          BY <1>1, <1>6, <3>3, VersionsAre
        <4>2. versions'[m] \in Rows /\ versions'[m].content \in Contents /\ versions'[m].batch \in Ops
          BY <1>4, <3>3, <4>1 DEF Writer
        <4> QED BY <1>2, <4>1, <4>2 DEF Rows
      <3>4. CASE m # n /\ ~(m = r /\ m > 0)
        BY <1>2, <1>4, <3>1, <3>4
      <3> QED BY <3>2, <3>3, <3>4
    <2>2. /\ resource' \in [version : Numbers, confirmed : Numbers, provisional : Numbers, candidate : Numbers]
          /\ resource'.confirmed = 0 \/ resource'.provisional = 0
          /\ resource'.candidate \in {0, resource'.version}
      <3>1. resource.confirmed \in Numbers /\ resource.provisional \in Numbers
            /\ (resource.confirmed = 0 \/ resource.provisional = 0) /\ resource.confirmed \in Nat
        BY <1>1, VersionsAre DEF Typed, TypeOK
      <3> QED BY <1>1, <1>2, <3>1, NumbersAre DEF Writes
    <2> QED BY <1>5, <2>1, <2>2, CommitTypeOK
  <1>14. RowsSeen'
    <2>1. resource'.confirmed \in 0 .. resource'.version /\ resource'.provisional \in 0 .. resource'.version
      BY <1>1, <1>2, CurrentIs, VersionsAre DEF IInv, RowsSeen
    <2>2. \A m \in Numbers \ Versions' : versions'[m] = NoVersion
      BY <1>1, <1>2, <1>4, <1>6 DEF IInv, RowsSeen
    <2>3. ASSUME NEW m \in Versions'
          PROVE  /\ Committed(Writer(m))'
                 /\ versions'[m].path \in {Target, History(m), Candidate(m)}
                 /\ versions'[m].path = Target <=> m = resource'.confirmed
                 /\ m \in {resource'.provisional, resource'.candidate} => versions'[m].path = Candidate(m)
      <3>1. CASE m = n
        <4>1. Committed(Writer(m))'
          BY <1>1, <1>3, <1>12, <3>1 DEF Writer, Committed
        <4>2. resource.confirmed # n
          BY <1>1, CurrentIs
        <4> QED BY <1>1, <1>2, <1>3, <3>1, <4>1, <4>2, PathsApart DEF Writes
      <3>2. CASE m # n
        <4>1. m \in Versions /\ m \in Numbers
          BY <1>1, <1>2, <3>2
        <4>2. Committed(Writer(m))'
          BY <1>7, <1>12, <4>1 DEF IInv, RowsSeen, Committed
        <4>3. /\ versions[m].path \in {Target, History(m), Candidate(m)}
              /\ versions[m].path = Target <=> m = resource.confirmed
          BY <4>1 DEF IInv, RowsSeen
        <4>4. m > 0
          BY <1>1, <4>1
        <4> QED BY <1>1, <1>2, <1>4, <3>2, <4>1, <4>2, <4>3, <4>4, PathsApart DEF Writes
      <3> QED BY <3>1, <3>2
    <2> QED BY <2>1, <2>2, <2>3 DEF RowsSeen
  <1>15. WritersSeen'
    <2>1. ASSUME NEW m \in Versions'
          PROVE  /\ versions'[m].path # History(m) =>
                      versions'[m].path \in DOMAIN batch'[versions'[m].batch].entries
                 /\ versions'[m].path = Target =>
                      Redacted(m)' \/ batch'[versions'[m].batch].entries[Target] = versions'[m].content
      <3>1. CASE m = n
        BY <1>1, <1>3, <1>12, <3>1 DEF Writes
      <3>2. CASE m # n
        <4>1. m \in Versions /\ m \in Numbers
          BY <1>1, <1>2, <3>2
        <4>2. batch'[versions'[m].batch] = batch[versions[m].batch]
          BY <1>7, <1>12, <4>1 DEF Writer
        <4>3. versions'[m].path # History(m) => versions'[m].path = versions[m].path
          BY <1>4, <3>2, <4>1
        <4> QED BY <1>7, <4>1, <4>2, <4>3, PathsApart DEF IInv, WritersSeen, Writer
      <3> QED BY <3>1, <3>2
    <2> QED BY <2>1 DEF WritersSeen, Writer
  <1>16. Placed'
    <2> DEFINE Read(m) == disk[versions'[m].path] = versions'[m].content
    <2>1. ASSUME NEW m \in Versions'
          PROVE  \/ Redacted(m)'
                 \/ /\ versions'[m].path # History(m)
                    /\ batch'[versions'[m].batch].status = "renamed" => Read(m)
                 \/ /\ versions'[m].path = History(m)
                    /\ \E y \in Ops : /\ Committed(y)' /\ History(m) \in DOMAIN batch'[y].entries
                                      /\ batch'[y].status = "renamed" => Read(m)
      <3>1. CASE m = n
        BY <1>1, <1>3, <1>12, <3>1, PathsApart DEF Writes
      <3>2. CASE m # n /\ m = r
        <4>1. m \in Versions /\ m \in Numbers /\ m > 0
          BY <1>1, <1>2, <3>2
        <4>2. versions'[m].path = History(m)
          BY <1>4, <3>2, <4>1
        <4>3. History(m) \in DOMAIN batch'[o].entries /\ Committed(o)' /\ batch'[o].status # "renamed"
          BY <1>1, <1>12, <3>2, <4>1 DEF Writes
        <4> QED BY <1>1, <4>2, <4>3
      <3>3. CASE m # n /\ m # r
        <4>1. m \in Versions /\ m \in Numbers /\ versions'[m] = versions[m]
          BY <1>1, <1>2, <1>4, <3>3
        <4>2. Read(m) <=> Readable(m)
          BY <4>1 DEF Readable
        <4>3. batch'[versions'[m].batch] = batch[versions[m].batch] /\ (Redacted(m)' <=> Redacted(m))
          BY <1>7, <1>12, <4>1 DEF Writer
        <4>4. CASE versions[m].path = History(m) /\ ~Redacted(m)
          <5>1. PICK y \in Ops : /\ Committed(y) /\ History(m) \in DOMAIN batch[y].entries
                                 /\ batch[y].status = "renamed" => Readable(m)
            BY <4>1, <4>4 DEF IInv, Placed
          <5> QED BY <1>1, <1>12, <4>1, <4>2, <4>4, <5>1
        <4>5. CASE versions[m].path # History(m) /\ ~Redacted(m)
          BY <4>1, <4>2, <4>3, <4>5 DEF IInv, Placed, Writer
        <4> QED BY <4>3, <4>4, <4>5
      <3> QED BY <3>1, <3>2, <3>3
    <2> QED BY <1>12, <2>1 DEF Placed, Readable, Writer
  <1> QED BY <1>11, <1>13, <1>14, <1>15, <1>16 DEF IInv

LEMMA CommitHolds ==
  ASSUME IInv, NEW a \in Actors, Commit(a)
  PROVE  IInv'
  <1> PICK o, e : o = actor[a].op /\ e = actor[a].entries
    OBVIOUS
  <1>1. Committing(a)
    BY DEF Commit, Committing, At
  <1>2. CASE Acceptable(o)
    <2>1. CommitBy(a, o, e)
      BY <1>2 DEF Commit, CommitBy
    <2>2. CASE request[o].kind = "redact"
      <3>1. Redact(o, e)
        BY <1>2, <2>2 DEF Commit
      <3> QED BY <1>1, <2>1, <2>2, <3>1, CommitRedactHolds
    <2>3. CASE request[o].kind # "redact"
      <3>1. WriteVersion(o, e)
        BY <1>2, <2>3 DEF Commit
      <3>2. PICK r, p : Writes(o, e, r, p)
        BY <1>1, <1>2, <2>3, <3>1, WritesIts
      <3> QED BY <1>1, <2>1, <3>2, CommitWriteHolds
    <2> QED BY <2>2, <2>3
  <1>3. CASE ~Acceptable(o)
    BY <1>1, <1>3, RefuseHolds DEF Commit
  <1> QED BY <1>2, <1>3

-----------------------------------------------------------------------------
LEMMA StepHolds == IInv /\ [Next]_vars => IInv'
  <1> SUFFICES ASSUME IInv, [Next]_vars PROVE IInv'
    OBVIOUS
  <1>1. ASSUME NEW a \in Actors, NEW o \in Ops, Ask(a, o) \/ Recover(a, o) PROVE IInv'
    BY <1>1, AskHolds, RecoverHolds
  <1>2. ASSUME NEW a \in Actors, Work(a) PROVE IInv'
    BY <1>2, StageHolds, CommitHolds, ReplayHolds, FinalizeBeginHolds, MoveHolds, MarkHolds DEF Work
  <1>3. ASSUME NEW a \in Actors, Die(a) \/ Error(a) PROVE IInv'
    BY <1>3, DieHolds, ErrorHolds
  <1>4. CASE UNCHANGED vars
    <2>1. Typed'
      BY <1>4 DEF vars, IInv, Typed, TypeOK
    <2>2. (RowsSeen /\ WritersSeen /\ EntriesSeen /\ Counted /\ Placed)'
      BY <1>4 DEF vars, IInv, RowsSeen, WritersSeen, EntriesSeen, Counted, Placed, Versions,
                  Committed, Writer, Redacted, Sound, Readable
    <2>3. RequestsSeen'
      BY <1>4 DEF vars, IInv, RequestsSeen, Prepared, PreparedWrite, PreparedPromote, PreparedRedact,
                  Versions, Redacted, Current
    <2>4. MovesSeen'
      BY <1>4 DEF vars, IInv, MovesSeen, MovingSeen, Versions, Committed, Writer, Redacted
    <2> QED BY <2>1, <2>2, <2>3, <2>4 DEF IInv
  <1> QED BY <1>1, <1>2, <1>3, <1>4 DEF Next

LEMMA FilesInvariance == Spec => []IInv
  BY InitHolds, StepHolds, PTL DEF Spec

\* What the tables may hold at any time, for any number of operations, actors,
\* calls and failures: a candidate is the latest version, a batch is there just
\* when its operation was completed, and nothing is staged of one that is marked.
THEOREM FilesTypeCorrect == Spec => []TypeOK
  <1>1. IInv => TypeOK
    BY DEF IInv, Typed
  <1> QED BY <1>1, FilesInvariance, PTL

LEMMA PointedHas ==
  ASSUME IInv, NEW n \in Versions, versions[n].path # History(n), Marked(n), ~Redacted(n)
  PROVE  Readable(n)
  BY DEF IInv, Placed, Marked, Writer

\* What the resource points to can be read once its batch is marked, whatever
\* other calls, recoveries and failures are going on.
THEOREM PointedReadable == Spec => []PointedIsReadable
  <1>1. ASSUME IInv PROVE PointedIsReadable
    <2> SUFFICES ASSUME NEW n \in Pointers, Marked(n), ~Redacted(n) PROVE Readable(n)
      BY DEF PointedIsReadable
    <2>1. n \in Versions
      BY <1>1, VersionsAre DEF IInv, RowsSeen, Typed, TypeOK, Pointers
    <2>2. versions[n].path # History(n)
      BY <1>1, <2>1, PathsApart DEF IInv, RowsSeen, Pointers
    <2> QED BY <1>1, <2>1, <2>2, PointedHas
  <1> QED BY <1>1, FilesInvariance, PTL

\* Once every batch is marked, every version is where its row says, those that
\* later ones replaced included.
THEOREM QuietReadable == Spec => []QuietIsReadable
  <1>1. ASSUME IInv PROVE QuietIsReadable
    <2> SUFFICES ASSUME \A o \in Ops : batch[o].status # "db_committed",
                        NEW n \in Versions, ~Redacted(n)
                 PROVE  Readable(n)
      BY DEF QuietIsReadable, Versions
    <2>1. \A o \in Ops : Committed(o) => batch[o].status = "renamed"
      BY <1>1 DEF IInv, Typed, TypeOK, Committed
    <2>2. Writer(n) \in Ops /\ Committed(Writer(n))
      BY <1>1, VersionsAre DEF IInv, RowsSeen
    <2> QED BY <1>1, <2>1, <2>2 DEF IInv, Placed
  <1> QED BY <1>1, FilesInvariance, PTL

\* What was acknowledged is on the disk, or staged to be, unless a batch that
\* replaces it dropped it when its call failed.
THEOREM AcknowledgedKept == Spec => []AcknowledgedIsKept
  <1>1. ASSUME IInv PROVE AcknowledgedIsKept
    <2> SUFFICES ASSUME NEW n \in Numbers, Marked(n), ~Redacted(n)
                 PROVE  \/ \E p \in Paths : disk[p] = versions[n].content
                        \/ \E o \in Ops : batch[o].status = "db_committed"
                             /\ \E p \in DOMAIN batch[o].entries :
                                  batch[o].entries[p] = versions[n].content /\ (p \in staged[o] \/ Dropped(o))
      BY DEF AcknowledgedIsKept
    <2>1. n \in Versions
      BY <1>1 DEF IInv, RowsSeen, Marked, Exists
    <2>2. versions[n].path \in Paths
      BY <1>1, <2>1, VersionsAre DEF IInv
    <2>3. CASE versions[n].path # History(n)
      BY <1>1, <2>1, <2>2, <2>3, PointedHas DEF Readable
    <2>4. CASE versions[n].path = History(n)
      <3>1. PICK o \in Ops : /\ Committed(o) /\ History(n) \in DOMAIN batch[o].entries
                             /\ batch[o].status = "renamed" => Readable(n)
        BY <1>1, <2>1, <2>4 DEF IInv, Placed
      <3>2. batch[o].entries[History(n)] = versions[n].content
        BY <1>1, <2>1, <3>1, SoundBatch
      <3>3. CASE batch[o].status = "renamed"
        BY <2>2, <3>1, <3>3 DEF Readable
      <3>4. CASE batch[o].status = "db_committed"
        BY <2>2, <2>4, <3>1, <3>2, <3>4 DEF Dropped
      <3> QED BY <1>1, <3>1, <3>3, <3>4 DEF IInv, Typed, TypeOK, Committed
    <2> QED BY <2>3, <2>4
  <1> QED BY <1>1, FilesInvariance, PTL

-----------------------------------------------------------------------------
\* What is written stays: a version keeps its number and the batch that wrote it,
\* changes its content for a tombstone only, and its path for its place in the
\* history only (the columns a trigger of the versions' table leaves open).
HistoryKept ==
    [][\A n \in Versions :
         /\ n \in Versions'
         /\ Writer(n)' = Writer(n)
         /\ versions'[n].path \in {versions[n].path, History(n)}
         /\ versions'[n].content = versions[n].content \/ Redacted(n)']_vars

LEMMA CommitKeeps ==
  ASSUME IInv, NEW a \in Actors, Commit(a), NEW n \in Versions
  PROVE  /\ n \in Versions' /\ versions'[n].batch = versions[n].batch
         /\ versions'[n].path \in {versions[n].path, History(n)}
         /\ versions'[n].content = versions[n].content \/ Redacted(n)'
  <1> PICK o, e : o = actor[a].op /\ e = actor[a].entries
    OBVIOUS
  <1>1. /\ Committing(a) /\ o \in Ops /\ n \in Numbers /\ versions[n] \in Rows
        /\ resource.version \in Nat /\ n \in Nat /\ n > 0 /\ n # resource.version + 1
    BY CommittingIs, VersionsAre DEF Commit, Committing, At, IInv, Typed
  <1>2. CASE Acceptable(o) /\ request[o].kind = "redact"
    <2>1. versions'[n] = IF Tombstone(o, n) \in Range(e)
                         THEN [versions[n] EXCEPT !.content = Tombstone(o, n)] ELSE versions[n]
      BY <1>1, <1>2 DEF Commit, Redact
    <2>2. Versions' = Versions
      BY <1>2 DEF Commit, Redact, Versions
    <2>3. CASE Tombstone(o, n) \in Range(e)
      <3>1. /\ versions'[n].batch = versions[n].batch /\ versions'[n].path = versions[n].path
            /\ versions'[n].content = Tombstone(o, n)
        BY <1>1, <2>1, <2>3 DEF Rows
      <3> QED BY <1>1, <2>2, <3>1, TombstonesAre DEF Redacted
    <2> QED BY <2>1, <2>2, <2>3
  <1>3. CASE Acceptable(o) /\ request[o].kind # "redact"
    <2>1. WriteVersion(o, e)
      BY <1>3 DEF Commit
    <2>2. PICK r, p : Writes(o, e, r, p)
      BY <1>1, <1>3, <2>1, WritesIts
    <2>3. /\ versions'[n] = IF n = r THEN [versions[n] EXCEPT !.path = History(n)] ELSE versions[n]
          /\ resource'.version = resource.version + 1
      BY <1>1, <2>2 DEF Writes
    <2>4. n \in Versions'
      BY <1>1, <2>3 DEF Versions
    <2> QED BY <1>1, <2>3, <2>4 DEF Rows
  <1>4. CASE ~Acceptable(o)
    BY <1>4 DEF Commit, Versions
  <1> QED BY <1>2, <1>3, <1>4

\* No write, promotion, redaction or recovery rewrites what another one recorded:
\* a version keeps its number and batch, and its content unless it is redacted.
THEOREM HistoryStays == Spec => HistoryKept
  <1> DEFINE Kept1 == \A n \in Versions :
                 /\ n \in Versions'
                 /\ Writer(n)' = Writer(n)
                 /\ versions'[n].path \in {versions[n].path, History(n)}
                 /\ versions'[n].content = versions[n].content \/ Redacted(n)'
  <1>1. ASSUME IInv, [Next]_vars PROVE Kept1
    <2>1. CASE UNCHANGED <<resource, versions>>
      BY <2>1 DEF Versions, Writer
    <2>2. CASE \E a \in Actors : Commit(a)
      BY <1>1, <2>2, CommitKeeps DEF Writer
    <2> QED BY <1>1, <2>1, <2>2 DEF Next, vars, Work, Ask, Recover, Stage, Replay, FinalizeBegin,
                                     Move, Mark, Die, Error
  <1>2. IInv /\ [Next]_vars => [Kept1]_vars
    BY <1>1
  <1> QED BY <1>2, FilesInvariance, PTL DEF Spec, HistoryKept

-----------------------------------------------------------------------------
\* The redaction of a resource that has a confirmed version is never finished:
\* its batch conflicts with whoever wrote that version, whatever is retried.
RedactionStuck ==
    \A o \in Ops :
        batch[o].status # "none" /\ request[o].kind = "redact" /\ Target \in DOMAIN batch[o].entries
            => batch[o].status = "db_committed" /\ Conflict(o)

\* No version was written by a redaction, and none is marked that has the file
\* of the resource.
Unwritten ==
    /\ \A n \in Versions : request[Writer(n)].kind # "redact"
    /\ \A o \in Ops : request[o].kind = "redact" /\ Target \in DOMAIN batch[o].entries =>
         batch[o].status # "renamed"

LEMMA StuckConflict ==
  ASSUME IInv, Unwritten
  PROVE  RedactionStuck
  <1> SUFFICES ASSUME NEW o \in Ops, Committed(o), request[o].kind = "redact",
                      Target \in DOMAIN batch[o].entries
               PROVE  batch[o].status = "db_committed" /\ Conflict(o)
    BY DEF RedactionStuck, Committed
  <1>1. batch[o].status = "db_committed"
    BY DEF Unwritten, IInv, Typed, TypeOK, Committed
  <1>2. resource.confirmed > 0
    BY DEF IInv, EntriesSeen, Sound
  <1>3. resource.confirmed \in Versions /\ versions[resource.confirmed].path = Target
    BY <1>2, CurrentIs DEF IInv, RowsSeen
  <1>4. Writer(resource.confirmed) # o
    BY <1>3 DEF Unwritten
  <1> QED BY <1>1, <1>2, <1>3, <1>4 DEF Conflict, Pointers, Writer

LEMMA StuckStays ==
  ASSUME IInv, IInv', Unwritten, [Next]_vars
  PROVE  Unwritten'
  <1>1. \A n \in Versions : Writer(n) \in Ops /\ Committed(Writer(n)) /\ n \in Numbers
    BY VersionsAre DEF IInv, RowsSeen
  <1>2. \A o \in Ops : /\ Committed(o) => request[o].kind # "none" /\ request[o] # NoRequest
    BY DEF IInv, Typed, TypeOK, RequestsSeen, Committed, NoRequest
  <1>3. CASE UNCHANGED <<resource, versions, batch, request>>
    BY <1>3 DEF Unwritten, Versions, Writer
  <1>4. ASSUME NEW a \in Actors, NEW o \in Ops, Ask(a, o) PROVE Unwritten'
    <2>1. UNCHANGED <<resource, versions, batch>>
      BY <1>4 DEF Ask
    <2>2. \A y \in Ops : y # o \/ request[o] # NoRequest => request'[y] = request[y]
      BY <1>4 DEF Ask, IInv, Typed
    <2>3. \A y \in Ops : Committed(y) => request'[y] = request[y]
      BY <1>2, <2>2
    <2>4. \A y \in Ops : batch[y].status = "renamed" => Committed(y)
      BY DEF Committed
    <2> QED BY <1>1, <2>1, <2>3, <2>4 DEF Unwritten, Versions, Writer
  <1>5. ASSUME NEW a \in Actors, Mark(a) PROVE Unwritten'
    <2> DEFINE o == actor[a].op
    <2>1. /\ UNCHANGED <<resource, versions, request>> /\ o \in Ops
          /\ actor[a].pc \in {"moving", "marking"} /\ MovingSeen(a)
      BY <1>5, ActorIs DEF Mark, At, IInv, MovesSeen
    <2>2. \A y \in Ops : /\ batch'[y].entries = batch[y].entries
                         /\ y # o => batch'[y].status = batch[y].status
      <3>1. batch \in [Ops -> BatchRecords] /\ batch' = [batch EXCEPT ![o].status = "renamed"]
        BY <1>5 DEF Mark, IInv, Typed
      <3> QED BY <2>1, <3>1 DEF BatchRecords
    <2>3. ASSUME request[o].kind = "redact", Target \in DOMAIN batch[o].entries PROVE FALSE
      <3>1. actor[a].pc = "moving"
        BY <2>1, <2>3 DEF MovingSeen, Unwritten
      <3>2. resource.confirmed > 0 /\ Writer(resource.confirmed) = o
        BY <2>1, <2>3, <3>1 DEF MovingSeen
      <3> QED BY <2>3, <3>2, CurrentIs DEF Unwritten
    <2> QED BY <2>1, <2>2, <2>3 DEF Unwritten, Versions, Writer
  <1>6. ASSUME NEW a \in Actors, Commit(a) PROVE Unwritten'
    <2> PICK o, e : o = actor[a].op /\ e = actor[a].entries
      OBVIOUS
    <2>1. Committing(a) /\ o \in Ops /\ ~Committed(o)
      BY <1>6, CommittingIs DEF Commit, Committing, At
    <2>2. CASE ~Acceptable(o)
      <3>1. /\ UNCHANGED <<resource, versions, batch>>
            /\ request' = [request EXCEPT ![o].status = "failed"] /\ request \in [Ops -> RequestRecords]
        BY <1>6, <2>2 DEF Commit, IInv, Typed
      <3>2. \A y \in Ops : request'[y].kind = request[y].kind
        BY <2>1, <3>1 DEF RequestRecords
      <3> QED BY <1>1, <3>1, <3>2 DEF Unwritten, Versions, Writer
    <2>3. CASE Acceptable(o)
      <3>1. CommitBy(a, o, e)
        BY <1>6, <2>3 DEF Commit, CommitBy
      <3>2. /\ batch'[o].status = "db_committed" /\ request'[o].kind = request[o].kind
            /\ \A y \in Ops \ {o} : batch'[y] = batch[y] /\ request'[y] = request[y]
        BY <2>1, <3>1, CommitTyped
      <3>3. \A n \in Versions : Writer(n)' = Writer(n) /\ Writer(n) # o
        BY <1>1, <1>6, <2>1, CommitKeeps DEF Writer
      <3>4. ASSUME NEW n \in Versions', n \notin Versions
            PROVE  Writer(n)' = o /\ request[o].kind # "redact"
        <4>1. CASE request[o].kind = "redact"
          BY <1>6, <2>3, <3>4, <4>1 DEF Commit, Redact, Versions
        <4>2. CASE request[o].kind # "redact"
          <5>1. WriteVersion(o, e)
            BY <1>6, <2>3, <4>2 DEF Commit
          <5>2. PICK r, p : Writes(o, e, r, p)
            BY <2>1, <2>3, <4>2, <5>1, WritesIts
          <5>3. resource'.version = resource.version + 1 /\ resource.version \in Nat
            BY <5>2, VersionsAre DEF Writes, IInv
          <5>4. n = resource.version + 1 /\ n \in Numbers
            BY <2>1, <3>4, <5>3, CommittingIs DEF Versions
          <5>5. versions'[n].batch = o
            BY <5>2, <5>4 DEF Writes
          <5> QED BY <4>2, <5>5 DEF Writer
        <4> QED BY <4>1, <4>2
      <3>5. ASSUME NEW n \in Versions' PROVE request'[versions'[n].batch].kind # "redact"
        <4>1. CASE n \in Versions
          BY <1>1, <3>2, <3>3, <4>1 DEF Unwritten, Writer
        <4>2. CASE n \notin Versions
          BY <3>2, <3>4, <4>2 DEF Writer
        <4> QED BY <4>1, <4>2
      <3> QED BY <2>1, <3>2, <3>5 DEF Unwritten, Writer
    <2> QED BY <2>2, <2>3
  <1>7. CASE UNCHANGED vars
    BY <1>3, <1>7 DEF vars
  <1> QED BY <1>3, <1>4, <1>5, <1>6, <1>7 DEF Next, Work, Recover, Stage, Replay, FinalizeBegin,
                                          Move, Die, Error

\* For any schedule, the batch of a redaction that contains the file of the
\* resource stays unfinished: retries and recovery find the conflict again.
THEOREM RedactionsStick == Spec => []RedactionStuck
  <1>1. Init => Unwritten
    BY DEF Init, Unwritten, Versions, NoBatch
  <1>2. IInv /\ IInv' /\ Unwritten /\ [Next]_vars => Unwritten'
    BY StuckStays
  <1>3. IInv /\ Unwritten => RedactionStuck
    BY StuckConflict
  <1> QED BY <1>1, <1>2, <1>3, FilesInvariance, PTL DEF Spec

=============================================================================

-------------------------- MODULE WorkspaceFilesProofs --------------------------
(* Theorems about WorkspaceFiles: for any contents, operations and calls, and  *)
(* for any number of calls that die or do not hear of their commit.            *)
EXTENDS WorkspaceFiles, FiniteSetTheorems, TLAPS

-----------------------------------------------------------------------------
\* The inductive invariant.

\* The three tables of the database tell one story: the row is what the latest
\* transaction made of it, and every transaction is the one of its operation.
Ledger ==
    /\ log \in Seq(Transactions) /\ Len(log) <= MaxCalls
    /\ file \in Files /\ file.version <= Len(log)
    /\ file = IF log = <<>> THEN NoFile ELSE log[Len(log)].next
    /\ applied \in [Ops -> 0 .. Failed]
    /\ \A o \in Ops : applied[o] \in Calls => applied[o] \in DOMAIN log
    /\ \A i \in DOMAIN log : applied[log[i].op] = i
    /\ \A i, j \in DOMAIN log : log[i].by = log[j].by => i = j
    /\ \A i \in DOMAIN log : log[i].kind # "write" => log[i].next = NoFile

CallRows ==
    [pc : {"unused", "staged", "finalize", "moved", "cleanup", "done"},
     op : Ops \cup {"none"}, tx : 0 .. MaxCalls]

\* A call, the file it staged, and the transactions and requests it refers to.
Fits(k, x, body, l, requests) ==
    /\ x \in CallRows /\ body \in Contents \cup {None}
    /\ x.pc \in {"unused", "staged"} => x.tx = 0 /\ \A i \in DOMAIN l : l[i].by # k
    /\ x.pc = "staged" => /\ x.op \in Ops /\ requests[x.op] \in Requests
                          /\ body = requests[x.op].content
    /\ x.pc \in {"finalize", "moved", "cleanup"} => x.tx # 0
    /\ x.tx # 0 => x.tx \in DOMAIN l
    /\ \A i \in DOMAIN l : l[i].by = k /\ x.tx # 0 => x.tx = i

CallsFit ==
    /\ call \in [Calls -> CallRows] /\ staged \in [Calls -> Contents \cup {None}]
    /\ request \in [Ops -> Requests \cup {NoRequest}]
    /\ \A k \in Calls : Fits(k, call[k], staged[k], log, request)

\* Who moved the file holds the lock until the transaction is marked.
Locked ==
    /\ pending \subseteq DOMAIN log
    /\ \A k \in Calls : call[k].pc = "moved" <=> lock = k
    /\ \A k \in Calls : lock = k => disk = log[call[k].tx].next.content
    /\ lock = Recovery =>
         pending # {} /\ \A i \in pending : Oldest(i) => disk = log[i].next.content

Others == disk \in Contents \cup {None} /\ lock \in 0 .. Free /\ faults \in 0 .. MaxFaults

IInv == Ledger /\ CallsFit /\ Locked /\ Others /\ MarkedIsReadable /\ LatestKept

-----------------------------------------------------------------------------
LEMMA Numbers ==
  /\ MaxCalls \in Nat /\ MaxFaults \in Nat
  /\ Calls = 1 .. MaxCalls /\ Failed \notin Calls /\ Failed # 0
  /\ Free \notin Calls /\ Recovery \notin Calls /\ Free # Recovery
  BY WorkspaceFilesAssumption DEF Calls, Failed, Free, Recovery

LEMMA RequestKinds ==
  /\ NoRequest \notin Requests
  /\ \A r \in Requests :
       /\ r.kind \in {"write", "remove"} /\ r.expected \in Versions
       /\ r.kind = "write" => r.content \in Contents
       /\ r.kind = "remove" => r.content = None
       /\ r.content \in Contents \cup {None}
  BY DEF Requests, NoRequest

LEMMA FileKinds ==
  /\ NoFile \in Files /\ NoFile.content = None /\ NoFile.version = 0
  /\ \A f \in Files : f.version \in Nat /\ f.content \in Contents \cup {None}
  /\ \A f \in Files : f # NoFile => f.content \in Contents
  BY Numbers DEF Files, NoFile, Versions

LEMMA InvImplies == IInv => TypeOK /\ AppliedOnce /\ MarkedIsReadable /\ LatestKept
  <1> SUFFICES ASSUME IInv PROVE TypeOK /\ AppliedOnce
    BY DEF IInv
  <1>1. DOMAIN log = 1 .. Len(log) /\ Len(log) \in Nat /\ Len(log) <= MaxCalls
    BY DEF IInv, Ledger
  <1>2. pending \in SUBSET (1 .. MaxCalls)
    BY <1>1, Numbers DEF IInv, Locked
  <1>3. request \in [Ops -> [kind : {"none", "write", "remove"}, expected : Versions,
                             content : Contents \cup {None}]]
    <2>1. NoRequest \in [kind : {"none", "write", "remove"}, expected : Versions,
                         content : Contents \cup {None}]
      BY Numbers DEF NoRequest, Versions
    <2>2. Requests \subseteq [kind : {"none", "write", "remove"}, expected : Versions,
                              content : Contents \cup {None}]
      BY DEF Requests
    <2> QED BY <2>1, <2>2 DEF IInv, CallsFit
  <1>4. TypeOK
    BY <1>2, <1>3 DEF IInv, Ledger, CallsFit, Others, CallRows, TypeOK
  <1>5. AppliedOnce
    BY DEF IInv, Ledger, AppliedOnce
  <1> QED BY <1>4, <1>5

LEMMA InitInv == Init => IInv
  <1> SUFFICES ASSUME Init PROVE IInv
    OBVIOUS
  <1>1. Ledger
    <2>1. log \in Seq(Transactions) /\ Len(log) = 0 /\ DOMAIN log = {} /\ log = <<>>
      BY DEF Init
    <2>2. applied \in [Ops -> 0 .. Failed] /\ \A o \in Ops : applied[o] \notin Calls
      BY Numbers DEF Init, Failed
    <2> QED BY <2>1, <2>2, Numbers, FileKinds DEF Init, Ledger
  <1>2. CallsFit
    <2>1. NoCall \in CallRows
      BY Numbers DEF NoCall, CallRows
    <2> QED BY <2>1 DEF Init, CallsFit, Fits, NoCall
  <1>3. Locked /\ Others
    BY Numbers DEF Init, Locked, Others, NoCall, Free
  <1>4. MarkedIsReadable /\ LatestKept
    BY DEF Init, MarkedIsReadable, LatestKept
  <1> QED BY <1>1, <1>2, <1>3, <1>4 DEF IInv

-----------------------------------------------------------------------------
\* The transaction of the database.

\* A call that has not committed finds room in the log: every transaction there
\* is by a call of its own.
LEMMA RoomInLog ==
  ASSUME IInv, NEW k \in Calls, call[k].pc = "staged"
  PROVE  Len(log) + 1 \in Calls
  <1> DEFINE n == Len(log)
             f == [i \in 1 .. n |-> log[i].by]
  <1>1. n \in Nat /\ DOMAIN log = 1 .. n /\ \A i \in 1 .. n : log[i] \in Transactions
    BY DEF IInv, Ledger
  <1>2. \A i \in 1 .. n : f[i] \in Calls \ {k}
    BY <1>1 DEF IInv, CallsFit, Fits, Transactions
  <1>3. f \in Injection(1 .. n, Calls \ {k})
    BY <1>1, <1>2 DEF IInv, Ledger, Injection, IsInjective
  <1>4. IsFiniteSet(Calls) /\ Cardinality(Calls) = MaxCalls
    <2>1. IsFiniteSet(1 .. MaxCalls)
          /\ Cardinality(1 .. MaxCalls) = IF 1 > MaxCalls THEN 0 ELSE MaxCalls - 1 + 1
      BY Numbers, FS_Interval
    <2> QED BY <2>1, Numbers
  <1>5. IsFiniteSet(Calls \ {k}) /\ Cardinality(Calls \ {k}) = MaxCalls - 1
    BY <1>4, FS_RemoveElement
  <1>6. Cardinality(1 .. n) <= MaxCalls - 1
    BY <1>3, <1>5, FS_Injection
  <1>7. Cardinality(1 .. n) = n
    BY <1>1, FS_Interval
  <1> QED BY <1>1, <1>6, <1>7, Numbers

\* What a call commits.
LEMMA Applies ==
  ASSUME IInv, NEW k \in Calls, call[k].pc = "staged", applied[call[k].op] = 0,
         Apply(k, call[k].op)
  PROVE  /\ Ledger'
         /\ \E x \in Transactions :
              /\ log' = Append(log, x) /\ x.by = k /\ x.status = "db_committed" /\ x.next = file'
              /\ file' # NoFile => file'.content = staged[k]
         /\ applied' = [applied EXCEPT ![call[k].op] = Len(log) + 1]
         /\ Len(log) + 1 \in Calls
  <1> DEFINE o == call[k].op
             n == Len(log)
             x == Record(k, o)
  <1>1. o \in Ops /\ request[o] \in Requests /\ staged[k] = request[o].content
    BY DEF IInv, CallsFit, Fits
  <1>2. n + 1 \in Calls
    BY RoomInLog
  <1>3. log \in Seq(Transactions) /\ n \in Nat /\ DOMAIN log = 1 .. n
        /\ file \in Files /\ file.version \in Nat /\ file.version <= n
    BY FileKinds DEF IInv, Ledger
  <1>4. file' = After(request[o]) /\ log' = Append(log, x)
        /\ applied' = [applied EXCEPT ![o] = n + 1]
    BY DEF Apply
  <1>5. After(request[o]) \in Files /\ After(request[o]).version <= n + 1
        /\ (After(request[o]) # NoFile => After(request[o]).content = request[o].content)
    <2>1. CASE request[o].kind = "write"
      <3>1. After(request[o]) = [version |-> file.version + 1, content |-> request[o].content]
        BY <2>1 DEF After
      <3>2. file.version + 1 \in Versions \ {0} /\ request[o].content \in Contents
        BY <1>1, <1>2, <1>3, <2>1, Numbers, RequestKinds DEF Versions
      <3> QED BY <1>3, <3>1, <3>2 DEF Files
    <2>2. CASE request[o].kind # "write"
      BY <1>3, <2>2, FileKinds DEF After
    <2> QED BY <2>1, <2>2
  <1>6. /\ x \in Transactions /\ x.by = k /\ x.op = o /\ x.status = "db_committed"
        /\ x.next = file' /\ (x.kind # "write" => x.next = NoFile)
    <2>1. request[o].kind \in {"write", "remove"}
      BY <1>1, RequestKinds
    <2>2. request[o].kind # "write" => After(request[o]) = NoFile
      BY DEF After
    <2> QED BY <1>1, <1>3, <1>4, <1>5, <2>1, <2>2 DEF Record, Transactions
  <1> HIDE DEF x
  <1>7. /\ log' \in Seq(Transactions) /\ Len(log') = n + 1 /\ DOMAIN log' = 1 .. n + 1
        /\ log'[n + 1] = x /\ \A i \in 1 .. n : log'[i] = log[i]
    BY <1>3, <1>4, <1>6
  <1>8. Ledger'
    <2>1. \A i \in 1 .. n : log[i].op # o /\ log[i].by # k
      <3>1. \A i \in 1 .. n : log[i].op # o
        BY <1>3 DEF IInv, Ledger
      <3>2. \A i \in 1 .. n : log[i].by # k
        BY <1>3 DEF IInv, CallsFit, Fits
      <3> QED BY <3>1, <3>2
    <2>2. applied' \in [Ops -> 0 .. Failed]
      <3>1. n + 1 \in 0 .. Failed
        BY <1>2, Numbers DEF Failed
      <3> QED BY <1>4, <3>1 DEF IInv, Ledger
    <2>3. \A p \in Ops : applied'[p] \in Calls => applied'[p] \in DOMAIN log'
      <3>1. \A p \in Ops : applied'[p] = n + 1 \/ applied'[p] = applied[p]
        BY <1>4 DEF IInv, Ledger
      <3>2. \A p \in Ops : applied[p] \in Calls => applied[p] \in 1 .. n
        BY <1>3 DEF IInv, Ledger
      <3> QED BY <1>3, <1>7, <3>1, <3>2
    <2>4. \A i \in DOMAIN log' : applied'[log'[i].op] = i
      <3>1. applied'[o] = n + 1
        BY <1>1, <1>4 DEF IInv, Ledger
      <3>2. \A i \in 1 .. n : log[i].op \in Ops /\ applied[log[i].op] = i
        <4>1. \A i \in 1 .. n : log[i] \in Transactions
          BY <1>3
        <4> QED BY <1>3, <4>1 DEF IInv, Ledger, Transactions
      <3>3. \A i \in 1 .. n : applied'[log[i].op] = i
        BY <1>4, <2>1, <3>2 DEF IInv, Ledger
      <3> QED BY <1>3, <1>6, <1>7, <3>1, <3>3
    <2>5. \A i, j \in DOMAIN log' : log'[i].by = log'[j].by => i = j
      BY <1>3, <1>6, <1>7, <2>1 DEF IInv, Ledger
    <2>6. Len(log') <= MaxCalls /\ file' = log'[Len(log')].next /\ log' # <<>>
      BY <1>2, <1>3, <1>6, <1>7, Numbers
    <2>7. \A i \in DOMAIN log' : log'[i].kind # "write" => log'[i].next = NoFile
      BY <1>3, <1>6, <1>7 DEF IInv, Ledger
    <2> QED BY <1>4, <1>5, <1>7, <2>2, <2>3, <2>4, <2>5, <2>6, <2>7 DEF Ledger
  <1> QED BY <1>1, <1>2, <1>4, <1>5, <1>6, <1>8

\* What a call knows does not depend on the marks of the transactions.
LEMMA FitsSame ==
  ASSUME NEW k, NEW x, NEW b, NEW l, NEW m, NEW r, Fits(k, x, b, l, r),
         DOMAIN m = DOMAIN l, \A i \in DOMAIN l : m[i].by = l[i].by
  PROVE  Fits(k, x, b, m, r)
  BY DEF Fits

LEMMA FitsLonger ==
  ASSUME NEW k, NEW x, NEW b, NEW r, Fits(k, x, b, log, r), log \in Seq(Transactions),
         NEW y \in Transactions, y.by # k
  PROVE  Fits(k, x, b, Append(log, y), r)
  <1> DEFINE m == Append(log, y)
             n == Len(log)
  <1>1. n \in Nat /\ DOMAIN log = 1 .. n /\ DOMAIN m = 1 .. n + 1
        /\ m[n + 1] = y /\ \A i \in 1 .. n : m[i] = log[i]
    OBVIOUS
  <1> HIDE DEF m
  <1>2. \A i \in DOMAIN m : m[i].by = k => i \in DOMAIN log /\ log[i].by = k
    BY <1>1
  <1>3. DOMAIN log \subseteq DOMAIN m
    BY <1>1
  <1>4. Fits(k, x, b, m, r)
    BY <1>2, <1>3 DEF Fits
  <1> QED BY <1>4 DEF m

\* A transaction is marked.
LEMMA Marked ==
  ASSUME IInv, NEW i \in DOMAIN log, Mark(i), UNCHANGED <<file, applied>>
  PROVE  /\ Ledger' /\ DOMAIN log' = DOMAIN log /\ Len(log') = Len(log)
         /\ \A j \in DOMAIN log : log'[j].by = log[j].by /\ log'[j].next = log[j].next
                                  /\ (j # i => log'[j] = log[j])
  <1>1. log \in Seq(Transactions) /\ log[i] \in Transactions /\ DOMAIN log = 1 .. Len(log)
    BY DEF IInv, Ledger
  <1> DEFINE x == [log[i] EXCEPT !.status = "renamed"]
  <1>2. x \in Transactions /\ x.by = log[i].by /\ x.op = log[i].op /\ x.next = log[i].next
        /\ x.kind = log[i].kind
    BY <1>1 DEF Transactions
  <1>3. log' = [log EXCEPT ![i] = x]
    BY DEF Mark
  <1> HIDE DEF x
  <1>4. /\ log' \in Seq(Transactions) /\ Len(log') = Len(log) /\ DOMAIN log' = DOMAIN log
        /\ log'[i] = x /\ \A j \in DOMAIN log \ {i} : log'[j] = log[j]
    BY <1>1, <1>2, <1>3
  <1>5. \A j \in DOMAIN log : /\ log'[j].by = log[j].by /\ log'[j].op = log[j].op
                              /\ log'[j].next = log[j].next /\ log'[j].kind = log[j].kind
    BY <1>2, <1>4
  <1>6. file = IF log' = <<>> THEN NoFile ELSE log'[Len(log')].next
    <2>1. log' = <<>> <=> log = <<>>
      BY <1>1, <1>4
    <2>2. log # <<>> => Len(log) \in DOMAIN log
      BY <1>1
    <2> QED BY <1>4, <1>5, <2>1, <2>2 DEF IInv, Ledger
  <1>7. Ledger'
    BY <1>4, <1>5, <1>6 DEF IInv, Ledger
  <1> QED BY <1>4, <1>5, <1>7

\* A move puts the content of the row in place: nothing else may be moved.
LEMMA MovesRow ==
  ASSUME IInv, NEW i \in DOMAIN log, Move(i)
  PROVE  /\ disk' = log[i].next.content /\ disk' = file.content
         /\ disk' \in Contents \cup {None}
         /\ staged' \in [Calls -> Contents \cup {None}]
         /\ \A k \in Calls : Fits(k, call[k], staged'[k], log, request)
  <1>1. disk' = log[i].next.content
    BY DEF Move
  <1>2. file = log[i].next
    <2>1. CASE log[i].kind = "write"
      BY <2>1 DEF Move, Moves, WriteMoves
    <2>2. CASE log[i].kind # "write"
      BY <2>2 DEF Move, Moves, RemoveMoves, IInv, Ledger
    <2> QED BY <2>1, <2>2
  <1>3. disk' \in Contents \cup {None}
    BY <1>1, <1>2, FileKinds DEF IInv, Ledger
  <1>4. staged' = staged \/ staged' = [staged EXCEPT ![log[i].by] = None]
    BY DEF Move
  <1>5. staged' \in [Calls -> Contents \cup {None}]
    BY <1>4 DEF IInv, CallsFit
  <1>6. ASSUME NEW k \in Calls PROVE Fits(k, call[k], staged'[k], log, request)
    <2>1. Fits(k, call[k], staged[k], log, request)
      BY DEF IInv, CallsFit
    <2>2. CASE staged'[k] = staged[k]
      BY <2>1, <2>2
    <2>3. CASE staged'[k] # staged[k]
      <3>1. log[i].by = k
        BY <1>4, <2>3 DEF IInv, CallsFit
      <3>2. call[k].pc # "staged"
        BY <2>1, <3>1 DEF Fits
      <3>3. staged'[k] \in Contents \cup {None}
        BY <1>5
      <3> QED BY <2>1, <3>2, <3>3 DEF Fits
    <2> QED BY <2>2, <2>3
  <1> QED BY <1>1, <1>2, <1>3, <1>5, <1>6

\* A call moves on without touching what is stored.
LEMMA CallGoes ==
  ASSUME CallsFit, NEW k \in Calls, NEW x,
         \A b \in Contents \cup {None} : Fits(k, x, b, log, request), call' = [call EXCEPT ![k] = x],
         UNCHANGED <<log, request>>, staged' \in [Calls -> Contents \cup {None}],
         \A j \in Calls \ {k} : Fits(j, call[j], staged'[j], log, request)
  PROVE  CallsFit'
  <1>1. staged'[k] \in Contents \cup {None}
    OBVIOUS
  <1>2. x \in CallRows
    BY <1>1 DEF Fits
  <1>3. call' \in [Calls -> CallRows] /\ call'[k] = x /\ \A j \in Calls \ {k} : call'[j] = call[j]
    BY <1>2 DEF CallsFit
  <1>4. \A j \in Calls : Fits(j, call'[j], staged'[j], log, request)
    BY <1>1, <1>3
  <1> QED BY <1>3, <1>4 DEF CallsFit

-----------------------------------------------------------------------------
\* The steps.

\* Nothing is stored and nothing is put in place: only calls and their staging
\* files change, and not the file that the latest transaction names.
LEMMA CallsOnly ==
  ASSUME IInv, CallsFit', UNCHANGED <<rows, disk, pending, lock>>, faults' \in 0 .. MaxFaults,
         NEW k \in Calls, NEW x,
         call' = [call EXCEPT ![k] = x], x.pc # "moved", call[k].pc # "moved",
         x.tx # call[k].tx \/ staged'[k] # staged[k] => \A i \in DOMAIN log : i = Len(log) => log[i].by # k,
         \A j \in Calls \ {k} : staged'[j] = staged[j]
  PROVE  IInv'
  <1>1. UNCHANGED <<file, log, applied>>
    BY DEF rows
  <1>2. Ledger'
    BY <1>1 DEF IInv, Ledger
  <1>3. \A j \in Calls : call'[j].pc = "moved" <=> call[j].pc = "moved"
    BY DEF IInv, CallsFit
  <1>4. \A j \in Calls : lock = j => call'[j] = call[j]
    <2>1. lock # k
      BY DEF IInv, Locked
    <2> QED BY <2>1 DEF IInv, CallsFit
  <1>5. Locked'
    BY <1>1, <1>3, <1>4 DEF IInv, Locked, Oldest
  <1>6. Others' /\ MarkedIsReadable'
    BY <1>1 DEF IInv, Others, MarkedIsReadable, Last
  <1>7. LatestKept'
    <2> SUFFICES ASSUME file # NoFile, call'[log[Len(log)].by].tx # 0
                 PROVE  disk = file.content \/ staged'[log[Len(log)].by] = file.content
      BY <1>1 DEF LatestKept, Heard, Last
    <2> DEFINE n == Len(log)
               j == log[n].by
    <2>1. n \in DOMAIN log /\ j \in Calls
      <3>1. log \in Seq(Transactions) /\ log # <<>>
        BY DEF IInv, Ledger
      <3>2. n \in DOMAIN log /\ log[n] \in Transactions
        BY <3>1
      <3> QED BY <3>2 DEF Transactions
    <2>2. CASE j = k
      <3>1. x.tx = call[k].tx /\ staged'[k] = staged[k]
        BY <2>1, <2>2
      <3>2. call'[k] = x
        BY DEF IInv, CallsFit
      <3> QED BY <2>2, <3>1, <3>2 DEF IInv, LatestKept, Heard, Last
    <2>3. CASE j # k
      <3>1. call'[j] = call[j] /\ staged'[j] = staged[j]
        BY <2>1, <2>3 DEF IInv, CallsFit
      <3> QED BY <3>1 DEF IInv, LatestKept, Heard, Last
    <2> QED BY <2>2, <2>3
  <1> QED BY <1>2, <1>5, <1>6, <1>7 DEF IInv

LEMMA BeginInv ==
  ASSUME IInv, NEW k \in Calls, NEW o \in Ops, Begin(k, o) PROVE IInv'
  <1> DEFINE x == [pc |-> "staged", op |-> o, tx |-> 0]
  <1>1. PICK r \in Requests :
          /\ IF request[o] = NoRequest THEN r.expected <= file.version ELSE r = request[o]
          /\ request' = [request EXCEPT ![o] = r]
          /\ staged' = [staged EXCEPT ![k] = r.content]
    BY DEF Begin
  <1>2. call[k].pc = "unused" /\ call[k].tx = 0
    BY DEF Begin, NoCall
  <1>3. \A i \in DOMAIN log : log[i].by # k
    BY <1>2 DEF IInv, CallsFit, Fits
  <1>4. UNCHANGED <<log, rows, disk, pending, lock, faults>> /\ call' = [call EXCEPT ![k] = x]
    BY DEF Begin, rows
  <1>5. r.content \in Contents \cup {None}
    BY RequestKinds
  <1>6. x \in CallRows /\ x.pc = "staged" /\ x.op = o /\ x.tx = 0
    BY Numbers DEF CallRows
  <1> HIDE DEF x
  <1>7. CallsFit'
    <2>1. request' \in [Ops -> Requests \cup {NoRequest}] /\ request'[o] = r
      BY <1>1 DEF IInv, CallsFit
    <2>2. staged' \in [Calls -> Contents \cup {None}] /\ staged'[k] = r.content
      BY <1>1, <1>5 DEF IInv, CallsFit
    <2>3. call' \in [Calls -> CallRows] /\ call'[k] = x
      BY <1>4, <1>6 DEF IInv, CallsFit
    <2>4. Fits(k, call'[k], staged'[k], log', request')
      BY <1>3, <1>4, <1>5, <1>6, <2>1, <2>2, <2>3 DEF Fits
    <2>5. ASSUME NEW j \in Calls \ {k} PROVE Fits(j, call'[j], staged'[j], log', request')
      <3>1. call'[j] = call[j] /\ staged'[j] = staged[j]
        BY <1>1, <1>4 DEF IInv, CallsFit
      <3>2. Fits(j, call[j], staged[j], log, request)
        BY DEF IInv, CallsFit
      <3>3. call[j].pc = "staged" => request'[call[j].op] = request[call[j].op]
        BY <1>1, <3>2, RequestKinds DEF Fits, IInv, CallsFit
      <3> QED BY <1>4, <3>1, <3>2, <3>3 DEF Fits
    <2> QED BY <2>1, <2>2, <2>3, <2>4, <2>5 DEF CallsFit
  <1>8. \A j \in Calls \ {k} : staged'[j] = staged[j]
    BY <1>1 DEF IInv, CallsFit
  <1>9. faults' \in 0 .. MaxFaults
    BY <1>4 DEF IInv, Others
  <1> QED BY <1>2, <1>3, <1>4, <1>6, <1>7, <1>8, <1>9, CallsOnly

\* A transaction is appended while nobody moves the file.
LEMMA Appends ==
  ASSUME IInv, Ledger', CallsFit', lock = Free, UNCHANGED <<disk, pending, lock>>,
         faults' \in 0 .. MaxFaults, NEW k \in Calls, NEW x, x.pc # "moved",
         call' = [call EXCEPT ![k] = x], NEW y \in Transactions,
         log' = Append(log, y), y.by = k, y.status = "db_committed",
         x.tx # 0 /\ file' # NoFile => staged'[k] = file'.content
  PROVE  IInv'
  <1>1. /\ log \in Seq(Transactions) /\ DOMAIN log = 1 .. Len(log) /\ Len(log) \in Nat
        /\ Len(log') = Len(log) + 1 /\ log'[Len(log')] = y
        /\ DOMAIN log \subseteq DOMAIN log'
    BY DEF IInv, Ledger
  <1>2. call'[k] = x /\ call \in [Calls -> CallRows]
    BY DEF IInv, CallsFit
  <1>3. Locked'
    <2>1. \A j \in Calls : call[j].pc # "moved" /\ lock # j
      BY Numbers DEF IInv, Locked
    <2>2. \A j \in Calls : call'[j].pc # "moved"
      BY <1>2, <2>1
    <2>3. lock # Recovery
      BY Numbers
    <2>4. pending \subseteq DOMAIN log'
      BY <1>1 DEF IInv, Locked
    <2> QED BY <2>1, <2>2, <2>3, <2>4 DEF Locked
  <1>4. Others'
    BY DEF IInv, Others
  <1>5. MarkedIsReadable'
    BY <1>1 DEF MarkedIsReadable, Last
  <1>6. LatestKept'
    <2> SUFFICES ASSUME file' # NoFile, call'[log'[Len(log')].by].tx # 0
                 PROVE  staged'[log'[Len(log')].by] = file'.content
      BY DEF LatestKept, Heard, Last
    <2> QED BY <1>1, <1>2
  <1> QED BY <1>3, <1>4, <1>5, <1>6 DEF IInv

LEMMA CommitInv ==
  ASSUME IInv, NEW k \in Calls, Commit(k) PROVE IInv'
  <1> DEFINE o == call[k].op
  <1>1. call[k].pc = "staged" /\ UNCHANGED <<disk, staged, request, pending, lock, faults>>
    BY DEF Commit
  <1>2. call[k] \in CallRows /\ o \in Ops /\ \A i \in DOMAIN log : log[i].by # k
    BY <1>1 DEF IInv, CallsFit, Fits
  <1>3. faults' \in 0 .. MaxFaults
    BY <1>1 DEF IInv, Others
  <1>4. CASE applied[o] = 0 /\ Apply(k, o)
             /\ call' = [call EXCEPT ![k].pc = "finalize", ![k].tx = Len(log) + 1]
    <2> DEFINE x == [call[k] EXCEPT !.pc = "finalize", !.tx = Len(log) + 1]
    <2>1. call' = [call EXCEPT ![k] = x]
      BY <1>4 DEF IInv, CallsFit
    <2>2. Ledger' /\ Len(log) + 1 \in Calls
      BY <1>1, <1>4, Applies
    <2>3. PICK y \in Transactions :
            /\ log' = Append(log, y) /\ y.by = k /\ y.status = "db_committed"
            /\ file' # NoFile => file'.content = staged[k]
      BY <1>1, <1>4, Applies
    <2>4. x \in CallRows /\ x.pc = "finalize" /\ x.tx = Len(log) + 1
      <3>1. Len(log) + 1 \in 0 .. MaxCalls
        BY <2>2, Numbers
      <3> QED BY <1>2, <3>1 DEF CallRows
    <2> HIDE DEF x
    <2>5. CallsFit'
      <3>1. call' \in [Calls -> CallRows] /\ call'[k] = x
        BY <2>1, <2>4 DEF IInv, CallsFit
      <3>2. DOMAIN log' = 1 .. Len(log) + 1 /\ log'[Len(log) + 1] = y
            /\ \A i \in 1 .. Len(log) : log'[i] = log[i]
            /\ DOMAIN log = 1 .. Len(log) /\ Len(log) \in Nat
        BY <2>3 DEF IInv, Ledger
      <3>3. staged[k] \in Contents \cup {None}
        BY DEF IInv, CallsFit
      <3>4. \A i \in DOMAIN log' : log'[i].by = k => i = Len(log) + 1
        BY <1>2, <3>2
      <3>5. Fits(k, call'[k], staged'[k], log', request')
        <4>1. Len(log) + 1 # 0 /\ Len(log) + 1 \in DOMAIN log'
          BY <3>2
        <4> QED BY <1>1, <2>4, <3>1, <3>3, <3>4, <4>1 DEF Fits
      <3>6. ASSUME NEW j \in Calls \ {k} PROVE Fits(j, call'[j], staged'[j], log', request')
        <4>1. call'[j] = call[j]
          BY <2>1 DEF IInv, CallsFit
        <4>2. Fits(j, call[j], staged[j], log, request) /\ log \in Seq(Transactions)
          BY DEF IInv, CallsFit, Ledger
        <4>3. Fits(j, call[j], staged[j], Append(log, y), request)
          BY <2>3, <4>2, FitsLonger
        <4> QED BY <1>1, <2>3, <4>1, <4>3
      <3> QED BY <1>1, <3>1, <3>5, <3>6 DEF IInv, CallsFit
    <2>6. lock = Free
      BY <1>4 DEF Apply
    <2> QED BY <1>1, <1>3, <2>1, <2>2, <2>3, <2>4, <2>5, <2>6, Appends
  <1>5. CASE applied[o] \in Calls /\ UNCHANGED rows
             /\ call' = [call EXCEPT ![k].pc = "finalize", ![k].tx = applied[o]]
    <2> DEFINE x == [call[k] EXCEPT !.pc = "finalize", !.tx = applied[o]]
    <2>1. call' = [call EXCEPT ![k] = x]
      BY <1>5 DEF IInv, CallsFit
    <2>2. x \in CallRows /\ x.pc = "finalize" /\ x.tx = applied[o]
      <3>1. applied[o] \in 0 .. MaxCalls
        BY <1>5, Numbers
      <3> QED BY <1>2, <3>1 DEF CallRows
    <2>3. x.tx # 0 /\ x.tx \in DOMAIN log
      BY <1>2, <1>5, <2>2, Numbers DEF IInv, Ledger
    <2> HIDE DEF x
    <2>4. \A b \in Contents \cup {None} : Fits(k, x, b, log, request)
      BY <1>2, <2>2, <2>3 DEF Fits
    <2>5. UNCHANGED log
      BY <1>5 DEF rows
    <2>6. CallsFit'
      BY <1>1, <2>1, <2>4, <2>5, CallGoes DEF IInv, CallsFit
    <2> QED BY <1>1, <1>2, <1>3, <1>5, <2>1, <2>2, <2>6, CallsOnly
  <1> QED BY <1>4, <1>5 DEF Commit

LEMMA UnheardInv ==
  ASSUME IInv, NEW k \in Calls, CommitUnheard(k) PROVE IInv'
  <1> DEFINE o == call[k].op
             x == [call[k] EXCEPT !.pc = "done"]
  <1>1. /\ call[k].pc = "staged" /\ applied[o] = 0 /\ Apply(k, o)
        /\ UNCHANGED <<disk, request, pending, lock>> /\ lock = Free
        /\ staged' = [staged EXCEPT ![k] = None]
    BY DEF CommitUnheard, Apply
  <1>2. call[k] \in CallRows /\ call[k].tx = 0 /\ \A i \in DOMAIN log : log[i].by # k
    BY <1>1 DEF IInv, CallsFit, Fits
  <1>3. faults' \in 0 .. MaxFaults
    BY Numbers DEF CommitUnheard, IInv, Others
  <1>4. call' = [call EXCEPT ![k] = x]
    BY DEF CommitUnheard, IInv, CallsFit
  <1>5. Ledger'
    BY <1>1, Applies
  <1>6. PICK y \in Transactions : log' = Append(log, y) /\ y.by = k /\ y.status = "db_committed"
    BY <1>1, Applies
  <1>7. x \in CallRows /\ x.pc = "done" /\ x.tx = 0
    BY <1>2 DEF CallRows
  <1> HIDE DEF x
  <1>8. CallsFit'
    <2>1. call' \in [Calls -> CallRows] /\ call'[k] = x
      BY <1>4, <1>7 DEF IInv, CallsFit
    <2>2. staged' \in [Calls -> Contents \cup {None}] /\ staged'[k] = None
      BY <1>1 DEF IInv, CallsFit
    <2>3. Fits(k, call'[k], staged'[k], log', request')
      BY <1>7, <2>1, <2>2 DEF Fits
    <2>4. ASSUME NEW j \in Calls \ {k} PROVE Fits(j, call'[j], staged'[j], log', request')
      <3>1. call'[j] = call[j] /\ staged'[j] = staged[j]
        BY <1>1, <1>4 DEF IInv, CallsFit
      <3>2. Fits(j, call[j], staged[j], log, request) /\ log \in Seq(Transactions)
        BY DEF IInv, CallsFit, Ledger
      <3>3. Fits(j, call[j], staged[j], Append(log, y), request)
        BY <1>6, <3>2, FitsLonger
      <3> QED BY <1>1, <1>6, <3>1, <3>3
    <2> QED BY <1>1, <2>1, <2>2, <2>3, <2>4 DEF IInv, CallsFit
  <1> QED BY <1>1, <1>3, <1>4, <1>5, <1>6, <1>7, <1>8, Appends

LEMMA RefuseInv ==
  ASSUME IInv, NEW k \in Calls, Refuse(k) PROVE IInv'
  <1> DEFINE o == call[k].op
             x == [call[k] EXCEPT !.pc = "done"]
  <1>1. /\ call[k].pc = "staged" /\ applied[o] \in {0, Failed}
        /\ applied' = [applied EXCEPT ![o] = Failed] /\ staged' = [staged EXCEPT ![k] = None]
        /\ UNCHANGED <<file, log, disk, request, pending, lock, faults>>
    BY DEF Refuse
  <1>2. call[k] \in CallRows /\ o \in Ops /\ call[k].tx = 0 /\ \A i \in DOMAIN log : log[i].by # k
    BY <1>1 DEF IInv, CallsFit, Fits
  <1>3. call' = [call EXCEPT ![k] = x]
    BY DEF Refuse, IInv, CallsFit
  <1>4. x \in CallRows /\ x.pc = "done" /\ x.tx = 0
    BY <1>2 DEF CallRows
  <1> HIDE DEF x
  <1>5. CallsFit'
    <2>1. \A b \in Contents \cup {None} : Fits(k, x, b, log, request)
      BY <1>4 DEF Fits
    <2>2. staged' \in [Calls -> Contents \cup {None}]
          /\ \A j \in Calls \ {k} : staged'[j] = staged[j]
      BY <1>1 DEF IInv, CallsFit
    <2> QED BY <1>1, <1>3, <2>1, <2>2, CallGoes DEF IInv, CallsFit
  <1>6. Ledger'
    <2>1. applied' \in [Ops -> 0 .. Failed] /\ \A p \in Ops : applied'[p] = IF p = o THEN Failed ELSE applied[p]
      <3>1. Failed \in 0 .. Failed
        BY Numbers DEF Failed
      <3> QED BY <1>1, <3>1 DEF IInv, Ledger
    <2>2. \A i \in DOMAIN log : i \in Calls /\ log[i].op \in Ops /\ log[i].op # o
      <3>1. log \in Seq(Transactions) /\ DOMAIN log = 1 .. Len(log) /\ Len(log) <= MaxCalls
            /\ \A i \in DOMAIN log : log[i] \in Transactions /\ applied[log[i].op] = i
        BY DEF IInv, Ledger
      <3>2. \A i \in DOMAIN log : i \in Calls
        BY <3>1, Numbers
      <3> QED BY <1>1, <3>1, <3>2, Numbers DEF Transactions
    <2>3. \A p \in Ops : applied'[p] \in Calls => applied'[p] \in DOMAIN log
      BY <2>1, Numbers DEF IInv, Ledger
    <2>4. \A i \in DOMAIN log : applied'[log[i].op] = i
      BY <2>1, <2>2 DEF IInv, Ledger
    <2> QED BY <1>1, <2>1, <2>3, <2>4 DEF IInv, Ledger
  <1>7. Locked'
    <2>1. \A j \in Calls : call'[j].pc = "moved" <=> call[j].pc = "moved"
      BY <1>1, <1>3, <1>4 DEF IInv, CallsFit
    <2>2. \A j \in Calls : lock = j => call'[j] = call[j]
      <3>1. lock # k
        BY <1>1 DEF IInv, Locked
      <3> QED BY <1>3, <3>1 DEF IInv, CallsFit
    <2> QED BY <1>1, <2>1, <2>2 DEF IInv, Locked, Oldest
  <1>8. Others' /\ MarkedIsReadable'
    BY <1>1 DEF IInv, Others, MarkedIsReadable, Last
  <1>9. LatestKept'
    <2> SUFFICES ASSUME file # NoFile, call'[log[Len(log)].by].tx # 0
                 PROVE  disk = file.content \/ staged'[log[Len(log)].by] = file.content
      BY <1>1 DEF LatestKept, Heard, Last
    <2> DEFINE j == log[Len(log)].by
    <2>1. Len(log) \in DOMAIN log /\ j \in Calls
      <3>1. log \in Seq(Transactions) /\ log # <<>>
        BY DEF IInv, Ledger
      <3>2. Len(log) \in DOMAIN log /\ log[Len(log)] \in Transactions
        BY <3>1
      <3> QED BY <3>2 DEF Transactions
    <2>2. call'[j] = call[j] /\ staged'[j] = staged[j]
      BY <1>1, <1>2, <1>3, <2>1 DEF IInv, CallsFit
    <2> QED BY <2>2 DEF IInv, LatestKept, Heard, Last
  <1> QED BY <1>5, <1>6, <1>7, <1>8, <1>9 DEF IInv

LEMMA CallMovesInv ==
  ASSUME IInv, NEW k \in Calls, CallMoves(k) PROVE IInv'
  <1> DEFINE i == call[k].tx
  <1>1. call[k].pc = "finalize" /\ UNCHANGED <<rows, request, pending, faults>>
    BY DEF CallMoves
  <1>2. call[k] \in CallRows /\ i # 0 /\ i \in DOMAIN log
        /\ \A n \in DOMAIN log : log[n].by = k => i = n
    BY <1>1 DEF IInv, CallsFit, Fits
  <1>3. UNCHANGED <<file, log, applied>> /\ faults' \in 0 .. MaxFaults
    BY <1>1 DEF rows, IInv, Others
  <1>4. ASSUME NEW p \in {"cleanup", "done", "moved"}, NEW x, x = [call[k] EXCEPT !.pc = p]
        PROVE  /\ x.pc = p /\ x.tx = i
               /\ \A b \in Contents \cup {None} : Fits(k, x, b, log, request)
    <2>1. x \in CallRows /\ x.pc = p /\ x.tx = i
      BY <1>2, <1>4 DEF CallRows
    <2> QED BY <1>2, <2>1 DEF Fits
  <1>5. CASE /\ call' = [call EXCEPT ![k].pc = "cleanup"] \/ call' = [call EXCEPT ![k].pc = "done"]
             /\ UNCHANGED <<disk, staged, lock>>
    <2>1. PICK p \in {"cleanup", "done", "moved"} :
            p # "moved" /\ call' = [call EXCEPT ![k] = [call[k] EXCEPT !.pc = p]]
      BY <1>5 DEF IInv, CallsFit
    <2> DEFINE x == [call[k] EXCEPT !.pc = p]
    <2>2. x.pc = p /\ x.tx = i /\ \A b \in Contents \cup {None} : Fits(k, x, b, log, request)
      BY <1>4
    <2>3. call' = [call EXCEPT ![k] = x]
      BY <2>1
    <2> HIDE DEF x
    <2>4. CallsFit'
      BY <1>1, <1>3, <1>5, <2>2, <2>3, CallGoes DEF IInv, CallsFit
    <2> QED BY <1>1, <1>3, <1>5, <2>1, <2>2, <2>3, <2>4, CallsOnly
  <1>6. CASE /\ log[i].status = "db_committed" /\ lock = Free /\ Move(i) /\ lock' = k
             /\ call' = [call EXCEPT ![k].pc = "moved"]
    <2> DEFINE x == [call[k] EXCEPT !.pc = "moved"]
    <2>1. x.pc = "moved" /\ x.tx = i /\ \A b \in Contents \cup {None} : Fits(k, x, b, log, request)
      BY <1>4
    <2>2. call' = [call EXCEPT ![k] = x]
      BY <1>6 DEF IInv, CallsFit
    <2> HIDE DEF x
    <2>3. /\ disk' = log[i].next.content /\ disk' = file.content /\ disk' \in Contents \cup {None}
          /\ staged' \in [Calls -> Contents \cup {None}]
          /\ \A j \in Calls : Fits(j, call[j], staged'[j], log, request)
      BY <1>2, <1>6, MovesRow
    <2>4. CallsFit'
      BY <1>1, <1>3, <2>1, <2>2, <2>3, CallGoes DEF IInv
    <2>5. Ledger'
      BY <1>3 DEF IInv, Ledger
    <2>6. Locked'
      <3>1. \A j \in Calls : call[j].pc # "moved"
        BY <1>6, Numbers DEF IInv, Locked
      <3>2. call'[k] = x /\ \A j \in Calls \ {k} : call'[j] = call[j]
        BY <2>2 DEF IInv, CallsFit
      <3>3. \A j \in Calls : call'[j].pc = "moved" <=> lock' = j
        BY <1>6, <2>1, <3>1, <3>2
      <3> QED BY <1>1, <1>3, <1>6, <2>1, <2>3, <3>2, <3>3, Numbers DEF IInv, Locked
    <2>7. Others'
      BY <1>3, <1>6, <2>3, Numbers DEF Others, Calls, Free
    <2>8. MarkedIsReadable' /\ LatestKept'
      BY <1>3, <2>3 DEF MarkedIsReadable, LatestKept
    <2> QED BY <2>4, <2>5, <2>6, <2>7, <2>8 DEF IInv
  <1> QED BY <1>5, <1>6 DEF CallMoves

\* A transaction is marked by whoever moved the file, and the lock is given back.
LEMMA Marks ==
  ASSUME IInv, NEW i \in DOMAIN log, Mark(i), disk = log[i].next.content, lock # Free,
         UNCHANGED <<file, applied, disk, staged, request, faults>>, lock' = Free,
         pending' \subseteq pending,
         \A k \in Calls : call'[k].tx = call[k].tx /\ call'[k].pc # "moved",
         call' \in [Calls -> CallRows],
         \A k \in Calls : Fits(k, call'[k], staged[k], log, request)
  PROVE  IInv'
  <1>1. /\ Ledger' /\ DOMAIN log' = DOMAIN log /\ Len(log') = Len(log)
        /\ \A j \in DOMAIN log : log'[j].by = log[j].by /\ log'[j].next = log[j].next
                                 /\ (j # i => log'[j] = log[j])
    BY Marked
  <1>2. CallsFit'
    <2>1. \A k \in Calls : Fits(k, call'[k], staged[k], log', request)
      BY <1>1, FitsSame
    <2> QED BY <2>1 DEF IInv, CallsFit
  <1>3. Locked'
    BY <1>1, Numbers DEF IInv, Locked
  <1>4. Others'
    BY Numbers DEF IInv, Others, Free
  <1>5. log \in Seq(Transactions) /\ (log' # <<>> => log # <<>> /\ Len(log) \in DOMAIN log)
    <2>1. log \in Seq(Transactions) /\ log' \in Seq(Transactions)
      BY <1>1 DEF IInv, Ledger
    <2> QED BY <1>1, <2>1
  <1>6. MarkedIsReadable'
    <2> SUFFICES ASSUME log' # <<>>, log'[Len(log')].status = "renamed" PROVE disk = file.content
      BY DEF MarkedIsReadable, Last
    <2>1. CASE i = Len(log)
      BY <1>5, <2>1 DEF IInv, Ledger
    <2>2. CASE i # Len(log)
      BY <1>1, <1>5, <2>2 DEF IInv, MarkedIsReadable, Last
    <2> QED BY <2>1, <2>2
  <1>7. LatestKept'
    <2> SUFFICES ASSUME file # NoFile, call'[log'[Len(log')].by].tx # 0
                 PROVE  disk = file.content \/ staged[log'[Len(log')].by] = file.content
      BY DEF LatestKept, Heard, Last
    <2>1. log # <<>>
      BY DEF IInv, Ledger
    <2>2. Len(log) \in DOMAIN log /\ log[Len(log)].by \in Calls
      <3>1. Len(log) \in DOMAIN log /\ log[Len(log)] \in Transactions
        BY <1>5, <2>1
      <3> QED BY <3>1 DEF Transactions
    <2>3. log'[Len(log')].by = log[Len(log)].by
      BY <1>1, <2>2
    <2> QED BY <2>2, <2>3 DEF IInv, LatestKept, Heard, Last
  <1> QED BY <1>1, <1>2, <1>3, <1>4, <1>6, <1>7 DEF IInv

LEMMA CallMarksInv ==
  ASSUME IInv, NEW k \in Calls, CallMarks(k) PROVE IInv'
  <1> DEFINE x == [call[k] EXCEPT !.pc = "cleanup"]
  <1>1. call[k].pc = "moved" /\ lock = k
    BY DEF CallMarks, IInv, Locked
  <1>2. call[k] \in CallRows /\ call[k].tx # 0 /\ call[k].tx \in DOMAIN log
        /\ Fits(k, call[k], staged[k], log, request)
    BY <1>1 DEF IInv, CallsFit, Fits
  <1>3. call' = [call EXCEPT ![k] = x]
    BY DEF CallMarks, IInv, CallsFit
  <1>4. x \in CallRows /\ x.pc = "cleanup" /\ x.tx = call[k].tx
    BY <1>2 DEF CallRows
  <1> HIDE DEF x
  <1>5. Fits(k, x, staged[k], log, request)
    BY <1>2, <1>4 DEF Fits
  <1>6. call' \in [Calls -> CallRows] /\ call'[k] = x /\ \A j \in Calls \ {k} : call'[j] = call[j]
    BY <1>3, <1>4 DEF IInv, CallsFit
  <1>7. \A j \in Calls : call'[j].tx = call[j].tx /\ call'[j].pc # "moved"
    BY <1>1, <1>4, <1>6 DEF IInv, Locked
  <1>8. \A j \in Calls : Fits(j, call'[j], staged[j], log, request)
    BY <1>5, <1>6 DEF IInv, CallsFit
  <1>9. disk = log[call[k].tx].next.content
    BY <1>1 DEF IInv, Locked
  <1>10. /\ Mark(call[k].tx) /\ lock' = Free /\ lock # Free
         /\ UNCHANGED <<file, applied, disk, staged, request, pending, faults>>
    BY <1>1, Numbers DEF CallMarks
  <1> QED BY <1>2, <1>6, <1>7, <1>8, <1>9, <1>10, Marks

LEMMA CleanupInv ==
  ASSUME IInv, NEW k \in Calls, Cleanup(k) PROVE IInv'
  <1> DEFINE x == [call[k] EXCEPT !.pc = "done"]
  <1>1. /\ call[k].pc = "cleanup" /\ UNCHANGED <<rows, disk, request, pending, lock, faults>>
        /\ staged' = IF log[call[k].tx].by = k THEN staged ELSE [staged EXCEPT ![k] = None]
    BY DEF Cleanup
  <1>2. call[k] \in CallRows /\ call[k].tx # 0 /\ Fits(k, call[k], staged[k], log, request)
    BY <1>1 DEF IInv, CallsFit, Fits
  <1>3. call' = [call EXCEPT ![k] = x]
    BY DEF Cleanup, IInv, CallsFit
  <1>4. x \in CallRows /\ x.pc = "done" /\ x.tx = call[k].tx
    BY <1>2 DEF CallRows
  <1> HIDE DEF x
  <1>5. UNCHANGED log /\ faults' \in 0 .. MaxFaults
    BY <1>1 DEF rows, IInv, Others
  <1>6. CallsFit'
    <2>1. \A b \in Contents \cup {None} : Fits(k, x, b, log, request)
      BY <1>2, <1>4 DEF Fits
    <2>2. staged' \in [Calls -> Contents \cup {None}]
          /\ \A j \in Calls \ {k} : staged'[j] = staged[j]
      BY <1>1 DEF IInv, CallsFit
    <2> QED BY <1>1, <1>3, <1>5, <2>1, <2>2, CallGoes DEF IInv, CallsFit
  <1>7. staged'[k] # staged[k] => \A i \in DOMAIN log : log[i].by # k
    BY <1>1, <1>2 DEF Fits
  <1>8. \A j \in Calls \ {k} : staged'[j] = staged[j]
    BY <1>1 DEF IInv, CallsFit
  <1> QED BY <1>1, <1>3, <1>4, <1>5, <1>6, <1>7, <1>8, CallsOnly

LEMMA RecoverInv ==
  ASSUME IInv, Recover PROVE IInv'
  <1>1. /\ pending' = Unfinished /\ pending = {}
        /\ UNCHANGED <<file, log, applied, disk, staged, request, call, lock, faults>>
    BY DEF Recover, rows
  <1>2. Unfinished \subseteq DOMAIN log
    BY DEF Unfinished
  <1>3. Locked'
    BY <1>1, <1>2 DEF IInv, Locked
  <1> QED BY <1>1, <1>3
       DEF IInv, Ledger, CallsFit, Fits, Others, MarkedIsReadable, LatestKept, Last, Heard

LEMMA RecoverMovesInv ==
  ASSUME IInv, RecoverMoves PROVE IInv'
  <1>1. PICK i \in pending :
          /\ Oldest(i)
          /\ \/ Move(i) /\ lock' = Recovery /\ UNCHANGED pending
             \/ pending' = pending \ {i} /\ UNCHANGED <<disk, staged, lock>>
    BY DEF RecoverMoves
  <1>2. lock = Free /\ UNCHANGED <<file, log, applied, request, call, faults>>
    BY DEF RecoverMoves, rows
  <1>3. i \in DOMAIN log
    BY DEF IInv, Locked
  <1>4. \A k \in Calls : call[k].pc # "moved"
    BY <1>2, Numbers DEF IInv, Locked
  <1>5. CASE pending' = pending \ {i} /\ UNCHANGED <<disk, staged, lock>>
    <2>1. Locked'
      BY <1>2, <1>4, <1>5, Numbers DEF IInv, Locked
    <2> QED BY <1>2, <1>5, <2>1
         DEF IInv, Ledger, CallsFit, Fits, Others, MarkedIsReadable, LatestKept, Last, Heard
  <1>6. CASE Move(i) /\ lock' = Recovery /\ UNCHANGED pending
    <2>1. /\ disk' = log[i].next.content /\ disk' = file.content /\ disk' \in Contents \cup {None}
          /\ staged' \in [Calls -> Contents \cup {None}]
          /\ \A j \in Calls : Fits(j, call[j], staged'[j], log, request)
      BY <1>3, <1>6, MovesRow
    <2>2. CallsFit'
      BY <1>2, <2>1 DEF IInv, CallsFit
    <2>3. \A j \in pending : Oldest(j) => j = i
      <3>1. \A j \in pending : j \in Nat
        BY DEF IInv, Locked, Ledger
      <3> QED BY <1>1, <3>1 DEF Oldest
    <2>4. Locked'
      <3>1. lock' = Recovery => pending' # {} /\ \A j \in pending' : Oldest(j) => disk' = log[j].next.content
        BY <1>6, <2>1, <2>3
      <3>2. \A j \in pending' : Oldest(j)' => Oldest(j)
        BY <1>6 DEF Oldest
      <3> QED BY <1>2, <1>4, <1>6, <3>1, <3>2, Numbers DEF IInv, Locked
    <2>5. Others'
      BY <1>2, <1>6, <2>1, Numbers DEF IInv, Others, Recovery, Free
    <2>6. MarkedIsReadable' /\ LatestKept' /\ Ledger'
      BY <1>2, <2>1 DEF IInv, Ledger, MarkedIsReadable, LatestKept
    <2> QED BY <2>2, <2>4, <2>5, <2>6 DEF IInv
  <1> QED BY <1>1, <1>5, <1>6

LEMMA RecoverMarksInv ==
  ASSUME IInv, RecoverMarks PROVE IInv'
  <1>1. PICK i \in pending : Oldest(i) /\ Mark(i) /\ pending' = pending \ {i}
    BY DEF RecoverMarks
  <1>2. lock = Recovery /\ lock' = Free
        /\ UNCHANGED <<file, applied, disk, staged, request, call, faults>>
    BY DEF RecoverMarks
  <1>3. i \in DOMAIN log /\ disk = log[i].next.content /\ lock # Free
    BY <1>1, <1>2, Numbers DEF IInv, Locked
  <1>4. \A k \in Calls : call[k].pc # "moved"
    BY <1>2, Numbers DEF IInv, Locked
  <1>5. call' \in [Calls -> CallRows] /\ \A k \in Calls : Fits(k, call'[k], staged[k], log, request)
    BY <1>2 DEF IInv, CallsFit
  <1> QED BY <1>1, <1>2, <1>3, <1>4, <1>5, Marks

LEMMA StopInv ==
  ASSUME IInv, Stop PROVE IInv'
  <1>1. UNCHANGED <<file, log, applied, disk, staged, request>>
    BY DEF Stop, rows
  <1>2. faults' \in 0 .. MaxFaults
    BY Numbers DEF Stop, IInv, Others
  <1>3. CASE \E k \in Calls : /\ call[k].pc \notin {"unused", "done"}
                              /\ call' = [call EXCEPT ![k].pc = "done"]
                              /\ lock' = Unlocked(k) /\ UNCHANGED pending
    <2>1. PICK k \in Calls : /\ call[k].pc \notin {"unused", "done"}
                             /\ call' = [call EXCEPT ![k].pc = "done"]
                             /\ lock' = Unlocked(k) /\ UNCHANGED pending
      BY <1>3
    <2> DEFINE x == [call[k] EXCEPT !.pc = "done"]
    <2>2. call' = [call EXCEPT ![k] = x]
      BY <2>1 DEF IInv, CallsFit
    <2>3. x \in CallRows /\ x.pc = "done" /\ x.tx = call[k].tx
      BY DEF IInv, CallsFit, CallRows
    <2> HIDE DEF x
    <2>4. \A b \in Contents \cup {None} : Fits(k, x, b, log, request)
      BY <2>3 DEF IInv, CallsFit, Fits
    <2>5. CallsFit'
      BY <1>1, <2>2, <2>4, CallGoes DEF IInv, CallsFit
    <2>6. call'[k] = x /\ \A j \in Calls \ {k} : call'[j] = call[j]
      BY <2>2 DEF IInv, CallsFit
    <2>7. Locked'
      <3>1. \A j \in Calls : call'[j].pc = "moved" <=> lock' = j
        <4>1. lock = k => lock' = Free
          BY <2>1 DEF Unlocked
        <4>2. lock # k => lock' = lock
          BY <2>1 DEF Unlocked
        <4> QED BY <2>3, <2>6, <4>1, <4>2, Numbers DEF IInv, Locked
      <3>2. lock' = lock \/ lock' = Free
        BY <2>1 DEF Unlocked
      <3>3. \A j \in Calls : lock' = j => lock = j /\ call'[j] = call[j]
        BY <2>3, <2>6, <3>1, <3>2, Numbers
      <3> QED BY <1>1, <2>1, <3>1, <3>2, <3>3, Numbers DEF IInv, Locked, Oldest
    <2>8. Others'
      BY <1>1, <1>2, <2>1, Numbers DEF IInv, Others, Unlocked, Free
    <2>9. LatestKept'
      <3>1. \A j \in Calls : call'[j].tx = call[j].tx
        BY <2>3, <2>6
      <3>2. file # NoFile => log[Len(log)].by \in Calls
        <4>1. ASSUME file # NoFile PROVE log[Len(log)] \in Transactions
          <5>1. log \in Seq(Transactions) /\ log # <<>>
            BY <4>1 DEF IInv, Ledger
          <5> QED BY <5>1
        <4> QED BY <4>1 DEF Transactions
      <3> QED BY <1>1, <3>1, <3>2 DEF IInv, LatestKept, Heard, Last
    <2> QED BY <1>1, <2>5, <2>7, <2>8, <2>9 DEF IInv, Ledger, MarkedIsReadable, Last
  <1>4. CASE pending # {} /\ pending' = {} /\ lock' = Unlocked(Recovery) /\ UNCHANGED call
    <2>1. lock' = IF lock = Recovery THEN Free ELSE lock
      BY <1>4 DEF Unlocked
    <2>2. Locked'
      BY <1>1, <1>4, <2>1, Numbers DEF IInv, Locked
    <2>3. Others'
      BY <1>1, <1>2, <2>1, Numbers DEF IInv, Others, Free
    <2> QED BY <1>1, <1>4, <2>2, <2>3
         DEF IInv, Ledger, CallsFit, Fits, MarkedIsReadable, LatestKept, Last, Heard
  <1> QED BY <1>3, <1>4 DEF Stop

LEMMA StepInv == IInv /\ [Next]_vars => IInv'
  <1> SUFFICES ASSUME IInv, [Next]_vars PROVE IInv'
    OBVIOUS
  <1>1. CASE UNCHANGED vars
    BY <1>1 DEF vars, rows, IInv, Ledger, CallsFit, Fits, Locked, Oldest, Others,
                MarkedIsReadable, LatestKept, Last, Heard
  <1>2. ASSUME NEW k \in Calls, CallStep(k) PROVE IInv'
    BY <1>2, BeginInv, CommitInv, RefuseInv, CallMovesInv, CallMarksInv, CleanupInv, UnheardInv
       DEF CallStep
  <1>3. CASE Recover \/ RecoverMoves \/ RecoverMarks \/ Stop
    BY <1>3, RecoverInv, RecoverMovesInv, RecoverMarksInv, StopInv
  <1> QED BY <1>1, <1>2, <1>3 DEF Next

LEMMA Invariance == Spec => []IInv
  BY InitInv, StepInv, PTL DEF Spec

-----------------------------------------------------------------------------
\* The row, the ledgers, the disk and the calls have the shapes that the store
\* gives them (WorkspaceFileStore).
THEOREM TypeCorrect == Spec => []TypeOK
  BY Invariance, InvImplies, PTL

\* Whoever dies and however often it is called again, an operation is in the
\* ledger of transactions once (runIdempotentResult).
THEOREM AppliesOnce == Spec => []AppliedOnce
  BY Invariance, InvImplies, PTL

\* No late finalize, of a call or of recovery, takes the file of a marked row
\* from the disk or puts another in its place (finalize).
THEOREM MarkedReadable == Spec => []MarkedIsReadable
  BY Invariance, InvImplies, PTL

\* However calls, retries, deaths and recovery interleave, the content of the
\* row of a commit that was heard of is on the disk or still staged.
THEOREM LatestStays == Spec => []LatestKept
  BY Invariance, InvImplies, PTL

=============================================================================

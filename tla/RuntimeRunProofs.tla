--------------------------- MODULE RuntimeRunProofs ---------------------------
(* Proofs about RuntimeRun for every number of Runs, sessions and callers. *)
EXTENDS RuntimeRun, TLAPS

\* A caller that is in the middle of something holds a well-formed request.
LEMMA BusyCall ==
    ASSUME TypeOK, NEW c \in Callers, call[c].pc # "idle"
    PROVE  call[c] \in Calls /\ call[c].run \in Runs
<1>1. call[c] \in Calls \cup {Idle}
  BY DEF TypeOK
<1>2. call[c] # Idle
  BY DEF Idle
<1> QED BY <1>1, <1>2 DEF Calls

\* The updates a handler makes to its own state keep it well-formed.
LEMMA GotoType ==
    ASSUME TypeOK, NEW c \in Callers, call[c].pc # "idle", NEW pc \in Points, Goto(c, pc)
    PROVE  call' \in [Callers -> Calls \cup {Idle}]
<1>1. call[c] \in Calls
  BY BusyCall
<1>2. [call[c] EXCEPT !.pc = pc] \in Calls
  BY <1>1 DEF Calls
<1> QED BY <1>2 DEF Goto, TypeOK

LEMMA DecideType ==
    ASSUME TypeOK, NEW c \in Callers, call[c].pc # "idle", NEW pc \in Points,
           NEW t \in Terminals, Decide(c, pc, t)
    PROVE  call' \in [Callers -> Calls \cup {Idle}]
<1>1. call[c] \in Calls
  BY BusyCall
<1>2. [[call[c] EXCEPT !.pc = pc] EXCEPT !.terminal = t] \in Calls
  BY <1>1 DEF Calls
<1> QED BY <1>2 DEF Decide, TypeOK

\* Starting to serve a request and finishing it keep the callers well-formed.
LEMMA ServeType ==
    ASSUME TypeOK, NEW c \in Callers, NEW op \in Ops, NEW r \in Runs,
           NEW pc \in Points, NEW t \in Terminals \cup {NoTerminal},
           NEW pre \in BOOLEAN, Serve(c, op, r, pc, t, pre)
    PROVE  call' \in [Callers -> Calls \cup {Idle}]
<1>1. [Idle EXCEPT !.op = op, !.run = r, !.pc = pc, !.terminal = t, !.pre = pre] \in Calls
  BY DEF Idle, Calls
<1> QED BY <1>1 DEF Serve, TypeOK

LEMMA ReturnType ==
    ASSUME TypeOK, NEW c \in Callers, Return(c)
    PROVE  call' \in [Callers -> Calls \cup {Idle}]
BY DEF Return, TypeOK

-----------------------------------------------------------------------------
\* Every variable keeps its type through every handler and worker step.

LEMMA TypeInit == Init => TypeOK
<1> SUFFICES ASSUME Init PROVE TypeOK
  OBVIOUS
<1>1. NoBooks \in Books
  BY DEF NoBooks, Books
<1>2. "absent" \in Statuses /\ "none" \in Phases /\ "none" \in ProviderStates
  BY DEF Statuses, Missing, Phases, ProviderStates
<1> QED BY <1>1, <1>2 DEF Init, TypeOK

LEMMA FinalStatusType ==
    ASSUME NEW t \in Terminals \cup {NoTerminal}, NEW cancelled \in BOOLEAN
    PROVE  FinalStatus(t, cancelled) \in Settled \cup {"waiting_for_backend_input"}
BY DEF FinalStatus, Terminals, NoTerminal, Evidence, Settled, Stable

LEMMA SettlementType ==
    ASSUME NEW b \in Books, NEW s \in Settled \cup {"waiting_for_backend_input"},
           NEW text \in BOOLEAN
    PROVE  Settlement(b, s, text) \in Books
<1>1. b.audits \in SUBSET {"completed", "failed"}
  BY DEF Books
<1> QED BY <1>1 DEF Settlement, Books, Settled, Stable

LEMMA BooksUpdates ==
    ASSUME NEW b \in Books, NEW s \in Settled
    PROVE  /\ [NoBooks EXCEPT !.operation = "created", !.activity = "recording"] \in Books
           /\ [[[b EXCEPT !.operation = "failed"] EXCEPT !.activity = "failed"]
                 EXCEPT !.audits = @ \cup {"failed"}] \in Books
           /\ [b EXCEPT !.operation = "created"] \in Books
           /\ [b EXCEPT !.activity = s] \in Books
BY DEF NoBooks, Books, Settled, Stable

LEMMA TypeStep == TypeOK /\ [Next]_vars => TypeOK'
<1> SUFFICES ASSUME TypeOK, [Next]_vars PROVE TypeOK'
  OBVIOUS
<1> USE DEF rows, outside
<1>0. ASSUME NEW r \in Runs, NEW s \in Statuses, NEW p \in Phases
      PROVE  /\ [status EXCEPT ![r] = s] \in [Runs -> Statuses]
             /\ [phase EXCEPT ![r] = p] \in [Runs -> Phases]
  BY DEF TypeOK
<1>1. ASSUME NEW c \in Callers, NEW r \in Runs, NEW o \in Runs \cup {NoRun},
             AdmitAs(c, r, o)
      PROVE  TypeOK'
  <2>1. call' \in [Callers -> Calls \cup {Idle}]
    <3>1. /\ (IF Continues THEN "continue" ELSE "turn") \in Ops
          /\ "admitted" \in Points
          /\ NoTerminal \in Terminals \cup {NoTerminal} /\ FALSE \in BOOLEAN
      BY DEF Ops, Points
    <3>2. Serve(c, IF Continues THEN "continue" ELSE "turn", r, "admitted", NoTerminal, FALSE)
      BY <1>1 DEF AdmitAs
    <3> QED BY <3>1, <3>2, ServeType
  <2>2. books' \in [Runs -> Books]
    <3>1. books[r] \in Books /\ "failed" \in Settled
      BY DEF TypeOK, Settled, Stable
    <3>2. [NoBooks EXCEPT !.operation = "created", !.activity = "recording"] \in Books
      BY <3>1, BooksUpdates
    <3> QED BY <1>1, <3>2 DEF AdmitAs, TypeOK
  <2>3. "queued" \in Statuses /\ "admitted" \in Phases
    BY DEF Statuses, Active, Phases
  <2>4. SessionOf[r] \in Sessions
    BY SessionAssumption
  <2> QED BY <1>1, <2>1, <2>2, <2>3, <2>4, <1>0 DEF AdmitAs, TypeOK
<1>2. ASSUME NEW r \in Runs, Release(r)
      PROVE  holder' \in [Sessions -> Runs \cup {NoRun}]
  BY <1>2 DEF Release, TypeOK
<1>3. ASSUME NEW c \in Callers, FailAdmission(c) PROVE TypeOK'
  <2> DEFINE r == call[c].run
  <2>1. r \in Runs
    BY <1>3, BusyCall DEF FailAdmission, At
  <2>2. call' \in [Callers -> Calls \cup {Idle}]
    BY <1>3, ReturnType DEF FailAdmission
  <2>3. "failed" \in Statuses /\ "settled" \in Phases /\ "failed" \in Settled
    BY DEF Statuses, Settled, Stable, Phases
  <2>4. CASE status[r] = "queued" /\ phase[r] = "admitted"
    <3>1. /\ status' = [status EXCEPT ![r] = "failed"]
          /\ phase' = [phase EXCEPT ![r] = "settled"]
          /\ books' = [books EXCEPT ![r].operation = "failed", ![r].activity = "failed",
                                    ![r].audits = @ \cup {"failed"}]
          /\ Release(r)
          /\ UNCHANGED <<native, log, retryOf, outside>>
      BY <1>3, <2>4 DEF FailAdmission
    <3>2. books[r] \in Books
      BY <2>1 DEF TypeOK
    <3>3. [[[books[r] EXCEPT !.operation = "failed"] EXCEPT !.activity = "failed"]
             EXCEPT !.audits = @ \cup {"failed"}] \in Books
      BY <3>2, <2>3, BooksUpdates
    <3>4. books' \in [Runs -> Books]
      BY <3>1, <3>3 DEF TypeOK
    <3>5. holder' \in [Sessions -> Runs \cup {NoRun}]
      BY <2>1, <3>1, <1>2
    <3>6. status' \in [Runs -> Statuses] /\ phase' \in [Runs -> Phases]
      BY <2>1, <2>3, <3>1, <1>0
    <3> QED BY <2>2, <3>1, <3>4, <3>5, <3>6 DEF TypeOK
  <2>5. CASE ~(status[r] = "queued" /\ phase[r] = "admitted")
    <3>1. UNCHANGED <<rows, holder, outside>>
      BY <1>3, <2>5 DEF FailAdmission
    <3> QED BY <2>2, <3>1 DEF TypeOK
  <2> QED BY <2>4, <2>5
<1>4. ASSUME NEW c \in Callers, Discard(c) PROVE TypeOK'
  <2>1. call[c].run \in Runs
    BY <1>4, BusyCall DEF Discard, At
  <2>2. call' \in [Callers -> Calls \cup {Idle}]
    BY <1>4, ReturnType DEF Discard
  <2>3. "discarded" \in Statuses /\ "none" \in Phases /\ NoBooks \in Books
    BY DEF Statuses, Missing, Phases, NoBooks, Books
  <2> QED BY <1>4, <2>1, <2>2, <2>3, <1>0, <1>2 DEF Discard, TypeOK
<1>5. ASSUME NEW c \in Callers, Start(c) PROVE TypeOK'
  <2>1. call[c].run \in Runs
    BY <1>5, BusyCall DEF Start, At
  <2>2. call' \in [Callers -> Calls \cup {Idle}]
    <3>1. /\ call[c].pc # "idle" /\ "launch" \in Points
          /\ Goto(c, "launch") \/ Return(c)
      BY <1>5 DEF Start, At, Points
    <3> QED BY <3>1, GotoType, ReturnType
  <2>3. "running" \in Statuses /\ "external_running" \in Phases
    BY DEF Statuses, Active, Phases
  <2> QED BY <1>5, <2>1, <2>2, <2>3, <1>0 DEF Start, TypeOK
<1>6. ASSUME NEW c \in Callers, Launch(c) PROVE TypeOK'
  <2>1. call[c].run \in Runs
    BY <1>6, BusyCall DEF Launch, At
  <2>2. call' \in [Callers -> Calls \cup {Idle}]
    <3>1. call[c].pc # "idle" /\ "streaming" \in Points /\ Goto(c, "streaming")
      BY <1>6 DEF Launch, At, Points
    <3> QED BY <3>1, GotoType
  <2>3. "live" \in ProviderStates
    BY DEF ProviderStates
  <2> QED BY <1>6, <2>1, <2>2, <2>3 DEF Launch, TypeOK
<1>7. ASSUME NEW c \in Callers, StreamEvent(c) PROVE TypeOK'
  <2>1. call[c].run \in Runs
    BY <1>7, BusyCall DEF StreamEvent, At
  <2>2. call' \in [Callers -> Calls \cup {Idle}]
    <3>1. call[c] \in Calls
      BY <1>7, BusyCall DEF StreamEvent, At
    <3>2. [call[c] EXCEPT !.heard = call[c].op = "continue"] \in Calls
      BY <3>1 DEF Calls
    <3> QED BY <1>7, <3>2 DEF StreamEvent, Hear, TypeOK
  <2>3. native' \in [Runs -> BOOLEAN]
    BY <1>7, <2>1 DEF StreamEvent, TypeOK
  <2> QED BY <1>7, <2>1, <2>2, <2>3 DEF StreamEvent, TypeOK
<1>8. ASSUME NEW c \in Callers, StreamTerminal(c) PROVE TypeOK'
  <2>1. call[c].run \in Runs
    BY <1>8, BusyCall DEF StreamTerminal, At
  <2>2. Reports(c) \subseteq Terminals
    BY DEF Reports, Terminals, Evidence, Finished
  <2>3. call' \in [Callers -> Calls \cup {Idle}]
    <3>1. call[c] \in Calls
      BY <1>8, BusyCall DEF StreamTerminal, At
    <3>2. PICK t \in Reports(c) :
            call' = [call EXCEPT ![c].heard = call[c].op = "continue", ![c].terminal = t]
      BY <1>8 DEF StreamTerminal
    <3>3. [[call[c] EXCEPT !.heard = call[c].op = "continue"] EXCEPT !.terminal = t] \in Calls
      BY <3>1, <2>2 DEF Calls
    <3> QED BY <3>2, <3>3 DEF TypeOK
  <2> QED BY <1>8, <2>3 DEF StreamTerminal, TypeOK
<1>9. ASSUME NEW c \in Callers, StreamLost(c) PROVE TypeOK'
  <2>1. call' \in [Callers -> Calls \cup {Idle}]
    <3>1. call[c].pc # "idle" /\ call[c] \in Calls
      BY <1>9, BusyCall DEF StreamLost, At
    <3>2. CASE call[c].op = "continue" /\ ~call[c].heard
      <4>1. [[call[c] EXCEPT !.op = "turn"] EXCEPT !.pc = "launch"] \in Calls
        BY <3>1 DEF Calls, Ops, Points
      <4> QED BY <1>9, <3>2, <4>1 DEF StreamLost, TypeOK
    <3>3. CASE ~(call[c].op = "continue" /\ ~call[c].heard)
      <4> DEFINE t == Failure(call[c].op)
      <4>1. t \in Terminals /\ "commit" \in Points
        BY DEF Failure, Terminals, Evidence, Points
      <4>2. Decide(c, "commit", t)
        BY <1>9, <3>3 DEF StreamLost
      <4> QED BY <3>1, <4>1, <4>2, DecideType
    <3> QED BY <3>2, <3>3
  <2> QED BY <1>9, <2>1 DEF StreamLost, TypeOK
<1>10. ASSUME NEW c \in Callers, StreamEnd(c) PROVE TypeOK'
  <2>1. call' \in [Callers -> Calls \cup {Idle}]
    <3> DEFINE t == IF call[c].terminal = NoTerminal THEN Failure(call[c].op)
                                                     ELSE call[c].terminal
    <3>1. call[c].pc # "idle" /\ "commit" \in Points /\ Decide(c, "commit", t)
      BY <1>10 DEF StreamEnd, At, Points
    <3>2. t \in Terminals
      BY <3>1, BusyCall DEF Calls, Failure, Terminals, Evidence
    <3> QED BY <3>1, <3>2, DecideType
  <2> QED BY <1>10, <2>1 DEF StreamEnd, TypeOK
<1>11. ASSUME NEW c \in Callers, Commit(c) PROVE TypeOK'
  <2> DEFINE r == call[c].run
             s == FinalStatus(call[c].terminal, call[c].op = "cancel")
  <2>1. call[c] \in Calls /\ r \in Runs
    BY <1>11, BusyCall DEF Commit, At
  <2>2. call[c].terminal \in Terminals \cup {NoTerminal} /\ call[c].op \in Ops
    BY <2>1 DEF Calls
  <2>3. s \in Settled \cup {"waiting_for_backend_input"}
    BY <2>2, FinalStatusType
  <2>4. books' \in [Runs -> Books]
    <3>1. books[r] \in Books
      BY <2>1 DEF TypeOK
    <3>2. PICK text \in BOOLEAN : books' = [books EXCEPT ![r] = Settlement(@, s, text)]
      BY <1>11 DEF Commit
    <3>3. Settlement(books[r], s, text) \in Books
      BY <3>1, <2>3, SettlementType
    <3> QED BY <2>1, <3>2, <3>3 DEF TypeOK
  <2>5. call' \in [Callers -> Calls \cup {Idle}]
    BY <1>11, ReturnType DEF Commit
  <2>6. log' \in [Runs -> SUBSET Sources]
    <3>1. log[r] \in SUBSET Sources
      BY <2>1 DEF TypeOK
    <3>2. ~Streams(call[c].op) => call[c].op \in Sources
      BY <2>2 DEF Streams, Ops, Sources
    <3>3. log' = [log EXCEPT ![r] = IF Streams(call[c].op) THEN @ ELSE @ \cup {call[c].op}]
      BY <1>11 DEF Commit
    <3> QED BY <2>1, <3>1, <3>2, <3>3 DEF TypeOK
  <2>7. native' \in [Runs -> BOOLEAN]
    BY <1>11, <2>1 DEF Commit, TypeOK
  <2>8. /\ status' \in [Runs -> Statuses]
        /\ phase' \in [Runs -> Phases]
    <3>1. /\ s \in Statuses
          /\ (IF s = "waiting_for_backend_input" THEN "waiting" ELSE "settled") \in Phases
      BY <2>3 DEF Statuses, Active, Phases
    <3>2. /\ status' = [status EXCEPT ![r] = s]
          /\ phase' = [phase EXCEPT ![r] =
                         IF s = "waiting_for_backend_input" THEN "waiting" ELSE "settled"]
      BY <1>11 DEF Commit
    <3> QED BY <2>1, <3>1, <3>2, <1>0
  <2>9. /\ holder' \in [Sessions -> Runs \cup {NoRun}]
        /\ UNCHANGED <<retryOf, provider, launches>>
    BY <1>11, <2>1, <1>2 DEF Commit
  <2> QED BY <2>4, <2>5, <2>6, <2>7, <2>8, <2>9 DEF TypeOK
<1>12. ASSUME NEW c \in Callers, CommitDeclined(c) PROVE TypeOK'
  BY <1>12, ReturnType DEF CommitDeclined, TypeOK
<1>13. ASSUME NEW c \in Callers, CancelMark(c) PROVE TypeOK'
  <2>1. call[c].run \in Runs
    BY <1>13, BusyCall DEF CancelMark, At
  <2>2. call' \in [Callers -> Calls \cup {Idle}]
    <3>1. /\ call[c].pc # "idle" /\ "request" \in Points
          /\ Goto(c, "request") \/ Return(c)
      BY <1>13 DEF CancelMark, At, Points
    <3> QED BY <3>1, GotoType, ReturnType
  <2>3. "cancelling" \in Phases
    BY DEF Phases
  <2> QED BY <1>13, <2>1, <2>2, <2>3 DEF CancelMark, TypeOK
<1>14. ASSUME NEW c \in Callers, CancelRequest(c) PROVE TypeOK'
  <2>1. call[c].run \in Runs
    BY <1>14, BusyCall DEF CancelRequest, At
  <2>2. Finished \subseteq Terminals /\ "cancelled" \in Finished /\ "verify" \in Points
    BY DEF Finished, Terminals, Evidence, Points
  <2>3. call' \in [Callers -> Calls \cup {Idle}]
    <3>1. /\ call[c].pc # "idle"
          /\ Goto(c, "verify") \/ \E t \in Finished : Decide(c, "verify", t)
      BY <1>14, <2>2 DEF CancelRequest, At
    <3> QED BY <2>2, <3>1, GotoType, DecideType
  <2>4. "cancelled" \in ProviderStates
    BY DEF ProviderStates, Finished
  <2> QED BY <1>14, <2>1, <2>3, <2>4 DEF CancelRequest, TypeOK
<1>15. ASSUME NEW c \in Callers, CancelVerify(c) PROVE TypeOK'
  <2> DEFINE t == CASE call[c].terminal # NoTerminal -> call[c].terminal
                    [] call[c].pre -> "not_started"
                    [] OTHER -> "indeterminate"
  <2>1. call[c].pc # "idle" /\ call[c] \in Calls /\ "commit" \in Points
    BY <1>15, BusyCall DEF CancelVerify, At, Points
  <2>2. t \in Terminals
    BY <2>1 DEF Calls, Terminals, Evidence
  <2>3. call' \in [Callers -> Calls \cup {Idle}]
    <3>1. Return(c) \/ Decide(c, "commit", t)
      BY <1>15 DEF CancelVerify
    <3> QED BY <2>1, <2>2, <3>1, ReturnType, DecideType
  <2> QED BY <1>15, <2>3 DEF CancelVerify, TypeOK
<1>16. ASSUME NEW c \in Callers, PrepareResume(c) PROVE TypeOK'
  <2>1. call[c].run \in Runs
    BY <1>16, BusyCall DEF PrepareResume, At
  <2>2. call' \in [Callers -> Calls \cup {Idle}]
    <3>1. /\ call[c].pc # "idle" /\ "launch" \in Points
          /\ Goto(c, "launch") \/ Return(c)
      BY <1>16 DEF PrepareResume, At, Points
    <3> QED BY <3>1, GotoType, ReturnType
  <2>3. /\ "running" \in Statuses /\ "backend_starting" \in Phases
        /\ "resume-input" \in Sources
    BY DEF Statuses, Active, Phases, Sources
  <2> DEFINE r == call[c].run
  <2>4. CASE status[r] = "waiting_for_backend_input" /\ phase[r] = "waiting"
    <3>1. /\ status' = [status EXCEPT ![r] = "running"]
          /\ phase' = [phase EXCEPT ![r] = "backend_starting"]
          /\ holder' = [holder EXCEPT ![SessionOf[r]] = r]
          /\ books' = [books EXCEPT ![r].operation = "created"]
          /\ Append(r, "resume-input")
          /\ UNCHANGED <<native, retryOf, outside>>
      BY <1>16, <2>4 DEF PrepareResume
    <3>2. books[r] \in Books /\ "failed" \in Settled
      BY <2>1 DEF TypeOK, Settled, Stable
    <3>3. [books[r] EXCEPT !.operation = "created"] \in Books
      BY <3>2, BooksUpdates
    <3>4. books' \in [Runs -> Books]
      BY <3>1, <3>3 DEF TypeOK
    <3>5. holder' \in [Sessions -> Runs \cup {NoRun}]
      BY <2>1, <3>1, SessionAssumption DEF TypeOK
    <3>6. log' \in [Runs -> SUBSET Sources]
      BY <2>1, <2>3, <3>1 DEF Append, TypeOK
    <3>7. status' \in [Runs -> Statuses] /\ phase' \in [Runs -> Phases]
      BY <2>1, <2>3, <3>1, <1>0
    <3> QED BY <2>2, <3>1, <3>4, <3>5, <3>6, <3>7 DEF TypeOK
  <2>5. CASE ~(status[r] = "waiting_for_backend_input" /\ phase[r] = "waiting")
    <3>1. UNCHANGED <<rows, holder, outside>>
      BY <1>16, <2>5 DEF PrepareResume
    <3> QED BY <2>2, <3>1 DEF TypeOK
  <2> QED BY <2>4, <2>5
<1>17. ASSUME NEW c \in Callers, NEW r \in Runs,
              \/ StartRetry(c, r) \/ StartCancel(c, r) \/ StartResume(c, r)
              \/ StartSync(c, r) \/ StartRecover(c, r)
       PROVE  TypeOK'
  <2>1. IsPreExternal(r) \in BOOLEAN
    BY DEF IsPreExternal
  <2>2. /\ {"retry", "cancel", "resume", "refuse", "sync", "recover"} \subseteq Ops
        /\ {"retry", "commit", "mark", "prepare", "streaming"} \subseteq Points
        /\ {"not_started", "indeterminate", "failed"} \subseteq Terminals
    BY DEF Ops, Points, Terminals, Evidence
  <2>3. call' \in [Callers -> Calls \cup {Idle}]
    <3>1. CASE StartCancel(c, r)
      BY <3>1, <2>1, <2>2, ServeType DEF StartCancel
    <3>2. CASE StartResume(c, r)
      BY <3>2, <2>2, ServeType DEF StartResume
    <3>3. CASE StartSync(c, r)
      BY <3>3, <2>2, ServeType DEF StartSync
    <3>4. CASE StartRecover(c, r)
      <4>1. (IF status[r] = "running" THEN "indeterminate" ELSE "failed") \in Terminals
        BY <2>2
      <4> QED BY <3>4, <4>1, <2>2, ServeType DEF StartRecover
    <3>5. CASE StartRetry(c, r)
      BY <3>5, <2>2, ServeType DEF StartRetry
    <3> QED BY <1>17, <3>1, <3>2, <3>3, <3>4, <3>5
  <2>4. UNCHANGED <<rows, holder, outside>>
    BY <1>17 DEF StartRetry, StartCancel, StartResume, StartSync, StartRecover
  <2> QED BY <2>3, <2>4 DEF TypeOK
<1>18. ASSUME NEW c \in Callers, NEW r \in Runs, SyncUnavailable(c, r) PROVE TypeOK'
  <2>1. log' \in [Runs -> SUBSET Sources]
    BY <1>18 DEF SyncUnavailable, Append, Sources, Ops, TypeOK
  <2> QED BY <1>18, <2>1 DEF SyncUnavailable, TypeOK
<1>19. ASSUME NEW r \in Runs, WorkerRecover(r) PROVE TypeOK'
  <2> DEFINE s == IF status[r] = "running" THEN "outcome_unknown" ELSE "failed"
  <2>1. s \in Settled /\ s \in Statuses /\ "settled" \in Phases
    BY DEF Settled, Stable, Statuses, Phases
  <2>2. books' \in [Runs -> Books]
    <3>1. books[r] \in Books
      BY DEF TypeOK
    <3>2. [books[r] EXCEPT !.activity = s] \in Books
      BY <3>1, <2>1, BooksUpdates
    <3> QED BY <1>19, <3>2 DEF WorkerRecover, TypeOK
  <2> QED BY <1>19, <2>1, <2>2, <1>0, <1>2 DEF WorkerRecover, TypeOK
<1>20. ASSUME NEW r \in Runs, ProviderStep(r) PROVE TypeOK'
  <2>1. Finished \cup {"waiting"} \subseteq ProviderStates
        /\ {"failed", "cancelled"} \subseteq ProviderStates
    BY DEF ProviderStates, Finished
  <2> QED BY <1>20, <2>1 DEF ProviderStep, TypeOK
<1>21. ASSUME NEW c \in Callers, Lose(c) PROVE TypeOK'
  BY <1>21, ReturnType DEF Lose, TypeOK
<1>22. CASE UNCHANGED vars
  BY <1>22 DEF vars, TypeOK
<1>23. NoRun \in Runs \cup {NoRun}
  OBVIOUS
<1>24. ASSUME NEW c \in Callers, NEW r \in Runs, Retry(c, r) PROVE TypeOK'
  <2>1. call[c].run \in Runs \cup {NoRun}
    BY <1>24, BusyCall DEF Retry, At
  <2> QED BY <1>1, <1>24, <2>1 DEF Retry
<1> QED BY <1>1, <1>3, <1>4, <1>5, <1>6, <1>7, <1>8, <1>9, <1>10, <1>11, <1>12,
           <1>13, <1>14, <1>15, <1>16, <1>17, <1>18, <1>19, <1>20, <1>21, <1>22,
           <1>23, <1>24
        DEF Next, TurnStep, ControlStep, Request, Admit

\* Every reachable state is well-typed, for all constants.
THEOREM TypeCorrect == Spec => []TypeOK
<1>1. Init => TypeOK
  BY TypeInit
<1>2. TypeOK /\ [Next]_vars => TypeOK'
  BY TypeStep
<1> QED BY <1>1, <1>2, PTL DEF Spec

-----------------------------------------------------------------------------
\* What a step does to the rows the safety properties are about.  Everything
\* else a handler does changes only its own state, the event log, the native
\* session id or the provider.

seen == <<status, phase, books, retryOf, holder>>

MayRetry(o, r) ==
    /\ o \in Runs /\ SessionOf[o] = SessionOf[r]
    /\ \E c \in Callers : At(c, "retry") /\ call[c].run = o

Admits(r, o) ==
    /\ status[r] = "absent" /\ KeyFree(r) /\ holder[SessionOf[r]] = NoRun
    /\ o = NoRun \/ MayRetry(o, r)
    /\ status' = [status EXCEPT ![r] = "queued"]
    /\ phase' = [phase EXCEPT ![r] = "admitted"]
    /\ books' = [books EXCEPT ![r] = [NoBooks EXCEPT !.operation = "created",
                                                     !.activity = "recording"]]
    /\ retryOf' = [retryOf EXCEPT ![r] = o]
    /\ holder' = [holder EXCEPT ![SessionOf[r]] = r]

Fails(r) ==
    /\ status[r] = "queued" /\ phase[r] = "admitted"
    /\ status' = [status EXCEPT ![r] = "failed"]
    /\ phase' = [phase EXCEPT ![r] = "settled"]
    /\ books' = [books EXCEPT ![r].operation = "failed", ![r].activity = "failed",
                              ![r].audits = @ \cup {"failed"}]
    /\ Release(r)
    /\ UNCHANGED retryOf

Withdraws(r) ==
    /\ status[r] = "queued" /\ phase[r] = "admitted"
    /\ status' = [status EXCEPT ![r] = "discarded"]
    /\ phase' = [phase EXCEPT ![r] = "none"]
    /\ books' = [books EXCEPT ![r] = NoBooks]
    /\ retryOf' = [retryOf EXCEPT ![r] = NoRun]
    /\ Release(r)

Starts(r) ==
    /\ status[r] = "queued" /\ phase[r] = "admitted"
    /\ status' = [status EXCEPT ![r] = "running"]
    /\ phase' = [phase EXCEPT ![r] = "external_running"]
    /\ UNCHANGED <<books, retryOf, holder>>

\* The Run takes status s, from Active or, for good, from an unknown outcome.
Ends(r, s, text) ==
    /\ \/ status[r] \in Active /\ s \in Settled \cup {"waiting_for_backend_input"}
       \/ status[r] = "outcome_unknown" /\ s \in Stable
    /\ status' = [status EXCEPT ![r] = s]
    /\ phase' = [phase EXCEPT ![r] =
                   IF s = "waiting_for_backend_input" THEN "waiting" ELSE "settled"]
    /\ books' = [books EXCEPT ![r] = Settlement(books[r], s, text)]
    /\ Release(r)
    /\ UNCHANGED retryOf

Marks(r) ==
    /\ status[r] \in Active
    /\ phase' = [phase EXCEPT ![r] = "cancelling"]
    /\ UNCHANGED <<status, books, retryOf, holder>>

Resumes(r) ==
    /\ status[r] = "waiting_for_backend_input"
    /\ status' = [status EXCEPT ![r] = "running"]
    /\ phase' = [phase EXCEPT ![r] = "backend_starting"]
    /\ holder' = [holder EXCEPT ![SessionOf[r]] = r]
    /\ books' = [books EXCEPT ![r].operation = "created"]
    /\ log' = [log EXCEPT ![r] = @ \cup {"resume-input"}]
    /\ UNCHANGED retryOf

Recovers(r, s) ==
    /\ status[r] \in {"queued", "running"} /\ s \in {"failed", "outcome_unknown"}
    /\ status' = [status EXCEPT ![r] = s]
    /\ phase' = [phase EXCEPT ![r] = "settled"]
    /\ books' = [books EXCEPT ![r].activity = s]
    /\ Release(r)
    /\ UNCHANGED retryOf

StepOn(r) ==
    \/ \E o \in Runs \cup {NoRun} : Admits(r, o)
    \/ Fails(r) \/ Withdraws(r) \/ Starts(r) \/ Marks(r) \/ Resumes(r)
    \/ \E s \in Settled \cup {"waiting_for_backend_input"}, text \in BOOLEAN :
         Ends(r, s, text)
    \/ \E s \in {"failed", "outcome_unknown"} : Recovers(r, s)

\* A settlement only starts from Active or resolves an unknown outcome for good.
LEMMA EndsFrom ==
    ASSUME NEW r, NEW t \in Terminals \cup {NoTerminal}, NEW cancelled \in BOOLEAN,
           Accepts(r, t)
    PROVE  \/ status[r] \in Active
           \/ status[r] = "outcome_unknown" /\ FinalStatus(t, cancelled) \in Stable
BY DEF Accepts, Reconciles, FinalStatus, Terminals, Evidence, Stable

LEMMA StepKinds ==
    ASSUME TypeOK, [Next]_vars
    PROVE  UNCHANGED seen \/ \E r \in Runs : StepOn(r)
<1> USE DEF rows, outside, seen
<1>1. ASSUME NEW c \in Callers, NEW r \in Runs, Admit(c, r)
      PROVE  StepOn(r)
  BY <1>1 DEF Admit, AdmitAs, Reservable, Admits, StepOn
<1>2. ASSUME NEW c \in Callers, NEW r \in Runs, Retry(c, r)
      PROVE  StepOn(r)
  <2>1. call[c].run \in Runs
    BY <1>2, BusyCall DEF Retry, At
  <2>2. Admits(r, call[c].run)
    BY <1>2, <2>1 DEF Retry, AdmitAs, Reservable, Admits, MayRetry
  <2> QED BY <2>1, <2>2 DEF StepOn
<1>3. ASSUME NEW c \in Callers, FailAdmission(c)
      PROVE  UNCHANGED seen \/ \E r \in Runs : StepOn(r)
  <2>1. call[c].run \in Runs
    BY <1>3, BusyCall DEF FailAdmission, At
  <2>2. UNCHANGED seen \/ Fails(call[c].run)
    BY <1>3 DEF FailAdmission, Fails
  <2> QED BY <2>1, <2>2 DEF StepOn
<1>4. ASSUME NEW c \in Callers, Discard(c)
      PROVE  \E r \in Runs : StepOn(r)
  <2>1. call[c].run \in Runs
    BY <1>4, BusyCall DEF Discard, At
  <2>2. Withdraws(call[c].run)
    BY <1>4 DEF Discard, Withdraws
  <2> QED BY <2>1, <2>2 DEF StepOn
<1>5. ASSUME NEW c \in Callers, Start(c)
      PROVE  UNCHANGED seen \/ \E r \in Runs : StepOn(r)
  <2>1. call[c].run \in Runs
    BY <1>5, BusyCall DEF Start, At
  <2>2. UNCHANGED seen \/ Starts(call[c].run)
    BY <1>5 DEF Start, Starts
  <2> QED BY <2>1, <2>2 DEF StepOn
<1>6. ASSUME NEW c \in Callers, Commit(c)
      PROVE  \E r \in Runs : StepOn(r)
  <2> DEFINE r == call[c].run
             s == FinalStatus(call[c].terminal, call[c].op = "cancel")
  <2>1. call[c] \in Calls /\ r \in Runs
    BY <1>6, BusyCall DEF Commit, At
  <2>2. call[c].terminal \in Terminals \cup {NoTerminal}
    BY <2>1 DEF Calls
  <2>3. s \in Settled \cup {"waiting_for_backend_input"}
    BY <2>2, FinalStatusType
  <2>4. \/ status[r] \in Active
        \/ status[r] = "outcome_unknown" /\ s \in Stable
    BY <1>6, <2>2, EndsFrom DEF Commit
  <2>5. PICK text \in BOOLEAN : books' = [books EXCEPT ![r] = Settlement(@, s, text)]
    BY <1>6 DEF Commit
  <2>6. Ends(r, s, text)
    BY <1>6, <2>3, <2>4, <2>5 DEF Commit, Ends
  <2> QED BY <2>1, <2>3, <2>6 DEF StepOn
<1>7. ASSUME NEW c \in Callers, CancelMark(c)
      PROVE  UNCHANGED seen \/ \E r \in Runs : StepOn(r)
  <2>1. call[c].run \in Runs
    BY <1>7, BusyCall DEF CancelMark, At
  <2>2. UNCHANGED seen \/ Marks(call[c].run)
    BY <1>7 DEF CancelMark, Marks
  <2> QED BY <2>1, <2>2 DEF StepOn
<1>8. ASSUME NEW c \in Callers, PrepareResume(c)
      PROVE  UNCHANGED seen \/ \E r \in Runs : StepOn(r)
  <2>1. call[c].run \in Runs
    BY <1>8, BusyCall DEF PrepareResume, At
  <2>2. UNCHANGED seen \/ Resumes(call[c].run)
    BY <1>8 DEF PrepareResume, Append, Resumes
  <2> QED BY <2>1, <2>2 DEF StepOn
<1>9. ASSUME NEW r \in Runs, WorkerRecover(r)
      PROVE  StepOn(r)
  <2> DEFINE s == IF status[r] = "running" THEN "outcome_unknown" ELSE "failed"
  <2>1. s \in {"failed", "outcome_unknown"}
    OBVIOUS
  <2>2. Recovers(r, s)
    BY <1>9, <2>1 DEF WorkerRecover, Recoverable, Recovers
  <2> QED BY <2>1, <2>2 DEF StepOn
<1>10. ASSUME NEW c \in Callers,
              \/ Launch(c) \/ StreamEvent(c) \/ StreamTerminal(c) \/ StreamLost(c)
              \/ StreamEnd(c) \/ CommitDeclined(c) \/ CancelRequest(c)
              \/ CancelVerify(c) \/ Lose(c)
       PROVE  UNCHANGED seen
  BY <1>10 DEF Launch, StreamEvent, StreamTerminal, StreamLost, StreamEnd,
               CommitDeclined, CancelRequest, CancelVerify, Lose
<1>11. ASSUME NEW c \in Callers, NEW r \in Runs,
              \/ StartRetry(c, r) \/ StartCancel(c, r) \/ StartResume(c, r)
              \/ StartSync(c, r) \/ SyncUnavailable(c, r) \/ StartRecover(c, r)
       PROVE  UNCHANGED seen
  BY <1>11 DEF StartRetry, StartCancel, StartResume, StartSync, SyncUnavailable, StartRecover
<1>12. ASSUME NEW r \in Runs, ProviderStep(r) PROVE UNCHANGED seen
  BY <1>12 DEF ProviderStep
<1>13. CASE UNCHANGED vars
  BY <1>13 DEF vars
<1> QED BY <1>1, <1>2, <1>3, <1>4, <1>5, <1>6, <1>7, <1>8, <1>9, <1>10, <1>11, <1>12,
           <1>13
        DEF Next, TurnStep, ControlStep, Request

-----------------------------------------------------------------------------
\* The reservation of a session.

\* After Run r releases or takes a reservation, what is held and by whom.
LEMMA HolderStep ==
    ASSUME TypeOK, HolderIsActive, NEW r \in Runs, StepOn(r)
    PROVE  HolderIsActive'
<1> USE SessionAssumption, RunAssumption
<1>1. ASSUME Release(r),
             \A q \in Runs \ {r} : status'[q] = status[q]
      PROVE  HolderIsActive'
  <2> SUFFICES ASSUME NEW z \in Sessions, holder'[z] # NoRun
               PROVE  /\ SessionOf[holder'[z]] = z
                      /\ status'[holder'[z]] \in {"queued", "running"}
    BY DEF HolderIsActive
  <2>1. holder'[z] = holder[z] /\ holder[z] # r /\ holder[z] \in Runs
    BY <1>1 DEF Release, TypeOK
  <2> QED BY <1>1, <2>1 DEF HolderIsActive
<1>2. ASSUME NEW o, Admits(r, o) PROVE HolderIsActive'
  BY <1>2 DEF Admits, HolderIsActive, TypeOK
<1>3. CASE Fails(r)
  BY <1>3, <1>1 DEF Fails, TypeOK
<1>4. CASE Withdraws(r)
  BY <1>4, <1>1 DEF Withdraws, TypeOK
<1>5. CASE Starts(r)
  BY <1>5 DEF Starts, HolderIsActive, TypeOK
<1>6. CASE Marks(r)
  BY <1>6 DEF Marks, HolderIsActive
<1>7. CASE Resumes(r)
  BY <1>7 DEF Resumes, HolderIsActive, TypeOK
<1>8. ASSUME NEW s, NEW text, Ends(r, s, text) PROVE HolderIsActive'
  BY <1>8, <1>1 DEF Ends, TypeOK
<1>9. ASSUME NEW s, Recovers(r, s) PROVE HolderIsActive'
  BY <1>9, <1>1 DEF Recovers, TypeOK
<1> QED BY <1>2, <1>3, <1>4, <1>5, <1>6, <1>7, <1>8, <1>9 DEF StepOn

\* A held reservation always names a queued or running Run of its session, for
\* any number of Runs, sessions and concurrent requests.
THEOREM HolderCorrect == Spec => []HolderIsActive
<1>1. Init => HolderIsActive
  BY DEF Init, HolderIsActive
<1>2. TypeOK /\ HolderIsActive /\ [Next]_vars => HolderIsActive'
  <2>1. HolderIsActive /\ UNCHANGED seen => HolderIsActive'
    BY DEF HolderIsActive, seen
  <2> QED BY <2>1, StepKinds, HolderStep
<1> QED BY <1>1, <1>2, TypeCorrect, PTL DEF Spec

-----------------------------------------------------------------------------
\* Settlement.

\* A settled Run keeps its outcome, and an unknown one only becomes stable.
THEOREM SettledStays == Spec => SettledIsStable
<1>1. TypeOK /\ [Next]_vars
        => [\A r \in Runs :
              /\ status[r] \in Stable => status'[r] = status[r]
              /\ status[r] = "outcome_unknown" => status'[r] \in Settled]_vars
  <2> SUFFICES ASSUME TypeOK, [Next]_vars, NEW q \in Runs
               PROVE  /\ status[q] \in Stable => status'[q] = status[q]
                      /\ status[q] = "outcome_unknown" => status'[q] \in Settled
    OBVIOUS
  <2>1. CASE UNCHANGED seen
    BY <2>1 DEF seen, Settled
  <2>2. ASSUME NEW r \in Runs, StepOn(r)
        PROVE  /\ status[q] \in Stable => status'[q] = status[q]
               /\ status[q] = "outcome_unknown" => status'[q] \in Settled
    <3>1. status'[q] = status[q]
          \/ (status[q] \notin Settled)
          \/ (status[q] = "outcome_unknown" /\ status'[q] \in Stable)
      BY <2>2 DEF StepOn, Admits, Fails, Withdraws, Starts, Marks, Resumes, Ends, Recovers,
                  TypeOK, Active, Settled, Stable
    <3> QED BY <3>1 DEF Settled, Stable
  <2> QED BY <2>1, <2>2, StepKinds
<1> QED BY <1>1, TypeCorrect, PTL DEF Spec, SettledIsStable

\* A settled status is only ever written together with the settled phase.
PhaseSettled == \A r \in Runs : status[r] \in Settled => phase[r] = "settled"

LEMMA PhaseStep ==
    ASSUME TypeOK, PhaseSettled, NEW r \in Runs, StepOn(r)
    PROVE  PhaseSettled'
<1> SUFFICES ASSUME NEW q \in Runs, status'[q] \in Settled PROVE phase'[q] = "settled"
  BY DEF PhaseSettled
<1>1. CASE q # r
  BY <1>1 DEF StepOn, Admits, Fails, Withdraws, Starts, Marks, Resumes, Ends, Recovers,
              TypeOK, PhaseSettled
<1>2. CASE q = r
  BY <1>2 DEF StepOn, Admits, Fails, Withdraws, Starts, Marks, Resumes, Ends, Recovers,
              TypeOK, PhaseSettled, Active, Settled, Stable
<1> QED BY <1>1, <1>2

\* Whoever has read the original of a retry has read a settled Run.
RetriesSettled == \A c \in Callers : At(c, "retry") => status[call[c].run] \in Settled

\* Only StartRetry brings a caller to the point of a retry.
LEMMA RetryCalls ==
    ASSUME TypeOK, [Next]_vars, NEW d \in Callers, call'[d].pc = "retry", call'[d] # call[d]
    PROVE  UNCHANGED status /\ Retryable(call'[d].run)
<1> USE DEF At
<1>1. call \in [Callers -> Calls \cup {Idle}]
  BY DEF TypeOK
<1>2. ASSUME NEW c \in Callers, NEW pc, pc # "retry",
             \/ Goto(c, pc) \/ Return(c)
             \/ \E t : Decide(c, pc, t)
             \/ \E op, r, t, pre : Serve(c, op, r, pc, t, pre)
      PROVE  FALSE
  <2>1. CASE Goto(c, pc)
    BY <2>1, <1>1, <1>2 DEF Goto, Calls, Idle
  <2>2. CASE Return(c)
    BY <2>2, <1>1 DEF Return, Idle
  <2>3. ASSUME NEW t, Decide(c, pc, t) PROVE FALSE
    <3>1. call[d] \in Calls \/ call[d] = Idle
      BY <1>1
    <3>2. call'[d] = IF d = c THEN [[call[d] EXCEPT !.pc = pc] EXCEPT !.terminal = t]
                              ELSE call[d]
      BY <2>3, <1>1 DEF Decide
    <3>3. [[call[d] EXCEPT !.pc = pc] EXCEPT !.terminal = t].pc = pc
      BY <3>1 DEF Calls, Idle
    <3> QED BY <1>1, <1>2, <3>2, <3>3
  <2>4. ASSUME NEW op, NEW r, NEW t, NEW pre, Serve(c, op, r, pc, t, pre) PROVE FALSE
    BY <2>4, <1>1, <1>2 DEF Serve, Idle
  <2> QED BY <1>2, <2>1, <2>2, <2>3, <2>4
<1>3. ASSUME NEW c \in Callers, TurnStep(c) PROVE FALSE
  <2>1. CASE FailAdmission(c) \/ Discard(c) \/ Commit(c) \/ CommitDeclined(c)
    BY <2>1, <1>2 DEF FailAdmission, Discard, Commit, CommitDeclined
  <2>2. CASE Start(c) \/ Launch(c) \/ StreamEnd(c)
    <3>1. Goto(c, "launch") \/ Goto(c, "streaming") \/ Return(c) \/ \E t : Decide(c, "commit", t)
      BY <2>2 DEF Start, Launch, StreamEnd
    <3> QED BY <3>1, <1>2
  <2>3. CASE StreamEvent(c) \/ StreamTerminal(c)
    <3>1. call[c].pc = "streaming" /\ \A e \in Callers \ {c} : call'[e] = call[e]
      BY <2>3, <1>1 DEF StreamEvent, StreamTerminal, Hear
    <3>2. call'[c].pc = call[c].pc
      BY <2>3, <3>1, <1>1 DEF StreamEvent, StreamTerminal, Hear, Calls, Idle
    <3> QED BY <3>1, <3>2
  <2>4. CASE StreamLost(c)
    <3>1. \/ call' = [call EXCEPT ![c].op = "turn", ![c].pc = "launch"]
          \/ \E t : Decide(c, "commit", t)
      BY <2>4 DEF StreamLost
    <3>2. ~(call' = [call EXCEPT ![c].op = "turn", ![c].pc = "launch"])
      BY <1>1 DEF Calls, Idle
    <3> QED BY <3>1, <3>2, <1>2
  <2> QED BY <1>3, <2>1, <2>2, <2>3, <2>4 DEF TurnStep
<1>4. ASSUME NEW c \in Callers, ControlStep(c) \/ Lose(c) PROVE FALSE
  <2>1. \/ \E pc \in {"request", "verify", "launch"} : Goto(c, pc)
        \/ Return(c)
        \/ \E pc \in {"verify", "commit"} : \E t : Decide(c, pc, t)
    BY <1>4 DEF ControlStep, CancelMark, CancelRequest, CancelVerify, PrepareResume, Lose
  <2>2. ~Return(c)
    BY <1>2
  <2>3. \A pc \in {"request", "verify", "launch"} : ~Goto(c, pc)
    BY <1>2
  <2>4. \A pc \in {"verify", "commit"} : \A t : ~Decide(c, pc, t)
    BY <1>2
  <2> QED BY <2>1, <2>2, <2>3, <2>4
<1>5. ASSUME NEW c \in Callers, NEW r \in Runs, Request(c, r)
      PROVE  UNCHANGED status /\ Retryable(call'[d].run)
  <2>1. CASE StartRetry(c, r)
    <3>1. d = c
      BY <2>1, <1>1 DEF StartRetry, Serve
    <3>2. [Idle EXCEPT !.op = "retry", !.run = r, !.pc = "retry",
                       !.terminal = NoTerminal, !.pre = FALSE].run = r
      BY DEF Idle
    <3>3. call'[d].run = r
      BY <2>1, <3>1, <3>2, <1>1 DEF StartRetry, Serve
    <3> QED BY <2>1, <3>3 DEF StartRetry, rows
  <2>2. CASE ~StartRetry(c, r)
    <3>1. \/ UNCHANGED call
          \/ \E pc \in {"admitted", "commit", "mark", "prepare", "streaming"} :
               \E op, q, t, pre : Serve(c, op, q, pc, t, pre)
      BY <1>5, <2>2 DEF Request, Admit, Retry, AdmitAs, StartCancel, StartResume, StartSync,
                        SyncUnavailable, StartRecover
    <3> QED BY <3>1, <1>2
  <2> QED BY <2>1, <2>2
<1>6. ASSUME NEW r \in Runs, WorkerRecover(r) \/ ProviderStep(r) PROVE FALSE
  BY <1>6 DEF WorkerRecover, ProviderStep
<1>7. CASE UNCHANGED vars
  BY <1>7 DEF vars
<1> QED BY <1>3, <1>4, <1>5, <1>6, <1>7 DEF Next

LEMMA RetriesStep ==
    ASSUME TypeOK, RetriesSettled, [Next]_vars
    PROVE  RetriesSettled'
<1> SUFFICES ASSUME NEW d \in Callers, call'[d].pc = "retry"
             PROVE  status'[call'[d].run] \in Settled
  BY DEF RetriesSettled, At
<1>1. CASE call'[d] # call[d]
  BY <1>1, RetryCalls DEF Retryable, Settled, Stable
<1>2. CASE call'[d] = call[d]
  <2>1. call[d].run \in Runs /\ status[call[d].run] \in Settled
    BY <1>2, BusyCall DEF RetriesSettled, At
  <2>2. CASE UNCHANGED seen
    BY <1>2, <2>1, <2>2 DEF seen
  <2>3. ASSUME NEW r \in Runs, StepOn(r) PROVE status'[call[d].run] \in Settled
    BY <2>1, <2>3 DEF StepOn, Admits, Fails, Withdraws, Starts, Marks, Resumes, Ends, Recovers,
                      TypeOK, Active, Settled, Stable
  <2> QED BY <1>2, <2>2, <2>3, StepKinds
<1> QED BY <1>1, <1>2

LEMMA RetryStep ==
    ASSUME TypeOK, PhaseSettled, RetriesSettled, RetriedRunIsSettled, NEW r \in Runs, StepOn(r)
    PROVE  RetriedRunIsSettled'
<1> USE RunAssumption
<1> SUFFICES ASSUME NEW q \in Runs, retryOf'[q] # NoRun
             PROVE  /\ status'[retryOf'[q]] \in Settled
                    /\ phase'[retryOf'[q]] = "settled"
                    /\ SessionOf[retryOf'[q]] = SessionOf[q]
  BY DEF RetriedRunIsSettled
<1> DEFINE o == retryOf'[q]
<1>1. /\ o \in Runs /\ status[o] \in Settled /\ phase[o] = "settled"
      /\ SessionOf[o] = SessionOf[q]
  <2>1. CASE retryOf'[q] = retryOf[q]
    BY <2>1 DEF TypeOK, RetriedRunIsSettled
  <2>2. CASE retryOf'[q] # retryOf[q]
    <3>1. Admits(q, o)
      BY <2>2 DEF StepOn, Admits, Fails, Withdraws, Starts, Marks, Resumes, Ends, Recovers,
                  TypeOK
    <3>2. MayRetry(o, q)
      BY <3>1 DEF Admits
    <3> QED BY <3>2 DEF MayRetry, RetriesSettled, PhaseSettled
  <2> QED BY <2>1, <2>2
<1>2. status'[o] \in Settled
  BY <1>1 DEF StepOn, Admits, Fails, Withdraws, Starts, Marks, Resumes, Ends, Recovers,
              TypeOK, Active, Settled, Stable
<1>3. phase'[o] = "settled"
  BY <1>1, <1>2, PhaseStep DEF PhaseSettled
<1> QED BY <1>1, <1>2, <1>3

\* A Run is only retried once it is settled, and it stays settled, whatever
\* happens between the read of the original and the admission of the retry.
THEOREM RetriedRunsSettled == Spec => []RetriedRunIsSettled
<1> DEFINE IInv == PhaseSettled /\ RetriesSettled /\ RetriedRunIsSettled
<1>1. Init => IInv
  <2>1. Idle.pc = "idle"
    BY DEF Idle
  <2> QED BY <2>1 DEF Init, PhaseSettled, RetriesSettled, At, RetriedRunIsSettled, Settled, Stable
<1>2. TypeOK /\ IInv /\ [Next]_vars => IInv'
  <2>1. PhaseSettled /\ RetriedRunIsSettled /\ UNCHANGED seen
          => PhaseSettled' /\ RetriedRunIsSettled'
    BY DEF PhaseSettled, RetriedRunIsSettled, seen
  <2> QED BY <2>1, StepKinds, PhaseStep, RetriesStep, RetryStep
<1>3. IInv => RetriedRunIsSettled
  OBVIOUS
<1> QED BY <1>1, <1>2, <1>3, TypeCorrect, PTL DEF Spec

-----------------------------------------------------------------------------
\* The rows derived from a Run.

\* RecordsAgree for one Run with status st and derived rows b.
Agrees(st, b) ==
    /\ b.activity = CASE st \in Missing -> "absent"
                      [] st \in Active -> "recording"
                      [] OTHER -> st
    /\ b.output \/ "completed" \in b.audits \/ b.operation = "completed"
         => st = "completed"
    /\ st = "completed" => b.operation = "completed"
    /\ b.operation = "failed" => st \in Settled \ {"completed"}
    /\ b.operation = "deferred" => st \in Active \cup {"failed", "outcome_unknown"}

LEMMA SettlementAgrees ==
    ASSUME NEW st \in Active \cup {"outcome_unknown"}, NEW b \in Books, Agrees(st, b),
           NEW s \in Settled \cup {"waiting_for_backend_input"}, NEW text \in BOOLEAN
    PROVE  Agrees(s, Settlement(b, s, text))
<1>1. "completed" \notin b.audits
  BY DEF Agrees, Active
<1> DEFINE n == Settlement(b, s, text)
<1>2. /\ n.activity = IF s = "waiting_for_backend_input" THEN "recording" ELSE s
      /\ n.output => s = "completed"
      /\ n.operation = CASE s = "completed" -> "completed"
                         [] s = "waiting_for_backend_input" -> "deferred"
                         [] OTHER -> "failed"
      /\ "completed" \in n.audits => s = "completed"
  BY <1>1 DEF Settlement, Settled, Stable
<1> HIDE DEF n
<1>3. Agrees(s, n)
  BY <1>2 DEF Agrees, Active, Settled, Stable, Missing
<1> QED BY <1>3 DEF n

LEMMA RecordsStep ==
    ASSUME TypeOK, RecordsAgree, NEW r \in Runs, StepOn(r)
    PROVE  RecordsAgree'
<1> SUFFICES ASSUME NEW q \in Runs PROVE Agrees(status'[q], books'[q])
  BY DEF RecordsAgree, Agrees
<1>1. Agrees(status[q], books[q]) /\ books[q] \in Books /\ status[q] \in Statuses
  BY DEF RecordsAgree, Agrees, TypeOK
<1>2. CASE q # r
  <2>1. status'[q] = status[q] /\ books'[q] = books[q]
    BY <1>2 DEF StepOn, Admits, Fails, Withdraws, Starts, Marks, Resumes, Ends, Recovers,
                TypeOK
  <2> QED BY <1>1, <2>1
<1>3. CASE q = r
  <2>1. ASSUME NEW o, Admits(r, o) PROVE Agrees(status'[r], books'[r])
    BY <2>1 DEF Admits, NoBooks, Agrees, Active, Settled, Stable, Missing, TypeOK
  <2>2. CASE Fails(r)
    <3> DEFINE n == [[[books[r] EXCEPT !.operation = "failed"] EXCEPT !.activity = "failed"]
                       EXCEPT !.audits = @ \cup {"failed"}]
    <3>1. status'[r] = "failed" /\ books'[r] = n
      BY <2>2 DEF Fails, TypeOK
    <3>2. /\ n.operation = "failed" /\ n.activity = "failed" /\ n.output = books[r].output
          /\ n.audits = books[r].audits \cup {"failed"}
      BY <1>1, <1>3 DEF Books
    <3>3. ~books[r].output /\ "completed" \notin books[r].audits
      BY <1>1, <1>3, <2>2 DEF Fails, Agrees
    <3> HIDE DEF n
    <3>4. ~n.output /\ "completed" \notin n.audits
      BY <3>2, <3>3
    <3>5. Agrees("failed", n)
      BY <3>2, <3>4 DEF Agrees, Active, Settled, Stable, Missing
    <3> QED BY <1>3, <3>1, <3>5
  <2>3. CASE Withdraws(r)
    <3>1. status'[r] = "discarded" /\ books'[r] = NoBooks
      BY <2>3 DEF Withdraws, TypeOK
    <3>2. Agrees("discarded", NoBooks)
      BY DEF Agrees, NoBooks, Active, Settled, Stable, Missing
    <3> QED BY <1>3, <3>1, <3>2
  <2>4. CASE Starts(r)
    <3>1. status[r] = "queued" /\ status'[r] = "running" /\ books'[r] = books[r]
      BY <2>4 DEF Starts, TypeOK
    <3> QED BY <1>1, <1>3, <3>1 DEF Agrees, Active, Settled, Stable, Missing
  <2>5. CASE Marks(r)
    BY <1>1, <1>3, <2>5 DEF Marks
  <2>6. CASE Resumes(r)
    <3> DEFINE n == [books[r] EXCEPT !.operation = "created"]
    <3>1. /\ status[r] = "waiting_for_backend_input" /\ status'[r] = "running"
          /\ books'[r] = n
      BY <2>6 DEF Resumes, TypeOK
    <3>2. /\ n.operation = "created" /\ n.activity = books[r].activity
          /\ n.output = books[r].output /\ n.audits = books[r].audits
      BY <1>1, <1>3 DEF Books
    <3> HIDE DEF n
    <3> QED BY <1>1, <1>3, <3>1, <3>2 DEF Agrees, Active, Settled, Stable, Missing
  <2>7. ASSUME NEW s \in Settled \cup {"waiting_for_backend_input"}, NEW text \in BOOLEAN,
               Ends(r, s, text)
        PROVE  Agrees(status'[r], books'[r])
    <3>1. /\ status[r] \in Active \cup {"outcome_unknown"}
          /\ status'[r] = s /\ books'[r] = Settlement(books[r], s, text)
      BY <2>7 DEF Ends, TypeOK
    <3> QED BY <1>1, <1>3, <3>1, SettlementAgrees
  <2>8. ASSUME NEW s \in {"failed", "outcome_unknown"}, Recovers(r, s)
        PROVE  Agrees(status'[r], books'[r])
    <3> DEFINE n == [books[r] EXCEPT !.activity = s]
    <3>1. status[r] \in {"queued", "running"} /\ status'[r] = s /\ books'[r] = n
      BY <2>8 DEF Recovers, TypeOK
    <3>2. /\ n.activity = s /\ n.operation = books[r].operation
          /\ n.output = books[r].output /\ n.audits = books[r].audits
      BY <1>1, <1>3 DEF Books
    <3> HIDE DEF n
    <3> QED BY <1>1, <1>3, <3>1, <3>2 DEF Agrees, Active, Settled, Stable, Missing
  <2> QED BY <1>3, <2>1, <2>2, <2>3, <2>4, <2>5, <2>6, <2>7, <2>8 DEF StepOn
<1> QED BY <1>2, <1>3

\* Operation, activity, audits and answer tell the story the Run tells,
\* whichever handlers and workers settle, reconcile, resume or withdraw it.
THEOREM RecordsCorrect == Spec => []RecordsAgree
<1>1. Init => RecordsAgree
  BY DEF Init, RecordsAgree, NoBooks, Missing, Active, Settled, Stable
<1>2. TypeOK /\ RecordsAgree /\ [Next]_vars => RecordsAgree'
  <2>1. RecordsAgree /\ UNCHANGED seen => RecordsAgree'
    BY DEF RecordsAgree, seen
  <2> QED BY <2>1, StepKinds, RecordsStep
<1> QED BY <1>1, <1>2, TypeCorrect, PTL DEF Spec

-----------------------------------------------------------------------------
\* The abstract outcome.

Seen(st) ==
    CASE st = "absent" -> "none"
      [] st = "discarded" -> "withdrawn"
      [] st \in {"queued", "running"} -> "open"
      [] st = "waiting_for_backend_input" -> "waiting"
      [] st = "outcome_unknown" -> "unknown"
      [] OTHER -> st

outcomes == [r \in Runs |-> Seen(status[r])]
answers == [r \in Runs |-> books[r].output]

\* The status of one Run changes, its answer does not.
LEMMA OutcomeStep ==
    ASSUME TypeOK, NEW r \in Runs, NEW to,
           status' = [status EXCEPT ![r] = to],
           \A q \in Runs : books'[q].output = books[q].output
    PROVE  outcomes' = [outcomes EXCEPT ![r] = Seen(to)] /\ answers' = answers
BY DEF outcomes, answers, TypeOK

\* A step of the handlers is a step of the abstract outcome, or invisible.
LEMMA RefinementStep ==
    ASSUME TypeOK, RecordsAgree, NEW r \in Runs, StepOn(r)
    PROVE  \/ outcomes' = outcomes /\ answers' = answers
           \/ outcomes[r] = "none" /\ outcomes' = [outcomes EXCEPT ![r] = "open"]
              /\ answers' = answers
           \/ outcomes[r] = "open" /\ answers' = answers
              /\ \E to \in {"withdrawn", "waiting"} : outcomes' = [outcomes EXCEPT ![r] = to]
           \/ outcomes[r] = "waiting" /\ outcomes' = [outcomes EXCEPT ![r] = "open"]
              /\ answers' = answers
           \/ \E to \in {"completed", "failed", "cancelled", "unknown"}, a \in BOOLEAN :
                /\ outcomes[r] \in {"open", "waiting", "unknown"}
                /\ to = "unknown" => outcomes[r] # "unknown"
                /\ outcomes' = [outcomes EXCEPT ![r] = to]
                /\ answers' = [answers EXCEPT ![r] = a /\ to = "completed"]
<1>0. /\ outcomes[r] = Seen(status[r]) /\ books[r] \in Books
      /\ books[r].output => status[r] = "completed"
      /\ outcomes = [q \in Runs |-> Seen(status[q])]
      /\ answers = [q \in Runs |-> books[q].output]
  BY DEF outcomes, answers, TypeOK, RecordsAgree
<1>1. ASSUME NEW o, Admits(r, o)
      PROVE  /\ outcomes[r] = "none" /\ outcomes' = [outcomes EXCEPT ![r] = "open"]
             /\ answers' = answers
  <2>1. status[r] = "absent" /\ status' = [status EXCEPT ![r] = "queued"]
    BY <1>1 DEF Admits
  <2>2. books[r].output = FALSE
    BY <1>0, <2>1 DEF Books
  <2>3. \A q \in Runs : books'[q].output = books[q].output
    BY <2>2, <1>1 DEF Admits, NoBooks, TypeOK
  <2> QED BY <1>0, <2>1, <2>3, OutcomeStep DEF Seen
<1>2. CASE Fails(r)
  <2>1. status[r] = "queued" /\ status' = [status EXCEPT ![r] = "failed"]
    BY <1>2 DEF Fails
  <2>2. books[r].output = FALSE
    BY <1>0, <2>1 DEF Books
  <2> DEFINE n == [[[books[r] EXCEPT !.operation = "failed"] EXCEPT !.activity = "failed"]
                     EXCEPT !.audits = @ \cup {"failed"}]
  <2>3. books' = [books EXCEPT ![r] = n] /\ n.output = books[r].output
    BY <1>0, <1>2 DEF Fails, Books
  <2>4. \A q \in Runs : books'[q].output = books[q].output
    BY <2>3 DEF TypeOK
  <2>5. outcomes' = [outcomes EXCEPT ![r] = "failed"] /\ answers' = answers
    BY <2>1, <2>4, OutcomeStep DEF Seen
  <2>6. answers' = [answers EXCEPT ![r] = TRUE /\ "failed" = "completed"]
    BY <1>0, <2>2, <2>5
  <2> QED BY <1>0, <2>1, <2>5, <2>6 DEF Seen
<1>3. CASE Withdraws(r)
  <2>1. status[r] = "queued" /\ status' = [status EXCEPT ![r] = "discarded"]
    BY <1>3 DEF Withdraws
  <2>2. books[r].output = FALSE
    BY <1>0, <2>1 DEF Books
  <2>3. \A q \in Runs : books'[q].output = books[q].output
    BY <1>3, <2>2 DEF Withdraws, NoBooks, TypeOK
  <2> QED BY <1>0, <2>1, <2>3, OutcomeStep DEF Seen
<1>4. CASE Starts(r)
  <2>1. status[r] = "queued" /\ status' = [status EXCEPT ![r] = "running"]
    BY <1>4 DEF Starts
  <2>2. \A q \in Runs : books'[q].output = books[q].output
    BY <1>4 DEF Starts
  <2>3. outcomes' = [outcomes EXCEPT ![r] = "open"] /\ answers' = answers
    BY <2>1, <2>2, OutcomeStep DEF Seen
  <2> QED BY <1>0, <2>1, <2>3 DEF Seen
<1>5. CASE Marks(r)
  BY <1>5 DEF Marks, outcomes, answers
<1>6. CASE Resumes(r)
  <2>1. /\ status[r] = "waiting_for_backend_input"
        /\ status' = [status EXCEPT ![r] = "running"]
    BY <1>6 DEF Resumes
  <2>2. \A q \in Runs : books'[q].output = books[q].output
    <3>1. books' = [books EXCEPT ![r].operation = "created"]
      BY <1>6 DEF Resumes
    <3>2. [books[r] EXCEPT !.operation = "created"].output = books[r].output
      BY <1>0 DEF Books
    <3> QED BY <3>1, <3>2 DEF TypeOK
  <2> QED BY <1>0, <2>1, <2>2, OutcomeStep DEF Seen
<1>7. ASSUME NEW s \in Settled \cup {"waiting_for_backend_input"}, NEW text \in BOOLEAN,
             Ends(r, s, text)
      PROVE  \/ outcomes' = outcomes /\ answers' = answers
             \/ outcomes[r] = "open" /\ answers' = answers
                /\ outcomes' = [outcomes EXCEPT ![r] = "waiting"]
             \/ \E to \in {"completed", "failed", "cancelled", "unknown"}, a \in BOOLEAN :
                  /\ outcomes[r] \in {"open", "waiting", "unknown"}
                  /\ to = "unknown" => outcomes[r] # "unknown"
                  /\ outcomes' = [outcomes EXCEPT ![r] = to]
                  /\ answers' = [answers EXCEPT ![r] = a /\ to = "completed"]
  <2>1. /\ \/ status[r] \in Active
           \/ status[r] = "outcome_unknown" /\ s \in Stable
        /\ status' = [status EXCEPT ![r] = s]
        /\ books' = [books EXCEPT ![r] = Settlement(books[r], s, text)]
    BY <1>7 DEF Ends
  <2>2. books[r].output = FALSE
    BY <1>0, <2>1 DEF Books, Active
  <2>3. Settlement(books[r], s, text).output = (s = "completed" /\ text)
    BY DEF Settlement
  <2>4. outcomes' = [outcomes EXCEPT ![r] = Seen(s)]
    BY <2>1 DEF outcomes, TypeOK
  <2>5. answers' = [answers EXCEPT ![r] = (text /\ s = "completed")]
    <3>1. answers' = [q \in Runs |-> IF q = r THEN (s = "completed" /\ text)
                                              ELSE books[q].output]
      BY <2>1, <2>3 DEF answers, TypeOK
    <3>2. (s = "completed" /\ text) = (text /\ s = "completed")
      OBVIOUS
    <3> QED BY <1>0, <3>1, <3>2
  <2>6. CASE s = "waiting_for_backend_input"
    <3>1. answers' = answers
      BY <1>0, <2>2, <2>5, <2>6
    <3>2. outcomes' = [outcomes EXCEPT ![r] = "waiting"] /\ status[r] \in Active
      BY <2>1, <2>4, <2>6 DEF Seen, Stable
    <3>3. outcomes[r] \in {"open", "waiting"}
      BY <1>0, <3>2 DEF Seen, Active
    <3>4. outcomes[r] = "waiting" => outcomes' = outcomes
      BY <1>0, <3>2
    <3> QED BY <3>1, <3>2, <3>3, <3>4
  <2>7. CASE s = "outcome_unknown"
    <3>1. answers' = [answers EXCEPT ![r] = text /\ "unknown" = "completed"]
      BY <2>5, <2>7
    <3>2. outcomes' = [outcomes EXCEPT ![r] = "unknown"] /\ status[r] \in Active
      BY <2>1, <2>4, <2>7 DEF Seen, Stable
    <3>3. outcomes[r] \in {"open", "waiting"}
      BY <1>0, <3>2 DEF Seen, Active
    <3> QED BY <3>1, <3>2, <3>3
  <2>8. CASE s \in Stable
    <3>1. Seen(s) = s /\ s \in {"completed", "failed", "cancelled"}
      BY <2>8 DEF Seen, Stable
    <3>2. outcomes[r] \in {"open", "waiting", "unknown"}
      BY <1>0, <2>1 DEF Seen, Active
    <3> QED BY <2>4, <2>5, <3>1, <3>2
  <2> QED BY <2>6, <2>7, <2>8 DEF Settled
<1>8. ASSUME NEW s \in {"failed", "outcome_unknown"}, Recovers(r, s)
      PROVE  \E to \in {"failed", "unknown"} :
                /\ outcomes[r] = "open"
                /\ outcomes' = [outcomes EXCEPT ![r] = to]
                /\ answers' = [answers EXCEPT ![r] = TRUE /\ to = "completed"]
  <2>1. status[r] \in {"queued", "running"} /\ status' = [status EXCEPT ![r] = s]
    BY <1>8 DEF Recovers
  <2>2. books[r].output = FALSE
    BY <1>0, <2>1 DEF Books
  <2>3. \A q \in Runs : books'[q].output = books[q].output
    <3>1. books' = [books EXCEPT ![r].activity = s]
      BY <1>8 DEF Recovers
    <3>2. [books[r] EXCEPT !.activity = s].output = books[r].output
      BY <1>0 DEF Books
    <3> QED BY <3>1, <3>2 DEF TypeOK
  <2>4. outcomes' = [outcomes EXCEPT ![r] = Seen(s)] /\ answers' = answers
    BY <2>1, <2>3, OutcomeStep
  <2>5. Seen(s) \in {"failed", "unknown"} /\ outcomes[r] = "open"
    BY <1>0, <2>1 DEF Seen
  <2>6. answers' = [answers EXCEPT ![r] = TRUE /\ Seen(s) = "completed"]
    BY <1>0, <2>2, <2>4, <2>5
  <2> QED BY <2>4, <2>5, <2>6
<1> QED BY <1>1, <1>2, <1>3, <1>4, <1>5, <1>6, <1>7, <1>8 DEF StepOn

\* Whatever the handlers and the worker do, a reader of the Runs only ever
\* sees what RunOutcome allows.
THEOREM OutcomeRefined == Spec => RefinesOutcome
<1>1. Init => Outcome!Init
  BY DEF Init, Outcome!Init, NoBooks
<1>2. TypeOK /\ RecordsAgree /\ [Next]_vars => [Outcome!Next]_(Outcome!vars)
  <2> SUFFICES ASSUME TypeOK, RecordsAgree, [Next]_vars
               PROVE  Outcome!Next \/ (outcomes' = outcomes /\ answers' = answers)
    BY DEF Outcome!vars, outcomes, answers, Seen
  <2>1. CASE UNCHANGED seen
    BY <2>1 DEF seen, outcomes, answers
  <2>2. ASSUME NEW r \in Runs, StepOn(r)
        PROVE  Outcome!Next \/ (outcomes' = outcomes /\ answers' = answers)
    <3> DEFINE become(to) == outcomes' = [outcomes EXCEPT ![r] = to]
    <3> USE DEF Outcome!Become, outcomes, answers, Seen
    <3>1. outcomes[r] = "none" /\ become("open") /\ answers' = answers => Outcome!Admit(r)
      BY DEF Outcome!Admit
    <3>2. outcomes[r] = "open" /\ become("withdrawn") /\ answers' = answers
            => Outcome!Withdraw(r)
      BY DEF Outcome!Withdraw
    <3>3. outcomes[r] = "open" /\ become("waiting") /\ answers' = answers => Outcome!Pause(r)
      BY DEF Outcome!Pause
    <3>4. outcomes[r] = "waiting" /\ become("open") /\ answers' = answers
            => Outcome!Resume(r)
      BY DEF Outcome!Resume
    <3>5. ASSUME NEW to \in {"completed", "failed", "cancelled", "unknown"}, NEW a \in BOOLEAN,
                 outcomes[r] \in {"open", "waiting", "unknown"},
                 to = "unknown" => outcomes[r] # "unknown",
                 become(to),
                 answers' = [answers EXCEPT ![r] = a /\ to = "completed"]
          PROVE  Outcome!End(r, to) /\ to \in Outcome!Final \cup {"unknown"}
      BY <3>5 DEF Outcome!End, Outcome!Final
    <3> HIDE DEF Outcome!Become, outcomes, answers, Seen
    <3> QED BY <2>2, <3>1, <3>2, <3>3, <3>4, <3>5, RefinementStep DEF Outcome!Next
  <2> QED BY <2>1, <2>2, StepKinds
<1> QED BY <1>1, <1>2, TypeCorrect, RecordsCorrect, PTL DEF Spec, RefinesOutcome, Outcome!Spec

-----------------------------------------------------------------------------
\* Launches and completions, of turns that do not continue an external
\* conversation (a continuation may be launched again as a fresh turn).

\* What a caller that is in the middle of something knows of its Run.
Knows(x, st, la, pr) ==
    /\ x.op # "continue"
    /\ x.pc = "admitted" => x.op = "turn"
    /\ x.pc = "prepare" => x.op # "turn"
    /\ x.op = "turn" => x.run \in Runs /\ st[x.run] \notin Missing
    /\ x.pc = "admitted" \/ (x.pc = "launch" /\ x.op = "turn") => la[x.run] = 0
    /\ x.terminal = "completed" => x.run \in Runs /\ pr[x.run] = "completed"

\* A Run, its launches and the truth about its provider.
Told(r) ==
    /\ status[r] \in Missing => launches[r] = 0
    /\ launches[r] \in {0, 1}
    /\ launches[r] = 0 => provider[r] = "none"
    /\ status[r] = "completed" => provider[r] = "completed"

OneTurn ==
    \A c, d \in Callers :
        call[c].op = "turn" /\ call[d].op = "turn" /\ call[c].run = call[d].run => c = d

OneRunOfKey ==
    \A q, r \in Runs :
        /\ KeyOf[q] = KeyOf[r] /\ SessionOf[q] = SessionOf[r]
        /\ status[q] \notin Missing /\ status[r] \notin Missing
        => q = r

Launched ==
    /\ \A c \in Callers : Knows(call[c], status, launches, provider)
    /\ \A r \in Runs : Told(r)
    /\ OneTurn /\ OneRunOfKey

\* A step of one caller that admits, withdraws and launches nothing, and that
\* settles a Run as completed only if its backend completed it.
LEMMA QuietLaunches ==
    ASSUME TypeOK, TypeOK', Launched, UNCHANGED launches,
           \A r \in Runs :
              /\ status'[r] \in Missing <=> status[r] \in Missing
              /\ status'[r] = "completed" => status[r] = "completed" \/ provider[r] = "completed"
              /\ provider[r] = "completed" => provider'[r] = "completed"
              /\ provider[r] = "none" => provider'[r] = "none",
           NEW c \in Callers, NEW x, call' = [call EXCEPT ![c] = x],
           x.op = "turn" => call[c].op = "turn" /\ x.run = call[c].run,
           Knows(x, status', launches', provider')
    PROVE  Launched'
<1>1. call'[c] = x /\ \A d \in Callers \ {c} : call'[d] = call[d]
  BY DEF TypeOK
<1>2. ASSUME NEW d \in Callers \ {c} PROVE Knows(call'[d], status', launches', provider')
  <2>1. Knows(call[d], status, launches, provider)
    BY DEF Launched
  <2> QED BY <1>1, <2>1 DEF Knows
<1>3. \A r \in Runs : Told(r)'
  BY DEF Launched, Told
<1>4. OneTurn'
  BY <1>1 DEF Launched, OneTurn
<1>5. OneRunOfKey'
  BY DEF Launched, OneRunOfKey
<1> QED BY <1>1, <1>2, <1>3, <1>4, <1>5 DEF Launched

\* How a caller's own record changes.
LEMMA CallChanges ==
    ASSUME TypeOK, NEW c \in Callers, call[c].pc # "idle"
    PROVE  /\ call[c] \in Calls /\ call[c].run \in Runs
           /\ \A p \in Points : Goto(c, p) =>
                \E x \in Calls : /\ call' = [call EXCEPT ![c] = x]
                                 /\ x.op = call[c].op /\ x.run = call[c].run
                                 /\ x.pc = p /\ x.terminal = call[c].terminal
           /\ \A p \in Points, t \in Terminals : Decide(c, p, t) =>
                \E x \in Calls : /\ call' = [call EXCEPT ![c] = x]
                                 /\ x.op = call[c].op /\ x.run = call[c].run
                                 /\ x.pc = p /\ x.terminal = t
<1>1. call[c] \in Calls /\ call[c].run \in Runs
  BY BusyCall
<1>2. ASSUME NEW p \in Points, Goto(c, p)
      PROVE  \E x \in Calls : /\ call' = [call EXCEPT ![c] = x]
                              /\ x.op = call[c].op /\ x.run = call[c].run
                              /\ x.pc = p /\ x.terminal = call[c].terminal
  <2> DEFINE x == [call[c] EXCEPT !.pc = p]
  <2>1. x \in Calls /\ x.op = call[c].op /\ x.run = call[c].run
        /\ x.pc = p /\ x.terminal = call[c].terminal
    BY <1>1 DEF Calls
  <2>2. call' = [call EXCEPT ![c] = x]
    BY <1>2 DEF Goto
  <2> QED BY <2>1, <2>2
<1>3. ASSUME NEW p \in Points, NEW t \in Terminals, Decide(c, p, t)
      PROVE  \E x \in Calls : /\ call' = [call EXCEPT ![c] = x]
                              /\ x.op = call[c].op /\ x.run = call[c].run
                              /\ x.pc = p /\ x.terminal = t
  <2> DEFINE x == [[call[c] EXCEPT !.pc = p] EXCEPT !.terminal = t]
  <2>1. x \in Calls /\ x.op = call[c].op /\ x.run = call[c].run /\ x.pc = p /\ x.terminal = t
    BY <1>1 DEF Calls
  <2>2. call' = [call EXCEPT ![c] = x]
    BY <1>3 DEF Decide, TypeOK
  <2> QED BY <2>1, <2>2
<1> QED BY <1>1, <1>2, <1>3

LEMMA IdleKnows ==
    /\ Knows(Idle, status, launches, provider)
    /\ Knows(Idle, status', launches', provider')
  BY DEF Knows, Idle, NoTerminal

\* A Run is admitted, by a caller that will be the only one to launch it.
LEMMA AdmitLaunches ==
    ASSUME ~Continues, TypeOK, TypeOK', Launched, NEW c \in Callers, NEW r \in Runs, NEW o,
           AdmitAs(c, r, o)
    PROVE  Launched'
<1> DEFINE x == [Idle EXCEPT !.op = "turn", !.run = r, !.pc = "admitted",
                             !.terminal = NoTerminal, !.pre = FALSE]
<1>1. call' = [call EXCEPT ![c] = x]
  BY DEF AdmitAs, Serve
<1>2. x.op = "turn" /\ x.run = r /\ x.pc = "admitted" /\ x.terminal = NoTerminal
  BY DEF Idle
<1> HIDE DEF x
<1>3. call'[c] = x /\ \A d \in Callers \ {c} : call'[d] = call[d]
  BY <1>1 DEF TypeOK
<1>4. /\ status[r] = "absent" /\ status'[r] = "queued"
      /\ \A q \in Runs \ {r} : status'[q] = status[q]
      /\ UNCHANGED <<launches, provider>> /\ KeyFree(r)
  BY DEF AdmitAs, outside, TypeOK
<1>5. "queued" \notin Missing /\ "absent" \in Missing
  BY DEF Missing
<1>6. \A d \in Callers : call[d].op = "turn" => call[d].run # r
  BY <1>4, <1>5 DEF Launched, Knows
<1>7. \A q \in Runs : Told(q)'
  BY <1>4, <1>5 DEF Launched, Told
<1>8. Knows(x, status', launches', provider')
  BY <1>2, <1>4, <1>5 DEF Launched, Told, Knows, NoTerminal
<1>9. ASSUME NEW d \in Callers \ {c} PROVE Knows(call'[d], status', launches', provider')
  <2>1. Knows(call[d], status, launches, provider)
    BY DEF Launched
  <2> QED BY <1>3, <1>4, <1>5, <2>1 DEF Knows
<1>10. OneTurn'
  BY <1>2, <1>3, <1>6 DEF Launched, OneTurn
<1>11. OneRunOfKey'
  BY <1>4, <1>5 DEF Launched, OneRunOfKey, KeyFree
<1> QED BY <1>3, <1>7, <1>8, <1>9, <1>10, <1>11 DEF Launched

\* A Run is deleted by the caller that would have launched it.
LEMMA DiscardLaunches ==
    ASSUME TypeOK, TypeOK', Launched, NEW c \in Callers, Discard(c)
    PROVE  Launched'
<1> DEFINE r == call[c].run
<1>1. /\ call[c].pc = "admitted" /\ r \in Runs /\ status[r] = "queued"
      /\ status' = [status EXCEPT ![r] = "discarded"]
      /\ call' = [call EXCEPT ![c] = Idle] /\ UNCHANGED <<launches, provider>>
  BY BusyCall DEF Discard, At, Return, outside
<1>2. call'[c] = Idle /\ \A d \in Callers \ {c} : call'[d] = call[d]
  BY <1>1 DEF TypeOK
<1>3. status'[r] = "discarded" /\ \A q \in Runs \ {r} : status'[q] = status[q]
  BY <1>1 DEF TypeOK
<1>4. call[c].op = "turn" /\ launches[r] = 0
  BY <1>1 DEF Launched, Knows
<1>5. "discarded" \in Missing /\ "queued" \notin Missing
  BY DEF Missing
<1>6. ASSUME NEW d \in Callers \ {c} PROVE Knows(call'[d], status', launches', provider')
  <2>1. Knows(call[d], status, launches, provider) /\ (call[d].op = "turn" => call[d].run # r)
    BY <1>4 DEF Launched, OneTurn
  <2> QED BY <1>1, <1>2, <1>3, <2>1 DEF Knows
<1>7. \A q \in Runs : Told(q)'
  BY <1>1, <1>3, <1>4 DEF Launched, Told
<1>8. OneTurn'
  BY <1>2 DEF Launched, OneTurn, Idle
<1>9. OneRunOfKey'
  BY <1>1, <1>3, <1>5 DEF Launched, OneRunOfKey
<1> QED BY <1>2, <1>6, <1>7, <1>8, <1>9, IdleKnows DEF Launched

\* The backend is called: nothing happens outside, a provider starts, or one
\* that waits goes on.
LEMMA LaunchLaunches ==
    ASSUME TypeOK, TypeOK', Launched, NEW c \in Callers, Launch(c)
    PROVE  Launched'
<1> DEFINE r == call[c].run
<1>1. call[c].pc = "launch" /\ Goto(c, "streaming") /\ UNCHANGED status /\ "streaming" \in Points
  BY DEF Launch, At, rows, Points
<1>2. r \in Runs /\ Knows(call[c], status, launches, provider) /\ call[c].op # "continue"
  BY <1>1, CallChanges DEF Launched, Knows
<1>3. PICK x \in Calls : /\ call' = [call EXCEPT ![c] = x]
                         /\ x.op = call[c].op /\ x.run = r
                         /\ x.pc = "streaming" /\ x.terminal = call[c].terminal
  BY <1>1, CallChanges
<1>4. CASE UNCHANGED <<provider, launches>>
  <2>1. Knows(x, status', launches', provider')
    BY <1>1, <1>2, <1>3, <1>4 DEF Knows
  <2> QED BY <1>1, <1>3, <1>4, <2>1, QuietLaunches
<1>5. CASE /\ call[c].op = "turn" /\ provider' = [provider EXCEPT ![r] = "live"]
           /\ launches' = [launches EXCEPT ![r] = @ + 1]
  <2>1. launches[r] = 0 /\ provider[r] = "none" /\ status[r] \notin Missing
    BY <1>1, <1>2, <1>5 DEF Launched, Told, Knows
  <2>2. /\ provider'[r] = "live" /\ launches'[r] = 1
        /\ \A q \in Runs \ {r} : provider'[q] = provider[q] /\ launches'[q] = launches[q]
    BY <1>2, <1>5, <2>1 DEF TypeOK
  <2>3. call'[c] = x /\ \A d \in Callers \ {c} : call'[d] = call[d]
    BY <1>3 DEF TypeOK
  <2>4. Knows(x, status', launches', provider')
    BY <1>1, <1>2, <1>3, <2>1, <2>2 DEF Knows
  <2>5. ASSUME NEW d \in Callers \ {c} PROVE Knows(call'[d], status', launches', provider')
    <3>1. Knows(call[d], status, launches, provider) /\ (call[d].op = "turn" => call[d].run # r)
      BY <1>5 DEF Launched, OneTurn
    <3>2. call[d].run \in Runs \ {r} => launches'[call[d].run] = launches[call[d].run]
                                       /\ provider'[call[d].run] = provider[call[d].run]
      BY <2>2
    <3>3. call[d].terminal = "completed" => call[d].run # r
      BY <2>1, <3>1 DEF Knows
    <3> QED BY <1>1, <2>3, <3>1, <3>2, <3>3 DEF Knows
  <2>6. \A q \in Runs : Told(q)'
    <3>1. status[r] # "completed"
      BY <1>2, <2>1 DEF Launched, Told
    <3> QED BY <1>1, <1>2, <2>1, <2>2, <3>1 DEF Launched, Told
  <2>7. OneTurn'
    BY <1>3, <2>3 DEF Launched, OneTurn
  <2>8. OneRunOfKey'
    BY <1>1 DEF Launched, OneRunOfKey
  <2> QED BY <2>3, <2>4, <2>5, <2>6, <2>7, <2>8 DEF Launched
<1>6. CASE /\ call[c].op = "resume" /\ provider[r] = "waiting"
           /\ provider' = [provider EXCEPT ![r] = "live"] /\ UNCHANGED launches
  <2>1. \A q \in Runs : /\ provider[q] = "completed" => provider'[q] = "completed"
                        /\ provider[q] = "none" => provider'[q] = "none"
    BY <1>2, <1>6 DEF TypeOK
  <2>2. Knows(x, status', launches', provider')
    BY <1>1, <1>2, <1>3, <1>6, <2>1 DEF Knows
  <2> QED BY <1>1, <1>3, <1>6, <2>1, <2>2, QuietLaunches
<1> QED BY <1>2, <1>4, <1>5, <1>6 DEF Launch, outside

\* A handler that settles its Run, or finds that it may not.
LEMMA CommitLaunches ==
    ASSUME TypeOK, TypeOK', Launched, NEW c \in Callers,
           Commit(c) \/ CommitDeclined(c) \/ FailAdmission(c)
    PROVE  Launched'
<1> DEFINE r == call[c].run
<1>1. r \in Runs /\ call' = [call EXCEPT ![c] = Idle] /\ UNCHANGED <<launches, provider>>
  BY BusyCall DEF Commit, CommitDeclined, FailAdmission, At, Return, outside
<1>2. Knows(Idle, status', launches', provider') /\ Idle.op # "turn"
  BY IdleKnows DEF Idle
<1>3. CASE UNCHANGED status
  BY <1>1, <1>2, <1>3, QuietLaunches
<1>4. CASE status[r] = "queued" /\ status' = [status EXCEPT ![r] = "failed"]
  <2>1. \A q \in Runs : /\ status'[q] \in Missing <=> status[q] \in Missing
                        /\ status'[q] = "completed" => status[q] = "completed"
    BY <1>1, <1>4 DEF TypeOK, Missing
  <2> QED BY <1>1, <1>2, <2>1, QuietLaunches
<1>5. CASE Commit(c)
  <2> DEFINE s == FinalStatus(call[c].terminal, call[c].op = "cancel")
  <2>1. status[r] \notin Missing /\ status' = [status EXCEPT ![r] = s]
    BY <1>5 DEF Commit, Accepts, Reconciles, Active, Missing
  <2>2. s \notin Missing /\ (s = "completed" => call[c].terminal = "completed")
    BY DEF FinalStatus, Missing
  <2>3. s = "completed" => provider[r] = "completed"
    BY <2>2 DEF Launched, Knows
  <2> HIDE DEF s
  <2>4. \A q \in Runs : /\ status'[q] \in Missing <=> status[q] \in Missing
                        /\ status'[q] = "completed"
                             => status[q] = "completed" \/ provider[q] = "completed"
    BY <1>1, <2>1, <2>2, <2>3 DEF TypeOK
  <2> QED BY <1>1, <1>2, <2>4, QuietLaunches
<1> QED BY <1>3, <1>4, <1>5 DEF CommitDeclined, FailAdmission, rows

\* A caller goes on; its Run may be started, marked or taken up again.
LEMMA GoesLaunches ==
    ASSUME TypeOK, TypeOK', Launched, UNCHANGED launches, NEW c \in Callers, call[c].pc # "idle",
           \A r \in Runs : status'[r] = status[r]
                           \/ (status[r] \in Active /\ status'[r] \in Active),
           \A r \in Runs : provider'[r] = provider[r] \/ provider[r] \in {"live", "waiting"},
           \/ Return(c)
           \/ \E p \in Points \ {"admitted", "prepare"} : Goto(c, p) /\ (p = "launch" =>
                \/ call[c].op # "turn" \/ launches[call[c].run] = 0)
           \/ \E p \in Points \ {"admitted", "prepare", "launch"}, t \in Terminals :
                Decide(c, p, t) /\ (t = "completed" => provider'[call[c].run] = "completed")
    PROVE  Launched'
<1>1. \A r \in Runs : /\ status'[r] \in Missing <=> status[r] \in Missing
                      /\ status'[r] = "completed" => status[r] = "completed"
                      /\ provider[r] = "completed" => provider'[r] = "completed"
                      /\ provider[r] = "none" => provider'[r] = "none"
  BY DEF Active, Missing
<1>2. call[c].run \in Runs /\ Knows(call[c], status, launches, provider)
  BY CallChanges DEF Launched
<1>3. CASE Return(c)
  <2>1. call' = [call EXCEPT ![c] = Idle] /\ Idle.op # "turn"
    BY <1>3 DEF Return, Idle
  <2> QED BY <1>1, <2>1, IdleKnows, QuietLaunches
<1>4. ASSUME NEW p \in Points \ {"admitted", "prepare"}, Goto(c, p),
             p = "launch" => call[c].op # "turn" \/ launches[call[c].run] = 0
      PROVE  Launched'
  <2>1. PICK x \in Calls : /\ call' = [call EXCEPT ![c] = x]
                           /\ x.op = call[c].op /\ x.run = call[c].run
                           /\ x.pc = p /\ x.terminal = call[c].terminal
    BY <1>4, CallChanges
  <2>2. Knows(x, status', launches', provider')
    BY <1>1, <1>2, <1>4, <2>1 DEF Knows
  <2> QED BY <1>1, <2>1, <2>2, QuietLaunches
<1>5. ASSUME NEW p \in Points \ {"admitted", "prepare", "launch"}, NEW t \in Terminals, Decide(c, p, t),
             t = "completed" => provider'[call[c].run] = "completed"
      PROVE  Launched'
  <2>1. PICK x \in Calls : /\ call' = [call EXCEPT ![c] = x]
                           /\ x.op = call[c].op /\ x.run = call[c].run
                           /\ x.pc = p /\ x.terminal = t
    BY <1>5, CallChanges
  <2>2. Knows(x, status', launches', provider')
    BY <1>1, <1>2, <1>5, <2>1 DEF Knows
  <2> QED BY <1>1, <2>1, <2>2, QuietLaunches
<1> QED BY <1>3, <1>4, <1>5

\* The steps of a turn, of a control, of a new request and of the worker.
LEMMA TurnLaunches ==
    ASSUME TypeOK, TypeOK', Launched, NEW c \in Callers, TurnStep(c)
    PROVE  Launched'
<1>1. CASE Start(c)
  <2> DEFINE r == call[c].run
  <2>1. call[c].pc = "admitted" /\ UNCHANGED <<launches, provider>> /\ r \in Runs
    BY <1>1, BusyCall DEF Start, At, outside
  <2>2. launches[r] = 0
    BY <2>1 DEF Launched, Knows
  <2>3. status' = status
        \/ (status[r] = "queued" /\ status' = [status EXCEPT ![r] = "running"])
    BY <1>1 DEF Start, rows
  <2>4. \A q \in Runs : status'[q] = status[q]
                          \/ (status[q] \in Active /\ status'[q] \in Active)
    BY <2>1, <2>3 DEF TypeOK, Active
  <2>5. Return(c) \/ Goto(c, "launch")
    BY <1>1 DEF Start
  <2>6. "launch" \in Points \ {"admitted", "prepare"}
    BY DEF Points
  <2> QED BY <2>1, <2>2, <2>4, <2>5, <2>6, GoesLaunches
<1>2. CASE StreamEvent(c) \/ StreamTerminal(c)
  <2> DEFINE r == call[c].run
  <2>1. /\ call[c].pc = "streaming" /\ UNCHANGED <<status, launches, provider>>
        /\ call[c] \in Calls /\ r \in Runs /\ Knows(call[c], status, launches, provider)
    BY <1>2, BusyCall DEF StreamEvent, StreamTerminal, At, rows, outside, Launched
  <2>2. PICK h \in BOOLEAN, t \in Terminals \cup {NoTerminal} :
          /\ call' = [call EXCEPT ![c] = [[call[c] EXCEPT !.heard = h] EXCEPT !.terminal = t]]
          /\ t = call[c].terminal \/ t \in Reports(c)
    <3>1. CASE StreamEvent(c)
      <4>1. call' = [call EXCEPT ![c] = [call[c] EXCEPT !.heard = call[c].op = "continue"]]
        BY <3>1 DEF StreamEvent, Hear
      <4>2. [call[c] EXCEPT !.heard = call[c].op = "continue"]
              = [[call[c] EXCEPT !.heard = call[c].op = "continue"]
                   EXCEPT !.terminal = call[c].terminal]
        BY <2>1 DEF Calls
      <4> QED BY <2>1, <4>1, <4>2 DEF Calls
    <3>2. CASE StreamTerminal(c)
      <4>1. PICK t \in Reports(c) :
              call' = [call EXCEPT ![c].heard = call[c].op = "continue", ![c].terminal = t]
        BY <3>2 DEF StreamTerminal
      <4>2. call' = [call EXCEPT ![c] = [[call[c] EXCEPT !.heard = call[c].op = "continue"]
                                            EXCEPT !.terminal = t]]
        BY <4>1 DEF TypeOK
      <4>3. t \in Terminals
        BY DEF Reports, Terminals, Evidence, Finished
      <4> QED BY <4>2, <4>3
    <3> QED BY <1>2, <3>1, <3>2
  <2> DEFINE x == [[call[c] EXCEPT !.heard = h] EXCEPT !.terminal = t]
  <2>3. /\ x.op = call[c].op /\ x.run = r /\ x.pc = "streaming" /\ x.terminal = t
    BY <2>1 DEF Calls
  <2>4. t = "completed" => provider[r] = "completed"
    BY <2>1, <2>2 DEF Knows, Reports, Finished
  <2>5. call' = [call EXCEPT ![c] = x]
    BY <2>2
  <2> HIDE DEF x
  <2>6. Knows(x, status', launches', provider')
    BY <2>1, <2>3, <2>4 DEF Knows
  <2> QED BY <2>1, <2>3, <2>5, <2>6, QuietLaunches
<1>3. CASE StreamLost(c)
  <2>1. /\ call[c].pc = "streaming" /\ UNCHANGED <<status, launches, provider>>
        /\ call[c].op # "continue"
    BY <1>3 DEF StreamLost, At, rows, outside, Launched, Knows
  <2>2. PICK t \in Terminals \ {"completed"} : Decide(c, "commit", t)
    BY <1>3, <2>1 DEF StreamLost, Failure, Terminals, Evidence
  <2>3. "commit" \in Points \ {"admitted", "prepare", "launch"}
    BY DEF Points
  <2> QED BY <2>1, <2>2, <2>3, GoesLaunches
<1>4. CASE StreamEnd(c)
  <2> DEFINE t == IF call[c].terminal = NoTerminal THEN Failure(call[c].op)
                                                   ELSE call[c].terminal
  <2>1. /\ call[c].pc = "streaming" /\ UNCHANGED <<status, launches, provider>>
        /\ Decide(c, "commit", t) /\ "commit" \in Points \ {"admitted", "prepare", "launch"}
    BY <1>4 DEF StreamEnd, At, rows, outside, Points
  <2>2. t \in Terminals /\ (t = "completed" => call[c].terminal = "completed")
    BY <2>1, BusyCall DEF Calls, Failure, Terminals, Evidence
  <2>3. t = "completed" => provider[call[c].run] = "completed"
    BY <2>2 DEF Launched, Knows
  <2> QED BY <2>1, <2>2, <2>3, GoesLaunches
<1> QED BY <1>1, <1>2, <1>3, <1>4, DiscardLaunches, LaunchLaunches, CommitLaunches DEF TurnStep

LEMMA ControlLaunches ==
    ASSUME TypeOK, TypeOK', Launched, NEW c \in Callers, ControlStep(c) \/ Lose(c)
    PROVE  Launched'
<1> DEFINE r == call[c].run
<1>0. /\ {"request", "verify", "commit", "launch"} \subseteq Points \ {"admitted", "prepare"}
      /\ Finished \subseteq Terminals
      /\ {"not_started", "indeterminate"} \subseteq Terminals
  BY DEF Points, Finished, Terminals, Evidence
<1>1. CASE CancelMark(c) \/ Lose(c)
  <2>1. /\ call[c].pc # "idle" /\ UNCHANGED <<status, launches, provider>>
        /\ Goto(c, "request") \/ Return(c)
    BY <1>1 DEF CancelMark, Lose, At, rows, outside
  <2> QED BY <1>0, <2>1, GoesLaunches
<1>2. CASE CancelRequest(c)
  <2>1. call[c].pc # "idle" /\ r \in Runs /\ UNCHANGED <<status, launches>>
    BY <1>2, BusyCall DEF CancelRequest, At, rows
  <2>2. \/ Goto(c, "verify") /\ UNCHANGED provider
        \/ provider[r] \in Finished /\ Decide(c, "verify", provider[r]) /\ UNCHANGED provider
        \/ /\ provider[r] \in {"live", "waiting"} /\ Decide(c, "verify", "cancelled")
           /\ provider' = [provider EXCEPT ![r] = "cancelled"]
    BY <1>2 DEF CancelRequest
  <2>3. "cancelled" \in Terminals
    BY DEF Terminals, Evidence
  <2>4. \A q \in Runs : provider'[q] = provider[q] \/ provider[q] \in {"live", "waiting"}
    BY <2>1, <2>2 DEF TypeOK
  <2> QED BY <1>0, <2>1, <2>2, <2>3, <2>4, GoesLaunches
<1>3. CASE CancelVerify(c)
  <2>1. call[c].pc # "idle" /\ r \in Runs /\ UNCHANGED <<status, launches, provider>>
        /\ call[c] \in Calls /\ Knows(call[c], status, launches, provider)
    BY <1>3, BusyCall DEF CancelVerify, At, rows, outside, Launched
  <2>2. \/ Return(c)
        \/ \E t \in Terminals : Decide(c, "commit", t) /\ (t = "completed" => t = call[c].terminal)
    BY <1>0, <1>3, <2>1 DEF CancelVerify, Calls
  <2> QED BY <1>0, <2>1, <2>2, GoesLaunches DEF Knows
<1>4. CASE PrepareResume(c)
  <2>1. call[c].pc = "prepare" /\ r \in Runs /\ UNCHANGED <<launches, provider>>
    BY <1>4, BusyCall DEF PrepareResume, At, outside
  <2>2. CASE Return(c) /\ UNCHANGED status
    BY <2>1, <2>2, GoesLaunches
  <2>3. CASE status[r] = "waiting_for_backend_input" /\ Goto(c, "launch")
             /\ status' = [status EXCEPT ![r] = "running"]
    <3>1. \A q \in Runs : status'[q] = status[q]
                          \/ (status[q] \in Active /\ status'[q] \in Active)
      BY <2>1, <2>3 DEF TypeOK, Active
    <3>2. call[c].op # "turn"
      BY <2>1 DEF Launched, Knows
    <3> QED BY <1>0, <2>1, <2>3, <3>1, <3>2, GoesLaunches
  <2> QED BY <1>4, <2>2, <2>3 DEF PrepareResume, rows
<1> QED BY <1>1, <1>2, <1>3, <1>4 DEF ControlStep

LEMMA RequestLaunches ==
    ASSUME ~Continues, TypeOK, TypeOK', Launched, NEW c \in Callers, NEW r \in Runs, Request(c, r)
    PROVE  Launched'
<1>1. CASE Admit(c, r) \/ Retry(c, r)
  <2>1. \E o : AdmitAs(c, r, o)
    BY <1>1 DEF Admit, Retry
  <2> QED BY <2>1, AdmitLaunches
<1>2. CASE \/ StartRetry(c, r) \/ StartCancel(c, r) \/ StartResume(c, r)
           \/ StartSync(c, r) \/ StartRecover(c, r)
  <2>1. UNCHANGED <<status, launches, provider>>
    BY <1>2 DEF StartRetry, StartCancel, StartResume, StartSync, StartRecover, rows, outside
  <2>2. PICK op \in {"retry", "cancel", "resume", "refuse", "sync", "recover"},
             pc \in {"retry", "commit", "mark", "prepare", "streaming"},
             t \in {NoTerminal, "not_started", "indeterminate", "failed"}, pre \in BOOLEAN :
               Serve(c, op, r, pc, t, pre)
    <3>1. IsPreExternal(r) \in BOOLEAN
      BY DEF IsPreExternal
    <3>2. CASE StartCancel(c, r)
      BY <3>1, <3>2 DEF StartCancel
    <3>3. CASE StartResume(c, r)
      BY <3>3 DEF StartResume
    <3>4. CASE StartSync(c, r)
      BY <3>4 DEF StartSync
    <3>5. CASE StartRecover(c, r)
      BY <3>5 DEF StartRecover
    <3>6. CASE StartRetry(c, r)
      BY <3>6 DEF StartRetry
    <3> QED BY <1>2, <3>2, <3>3, <3>4, <3>5, <3>6
  <2> DEFINE x == [Idle EXCEPT !.op = op, !.run = r, !.pc = pc, !.terminal = t, !.pre = pre]
  <2>3. x.op = op /\ x.run = r /\ x.pc = pc /\ x.terminal = t
    BY DEF Idle
  <2>4. call' = [call EXCEPT ![c] = x]
    BY <2>2 DEF Serve
  <2> HIDE DEF x
  <2>5. Knows(x, status', launches', provider')
    BY <2>3 DEF Knows, NoTerminal
  <2> QED BY <2>1, <2>3, <2>4, <2>5, QuietLaunches
<1>3. CASE SyncUnavailable(c, r)
  BY <1>3 DEF SyncUnavailable, outside, Launched, Told, OneTurn, OneRunOfKey, Knows
<1> QED BY <1>1, <1>2, <1>3 DEF Request

\* Nobody's request goes on: the recovery lane settles a Run, or the provider
\* makes progress.
LEMMA OthersLaunches ==
    ASSUME TypeOK, TypeOK', Launched, NEW r \in Runs, WorkerRecover(r) \/ ProviderStep(r)
    PROVE  Launched'
<1>1. UNCHANGED <<launches, call>>
  BY DEF WorkerRecover, ProviderStep, outside
<1>2. \A q \in Runs : /\ status'[q] \in Missing <=> status[q] \in Missing
                      /\ status'[q] = "completed" => status[q] = "completed"
                      /\ provider[q] = "completed" => provider'[q] = "completed"
                      /\ provider[q] = "none" => provider'[q] = "none"
  <2>1. CASE WorkerRecover(r)
    <3>1. /\ status[r] \in {"queued", "running"} /\ UNCHANGED provider
          /\ \E s \in {"outcome_unknown", "failed"} : status' = [status EXCEPT ![r] = s]
      BY <2>1 DEF WorkerRecover, Recoverable, outside
    <3> QED BY <3>1 DEF TypeOK, Missing
  <2>2. CASE ProviderStep(r)
    <3>1. /\ provider[r] \in {"live", "waiting"} /\ UNCHANGED status
          /\ \E s \in Finished \cup {"waiting"} : provider' = [provider EXCEPT ![r] = s]
      BY <2>2 DEF ProviderStep, rows, Finished
    <3> QED BY <3>1 DEF TypeOK
  <2> QED BY <2>1, <2>2
<1>3. \A c \in Callers : Knows(call'[c], status', launches', provider')
  BY <1>1, <1>2 DEF Launched, Knows
<1> QED BY <1>1, <1>2, <1>3 DEF Launched, Told, OneTurn, OneRunOfKey

LEMMA LaunchedStep == ~Continues /\ TypeOK /\ Launched /\ [Next]_vars => Launched'
<1> SUFFICES ASSUME ~Continues, TypeOK, Launched, [Next]_vars PROVE Launched'
  OBVIOUS
<1>1. TypeOK'
  BY TypeStep
<1>2. CASE UNCHANGED vars
  BY <1>2 DEF vars, rows, outside, Launched, Told, OneTurn, OneRunOfKey, Knows
<1>3. CASE Next
  BY <1>1, <1>3, TurnLaunches, ControlLaunches, RequestLaunches, OthersLaunches DEF Next
<1> QED BY <1>2, <1>3

LEMMA LaunchedInit == Init => Launched
<1> SUFFICES ASSUME Init PROVE Launched
  OBVIOUS
<1>1. Idle.op = "none"
  BY DEF Idle
<1> QED BY <1>1, IdleKnows DEF Init, Launched, Told, OneTurn, OneRunOfKey, Missing

LEMMA LaunchedAlways == ~Continues /\ Spec => []Launched
<1>1. CASE ~Continues
  <2>1. TypeOK /\ Launched /\ [Next]_vars => Launched'
    BY <1>1, LaunchedStep
  <2> QED BY <2>1, LaunchedInit, TypeCorrect, PTL DEF Spec
<1>2. CASE Continues
  BY <1>2
<1> QED BY <1>1, <1>2

\* However often a request is repeated, withdrawn and retried, and whatever
\* races with it, one execution is started for its key.
THEOREM LaunchesOnce == ~Continues /\ Spec => []OneLaunchPerKey
<1>1. Launched => OneLaunchPerKey
  <2> SUFFICES ASSUME Launched PROVE OneLaunchPerKey
    OBVIOUS
  <2>1. \A r \in Runs : launches[r] <= 1 /\ (launches[r] # 0 => status[r] \notin Missing)
    BY DEF Launched, Told
  <2> QED BY <2>1 DEF Launched, OneRunOfKey, OneLaunchPerKey
<1> QED BY <1>1, LaunchedAlways, PTL

\* Whichever stream, control or operator settles a Run as completed, the
\* backend had completed it.
THEOREM CompletionsReal == ~Continues /\ Spec => []CompletionIsReal
<1>1. Launched => CompletionIsReal
  BY DEF Launched, Told, CompletionIsReal
<1> QED BY <1>1, LaunchedAlways, PTL


-----------------------------------------------------------------------------
\* A session has one Run under way.

Ended == Finished \cup {"waiting"}

ResumedIn(l, s) == \E r \in Runs : SessionOf[r] = s /\ "resume-input" \in l[r]

\* Until a Run of the session is resumed, a queued or running Run holds it ...
Reserved ==
    \A r \in Runs : status[r] \in {"queued", "running"}
                      => holder[SessionOf[r]] = r \/ ResumedIn(log, SessionOf[r])

\* ... and a Run waits, or is about to, only if its provider does not go on.
WaitsFor(x, p, l) ==
    /\ x.terminal = "waiting" => p[x.run] \in Ended \/ ResumedIn(l, SessionOf[x.run])
    /\ x.op = "resume" /\ x.pc = "launch" => ResumedIn(l, SessionOf[x.run])

Waited ==
    /\ \A r \in Runs : status[r] = "waiting_for_backend_input"
                           => provider[r] \in Ended \/ ResumedIn(log, SessionOf[r])
    /\ \A c \in Callers : call[c].pc # "idle" => WaitsFor(call[c], provider, log)

\* The events of a Run are kept, so a session once resumed stays so.
LEMMA ResumedStays ==
    ASSUME TypeOK, [Next]_vars
    PROVE  \A s : ResumedIn(log, s) => ResumedIn(log', s)
<1> SUFFICES \A r \in Runs : log[r] \subseteq log'[r]
  BY DEF ResumedIn
<1>1. CASE \E c \in Callers : Commit(c)
  <2>1. PICK c \in Callers : Commit(c)
    BY <1>1
  <2>2. call[c].run \in Runs
    BY <2>1, BusyCall DEF Commit, At
  <2> QED BY <2>1, <2>2 DEF Commit, TypeOK
<1>2. CASE \E c \in Callers : PrepareResume(c)
  <2>1. PICK c \in Callers : PrepareResume(c)
    BY <1>2
  <2>2. call[c].run \in Runs
    BY <2>1, BusyCall DEF PrepareResume, At
  <2> QED BY <2>1, <2>2 DEF PrepareResume, Append, TypeOK, rows
<1>3. CASE \E c \in Callers, r \in Runs : SyncUnavailable(c, r)
  BY <1>3 DEF SyncUnavailable, Append, TypeOK
<1>4. CASE UNCHANGED log
  BY <1>4
<1>5. CASE UNCHANGED vars
  BY <1>5 DEF vars, rows
<1>6. ASSUME NEW c \in Callers, TurnStep(c), ~Commit(c) PROVE UNCHANGED log
  BY <1>6 DEF TurnStep, FailAdmission, Discard, Start, Launch, StreamEvent, StreamTerminal,
              StreamLost, StreamEnd, CommitDeclined, rows
<1>7. ASSUME NEW c \in Callers, ControlStep(c) \/ Lose(c), ~PrepareResume(c) PROVE UNCHANGED log
  BY <1>7 DEF ControlStep, CancelMark, CancelRequest, CancelVerify, Lose, rows
<1>8. ASSUME NEW c \in Callers, NEW r \in Runs, Request(c, r), ~SyncUnavailable(c, r)
      PROVE  UNCHANGED log
  BY <1>8 DEF Request, Admit, Retry, AdmitAs, StartRetry, StartCancel, StartResume, StartSync,
              StartRecover, rows
<1>9. ASSUME NEW r \in Runs, WorkerRecover(r) \/ ProviderStep(r) PROVE UNCHANGED log
  BY <1>9 DEF WorkerRecover, ProviderStep, rows
<1> QED BY <1>1, <1>2, <1>3, <1>4, <1>5, <1>6, <1>7, <1>8, <1>9 DEF Next

LEMMA ReservedStep ==
    ASSUME TypeOK, TypeOK', Reserved, NEW r \in Runs, StepOn(r),
           \A s : ResumedIn(log, s) => ResumedIn(log', s)
    PROVE  Reserved'
<1> USE SessionAssumption, RunAssumption
<1>1. ASSUME Release(r), status'[r] \notin {"queued", "running"},
             \A q \in Runs \ {r} : status'[q] = status[q]
      PROVE  Reserved'
  <2> SUFFICES ASSUME NEW q \in Runs, status'[q] \in {"queued", "running"}
               PROVE  holder'[SessionOf[q]] = q \/ ResumedIn(log', SessionOf[q])
    BY DEF Reserved
  <2>1. q # r /\ status[q] \in {"queued", "running"} /\ SessionOf[q] \in Sessions
    BY <1>1
  <2> QED BY <1>1, <2>1 DEF Release, Reserved
<1>2. ASSUME NEW o, Admits(r, o) PROVE Reserved'
  BY <1>2 DEF Admits, Reserved, TypeOK
<1>3. CASE Fails(r)
  BY <1>3, <1>1 DEF Fails, TypeOK
<1>4. CASE Withdraws(r)
  BY <1>4, <1>1 DEF Withdraws, TypeOK
<1>5. CASE Starts(r)
  BY <1>5 DEF Starts, Reserved, TypeOK
<1>6. CASE Marks(r)
  BY <1>6 DEF Marks, Reserved
<1>7. CASE Resumes(r)
  <2>1. "resume-input" \in log'[r]
    BY <1>7 DEF Resumes, TypeOK
  <2>2. ResumedIn(log', SessionOf[r])
    BY <2>1 DEF ResumedIn
  <2> SUFFICES ASSUME NEW q \in Runs, status'[q] \in {"queued", "running"},
                      SessionOf[q] # SessionOf[r]
               PROVE  holder'[SessionOf[q]] = q \/ ResumedIn(log', SessionOf[q])
    BY <2>2 DEF Reserved
  <2>3. status[q] = status'[q] /\ holder'[SessionOf[q]] = holder[SessionOf[q]]
    BY <1>7 DEF Resumes, TypeOK
  <2> QED BY <2>3 DEF Reserved
<1>8. ASSUME NEW s \in Settled \cup {"waiting_for_backend_input"}, NEW text, Ends(r, s, text)
      PROVE  Reserved'
  <2>1. s \notin {"queued", "running"}
    BY DEF Settled, Stable
  <2> QED BY <1>8, <2>1, <1>1 DEF Ends, TypeOK
<1>9. ASSUME NEW s \in {"failed", "outcome_unknown"}, Recovers(r, s) PROVE Reserved'
  BY <1>9, <1>1 DEF Recovers, TypeOK
<1> QED BY <1>2, <1>3, <1>4, <1>5, <1>6, <1>7, <1>8, <1>9 DEF StepOn

\* What a caller knows after a step, if it knows more than before.
Learns(x, y) ==
    /\ y.terminal = "waiting"
         => \/ x.pc # "idle" /\ x.terminal = "waiting" /\ y.run = x.run
            \/ provider'[y.run] \in Ended
    /\ y.op = "resume" /\ y.pc = "launch" => ResumedIn(log', SessionOf[y.run])

\* A step after which a Run only waits if its provider does not go on, and no
\* provider goes on unless its Run was resumed.
LEMMA QuietWaits ==
    ASSUME TypeOK, Waited,
           \A s : ResumedIn(log, s) => ResumedIn(log', s),
           \A r \in Runs :
              /\ status'[r] = "waiting_for_backend_input"
                   => \/ status[r] = "waiting_for_backend_input"
                      \/ provider'[r] \in Ended \/ ResumedIn(log', SessionOf[r])
              /\ provider[r] \in Ended
                   => provider'[r] \in Ended \/ ResumedIn(log', SessionOf[r]),
           \A d \in Callers : call'[d] = call[d] \/ call'[d].pc = "idle" \/ Learns(call[d], call'[d])
    PROVE  Waited'
<1>1. ASSUME NEW d \in Callers, call[d].pc # "idle"
      PROVE  call[d].run \in Runs /\ WaitsFor(call[d], provider, log)
  BY <1>1, BusyCall DEF Waited
<1>2. ASSUME NEW d \in Callers, call'[d].pc # "idle" PROVE WaitsFor(call'[d], provider', log')
  <2>1. CASE call'[d] = call[d]
    BY <1>1, <1>2, <2>1 DEF WaitsFor
  <2>2. CASE Learns(call[d], call'[d])
    BY <1>1, <2>2 DEF WaitsFor, Learns
  <2> QED BY <1>2, <2>1, <2>2
<1>3. ASSUME NEW r \in Runs, status'[r] = "waiting_for_backend_input"
      PROVE  provider'[r] \in Ended \/ ResumedIn(log', SessionOf[r])
  BY <1>3 DEF Waited
<1> QED BY <1>2, <1>3 DEF Waited

\* The same for a caller that goes on with the Run it serves.
LEMMA GoesWaits ==
    ASSUME TypeOK, Waited,
           \A s : ResumedIn(log, s) => ResumedIn(log', s),
           \A r \in Runs :
              /\ status'[r] = "waiting_for_backend_input"
                   => \/ status[r] = "waiting_for_backend_input"
                      \/ provider'[r] \in Ended \/ ResumedIn(log', SessionOf[r])
              /\ provider[r] \in Ended
                   => provider'[r] \in Ended \/ ResumedIn(log', SessionOf[r]),
           NEW c \in Callers, call[c].pc # "idle",
           \/ Return(c)
           \/ \E p \in Points : Goto(c, p)
                /\ (p = "launch" /\ call[c].op = "resume" => ResumedIn(log', SessionOf[call[c].run]))
           \/ \E p \in Points \ {"launch"}, t \in Terminals : Decide(c, p, t)
                /\ (t = "waiting" => \/ call[c].terminal = "waiting"
                                     \/ provider'[call[c].run] \in Ended)
    PROVE  Waited'
<1>1. CASE Return(c)
  <2>1. \A d \in Callers : call'[d] = call[d] \/ call'[d].pc = "idle"
    BY <1>1 DEF Return, Idle, TypeOK
  <2> QED BY <2>1, QuietWaits
<1>2. ASSUME NEW p \in Points, Goto(c, p),
             p = "launch" /\ call[c].op = "resume" => ResumedIn(log', SessionOf[call[c].run])
      PROVE  Waited'
  <2>1. PICK x \in Calls : /\ call' = [call EXCEPT ![c] = x]
                           /\ x.op = call[c].op /\ x.run = call[c].run
                           /\ x.pc = p /\ x.terminal = call[c].terminal
    BY <1>2, CallChanges
  <2>2. Learns(call[c], x)
    BY <1>2, <2>1 DEF Learns
  <2>3. \A d \in Callers : call'[d] = call[d] \/ Learns(call[d], call'[d])
    BY <2>1, <2>2 DEF TypeOK
  <2> QED BY <2>3, QuietWaits
<1>3. ASSUME NEW p \in Points \ {"launch"}, NEW t \in Terminals, Decide(c, p, t),
             t = "waiting" => call[c].terminal = "waiting" \/ provider'[call[c].run] \in Ended
      PROVE  Waited'
  <2>1. PICK x \in Calls : /\ call' = [call EXCEPT ![c] = x]
                           /\ x.op = call[c].op /\ x.run = call[c].run
                           /\ x.pc = p /\ x.terminal = t
    BY <1>3, CallChanges
  <2>2. Learns(call[c], x)
    BY <1>3, <2>1 DEF Learns
  <2>3. \A d \in Callers : call'[d] = call[d] \/ Learns(call[d], call'[d])
    BY <2>1, <2>2 DEF TypeOK
  <2> QED BY <2>3, QuietWaits
<1> QED BY <1>1, <1>2, <1>3

\* The steps of a turn, of a control, of a new request, and of nobody's request.
LEMMA TurnWaits ==
    ASSUME TypeOK, Launched, Waited, \A s : ResumedIn(log, s) => ResumedIn(log', s),
           NEW c \in Callers, TurnStep(c)
    PROVE  Waited'
<1> DEFINE r == call[c].run
<1>1. CASE FailAdmission(c) \/ Discard(c) \/ CommitDeclined(c)
  <2>1. /\ call[c].pc # "idle" /\ r \in Runs /\ Return(c) /\ UNCHANGED provider
        /\ \/ UNCHANGED status
           \/ \E s \in {"failed", "discarded"} : status' = [status EXCEPT ![r] = s]
    BY <1>1, BusyCall DEF FailAdmission, Discard, CommitDeclined, At, rows, outside
  <2>2. \A q \in Runs : status'[q] = status[q] \/ status'[q] \in {"failed", "discarded"}
    BY <2>1 DEF TypeOK
  <2> QED BY <2>1, <2>2, GoesWaits
<1>2. CASE Start(c)
  <2>1. /\ call[c].pc = "admitted" /\ r \in Runs /\ UNCHANGED provider
        /\ Return(c) \/ Goto(c, "launch")
        /\ UNCHANGED status \/ status' = [status EXCEPT ![r] = "running"]
    BY <1>2, BusyCall DEF Start, At, rows, outside
  <2>2. call[c].op # "resume" /\ "launch" \in Points
    BY <2>1 DEF Launched, Knows, Points
  <2>3. \A q \in Runs : status'[q] = status[q] \/ status'[q] = "running"
    BY <2>1 DEF TypeOK
  <2> QED BY <2>1, <2>2, <2>3, GoesWaits
<1>3. CASE Launch(c)
  <2>1. /\ call[c].pc = "launch" /\ r \in Runs /\ UNCHANGED status
        /\ Goto(c, "streaming") /\ "streaming" \in Points \ {"launch"}
        /\ Knows(call[c], status, launches, provider) /\ WaitsFor(call[c], provider, log)
    BY <1>3, BusyCall DEF Launch, At, rows, Points, Launched, Waited
  <2>2. \/ UNCHANGED provider
        \/ call[c].op = "turn" /\ provider' = [provider EXCEPT ![r] = "live"]
        \/ call[c].op = "resume" /\ provider' = [provider EXCEPT ![r] = "live"]
    BY <1>3, <2>1 DEF Launch, outside, Knows
  <2>3. \A q \in Runs : provider[q] \in Ended
                          => provider'[q] \in Ended \/ ResumedIn(log', SessionOf[q])
    <3>1. CASE call[c].op = "turn"
      <4>1. launches[r] = 0
        BY <2>1, <3>1 DEF Knows
      <4>2. provider[r] = "none"
        BY <2>1, <4>1 DEF Launched, Told
      <4> QED BY <2>1, <2>2, <3>1, <4>2 DEF Ended, Finished, TypeOK
    <3>2. CASE call[c].op = "resume"
      <4>1. ResumedIn(log', SessionOf[r])
        BY <2>1, <3>2 DEF WaitsFor
      <4> QED BY <2>1, <2>2, <4>1 DEF TypeOK
    <3> QED BY <2>2, <3>1, <3>2
  <2> QED BY <2>1, <2>3, GoesWaits
<1>4. CASE StreamEvent(c) \/ StreamTerminal(c)
  <2>1. /\ call[c].pc = "streaming" /\ call[c] \in Calls /\ UNCHANGED <<status, provider>>
    BY <1>4, BusyCall DEF StreamEvent, StreamTerminal, At, rows, outside
  <2>2. /\ \A d \in Callers \ {c} : call'[d] = call[d]
        /\ call'[c].pc = "streaming" /\ call'[c].run = r
        /\ call'[c].terminal = call[c].terminal \/ call'[c].terminal \in Reports(c)
    BY <1>4, <2>1 DEF StreamEvent, StreamTerminal, Hear, Calls, TypeOK
  <2>3. "waiting" \in Reports(c) => provider[r] \in Ended
    BY DEF Reports, Ended, Finished
  <2>4. Learns(call[c], call'[c])
    BY <2>1, <2>2, <2>3 DEF Learns
  <2> QED BY <2>1, <2>2, <2>4, QuietWaits
<1>5. CASE StreamLost(c) \/ StreamEnd(c)
  <2>1. /\ call[c].pc = "streaming" /\ call[c] \in Calls /\ UNCHANGED <<status, provider>>
        /\ call[c].op # "continue"
    BY <1>5, BusyCall DEF StreamLost, StreamEnd, At, rows, outside, Launched, Knows
  <2>2. PICK t \in Terminals : Decide(c, "commit", t) /\ (t = "waiting" => call[c].terminal = t)
    BY <1>5, <2>1 DEF StreamLost, StreamEnd, Failure, Terminals, Evidence, Calls
  <2>3. "commit" \in Points \ {"launch"}
    BY DEF Points
  <2> QED BY <2>1, <2>2, <2>3, GoesWaits
<1>6. CASE Commit(c)
  <2> DEFINE s == FinalStatus(call[c].terminal, call[c].op = "cancel")
  <2>1. /\ call[c].pc # "idle" /\ r \in Runs /\ Return(c) /\ UNCHANGED provider
        /\ status' = [status EXCEPT ![r] = s]
    BY <1>6, BusyCall DEF Commit, At, outside
  <2>2. s = "waiting_for_backend_input" => call[c].terminal = "waiting"
    BY DEF FinalStatus
  <2>3. s = "waiting_for_backend_input" => provider[r] \in Ended \/ ResumedIn(log, SessionOf[r])
    BY <2>1, <2>2 DEF Waited, WaitsFor
  <2> HIDE DEF s
  <2>4. \A q \in Runs : status'[q] = "waiting_for_backend_input"
           => \/ status[q] = "waiting_for_backend_input"
              \/ provider'[q] \in Ended \/ ResumedIn(log', SessionOf[q])
    BY <2>1, <2>3 DEF TypeOK
  <2> QED BY <2>1, <2>4, GoesWaits
<1> QED BY <1>1, <1>2, <1>3, <1>4, <1>5, <1>6 DEF TurnStep

LEMMA ControlWaits ==
    ASSUME TypeOK, Waited, \A s : ResumedIn(log, s) => ResumedIn(log', s),
           NEW c \in Callers, ControlStep(c) \/ Lose(c)
    PROVE  Waited'
<1> DEFINE r == call[c].run
<1>0. /\ {"request", "verify", "commit"} \subseteq Points \ {"launch"} /\ "launch" \in Points
      /\ Finished \subseteq Terminals \ {"waiting"}
      /\ {"not_started", "indeterminate"} \subseteq Terminals
      /\ Finished \subseteq Ended /\ "cancelled" \in Finished
  BY DEF Points, Finished, Terminals, Evidence, Ended
<1>1. CASE CancelMark(c) \/ Lose(c)
  <2>1. /\ call[c].pc # "idle" /\ UNCHANGED <<status, provider>>
        /\ Goto(c, "request") \/ Return(c)
    BY <1>1 DEF CancelMark, Lose, At, rows, outside
  <2> QED BY <1>0, <2>1, GoesWaits
<1>2. CASE CancelRequest(c)
  <2>1. call[c].pc # "idle" /\ r \in Runs /\ UNCHANGED status
    BY <1>2, BusyCall DEF CancelRequest, At, rows
  <2>2. \/ Goto(c, "verify") /\ UNCHANGED provider
        \/ \E t \in Finished : Decide(c, "verify", t) /\ UNCHANGED provider
        \/ /\ Decide(c, "verify", "cancelled")
           /\ provider' = [provider EXCEPT ![r] = "cancelled"]
    BY <1>2 DEF CancelRequest
  <2>3. \A q \in Runs : provider[q] \in Ended => provider'[q] \in Ended
    BY <1>0, <2>1, <2>2 DEF TypeOK
  <2>4. \/ Goto(c, "verify")
        \/ \E t \in Terminals : Decide(c, "verify", t) /\ t # "waiting"
    BY <1>0, <2>2
  <2> QED BY <1>0, <2>1, <2>3, <2>4, GoesWaits
<1>3. CASE CancelVerify(c)
  <2>1. call[c].pc # "idle" /\ UNCHANGED <<status, provider>> /\ call[c] \in Calls
    BY <1>3, BusyCall DEF CancelVerify, At, rows, outside
  <2>2. \/ Return(c)
        \/ \E t \in Terminals : Decide(c, "commit", t)
             /\ (t = "waiting" => call[c].terminal = "waiting")
    BY <1>0, <1>3, <2>1 DEF CancelVerify, Calls
  <2> QED BY <1>0, <2>1, <2>2, GoesWaits
<1>4. CASE PrepareResume(c)
  <2>1. call[c].pc = "prepare" /\ r \in Runs /\ UNCHANGED provider
    BY <1>4, BusyCall DEF PrepareResume, At, outside
  <2>2. CASE Return(c) /\ UNCHANGED status
    BY <2>1, <2>2, GoesWaits
  <2>3. CASE /\ Goto(c, "launch") /\ Append(r, "resume-input")
             /\ status' = [status EXCEPT ![r] = "running"]
    <3>1. \A q \in Runs : status'[q] = status[q] \/ status'[q] = "running"
      BY <2>1, <2>3 DEF TypeOK
    <3>2. ResumedIn(log', SessionOf[r])
      BY <2>1, <2>3 DEF Append, ResumedIn, TypeOK
    <3> QED BY <1>0, <2>1, <2>3, <3>1, <3>2, GoesWaits
  <2> QED BY <1>4, <2>2, <2>3 DEF PrepareResume, rows
<1> QED BY <1>1, <1>2, <1>3, <1>4 DEF ControlStep

LEMMA RequestWaits ==
    ASSUME TypeOK, Waited, \A s : ResumedIn(log, s) => ResumedIn(log', s),
           NEW c \in Callers, NEW r \in Runs, Request(c, r)
    PROVE  Waited'
<1>1. UNCHANGED provider
  BY DEF Request, Admit, Retry, AdmitAs, StartRetry, StartCancel, StartResume, StartSync,
         SyncUnavailable, StartRecover, outside
<1>2. \A q \in Runs : status'[q] = status[q] \/ status'[q] = "queued"
  <2>1. UNCHANGED status \/ status' = [status EXCEPT ![r] = "queued"]
    BY DEF Request, Admit, Retry, AdmitAs, StartRetry, StartCancel, StartResume, StartSync,
           SyncUnavailable, StartRecover, rows
  <2> QED BY <2>1 DEF TypeOK
<1>3. CASE UNCHANGED call
  BY <1>1, <1>2, <1>3, QuietWaits
<1>4. CASE \E op, q, t, pre, pc : Serve(c, op, q, pc, t, pre) /\ t # "waiting" /\ pc # "launch"
  <2>1. PICK op, q, t, pre, pc : Serve(c, op, q, pc, t, pre) /\ t # "waiting" /\ pc # "launch"
    BY <1>4
  <2> DEFINE x == [Idle EXCEPT !.op = op, !.run = q, !.pc = pc, !.terminal = t, !.pre = pre]
  <2>2. x.terminal # "waiting" /\ x.pc # "launch"
    BY <2>1 DEF Idle
  <2>3. call' = [call EXCEPT ![c] = x]
    BY <2>1 DEF Serve
  <2> HIDE DEF x
  <2>4. \A d \in Callers : call'[d] = call[d] \/ Learns(call[d], call'[d])
    BY <2>2, <2>3 DEF Learns, TypeOK
  <2> QED BY <1>1, <1>2, <2>4, QuietWaits
<1>5. \/ UNCHANGED call
      \/ \E op, q, t, pre, pc : Serve(c, op, q, pc, t, pre) /\ t # "waiting" /\ pc # "launch"
  <2>1. CASE Admit(c, r) \/ Retry(c, r)
    BY <2>1 DEF Admit, Retry, AdmitAs, NoTerminal
  <2>2. CASE StartRetry(c, r)
    BY <2>2 DEF StartRetry, NoTerminal
  <2>3. CASE StartCancel(c, r)
    BY <2>3 DEF StartCancel, NoTerminal
  <2>4. CASE StartResume(c, r)
    BY <2>4 DEF StartResume, NoTerminal
  <2>5. CASE StartSync(c, r) \/ SyncUnavailable(c, r)
    BY <2>5 DEF StartSync, SyncUnavailable, NoTerminal
  <2>6. CASE StartRecover(c, r)
    BY <2>6 DEF StartRecover
  <2> QED BY <2>1, <2>2, <2>3, <2>4, <2>5, <2>6 DEF Request
<1> QED BY <1>3, <1>4, <1>5

LEMMA OthersWait ==
    ASSUME TypeOK, Waited, \A s : ResumedIn(log, s) => ResumedIn(log', s),
           NEW r \in Runs, WorkerRecover(r) \/ ProviderStep(r)
    PROVE  Waited'
<1>1. UNCHANGED call
  BY DEF WorkerRecover, ProviderStep
<1>2. CASE WorkerRecover(r)
  <2>1. /\ UNCHANGED provider
        /\ \E s \in {"failed", "outcome_unknown"} : status' = [status EXCEPT ![r] = s]
    BY <1>2 DEF WorkerRecover, outside
  <2>2. \A q \in Runs : status'[q] = status[q] \/ status'[q] \in {"failed", "outcome_unknown"}
    BY <2>1 DEF TypeOK
  <2> QED BY <1>1, <2>1, <2>2, QuietWaits
<1>3. CASE ProviderStep(r)
  <2>1. UNCHANGED status /\ \E s \in Ended : provider' = [provider EXCEPT ![r] = s]
    BY <1>3 DEF ProviderStep, rows, Ended, Finished
  <2>2. \A q \in Runs : provider[q] \in Ended => provider'[q] \in Ended
    BY <2>1 DEF TypeOK
  <2> QED BY <1>1, <2>1, <2>2, QuietWaits
<1> QED BY <1>2, <1>3

LEMMA WaitedStep ==
    ASSUME TypeOK, Launched, Waited, [Next]_vars
    PROVE  Waited'
<1>1. \A s : ResumedIn(log, s) => ResumedIn(log', s)
  BY ResumedStays
<1>2. CASE UNCHANGED vars
  BY <1>2 DEF vars, rows, outside, Waited, WaitsFor, ResumedIn
<1>3. CASE Next
  BY <1>1, <1>3, TurnWaits, ControlWaits, RequestWaits, OthersWait DEF Next
<1> QED BY <1>2, <1>3

\* Until a Run of the session is resumed, a session has at most one Run that is
\* queued, running or executing unsettled, for any number of Runs, sessions and
\* concurrent requests, of turns that do not continue an external conversation.
THEOREM SessionsExclusive == ~Continues /\ Spec => []SessionExclusive
<1>1. Init => Reserved /\ Waited
  <2>1. Idle.pc = "idle"
    BY DEF Idle
  <2> QED BY <2>1 DEF Init, Reserved, Waited
<1>2. TypeOK /\ TypeOK' /\ Launched /\ Reserved /\ Waited /\ [Next]_vars => Reserved' /\ Waited'
  <2>1. Reserved /\ UNCHANGED seen /\ (\A s : ResumedIn(log, s) => ResumedIn(log', s)) => Reserved'
    BY DEF Reserved, seen
  <2> QED BY <2>1, StepKinds, ResumedStays, ReservedStep, WaitedStep
<1>3. TypeOK /\ Launched /\ Reserved /\ Waited => SessionExclusive
  <2> SUFFICES ASSUME TypeOK, Launched, Reserved, Waited, NEW q \in Runs, NEW r \in Runs,
                      SessionOf[q] = SessionOf[r], q # r, Underway(q), Underway(r),
                      ~ResumedIn(log, SessionOf[r])
               PROVE  FALSE
    BY DEF SessionExclusive, Resumed, ResumedIn
  <2>1. \A p \in {q, r} : status[p] \in {"queued", "running"}
    <3> SUFFICES ASSUME NEW p \in {q, r}, status[p] \notin {"queued", "running"} PROVE FALSE
      OBVIOUS
    <3>1. provider[p] = "live" /\ status[p] \in Missing \cup {"waiting_for_backend_input"}
      BY DEF Underway, TypeOK, Statuses, Active
    <3>2. status[p] \notin Missing
      BY <3>1 DEF Launched, Told
    <3> QED BY <3>1, <3>2 DEF Waited, Ended, Finished
  <2> QED BY <2>1 DEF Reserved
<1>4. CASE ~Continues
  <2>1. Spec => []TypeOK /\ []Launched
    BY <1>4, TypeCorrect, LaunchedAlways, PTL
  <2> QED BY <1>1, <1>2, <1>3, <2>1, PTL DEF Spec
<1>5. CASE Continues
  BY <1>5
<1> QED BY <1>4, <1>5

=============================================================================

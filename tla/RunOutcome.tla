------------------------------ MODULE RunOutcome ------------------------------
(***************************************************************************)
(* What the durable store promises about the outcome of a Run to everyone  *)
(* who reads it: the chat client, the Room work that waits for it, the     *)
(* completion projection.  A Run that was admitted is open, pauses for     *)
(* input any number of times, and ends once.  Only "unknown" is a          *)
(* provisional ending: evidence may still resolve it, once, and nothing    *)
(* else ever changes.  An answer exists exactly for a completed Run.       *)
(***************************************************************************)
CONSTANT Runs

VARIABLES
    outcome,   \* what a reader of each Run sees
    answered   \* whether an output message is attached to the Run

vars == <<outcome, answered>>

Final == {"completed", "failed", "cancelled"}
Outcomes == Final \cup {"none", "open", "waiting", "unknown", "withdrawn"}

Init ==
    /\ outcome = [r \in Runs |-> "none"]
    /\ answered = [r \in Runs |-> FALSE]

Become(r, from, to) ==
    /\ outcome[r] \in from
    /\ outcome' = [outcome EXCEPT ![r] = to]

Admit(r) == Become(r, {"none"}, "open") /\ UNCHANGED answered

\* An admission whose attachments could not be prepared leaves no trace.
Withdraw(r) == Become(r, {"open"}, "withdrawn") /\ UNCHANGED answered

Pause(r) == Become(r, {"open"}, "waiting") /\ UNCHANGED answered

Resume(r) == Become(r, {"waiting"}, "open") /\ UNCHANGED answered

\* The Run ends, or its unknown ending is resolved by evidence.
End(r, to) ==
    /\ to = "unknown" => outcome[r] # "unknown"
    /\ Become(r, {"open", "waiting", "unknown"}, to)
    /\ \E a \in BOOLEAN :
         answered' = [answered EXCEPT ![r] = a /\ to = "completed"]

Next ==
    \E r \in Runs :
        \/ Admit(r) \/ Withdraw(r) \/ Pause(r) \/ Resume(r)
        \/ \E to \in Final \cup {"unknown"} : End(r, to)

Spec == Init /\ [][Next]_vars

=============================================================================

----------------------------- MODULE MCRuntimeRun -----------------------------
(* Small instances of RuntimeRun for TLC. *)
EXTENDS RuntimeRun, TLC

\* Every Run belongs to the one session.
OneSession == [r \in Runs |-> CHOOSE s \in Sessions : TRUE]

\* Every Run has a key of its own (Keys and Runs are the same model values) ...
OwnKey == [r \in Runs |-> r]

\* ... or all Runs are attempts to admit the same request.
SameKey == [r \in Runs |-> CHOOSE k \in Keys : TRUE]

\* States that differ only in what no later guard and none of the properties about
\* sessions reads count as one: derived rows, the number of launches, the native
\* session of a settled Run, and of a Run whose outcome is final its provider,
\* its log but for a resumption, and how far a call that can only return has come;
\* what a call heard or read before is kept only until it decides.
LateCall == [Idle EXCEPT !.pc = "late"]

CallView(x) ==
    [x EXCEPT !.heard = @ /\ x.pc = "streaming", !.pre = @ /\ x.pc # "commit",
              !.op = IF @ = "continue" /\ x.pc = "commit" THEN "turn" ELSE @]

SessionView ==
    LET final(r) == status[r] \in Stable
        late(c) == call[c].pc \notin {"idle", "retry"} /\ final(call[c].run)
    IN <<status, phase, retryOf, holder,
         [r \in Runs |-> native[r] /\ status[r] \notin Settled],
         [r \in Runs |-> IF final(r) THEN log[r] \cap {"resume-input"} ELSE log[r]],
         [r \in Runs |-> IF final(r) THEN "none" ELSE provider[r]],
         [c \in Callers |-> IF late(c) THEN LateCall ELSE CallView(call[c])]>>

Symmetry == Permutations(Runs) \cup Permutations(Callers)

=============================================================================

--------------------------- MODULE MCSessionRunQueue ---------------------------
(* Small instances of SessionRunQueue for TLC. *)
EXTENDS SessionRunQueue, TLC

CONSTANTS s1, s2, t1, t2, t3

\* Two turns of one session compete with a turn of another.
TwoSessions == t1 :> s1 @@ t2 :> s1 @@ t3 :> s2

\* Every turn belongs to one session.
OneSession == [t \in Tasks |-> s1]

=============================================================================

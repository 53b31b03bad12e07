------------------------------ MODULE MCRoomWork ------------------------------
(* Small instances of RoomWork for TLC. *)
EXTENDS RoomWork, TLC

Symmetry == Permutations(Launchers) \cup Permutations(Stoppers)

=============================================================================

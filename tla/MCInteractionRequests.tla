------------------------- MODULE MCInteractionRequests -------------------------
(* Small instances of InteractionRequests for TLC. *)
EXTENDS InteractionRequests

=============================================================================

--------------------------- MODULE MCCompletionFiles ---------------------------
(* The instances of CompletionFiles that TLC checks are given by their cfgs. *)
EXTENDS CompletionFiles

=============================================================================

---------------------------- MODULE MCWorkspaceFiles ----------------------------
(* The instances of WorkspaceFiles that TLC checks are given by their cfgs. *)
EXTENDS WorkspaceFiles

=============================================================================

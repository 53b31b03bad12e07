---------------------------- MODULE MCCompletionJobs ----------------------------
(* The instances of CompletionJobs that TLC checks are given by their cfgs. *)
EXTENDS CompletionJobs

=============================================================================

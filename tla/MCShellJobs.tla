---------------------------- MODULE MCShellJobs ----------------------------
(* ShellJobs with a few jobs. *)
EXTENDS ShellJobs
=============================================================================

----------------------------- MODULE MCJobSpawner -----------------------------
(* The job spawner of two processes on one database, for TLC. *)
EXTENDS JobSpawner, TLC

=============================================================================

---------------------------- MODULE MCHeadTracker ----------------------------
(* The head tracker, for TLC. *)
EXTENDS HeadTracker
=============================================================================

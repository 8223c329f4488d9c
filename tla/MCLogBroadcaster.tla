--------------------------- MODULE MCLogBroadcaster ---------------------------
(* The log broadcaster with two listeners to one contract, for TLC. *)
EXTENDS LogBroadcaster, TLC

CONSTANTS l1, l2, contract

OneContract == l1 :> contract @@ l2 :> contract

=============================================================================

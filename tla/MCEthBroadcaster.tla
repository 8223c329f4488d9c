-------------------------- MODULE MCEthBroadcaster --------------------------
(***************************************************************************)
(* Small instances of EthBroadcaster for TLC.                              *)
(***************************************************************************)
EXTENDS EthBroadcaster

CONSTANTS k1, k2
=============================================================================

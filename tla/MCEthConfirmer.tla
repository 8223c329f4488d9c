--------------------------- MODULE MCEthConfirmer ---------------------------
(***************************************************************************)
(* Small instances of EthConfirmer for TLC.                                *)
(***************************************************************************)
EXTENDS EthConfirmer

CONSTANTS k1, k2

TwoTxs  == <<k1, k1>>
TwoKeys == <<k1, k2, k2>>
=============================================================================

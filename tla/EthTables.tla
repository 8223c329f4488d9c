------------------------------ MODULE EthTables ------------------------------
(***************************************************************************)
(* The node, and the two tables of the transaction manager, which its      *)
(* broadcaster and its confirmer share.                                    *)
(***************************************************************************)
EXTENDS EthNode

VARIABLES
    etxes,     \* table eth_txes
    attempts   \* table eth_tx_attempts
=============================================================================

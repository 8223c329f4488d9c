---------------------------- MODULE EthTxModels ----------------------------
(***************************************************************************)
(* The rows of eth_txes and eth_tx_attempts, the gas prices of the         *)
(* transaction manager, and the queries its two services share:            *)
(* core/store/models/eth.go and core/services/bulletprooftxmanager.        *)
(*                                                                         *)
(* A row of eth_txes has its position as its id; created_at has the same   *)
(* order.  An attempt is its own key: the hash of its signed transaction   *)
(* is a function of the transaction, its nonce and the gas price.          *)
(***************************************************************************)
EXTENDS Integers, Sequences, FiniteSets

CONSTANTS
    Keys,             \* the addresses of the node that are not for funding
    GasPriceDefault,  \* ETH_GAS_PRICE_DEFAULT
    GasBumpPercent,   \* ETH_GAS_BUMP_PERCENT
    GasBumpWei,       \* ETH_GAS_BUMP_WEI
    MaxGasPrice       \* ETH_MAX_GAS_PRICE_WEI

ASSUME GasAssumption ==
    /\ GasPriceDefault \in Nat \ {0}
    /\ GasBumpPercent \in Nat
    /\ GasBumpWei \in Nat \ {0}
    /\ MaxGasPrice \in Nat /\ MaxGasPrice >= GasPriceDefault

NULL == -1

EthTxState ==
    {"unstarted", "in_progress", "fatal_error", "unconfirmed",
     "confirmed_missing_receipt", "confirmed"}

EthTxAttemptState == {"in_progress", "insufficient_eth", "broadcast"}

EthTx == [from : Keys, value : Nat, state : EthTxState, nonce : Nat \cup {NULL}]

\* before is broadcast_before_block_num.
EthTxAttempt ==
    [tx : Nat \ {0}, from : Keys, nonce : Nat, price : Nat \ {0},
     state : EthTxAttemptState, before : Nat \cup {NULL}]

UnstartedTx(key, value) ==
    [from |-> key, value |-> value, state |-> "unstarted", nonce |-> NULL]

\* newAttempt signs transaction t, whose row is etx, at a gas price.
NewAttempt(t, etx, price) ==
    [tx |-> t, from |-> etx.from, nonce |-> etx.nonce, price |-> price,
     state |-> "in_progress", before |-> NULL]

\* A fatal error: the nonce is free again.
GiveUpNonce(etx) == [etx EXCEPT !.state = "fatal_error", !.nonce = NULL]

\* The signed transaction of an attempt, as nodes see it.
Signed(a) == [from |-> a.from, nonce |-> a.nonce, tx |-> a.tx, price |-> a.price]

----------------------------------------------------------------------------
(* BumpGas *)

Larger(a, b) == IF a >= b THEN a ELSE b

BumpedGasPrice(price) ==
    LET base == Larger(price, GasPriceDefault)
    IN  Larger((base * (100 + GasBumpPercent)) \div 100, base + GasBumpWei)

\* BumpGas returns no error.
CanBump(price) ==
    /\ BumpedGasPrice(price) <= MaxGasPrice
    /\ BumpedGasPrice(price) # price

----------------------------------------------------------------------------
(* Queries *)

TxsIn(etxes, key, states) ==
    {t \in DOMAIN etxes : etxes[t].from = key /\ etxes[t].state \in states}

AttemptsOf(attempts, t) == {a \in attempts : a.tx = t}

\* A slip: the order is not DESC.
LowestAttempt(attempts, t) ==
    CHOOSE a \in AttemptsOf(attempts, t) :
        \A b \in AttemptsOf(attempts, t) : b.price >= a.price

\* The first one by gas_price DESC.
HighestAttempt(attempts, t) ==
    CHOOSE a \in AttemptsOf(attempts, t) :
        \A b \in AttemptsOf(attempts, t) : b.price <= a.price

\* The unique indexes and the CHECK constraints of the two tables.
ConstraintsHold(etxes, attempts) ==
    /\ \A t \in DOMAIN etxes :
          etxes[t].nonce = NULL <=> etxes[t].state \in {"unstarted", "fatal_error"}
    /\ \A t, u \in DOMAIN etxes :
          t # u /\ etxes[t].from = etxes[u].from =>
             /\ etxes[t].nonce # NULL => etxes[t].nonce # etxes[u].nonce
             /\ ~(etxes[t].state = "in_progress" /\ etxes[u].state = "in_progress")
    /\ \A a \in attempts : a.state # "broadcast" => a.before = NULL
    /\ \A a, b \in attempts :
          a # b /\ a.tx = b.tx =>
             /\ a.price # b.price
             /\ ~(a.state = "in_progress" /\ b.state = "in_progress")
============================================================================

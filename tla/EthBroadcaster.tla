--------------------------- MODULE EthBroadcaster ---------------------------
(***************************************************************************)
(* The EthBroadcaster of core/services/bulletprooftxmanager: for every key *)
(* it takes the unstarted transactions one after the other, gives each the *)
(* next nonce of the key, and sends it until a node has it.                *)
(*                                                                         *)
(* Steps are cut at commits and at calls of the node, and the process may  *)
(* die between any two of them.  What the goroutine of a key holds in      *)
(* memory is the one in_progress transaction of the key and its attempt,   *)
(* which only this goroutine changes.  Its advisory lock is held.          *)
(***************************************************************************)
EXTENDS EthTables

CONSTANTS
    Values,     \* values in wei: transactions with a smaller one go first
    MaxTxs,     \* bound on the rows of eth_txes
    MaxCrashes  \* bound on the crashes of the process

ASSUME BroadcasterAssumption ==
    /\ Values \subseteq Nat
    /\ {MaxTxs, MaxCrashes} \subseteq Nat

VARIABLES
    nextNonce,  \* keys.next_nonce
    bpc,        \* where the goroutine of a key is
    reply,      \* the node's answer it has in hand
    crashes     \* number of crashes so far

tables == <<etxes, attempts, nextNonce>>
local  == <<bpc, reply>>
vars   == <<tables, local, crashes, node>>

BroadcasterPC == {"idle", "next", "send", "sent"}

BroadcasterInit ==
    /\ etxes = <<>>
    /\ attempts = {}
    /\ nextNonce = [k \in Keys |-> NULL]
    /\ bpc = [k \in Keys |-> "idle"]
    /\ reply = [k \in Keys |-> "none"]
    /\ crashes = 0

\* The transaction of key k that is in progress, and its attempt.
InProgress(k)     == TxsIn(etxes, k, {"in_progress"})
CurrentTx(k)      == CHOOSE t \in InProgress(k) : TRUE
CurrentAttempt(k) == CHOOSE a \in attempts : a.tx = CurrentTx(k)

GoTo(k, pc) ==
    /\ bpc' = [bpc EXCEPT ![k] = pc]
    /\ reply' = [reply EXCEPT ![k] = "none"]

----------------------------------------------------------------------------

\* SendEther, or the EthTx adapter, inserts an unstarted transaction.
InsertEthTx(k, value) ==
    /\ Len(etxes) < MaxTxs
    /\ etxes' = Append(etxes, UnstartedTx(k, value))
    /\ UNCHANGED <<attempts, nextNonce, local, crashes, node>>

\* monitorEthTxs: an insertion, or the poll timer, starts a round of all keys,
\* when each has finished the one before.
StartRound ==
    /\ \A k \in Keys : bpc[k] = "idle"
    /\ bpc' = [k \in Keys |-> "next"]
    /\ UNCHANGED <<tables, reply, crashes, node>>

\* handleAnyInProgressEthTx: what a crash or an error left behind comes first.
\* The round ends with an error if it does not have exactly one attempt.
ResumeInProgress(k) ==
    /\ bpc[k] = "next"
    /\ InProgress(k) # {}
    /\ LET left == AttemptsOf(attempts, CurrentTx(k))
       IN  IF /\ Cardinality(left) = 1
              /\ \A a \in left : a.state = "in_progress"
           THEN GoTo(k, "send") ELSE GoTo(k, "idle")
    /\ UNCHANGED <<tables, crashes, node>>

Unstarted(k) == TxsIn(etxes, k, {"unstarted"})

\* By value, then by created_at.
NextUnstarted(k) ==
    CHOOSE t \in Unstarted(k) : \A u \in Unstarted(k) :
        \/ etxes[t].value < etxes[u].value
        \/ etxes[t].value = etxes[u].value /\ t <= u

FinishRound(k) ==
    /\ bpc[k] = "next"
    /\ InProgress(k) = {} /\ Unstarted(k) = {}
    /\ GoTo(k, "idle")
    /\ UNCHANGED <<tables, crashes, node>>

\* loadAndSaveNonce: the first use of a key asks the node for its nonce.
LoadNonce(k) ==
    /\ bpc[k] = "next"
    /\ InProgress(k) = {} /\ Unstarted(k) # {}
    /\ nextNonce[k] = NULL
    /\ nextNonce' = [nextNonce EXCEPT ![k] = PendingNonce(k)]
    /\ UNCHANGED <<etxes, attempts, local, crashes, node>>

\* The node does not answer, and the round ends.
LoadNonceFails(k) ==
    /\ bpc[k] = "next"
    /\ InProgress(k) = {} /\ Unstarted(k) # {}
    /\ nextNonce[k] = NULL
    /\ GoTo(k, "idle")
    /\ UNCHANGED <<tables, crashes, node>>

\* A slip: the attempt is signed before the transaction has its nonce.
NonceForgotten(t, k) == [etxes[t] EXCEPT !.state = "in_progress"]

WithNonce(t, k) ==
    [etxes[t] EXCEPT !.state = "in_progress", !.nonce = nextNonce[k]]

\* nextUnstartedTransactionWithNonce and saveInProgressTransaction.  Nobody
\* else changes what the first reads, but for insertions in between, which
\* only the next query sees.
SaveInProgress(k) ==
    /\ bpc[k] = "next"
    /\ InProgress(k) = {} /\ Unstarted(k) # {}
    /\ nextNonce[k] # NULL
    /\ LET t   == NextUnstarted(k)
           etx == WithNonce(t, k)
       IN  /\ etxes' = [etxes EXCEPT ![t] = etx]
           /\ attempts' = attempts \cup {NewAttempt(t, etx, GasPriceDefault)}
    /\ GoTo(k, "send")
    /\ UNCHANGED <<nextNonce, crashes, node>>

Send(k, answer) ==
    /\ bpc[k] = "send"
    /\ SendTransaction(Signed(CurrentAttempt(k)), answer)
    /\ bpc' = [bpc EXCEPT ![k] = "sent"]
    /\ reply' = [reply EXCEPT ![k] = answer]
    /\ UNCHANGED <<tables, crashes>>

\* saveFatallyErroredTransaction: the nonce is free for the next one.
SaveFatallyErrored(k) ==
    /\ bpc[k] = "sent" /\ reply[k] = "fatal"
    /\ etxes' = [etxes EXCEPT ![CurrentTx(k)] = GiveUpNonce(@)]
    /\ attempts' = attempts \ AttemptsOf(attempts, CurrentTx(k))
    /\ GoTo(k, "next")
    /\ UNCHANGED <<nextNonce, crashes, node>>

\* A slip: a nonce that is used up is an error like any other.
SentIfAccepted == {"ok", "temporarilyUnderpriced"}

\* Answers after which the rest is left to the confirmer.
TakenForSent == {"ok", "nonceTooLow", "replacementUnderpriced",
                 "temporarilyUnderpriced"}

\* A slip: the next nonce is the node's.
NonceOfNode(k) == [nextNonce EXCEPT ![k] = PendingNonce(k)]

IncrementNextNonce(k) == [nextNonce EXCEPT ![k] = @ + 1]

\* saveUnconfirmed, which fails if somebody else has changed the nonce.
SaveUnconfirmed(k) ==
    /\ bpc[k] = "sent" /\ reply[k] \in TakenForSent
    /\ IF nextNonce[k] = etxes[CurrentTx(k)].nonce
       THEN /\ nextNonce' = IncrementNextNonce(k)
            /\ etxes' = [etxes EXCEPT ![CurrentTx(k)].state = "unconfirmed"]
            /\ LET a == CurrentAttempt(k)
               IN  attempts' = (attempts \ {a})
                                  \cup {[a EXCEPT !.state = "broadcast"]}
            /\ GoTo(k, "next")
       ELSE GoTo(k, "idle") /\ UNCHANGED tables
    /\ UNCHANGED <<crashes, node>>

\* tryAgainWithHigherGasPrice: another attempt takes the place of this one.
TryAgain(k) ==
    /\ bpc[k] = "sent" /\ reply[k] = "terminallyUnderpriced"
    /\ LET a == CurrentAttempt(k)
           b == NewAttempt(a.tx, etxes[a.tx], BumpedGasPrice(a.price))
       IN  IF CanBump(a.price)
           THEN attempts' = (attempts \ {a}) \cup {b} /\ GoTo(k, "send")
           ELSE UNCHANGED attempts /\ GoTo(k, "idle")
    /\ UNCHANGED <<etxes, nextNonce, crashes, node>>

OtherError(k) ==
    /\ bpc[k] = "sent"
    /\ reply[k] \notin TakenForSent \cup {"fatal", "terminallyUnderpriced"}

\* A slip: after an error the transaction goes back into the queue.
StartOver(k) ==
    /\ OtherError(k)
    /\ etxes' = [etxes EXCEPT ![CurrentTx(k)].state = "unstarted",
                              ![CurrentTx(k)].nonce = NULL]
    /\ attempts' = attempts \ AttemptsOf(attempts, CurrentTx(k))
    /\ GoTo(k, "idle")
    /\ UNCHANGED <<nextNonce, crashes, node>>

\* Any other error ends the round; the transaction stays in progress.
BailOut(k) ==
    /\ OtherError(k)
    /\ GoTo(k, "idle")
    /\ UNCHANGED <<tables, crashes, node>>

BroadcasterStep(k) ==
    \/ ResumeInProgress(k) \/ FinishRound(k)
    \/ LoadNonce(k) \/ LoadNonceFails(k) \/ SaveInProgress(k)
    \/ \E answer \in Replies : Send(k, answer)
    \/ SaveFatallyErrored(k) \/ SaveUnconfirmed(k) \/ TryAgain(k) \/ BailOut(k)

Insertion == \E k \in Keys, v \in Values : InsertEthTx(k, v)

\* The goroutines of all keys are gone; what they held is in the tables.
BroadcasterCrash ==
    /\ crashes < MaxCrashes
    /\ crashes' = crashes + 1
    /\ bpc' = [k \in Keys |-> "idle"]
    /\ reply' = [k \in Keys |-> "none"]
    /\ UNCHANGED <<tables, node>>

-----------------------------------------------------------------------------
(* The broadcaster alone, with its node *)

Init == BroadcasterInit /\ NodeInit

Next ==
    \/ Insertion
    \/ StartRound
    \/ \E k \in Keys : BroadcasterStep(k)
    \/ BroadcasterCrash
    \/ NodeNext /\ UNCHANGED <<tables, local, crashes>>

Spec == Init /\ [][Next]_vars

\* Answers that decide something, which a node gives sooner or later.
Decisive == Replies \ {"none", "insufficientEth"}

(***************************************************************************)
(* The poll timer starts a round whenever none runs, the goroutine of a    *)
(* key is scheduled, and the node does not fail every time it is asked.    *)
(* The calls of the node have a timeout, so that a round always ends.      *)
(***************************************************************************)
Fairness ==
    /\ WF_vars(StartRound)
    /\ \A k \in Keys :
        /\ WF_vars(BroadcasterStep(k))
        /\ SF_vars(LoadNonce(k))
        /\ SF_vars(\E answer \in Decisive : Send(k, answer))

FairSpec == Spec /\ Fairness

-----------------------------------------------------------------------------
(* Properties *)

\* The variables have their types, and no statement fails on a constraint of
\* the tables.
TypeOK ==
    /\ NodeTypeOK
    /\ etxes \in Seq(EthTx)
    /\ attempts \subseteq EthTxAttempt
    /\ ConstraintsHold(etxes, attempts)
    /\ nextNonce \in [Keys -> Nat \cup {NULL}]
    /\ bpc \in [Keys -> BroadcasterPC]
    /\ reply \in [Keys -> Replies]
    /\ crashes \in 0 .. MaxCrashes

\* The nonces of a key that are given out.
GivenNonces(k) ==
    {etxes[t].nonce : t \in {u \in DOMAIN etxes :
        etxes[u].from = k /\ etxes[u].nonce # NULL}}

(***************************************************************************)
(* "A monotonic series of increasing nonces for eth_txes that can all      *)
(* eventually be confirmed": the nonces of a key have no gap, which would  *)
(* keep every later transaction waiting, also after fatal errors and       *)
(* crashes; the next one is nextNonce, unless a transaction holds it       *)
(* already and is in progress.                                             *)
(***************************************************************************)
NoncesHaveNoGap ==
    \A k \in Keys :
        LET given == GivenNonces(k)
        IN  /\ \A n, m \in given : \A i \in n .. m : i \in given
            /\ \A n \in given :
                  \/ n < nextNonce[k]
                  \/ /\ n = nextNonce[k]
                     /\ \E t \in InProgress(k) : etxes[t].nonce = n
            /\ given # {} => \/ nextNonce[k] \in given
                             \/ nextNonce[k] - 1 \in given

\* "Existence of a saved eth_tx_attempt": whatever the node has of ours, the
\* table has as well, so that its receipt can be asked for.
SentIsSaved ==
    \A s \in pool \cup Mined : s.tx # 0 => \E a \in attempts : Signed(a) = s

\* "Transition of eth_txes out of unstarted into either fatal_error or
\* unconfirmed": as insertions come to an end, time and again every transaction
\* has got there.  Not when the node has come to ask for more than MaxGasPrice:
\* such a transaction stays in progress, and is sent in vain in every round.
EveryTxIsBroadcast ==
    []<>(\/ floor > MaxGasPrice
         \/ \A t \in DOMAIN etxes : etxes[t].state \in {"fatal_error", "unconfirmed"})
=============================================================================

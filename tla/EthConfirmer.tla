---------------------------- MODULE EthConfirmer ----------------------------
(***************************************************************************)
(* The EthConfirmer of core/services/bulletprooftxmanager.  On every new   *)
(* longest chain it asks for the receipts of the transactions that were    *)
(* sent, gives up those that will never have one, sends with more gas what *)
(* has waited too long, and sends again what a reorganisation took out of  *)
(* the chain.                                                              *)
(*                                                                         *)
(* One head is processed at a time, each key by a goroutine of its own.    *)
(* Steps are cut at commits and at calls of the node; a receipt is saved   *)
(* in the step that fetches it, since nothing else depends on the order of *)
(* that commit and the next blocks.  The advisory lock is held.            *)
(***************************************************************************)
EXTENDS EthTables

CONSTANTS
    BumpThreshold,  \* ETH_GAS_BUMP_THRESHOLD, in blocks
    BumpTxDepth,    \* ETH_GAS_BUMP_TX_DEPTH, 0 for no limit
    FinalityDepth,  \* ETH_FINALITY_DEPTH, also the blocks a head comes with
    Broadcast       \* the keys of the transactions the broadcaster has sent

ASSUME ConfirmerAssumption ==
    /\ BumpThreshold \in Nat
    /\ BumpTxDepth \in Nat
    /\ FinalityDepth \in Nat \ {0}
    /\ Broadcast \in Seq(Keys)

VARIABLES
    receipts,  \* table eth_receipts
    highest,   \* number of the highest head the head tracker has seen
    head,      \* the chain that ends in the head being processed
    cpc,       \* where processHead is
    todo,      \* the transactions its current query found
    work       \* where the goroutine of a key is

ctables == <<etxes, attempts, receipts>>
clocal  == <<head, cpc, todo, work>>
cvars   == <<ctables, highest, clocal, node>>

ConfirmerPC == {"idle", "receipts", "missing", "old", "bump", "ensure", "leftovers"}

\* A goroutine of bumpGasWhereNecessary or handleAnyInProgressAttempts: the
\* attempts left behind come before the new ones.  It goes through a list of
\* transactions and has one in hand, with the node's answer, while it sends.
Work ==
    [stage : {"leftovers", "bumps"},
     pc    : {"query", "pick", "send", "sent", "done", "failed"},
     list  : SUBSET (Nat \ {0}), cur : Nat, reply : Replies]

Goroutine(pc) ==
    [stage |-> "leftovers", pc |-> pc, list |-> {}, cur |-> 0, reply |-> "none"]

AtRest  == [k \in Keys |-> Goroutine("done")]
Started == [k \in Keys |-> Goroutine("query")]

ConfirmerInit ==
    /\ receipts = {}
    /\ highest = 0
    /\ head = <<>> /\ cpc = "idle" /\ todo = {}
    /\ work = AtRest

Number(h) == Len(h)

\* The earliest block a head comes with: EarliestInChain of its parents.
Earliest(h) == Larger(1, Number(h) - FinalityDepth + 1)

ReceiptsOf(t) ==
    {r \in receipts : \E a \in AttemptsOf(attempts, t) : Signed(a) = r.of}

Mark(txs, state) ==
    [t \in DOMAIN etxes |->
        IF t \in txs THEN [etxes[t] EXCEPT !.state = state] ELSE etxes[t]]

AllTxsIn(states) == UNION {TxsIn(etxes, k, states) : k \in Keys}

Forget ==
    head' = <<>> /\ cpc' = "idle" /\ todo' = {} /\ work' = AtRest

-----------------------------------------------------------------------------
(* Receipts *)

AwaitReceipt == {"unconfirmed", "confirmed_missing_receipt"}

\* A longer chain: SetBroadcastBeforeBlockNum, and the query of
\* CheckForReceipts, which is over when there is nothing to ask for.
OnNewLongestChain ==
    /\ cpc = "idle"
    /\ Len(chain) > highest
    /\ highest' = Len(chain)
    /\ head' = chain
    /\ attempts' = {IF a.state = "broadcast" /\ a.before = NULL
                    THEN [a EXCEPT !.before = Len(chain)] ELSE a : a \in attempts}
    /\ todo' = AllTxsIn(AwaitReceipt)
    /\ cpc' = IF todo' = {} THEN "bump" ELSE "receipts"
    /\ work' = Started
    /\ UNCHANGED <<etxes, receipts, node>>

\* fetchReceipts and saveReceipt for one transaction, in any order.  There is
\* one receipt at most, since its attempts have the same nonce.
FetchReceipt(t) ==
    /\ cpc = "receipts" /\ t \in todo
    /\ LET found == {r \in [of : {Signed(a) : a \in AttemptsOf(attempts, t)},
                            num : DOMAIN chain, fork : 0 .. MaxForks] :
                        /\ r.of \in chain[r.num].txs
                        /\ r.fork = chain[r.num].fork}
       IN  /\ receipts' = receipts \cup found
           /\ etxes' = IF found = {} THEN etxes ELSE Mark({t}, "confirmed")
    /\ todo' = todo \ {t}
    /\ UNCHANGED <<attempts, highest, head, cpc, work, node>>

\* The node fails to answer: the transaction waits for the next head.
FetchFails(t) ==
    /\ cpc = "receipts" /\ t \in todo
    /\ todo' = todo \ {t}
    /\ UNCHANGED <<ctables, highest, head, cpc, work, node>>

ReceiptsFetched ==
    /\ cpc = "receipts" /\ todo = {}
    /\ cpc' = "missing"
    /\ UNCHANGED <<ctables, highest, head, todo, work, node>>

\* Below the highest confirmed nonce, whatever the key.
Superseded(t) ==
    \E u \in AllTxsIn({"confirmed"}) : etxes[t].nonce < etxes[u].nonce

MarkConfirmedMissingReceipt ==
    /\ cpc = "missing"
    /\ etxes' = Mark({t \in AllTxsIn({"unconfirmed"}) : Superseded(t)},
                     "confirmed_missing_receipt")
    /\ cpc' = "old"
    /\ UNCHANGED <<attempts, receipts, highest, head, todo, work, node>>

\* Every attempt with a block number has one below the cutoff.
Expired(t, cutoff) ==
    LET known == {a \in AttemptsOf(attempts, t) : a.before # NULL}
    IN  known # {} /\ \A a \in known : a.before < cutoff

MarkOldTxesMissingReceiptAsErrored ==
    /\ cpc = "old"
    /\ LET cutoff == Number(head) - FinalityDepth
           old    == {t \in AllTxsIn({"confirmed_missing_receipt"}) :
                        cutoff > 0 /\ Expired(t, cutoff)}
       IN  etxes' = [t \in DOMAIN etxes |->
                        IF t \in old THEN GiveUpNonce(etxes[t]) ELSE etxes[t]]
    /\ cpc' = "bump"
    /\ UNCHANGED <<attempts, receipts, highest, head, todo, work, node>>

-----------------------------------------------------------------------------
(* The goroutine of a key *)

Running(k, stage, pc) ==
    /\ cpc \in {"bump", "leftovers"}
    /\ work[k].stage = stage /\ work[k].pc = pc

\* A slip: what was confirmed in the meantime needs no sending.
SentUnconfirmed == {"unconfirmed"}

Sent == {"unconfirmed", "confirmed", "confirmed_missing_receipt"}

\* getInProgressEthTxAttempts: they were perhaps sent.
QueryLeftovers(k) ==
    /\ Running(k, "leftovers", "query")
    /\ work' = [work EXCEPT ![k].pc = "pick", ![k].list =
                  {t \in TxsIn(etxes, k, Sent) :
                      \E a \in AttemptsOf(attempts, t) : a.state = "in_progress"}]
    /\ UNCHANGED <<ctables, highest, head, cpc, todo, node>>

PickLeftover(k) ==
    /\ Running(k, "leftovers", "pick")
    /\ \E t \in work[k].list :
          work' = [work EXCEPT ![k].pc = "send", ![k].cur = t, ![k].list = @ \ {t}]
    /\ UNCHANGED <<ctables, highest, head, cpc, todo, node>>

WaitedLongEnough(a) ==
    /\ a.state = "broadcast"
    /\ a.before # NULL /\ a.before <= Number(head) - BumpThreshold

\* Of the unconfirmed transactions of key k, one of those that come first.
AmongTheFirst(t, k) ==
    LET lower == {u \in TxsIn(etxes, k, {"unconfirmed"}) :
                     etxes[u].nonce < etxes[t].nonce}
    IN  etxes[t].from = k /\ Cardinality(lower) < BumpTxDepth

\* FindEthTxsRequiringNewAttempt.  Without a limit it looks at every key.
RequiringNewAttempt(k) ==
    {t \in AllTxsIn({"unconfirmed"}) :
        /\ \A a \in AttemptsOf(attempts, t) :
              a.state = "insufficient_eth" \/ WaitedLongEnough(a)
        /\ BumpTxDepth > 0 => AmongTheFirst(t, k)}

LeftoversDone(k) ==
    /\ Running(k, "leftovers", "pick") /\ work[k].list = {}
    /\ work' = [work EXCEPT ![k] =
                  IF cpc = "bump"
                  THEN [work[k] EXCEPT !.stage = "bumps", !.list = RequiringNewAttempt(k)]
                  ELSE [work[k] EXCEPT !.pc = "done"]]
    /\ UNCHANGED <<ctables, highest, head, cpc, todo, node>>

\* Slips: an attempt that is sent again keeps the block it was sent before,
\* or only loses that.
SentAsItWas(a)    == [a EXCEPT !.state = "in_progress"]
StaysBroadcast(a) == [a EXCEPT !.before = NULL]

SentAgain(a) == [a EXCEPT !.state = "in_progress", !.before = NULL]

\* newAttemptWithGasBump.  Without money, or when the price is at its limit,
\* the highest attempt is sent again.
AttemptWithGasBump(t) ==
    LET a == HighestAttempt(attempts, t)
    IN  IF AttemptsOf(attempts, t) = {}
        THEN NewAttempt(t, etxes[t], GasPriceDefault)
        ELSE IF a.state = "insufficient_eth" \/ ~CanBump(a.price)
             THEN SentAgain(a)
             ELSE NewAttempt(t, etxes[t], BumpedGasPrice(a.price))

\* The table after attempt b was saved.
WithAttempt(b) ==
    {a \in attempts : a.tx # b.tx \/ a.price # b.price} \cup {b}

\* The next transaction by nonce.  Saving its attempt fails if another one of
\* it is in progress.  The attempts are those of the query; they are current,
\* since no other goroutine changes them (without a limit, that of another key
\* may, and the code would bump what it had before).
Bump(k) ==
    /\ Running(k, "bumps", "pick")
    /\ \E t \in work[k].list :
          /\ \A u \in work[k].list : etxes[t].nonce <= etxes[u].nonce
          /\ IF \E a \in AttemptsOf(attempts, t) : a.state = "in_progress"
             THEN /\ work' = [work EXCEPT ![k].pc = "failed"]
                  /\ UNCHANGED attempts
             ELSE /\ attempts' = WithAttempt(AttemptWithGasBump(t))
                  /\ work' = [work EXCEPT ![k].pc = "send", ![k].cur = t,
                                          ![k].list = @ \ {t}]
    /\ UNCHANGED <<etxes, receipts, highest, head, cpc, todo, node>>

BumpsDone(k) ==
    /\ Running(k, "bumps", "pick") /\ work[k].list = {}
    /\ work' = [work EXCEPT ![k].pc = "done"]
    /\ UNCHANGED <<ctables, highest, head, cpc, todo, node>>

\* The attempt a goroutine has in hand.
InHand(k) == CHOOSE a \in attempts : a.tx = work[k].cur /\ a.state = "in_progress"

\* handleInProgressAttempt, up to the node's answer.
Resend(k, answer) ==
    /\ cpc \in {"bump", "leftovers"} /\ work[k].pc = "send"
    /\ SendTransaction(Signed(InHand(k)), answer)
    /\ work' = [work EXCEPT ![k].pc = "sent", ![k].reply = answer]
    /\ UNCHANGED <<ctables, highest, head, cpc, todo>>

Answered(k, answers) ==
    /\ cpc \in {"bump", "leftovers"} /\ work[k].pc = "sent"
    /\ work[k].reply \in answers

\* The goroutine is done with the transaction, or fails with it.
Then(k, pc) ==
    work' = [work EXCEPT ![k].pc = pc, ![k].reply = "none",
                         ![k].cur = IF pc = "send" THEN @ ELSE 0]

TakenForResent == {"ok", "nonceTooLow", "replacementUnderpriced",
                   "temporarilyUnderpriced"}

SaveSent(k) ==
    /\ Answered(k, TakenForResent)
    /\ attempts' = WithAttempt([InHand(k) EXCEPT !.state = "broadcast"])
    /\ Then(k, "pick")
    /\ UNCHANGED <<etxes, receipts, highest, head, cpc, todo, node>>

SaveInsufficientEth(k) ==
    /\ Answered(k, {"insufficientEth"})
    /\ attempts' = WithAttempt([InHand(k) EXCEPT !.state = "insufficient_eth"])
    /\ Then(k, "pick")
    /\ UNCHANGED <<etxes, receipts, highest, head, cpc, todo, node>>

\* The receipts that are left when attempt a is deleted: ON DELETE CASCADE.
ReceiptsWithout(a) == {r \in receipts : r.of # Signed(a)}

\* saveReplacementInProgressAttempt, if the price is not at its limit.
Replace(k) ==
    /\ Answered(k, {"terminallyUnderpriced"})
    /\ LET a == InHand(k)
           b == NewAttempt(a.tx, etxes[a.tx], BumpedGasPrice(a.price))
       IN  IF CanBump(a.price)
           THEN /\ attempts' = (attempts \ {a}) \cup {b}
                /\ receipts' = ReceiptsWithout(a)
                /\ Then(k, "send")
           ELSE UNCHANGED <<attempts, receipts>> /\ Then(k, "failed")
    /\ UNCHANGED <<etxes, highest, head, cpc, todo, node>>

\* Never expected: "this will loop continuously on every new head".
DeleteAttempt(k) ==
    /\ Answered(k, {"fatal"})
    /\ attempts' = attempts \ {InHand(k)}
    /\ receipts' = ReceiptsWithout(InHand(k))
    /\ Then(k, "pick")
    /\ UNCHANGED <<etxes, highest, head, cpc, todo, node>>

\* Any other error: the attempt stays in progress for the next head.
ResendFails(k) ==
    /\ Answered(k, {"none"})
    /\ Then(k, "failed")
    /\ UNCHANGED <<ctables, highest, head, cpc, todo, node>>

-----------------------------------------------------------------------------
(* The longest chain *)

\* A slip: any block of that height will do.
HeightInLongestChain(r, h) == r.num \in Earliest(h) .. Number(h)

\* Block num of head h, if it is one of those the head comes with.
InLongestChain(r, h) ==
    r.num \in Earliest(h) .. Number(h) /\ h[r.num].fork = r.fork

HasReceiptInLongestChain(t) == \E r \in ReceiptsOf(t) : InLongestChain(r, head)

\* findTransactionsConfirmedAtOrAboveBlockHeight
ConfirmedRecently ==
    {t \in AllTxsIn({"confirmed", "confirmed_missing_receipt"}) :
        \E a \in AttemptsOf(attempts, t) :
           /\ a.state = "broadcast"
           /\ \E r \in receipts : r.of = Signed(a) /\ r.num >= Earliest(head)}

\* BumpGasWhereNecessary waits for all keys and fails if one of them did.
BumpsFinished ==
    /\ cpc = "bump"
    /\ \A k \in Keys : work[k].pc \in {"done", "failed"}
    /\ IF \E k \in Keys : work[k].pc = "failed"
       THEN Forget
       ELSE /\ cpc' = "ensure"
            /\ todo' = {t \in ConfirmedRecently : ~HasReceiptInLongestChain(t)}
            /\ UNCHANGED <<head, work>>
    /\ UNCHANGED <<ctables, highest, node>>

\* What unconfirmEthTx and unbroadcastAttempt insist on.
CanRebroadcast(t) ==
    /\ etxes[t].state = "confirmed"
    /\ HighestAttempt(attempts, t).state = "broadcast"

\* A slip: the receipts stay, "they do not apply to the new chain".
KeepReceipts(t) == receipts

DeleteAllReceipts(t) == receipts \ ReceiptsOf(t)

\* markForRebroadcast, by nonce; its error ends processHead.
MarkForRebroadcast ==
    /\ cpc = "ensure"
    /\ \E t \in todo :
          /\ \A u \in todo : etxes[t].nonce <= etxes[u].nonce
          /\ IF CanRebroadcast(t)
             THEN /\ receipts' = DeleteAllReceipts(t)
                  /\ etxes' = Mark({t}, "unconfirmed")
                  /\ attempts' = WithAttempt(SentAgain(HighestAttempt(attempts, t)))
                  /\ todo' = todo \ {t}
                  /\ UNCHANGED <<head, cpc, work>>
             ELSE Forget /\ UNCHANGED ctables
    /\ UNCHANGED <<highest, node>>

RebroadcastsMarked ==
    /\ cpc = "ensure" /\ todo = {}
    /\ cpc' = "leftovers"
    /\ work' = Started
    /\ UNCHANGED <<ctables, highest, head, todo, node>>

HeadProcessed ==
    /\ cpc = "leftovers"
    /\ \A k \in Keys : work[k].pc \in {"done", "failed"}
    /\ Forget
    /\ UNCHANGED <<ctables, highest, node>>

-----------------------------------------------------------------------------

KeyStep(k) ==
    \/ QueryLeftovers(k) \/ PickLeftover(k) \/ LeftoversDone(k)
    \/ Bump(k) \/ BumpsDone(k)
    \/ \E answer \in Replies : Resend(k, answer)
    \/ SaveSent(k) \/ SaveInsufficientEth(k) \/ Replace(k)
    \/ DeleteAttempt(k) \/ ResendFails(k)

ConfirmerStep ==
    \/ OnNewLongestChain
    \/ \E t \in todo : FetchReceipt(t) \/ FetchFails(t)
    \/ ReceiptsFetched
    \/ MarkConfirmedMissingReceipt \/ MarkOldTxesMissingReceiptAsErrored
    \/ \E k \in Keys : KeyStep(k)
    \/ BumpsFinished \/ MarkForRebroadcast \/ RebroadcastsMarked
    \/ HeadProcessed

\* What processHead holds is lost; the head is not processed again.
ConfirmerCrash == Forget /\ UNCHANGED <<ctables, highest>>

-----------------------------------------------------------------------------
(* The confirmer alone: the broadcaster has left it some transactions, each *)
(* with one attempt that the node has, or has dropped since.               *)

BroadcastTx(t) ==
    [from |-> Broadcast[t], value |-> 0, state |-> "unconfirmed",
     nonce |-> Cardinality({u \in 1 .. t - 1 : Broadcast[u] = Broadcast[t]})]

BroadcastAttempt(t) ==
    [NewAttempt(t, BroadcastTx(t), GasPriceDefault) EXCEPT !.state = "broadcast"]

Handover ==
    /\ ConfirmerInit
    /\ etxes = [t \in DOMAIN Broadcast |-> BroadcastTx(t)]
    /\ attempts = {BroadcastAttempt(t) : t \in DOMAIN Broadcast}
    /\ pool \in SUBSET {Signed(a) : a \in attempts}
    /\ chain = <<>> /\ forks = 0 /\ floor = GasPriceDefault

ConfirmerNext ==
    \/ ConfirmerStep
    \/ ConfirmerCrash /\ UNCHANGED node
    \/ NodeNext /\ UNCHANGED <<ctables, highest, clocal>>

ConfirmerSpec == Handover /\ [][ConfirmerNext]_cvars

-----------------------------------------------------------------------------
(* Properties *)

\* The variables have their types, and no statement fails on a constraint of
\* the tables.
ConfirmerTypeOK ==
    /\ NodeTypeOK
    /\ etxes \in Seq(EthTx)
    /\ attempts \subseteq EthTxAttempt
    /\ ConstraintsHold(etxes, attempts)
    /\ receipts \subseteq [of : SignedTx, num : Nat \ {0}, fork : Nat]
    /\ highest \in Nat
    /\ head \in Seq(Block)
    /\ cpc \in ConfirmerPC
    /\ todo \subseteq DOMAIN etxes
    /\ work \in [Keys -> Work]
    /\ \A k \in Keys : work[k].cur # 0 <=> work[k].pc \in {"send", "sent"}

(***************************************************************************)
(* "Our system constraints guarantee that the attempt referenced in this   *)
(* function has the highest gas price of all attempts": what is sent again *)
(* after a bump, a crash or a reorganisation never undercuts itself.       *)
(***************************************************************************)
InProgressIsHighest ==
    \A a \in attempts : a.state = "in_progress" =>
        \A b \in AttemptsOf(attempts, a.tx) : b.price <= a.price

(***************************************************************************)
(* "There should only ever be one receipt for an eth_tx, and if it exists  *)
(* then the transaction is marked confirmed": those of a chain that was    *)
(* left are gone before another one can be saved.                          *)
(***************************************************************************)
ReceiptMeansConfirmed ==
    \A t \in DOMAIN etxes :
        /\ Cardinality(ReceiptsOf(t)) <= 1
        /\ ReceiptsOf(t) # {} => etxes[t].state = "confirmed"

\* Once the rebroadcasts are marked, no attempt that was broadcast has a
\* receipt of another chain than the head's, unless it is older than the
\* chain the head comes with.
NoReceiptOfAnotherChain ==
    cpc = "ensure" /\ todo = {} =>
        \A r \in receipts :
            (\E a \in attempts : a.state = "broadcast" /\ Signed(a) = r.of)
            => \/ r.num < Earliest(head)
               \/ r.num <= Number(head) /\ head[r.num].fork = r.fork

(***************************************************************************)
(* A transaction is marked as confirmed without a receipt only if "a       *)
(* transaction with this nonce has long since been confirmed", which is    *)
(* known from a confirmed one with a higher nonce of the same account.     *)
(***************************************************************************)
MissingReceiptIsSuperseded ==
    [][\A t \in AllTxsIn({"unconfirmed"}) :
          etxes'[t].state = "confirmed_missing_receipt" =>
              \E u \in TxsIn(etxes, etxes[t].from, {"confirmed"}) :
                  etxes[t].nonce < etxes[u].nonce]_cvars

(***************************************************************************)
(* What a reorganisation took out of the chain is sent again, also after a *)
(* crash: a confirmed transaction goes back only in the step that also     *)
(* puts its dearest attempt in progress; an attempt stays in progress      *)
(* until the node was asked to take it; and no later head is at its own    *)
(* rebroadcasts before the node was asked about all that was left.         *)
(***************************************************************************)
GoesBackInProgress ==
    \A t \in AllTxsIn({"confirmed"}) : etxes'[t].state # "confirmed" =>
        /\ etxes'[t].state = "unconfirmed"
        /\ \E a \in attempts' : a.tx = t /\ a.state = "in_progress"
        /\ ~HasReceiptInLongestChain(t)

WaitsForTheNode ==
    \A a \in attempts : a.state = "in_progress" =>
        a \in attempts' \/ \E k \in Keys : work[k].pc = "sent" /\ work[k].cur = a.tx

NothingIsLeft ==
    cpc = "bump" /\ cpc' = "ensure" =>
        \A a \in attempts : a.state = "in_progress" => etxes[a.tx].state = "fatal_error"

ReorganisedIsSentAgain ==
    [][GoesBackInProgress /\ WaitsForTheNode /\ NothingIsLeft]_cvars

=============================================================================

------------------------------ MODULE EthNode ------------------------------
(***************************************************************************)
(* The Ethereum node and its chain, as far as the transaction manager can  *)
(* tell: a pool of signed transactions, at most one for a nonce, a chain   *)
(* of blocks that can be reorganised, and the answers to SendTransaction   *)
(* that core/services/eth/errors.go tells apart.  It is not part of the    *)
(* repository: it is what the code takes for granted.                      *)
(***************************************************************************)
EXTENDS EthTxModels

CONSTANTS
    Refused,    \* transactions no node will ever accept (fatal errors)
    MaxBlocks,  \* bound on the height of the chain
    MaxForks,   \* bound on the number of reorganisations
    MaxFloor,   \* bound on the lowest gas price the node accepts
    Externals   \* prices at which an external wallet may use a key

ASSUME NodeAssumption ==
    /\ {MaxBlocks, MaxForks, MaxFloor} \subseteq Nat
    /\ Externals \subseteq Nat \ {0}

VARIABLES
    pool,    \* signed transactions waiting to be mined
    chain,   \* the blocks, each with the fork it was mined on
    forks,   \* number of reorganisations so far
    floor    \* the lowest gas price the node accepts

node == <<pool, chain, forks, floor>>

\* tx 0 is a transaction of an external wallet.
SignedTx == [from : Keys, nonce : Nat, tx : Nat, price : Nat \ {0}]
Block    == [fork : Nat, txs : SUBSET SignedTx]

NodeTypeOK ==
    /\ pool \subseteq SignedTx
    /\ chain \in Seq(Block) /\ Len(chain) <= MaxBlocks
    /\ forks \in 0 .. MaxForks
    /\ floor \in Nat

NodeInit ==
    /\ pool = {}
    /\ chain = <<>>
    /\ forks = 0
    /\ floor = GasPriceDefault

MinedIn(blocks) == UNION {blocks[i].txs : i \in DOMAIN blocks}
Mined           == MinedIn(chain)

\* The number of transactions of a key in the chain is its next nonce there.
MinedNonce(key) == Cardinality({s \in Mined : s.from = key})

\* PendingNonceAt: the first nonce neither mined nor in the pool.
PendingNonce(key) ==
    CHOOSE n \in MinedNonce(key) .. MinedNonce(key) + Cardinality(pool) :
        /\ ~\E s \in pool : s.from = key /\ s.nonce = n
        /\ \A m \in MinedNonce(key) .. n - 1 :
              \E s \in pool : s.from = key /\ s.nonce = m

SameNonce(s, r) == s.from = r.from /\ s.nonce = r.nonce
Rivals(s)       == {r \in pool : SameNonce(s, r) /\ r # s}

\* s enters the pool, in the place of a cheaper one with its nonce.
Accept(s) ==
    /\ s.nonce >= MinedNonce(s.from)
    /\ s.tx \notin Refused
    /\ s.price >= floor
    /\ \A r \in Rivals(s) : r.price < s.price
    /\ pool' = (pool \ Rivals(s)) \cup {s}
    /\ UNCHANGED <<chain, forks, floor>>

\* SendTransaction with an answer of the node.
Answer(s, reply) ==
    \/ /\ reply = "ok"
       /\ IF s \in pool THEN UNCHANGED node ELSE Accept(s)
    \/ /\ s \notin pool
       /\ UNCHANGED node
       /\ \/ reply = "fatal" /\ s.tx \in Refused
          \/ reply = "nonceTooLow" /\ s.nonce < MinedNonce(s.from)
          \/ /\ s.nonce >= MinedNonce(s.from)
             /\ s.tx \notin Refused
             /\ \/ reply = "terminallyUnderpriced" /\ s.price < floor
                \/ /\ reply = "replacementUnderpriced"
                   /\ \E r \in Rivals(s) : r.price >= s.price
                \/ reply = "temporarilyUnderpriced"
                \/ reply = "insufficientEth"

\* No answer, or one that says nothing: the node may have the transaction.
NoAnswer(s) ==
    \/ UNCHANGED node
    \/ s \notin pool /\ Accept(s)

Replies == {"ok", "fatal", "nonceTooLow", "terminallyUnderpriced",
            "replacementUnderpriced", "temporarilyUnderpriced",
            "insufficientEth", "none"}

SendTransaction(s, reply) ==
    \/ Answer(s, reply)
    \/ reply = "none" /\ NoAnswer(s)

----------------------------------------------------------------------------

\* The transactions of txs continue the nonces of the chain.
Minable(txs) ==
    /\ \A s, r \in txs : SameNonce(s, r) => s = r
    /\ \A s \in txs :
          /\ s.nonce >= MinedNonce(s.from)
          /\ \A n \in MinedNonce(s.from) .. s.nonce :
                \E r \in txs : r.from = s.from /\ r.nonce = n

Mine(txs) ==
    /\ Len(chain) < MaxBlocks
    /\ Minable(txs)
    /\ chain' = Append(chain, [fork |-> forks, txs |-> txs])
    /\ pool' = {s \in pool : ~\E r \in txs : SameNonce(s, r)}
    /\ UNCHANGED <<forks, floor>>

\* The last n blocks leave the chain; their transactions wait again.
Reorganise(n) ==
    /\ forks < MaxForks
    /\ LET kept == SubSeq(chain, 1, Len(chain) - n)
       IN  /\ chain' = kept
           /\ pool' = pool \cup (Mined \ MinedIn(kept))
    /\ forks' = forks + 1
    /\ UNCHANGED floor

Evict(s) ==
    /\ pool' = pool \ {s}
    /\ UNCHANGED <<chain, forks, floor>>

\* Also above what the transaction manager is ready to pay, MaxGasPrice.
RaiseFloor ==
    /\ floor < MaxFloor
    /\ floor' = floor + 1
    /\ UNCHANGED <<pool, chain, forks>>

\* One at a time.
ExternalWallet(key, price) ==
    /\ \A s \in pool \cup Mined : s.tx # 0
    /\ Accept([from |-> key, nonce |-> PendingNonce(key), tx |-> 0, price |-> price])

NodeNext ==
    \/ \E txs \in SUBSET pool : Mine(txs)
    \/ \E n \in 1 .. Len(chain) : Reorganise(n)
    \/ \E s \in pool : Evict(s)
    \/ RaiseFloor
    \/ \E k \in Keys, p \in Externals : ExternalWallet(k, p)
============================================================================

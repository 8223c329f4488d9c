---------------------------- MODULE TxManagerProofs ----------------------------
(***************************************************************************)
(* The two services of the transaction manager, whatever the node does.    *)
(*                                                                         *)
(* First what they may rely on of the node: nothing is in the pool or the  *)
(* chain that was not sent, nothing comes in that is refused, a nonce in   *)
(* the chain is below the next one, and no nonce of a key is there twice,  *)
(* for any keys, prices, blocks and reorganisations.                       *)
(*                                                                         *)
(* The broadcaster: the nonces of a key have no gap, what was sent is      *)
(* saved, and no statement fails on a constraint of the tables, for any    *)
(* keys, values, transactions, gas prices and crashes.                     *)
(*                                                                         *)
(* The confirmer: a confirmed transaction has one receipt, of the head's   *)
(* chain once its rebroadcasts are marked, and what is sent again is never *)
(* cheaper than what was sent, for any keys, transactions, depths, gas     *)
(* prices, crashes and reorganisations.                                    *)
(***************************************************************************)
EXTENDS EthBroadcaster, EthConfirmer, FiniteSetTheorems, SequenceTheorems,
        WellFoundedInduction, TLAPS

-----------------------------------------------------------------------------
(* The node *)

\* The transactions of the first j blocks, and those of a key among them.
Below(blocks, j) == UNION {blocks[i].txs : i \in 1 .. j}
OwnBelow(blocks, j, key) == {s \in Below(blocks, j) : s.from = key}

FiniteBlocks(blocks) == \A i \in 1 .. Len(blocks) : IsFiniteSet(blocks[i].txs)

\* At every height, a nonce in the chain is below the number of transactions
\* that its key has there.
Used(blocks) ==
    \A j \in 0 .. Len(blocks) : \A s \in Below(blocks, j) :
        s.nonce < Cardinality(OwnBelow(blocks, j, s.from))

\* The chain has one transaction at most for a nonce of a key.
Once(blocks) ==
    \A i, j \in 1 .. Len(blocks) : \A s \in blocks[i].txs, r \in blocks[j].txs :
        SameNonce(s, r) => i = j /\ s = r

NodeInv ==
    /\ NodeTypeOK
    /\ IsFiniteSet(pool)
    /\ FiniteBlocks(chain)
    /\ Used(chain) /\ Once(chain)

-----------------------------------------------------------------------------
(* Finite sets of transactions *)

LEMMA Least ==
    ASSUME NEW S, S \subseteq Nat, S # {}
    PROVE \E x \in S : \A y \in S : x <= y
<1>1. PICK x \in S : \A y \in S : ~ (<<y, x>> \in OpToRel(<, Nat))
  BY NatLessThanWellFounded, WFMin
<1>2. \A y \in S : ~(y < x)
  BY <1>1 DEF OpToRel
<1>3. \A y \in S : x <= y
  BY <1>2
<1> QED
  BY <1>3

LEMMA BlockTyped ==
    ASSUME NEW blocks \in Seq(Block), NEW i \in 1 .. Len(blocks)
    PROVE blocks[i].txs \subseteq SignedTx
<1>1. blocks[i] \in Block
  OBVIOUS
<1> QED
  BY <1>1 DEF Block

LEMMA BelowFinite ==
    ASSUME NEW blocks \in Seq(Block), FiniteBlocks(blocks), NEW j \in 0 .. Len(blocks)
    PROVE IsFiniteSet(Below(blocks, j))
<1> DEFINE sets == {blocks[i].txs : i \in 1 .. j}
<1>1. Len(blocks) \in Nat
  OBVIOUS
<1>2. IsFiniteSet(1 .. j)
  BY <1>1, FS_Interval
<1>3. IsFiniteSet(sets)
  <2>1. [i \in 1 .. j |-> blocks[i].txs] \in Surjection(1 .. j, sets)
    BY DEF Surjection
  <2> QED
    BY <1>2, <2>1, FS_Surjection
<1>4. \A t \in sets : IsFiniteSet(t)
  BY <1>1 DEF FiniteBlocks
<1> QED
  BY <1>3, <1>4, FS_UNION DEF Below

LEMMA OwnFinite ==
    ASSUME NEW blocks \in Seq(Block), FiniteBlocks(blocks), NEW j \in 0 .. Len(blocks), NEW key
    PROVE /\ IsFiniteSet(OwnBelow(blocks, j, key))
          /\ Cardinality(OwnBelow(blocks, j, key)) \in Nat
<1>1. IsFiniteSet(OwnBelow(blocks, j, key))
  BY BelowFinite, FS_Subset DEF OwnBelow
<1> QED
  BY <1>1, FS_CardinalityType

LEMMA MinedBelow ==
    ASSUME NEW blocks \in Seq(Block)
    PROVE MinedIn(blocks) = Below(blocks, Len(blocks))
BY DEF MinedIn, Below

\* A set that has every nonce from a to b has that many members at least.
LEMMA NoncesCount ==
    ASSUME NEW a \in Nat, NEW b \in Nat, NEW T, IsFiniteSet(T),
           \A n \in a .. b : \E r \in T : r.nonce = n
    PROVE b - a + 1 <= Cardinality(T)
<1> DEFINE f == [n \in a .. b |-> CHOOSE r \in T : r.nonce = n]
<1>1. \A n \in a .. b : f[n] \in T /\ f[n].nonce = n
  OBVIOUS
<1>2. f \in Injection(a .. b, T)
  BY <1>1 DEF Injection, IsInjective
<1>3. Cardinality(a .. b) <= Cardinality(T)
  BY <1>2, FS_Injection
<1>4. Cardinality(T) \in Nat
  BY FS_CardinalityType
<1>5. Cardinality(a .. b) = IF a > b THEN 0 ELSE b - a + 1
  <2>1. a \in Int /\ b \in Int
    OBVIOUS
  <2> QED
    BY ONLY <2>1, FS_Interval
<1> QED
  BY <1>3, <1>4, <1>5

LEMMA UsedPrefix ==
    ASSUME NEW blocks \in Seq(Block), Used(blocks), Once(blocks), FiniteBlocks(blocks),
           NEW n \in 0 .. Len(blocks)
    PROVE LET kept == SubSeq(blocks, 1, n)
          IN  /\ kept \in Seq(Block) /\ Len(kept) = n
              /\ Used(kept) /\ Once(kept) /\ FiniteBlocks(kept)
              /\ MinedIn(kept) \subseteq MinedIn(blocks)
<1> DEFINE kept == SubSeq(blocks, 1, n)
<1>1. kept \in Seq(Block) /\ Len(kept) = n /\ \A i \in 1 .. n : kept[i] = blocks[i]
  BY SubSeqProperties
<1> HIDE DEF kept
<1>2. \A j \in 0 .. n : Below(kept, j) = Below(blocks, j)
  BY <1>1 DEF Below
<1>3. Used(kept)
  BY <1>1, <1>2 DEF Used, OwnBelow
<1>4. FiniteBlocks(kept)
  BY <1>1 DEF FiniteBlocks
<1>5. Once(kept)
  BY <1>1 DEF Once
<1>6. MinedIn(kept) \subseteq MinedIn(blocks)
  <2>1. Below(blocks, n) \subseteq Below(blocks, Len(blocks))
    BY DEF Below
  <2> QED
    BY <1>1, <1>2, <2>1, MinedBelow
<1> QED
  BY <1>1, <1>3, <1>4, <1>5, <1>6 DEF kept

LEMMA UsedAppend ==
    ASSUME NEW blocks \in Seq(Block), Used(blocks), FiniteBlocks(blocks),
           NEW block \in Block, IsFiniteSet(block.txs),
           \A s \in block.txs :
              LET next == Cardinality(OwnBelow(blocks, Len(blocks), s.from))
              IN  /\ s.nonce >= next
                  /\ \A n \in next .. s.nonce :
                        \E r \in block.txs : r.from = s.from /\ r.nonce = n
    PROVE LET more == Append(blocks, block)
          IN  /\ Used(more) /\ FiniteBlocks(more)
              /\ MinedIn(more) = MinedIn(blocks) \cup block.txs
<1> DEFINE more == Append(blocks, block)
           L == Len(blocks)
<1>1. L \in Nat
  OBVIOUS
<1>2. /\ more \in Seq(Block) /\ Len(more) = L + 1
      /\ \A i \in 1 .. L : more[i] = blocks[i]
      /\ more[L + 1] = block
  BY AppendProperties
<1> HIDE DEF more
<1>3. \A j \in 0 .. L : Below(more, j) = Below(blocks, j)
  BY <1>1, <1>2 DEF Below
<1>4. Below(more, L + 1) = Below(blocks, L) \cup block.txs
  <2>1. 1 .. L + 1 = (1 .. L) \cup {L + 1}
    BY <1>1
  <2> QED
    BY <1>2, <2>1 DEF Below
<1>5. FiniteBlocks(more)
  BY <1>1, <1>2 DEF FiniteBlocks
<1>6. ASSUME NEW s \in Below(more, L + 1)
      PROVE s.nonce < Cardinality(OwnBelow(more, L + 1, s.from))
  <2> DEFINE old == OwnBelow(blocks, L, s.from)
             new == {r \in block.txs : r.from = s.from}
             all == OwnBelow(more, L + 1, s.from)
  <2>1. all = old \cup new
    BY <1>4 DEF OwnBelow
  <2>2. IsFiniteSet(old) /\ Cardinality(old) \in Nat /\ IsFiniteSet(new) /\ Cardinality(new) \in Nat
    BY <1>1, OwnFinite, FS_Subset, FS_CardinalityType
  <2>3. IsFiniteSet(all) /\ Cardinality(all) \in Nat
    <3> HIDE DEF old, new, all
    <3>1. IsFiniteSet(old \cup new)
      BY <2>2, FS_Union
    <3> QED
      BY <2>1, <3>1, FS_CardinalityType
  <2>4. \A r \in Below(blocks, L) \cup block.txs : r \in SignedTx
    <3>1. \A i \in 1 .. L : blocks[i].txs \subseteq SignedTx
      BY BlockTyped
    <3> QED
      BY <3>1 DEF Below, Block
  <2>5. CASE s \in Below(blocks, L)
    <3>1. s.nonce < Cardinality(old)
      BY <1>1, <2>5 DEF Used
    <3>2. Cardinality(old) <= Cardinality(all)
      BY <2>1, <2>3, FS_Subset
    <3>3. s.nonce \in Nat
      BY <2>4, <2>5 DEF SignedTx
    <3> QED
      BY <2>2, <2>3, <3>1, <3>2, <3>3
  <2>6. CASE s \in block.txs
    <3>1. s.nonce \in Nat /\ s.nonce >= Cardinality(old)
      BY <2>4, <2>6 DEF SignedTx
    <3>2. \A n \in Cardinality(old) .. s.nonce : \E r \in new : r.nonce = n
      BY <2>6
    <3>3. s.nonce - Cardinality(old) + 1 <= Cardinality(new)
      <4> HIDE DEF old, new
      <4> QED
        BY <2>2, <3>1, <3>2, NoncesCount
    <3>4. old \cap new = {}
      <4> SUFFICES ASSUME NEW r \in old, r \in new PROVE FALSE
        OBVIOUS
      <4>1. r.nonce \in Nat
        BY <2>4 DEF SignedTx
      <4>2. r.nonce < Cardinality(old)
        BY <1>1 DEF Used, OwnBelow
      <4>3. r.nonce >= Cardinality(old)
        OBVIOUS
      <4> QED
        BY <2>2, <4>1, <4>2, <4>3
    <3>5. Cardinality(all) = Cardinality(old) + Cardinality(new)
      <4> HIDE DEF old, new, all
      <4>1. Cardinality(old \cup new) = Cardinality(old) + Cardinality(new) - Cardinality(old \cap new)
        BY <2>2, FS_Union
      <4>2. Cardinality(old \cap new) = 0
        BY <3>4, FS_EmptySet
      <4> QED
        BY <2>1, <2>2, <4>1, <4>2
    <3> QED
      BY <2>2, <3>1, <3>3, <3>5
  <2> QED
    BY <1>4, <2>5, <2>6
<1>7. Used(more)
  BY <1>1, <1>2, <1>3, <1>6 DEF Used, OwnBelow
<1>8. MinedIn(more) = MinedIn(blocks) \cup block.txs
  BY <1>2, <1>4, MinedBelow
<1> QED
  BY <1>5, <1>7, <1>8 DEF more

\* The nonces of a new block are not in the chain yet.
LEMMA OnceAppend ==
    ASSUME NEW blocks \in Seq(Block), Used(blocks), Once(blocks), FiniteBlocks(blocks),
           NEW block \in Block,
           \A s, r \in block.txs : SameNonce(s, r) => s = r,
           \A s \in block.txs : s.nonce >= Cardinality(OwnBelow(blocks, Len(blocks), s.from))
    PROVE Once(Append(blocks, block))
<1> DEFINE more == Append(blocks, block)
           L == Len(blocks)
<1>1. L \in Nat
  OBVIOUS
<1>2. /\ Len(more) = L + 1
      /\ \A i \in 1 .. L : more[i] = blocks[i]
      /\ more[L + 1] = block
  BY AppendProperties
<1>3. ASSUME NEW i \in 1 .. L, NEW s \in blocks[i].txs, NEW r \in block.txs, SameNonce(s, r)
      PROVE FALSE
  <2>1. s \in Below(blocks, L)
    BY DEF Below
  <2>2. s.nonce < Cardinality(OwnBelow(blocks, L, s.from))
    BY <1>1, <2>1 DEF Used
  <2>3. s.nonce \in Nat /\ s.nonce = r.nonce /\ s.from = r.from
    BY <1>3, BlockTyped DEF SignedTx, SameNonce
  <2>4. Cardinality(OwnBelow(blocks, L, s.from)) \in Nat
    BY <1>1, OwnFinite
  <2> QED
    BY <2>2, <2>3, <2>4
<1>4. ASSUME NEW i \in 1 .. L + 1, NEW j \in 1 .. L + 1,
             NEW s \in more[i].txs, NEW r \in more[j].txs, SameNonce(s, r)
      PROVE i = j /\ s = r
  <2>1. i \in 1 .. L \/ i = L + 1
    BY <1>1
  <2>2. j \in 1 .. L \/ j = L + 1
    BY <1>1
  <2>3. SameNonce(r, s)
    BY <1>4 DEF SameNonce
  <2> HIDE DEF more, L
  <2>4. CASE i \in 1 .. L /\ j \in 1 .. L
    BY <1>2, <1>4, <2>4 DEF Once, L
  <2>5. CASE i \in 1 .. L /\ j = L + 1
    BY <1>2, <1>3, <1>4, <2>5
  <2>6. CASE i = L + 1 /\ j \in 1 .. L
    BY <1>2, <1>3, <2>3, <2>6
  <2>7. CASE i = L + 1 /\ j = L + 1
    BY <1>2, <1>4, <2>7
  <2> QED
    BY <2>1, <2>2, <2>4, <2>5, <2>6, <2>7
<1> QED
  BY <1>2, <1>4 DEF Once

-----------------------------------------------------------------------------
(* The steps of the node *)

LEMMA NodeInvInit == NodeInit => NodeInv
<1> SUFFICES ASSUME NodeInit PROVE NodeInv
  OBVIOUS
<1>1. NodeTypeOK
  BY GasAssumption, NodeAssumption DEF NodeInit, NodeTypeOK
<1>2. Len(chain) = 0 /\ chain \in Seq(Block)
  BY DEF NodeInit
<1>3. Below(chain, 0) = {}
  <2>1. 1 .. 0 = {}
    OBVIOUS
  <2> QED
    BY <2>1 DEF Below
<1>4. Mined = {}
  BY <1>2, <1>3, MinedBelow DEF Mined
<1> QED
  BY <1>1, <1>2, <1>3, <1>4, FS_EmptySet DEF NodeInit, NodeInv, FiniteBlocks, Used, Once

LEMMA NodeInvStays ==
    ASSUME NodeInv, UNCHANGED node
    PROVE NodeInv'
BY DEF NodeInv, NodeTypeOK, node

\* What is in the chain is there with its block.
LEMMA MinedTyped ==
    ASSUME NodeInv
    PROVE /\ Mined \subseteq SignedTx /\ IsFiniteSet(Mined)
          /\ \A key : MinedNonce(key) \in Nat
          /\ \A key : MinedNonce(key) = Cardinality(OwnBelow(chain, Len(chain), key))
          /\ \A s \in Mined : s.nonce < MinedNonce(s.from)
<1>1. chain \in Seq(Block) /\ FiniteBlocks(chain) /\ Len(chain) \in Nat
  BY DEF NodeInv, NodeTypeOK
<1>2. Mined = Below(chain, Len(chain))
  BY <1>1, MinedBelow DEF Mined
<1>3. IsFiniteSet(Mined)
  BY <1>1, <1>2, BelowFinite
<1>4. Mined \subseteq SignedTx
  <2>1. \A i \in 1 .. Len(chain) : chain[i].txs \subseteq SignedTx
    BY <1>1, BlockTyped
  <2> QED
    BY <1>2, <2>1 DEF Below
<1>5. \A key : MinedNonce(key) = Cardinality(OwnBelow(chain, Len(chain), key))
  BY <1>2 DEF MinedNonce, OwnBelow
<1>6. \A key : MinedNonce(key) \in Nat
  BY <1>1, <1>5, OwnFinite
<1>7. \A s \in Mined : s.nonce < MinedNonce(s.from)
  BY <1>1, <1>2, <1>5 DEF NodeInv, Used
<1> QED
  BY <1>3, <1>4, <1>5, <1>6, <1>7

LEMMA AcceptKeeps ==
    ASSUME NodeInv, NEW s \in SignedTx, Accept(s)
    PROVE /\ NodeInv' /\ pool' \cup Mined' \subseteq pool \cup Mined \cup {s}
          /\ s.tx \notin Refused
<1>1. UNCHANGED <<chain, forks, floor>> /\ Mined' = Mined /\ s.tx \notin Refused
  BY DEF Accept, Mined
<1>2. pool' \subseteq pool \cup {s}
  BY DEF Accept, Rivals
<1>3. IsFiniteSet(pool')
  BY <1>2, FS_AddElement, FS_Subset DEF NodeInv
<1>4. NodeTypeOK'
  BY <1>1, <1>2 DEF NodeInv, NodeTypeOK
<1> QED
  BY <1>1, <1>2, <1>3, <1>4 DEF NodeInv

\* Nothing new comes up when the pool shrinks.
LEMMA PoolShrinks ==
    ASSUME NodeInv, pool' \subseteq pool, UNCHANGED <<chain, forks>>, floor' \in Nat
    PROVE NodeInv' /\ pool' \cup Mined' \subseteq pool \cup Mined
<1>1. Mined' = Mined
  BY DEF Mined
<1>2. IsFiniteSet(pool')
  BY FS_Subset DEF NodeInv
<1>3. NodeTypeOK'
  BY DEF NodeInv, NodeTypeOK
<1> QED
  BY <1>1, <1>2, <1>3 DEF NodeInv

LEMMA MineKeeps ==
    ASSUME NodeInv, NEW txs \in SUBSET pool, Mine(txs)
    PROVE NodeInv' /\ pool' \cup Mined' \subseteq pool \cup Mined
<1> DEFINE block == [fork |-> forks, txs |-> txs]
<1>1. /\ chain' = Append(chain, block) /\ Minable(txs) /\ Len(chain) < MaxBlocks
      /\ pool' \subseteq pool /\ UNCHANGED <<forks, floor>>
  BY DEF Mine
<1>2. chain \in Seq(Block) /\ Used(chain) /\ Once(chain) /\ FiniteBlocks(chain)
  BY DEF NodeInv, NodeTypeOK
<1>3. block \in Block /\ IsFiniteSet(txs) /\ IsFiniteSet(pool')
  BY <1>1, FS_Subset DEF NodeInv, NodeTypeOK, Block
<1>4. \A s \in block.txs :
          LET next == Cardinality(OwnBelow(chain, Len(chain), s.from))
          IN  /\ s.nonce >= next
              /\ \A n \in next .. s.nonce :
                    \E r \in block.txs : r.from = s.from /\ r.nonce = n
  BY <1>1, MinedTyped DEF Minable
<1>5. /\ Used(chain') /\ Once(chain') /\ FiniteBlocks(chain')
      /\ MinedIn(chain') = MinedIn(chain) \cup txs
  <2> HIDE DEF block
  <2>1. IsFiniteSet(block.txs) /\ block.txs = txs
    BY <1>3 DEF block
  <2> QED
    BY <1>1, <1>2, <1>3, <1>4, <2>1, UsedAppend, OnceAppend DEF Minable
<1>6. NodeTypeOK'
  <2>1. chain' \in Seq(Block) /\ Len(chain') = Len(chain) + 1
    BY <1>1, <1>2, <1>3, AppendProperties
  <2>2. MaxBlocks \in Nat /\ Len(chain) \in Nat
    BY <1>2, NodeAssumption
  <2> QED
    BY <1>1, <2>1, <2>2 DEF NodeInv, NodeTypeOK
<1> QED
  BY <1>1, <1>3, <1>5, <1>6 DEF NodeInv, Mined

LEMMA ReorganiseKeeps ==
    ASSUME NodeInv, NEW n \in 1 .. Len(chain), Reorganise(n)
    PROVE NodeInv' /\ pool' \cup Mined' \subseteq pool \cup Mined
<1>1. /\ chain' = SubSeq(chain, 1, Len(chain) - n) /\ forks < MaxForks /\ forks' = forks + 1
      /\ pool' \subseteq pool \cup Mined /\ floor' = floor
  BY DEF Reorganise
<1>2. /\ chain \in Seq(Block) /\ Len(chain) \in Nat
      /\ Used(chain) /\ Once(chain) /\ FiniteBlocks(chain)
  BY DEF NodeInv, NodeTypeOK
<1>3. Len(chain) - n \in 0 .. Len(chain)
  BY <1>2
<1>4. /\ chain' \in Seq(Block) /\ Len(chain') = Len(chain) - n
      /\ Used(chain') /\ Once(chain') /\ FiniteBlocks(chain')
      /\ MinedIn(chain') \subseteq MinedIn(chain)
  BY <1>1, <1>2, <1>3, UsedPrefix
<1>5. IsFiniteSet(pool') /\ pool' \subseteq SignedTx
  <2>1. IsFiniteSet(pool \cup Mined) /\ pool \cup Mined \subseteq SignedTx
    BY MinedTyped, FS_Union DEF NodeInv, NodeTypeOK
  <2> QED
    BY <1>1, <2>1, FS_Subset
<1>6. NodeTypeOK'
  BY <1>1, <1>2, <1>4, <1>5, NodeAssumption DEF NodeInv, NodeTypeOK
<1> QED
  BY <1>1, <1>4, <1>5, <1>6 DEF NodeInv, Mined

LEMMA PendingNonceTyped ==
    ASSUME NodeInv, NEW key
    PROVE PendingNonce(key) \in Nat
<1> DEFINE M == MinedNonce(key)
           C == Cardinality(pool)
           Pending(n) == \E s \in pool : s.from = key /\ s.nonce = n
           Free == {n \in M .. M + C : ~Pending(n)}
<1>1. M \in Nat /\ C \in Nat /\ IsFiniteSet(pool)
  BY MinedTyped, FS_CardinalityType DEF NodeInv
<1>2. Free # {}
  <2> SUFFICES ASSUME Free = {} PROVE FALSE
    OBVIOUS
  <2>1. \A n \in M .. M + C : \E r \in pool : r.nonce = n
    OBVIOUS
  <2>2. PICK top : top = M + C
    OBVIOUS
  <2>3. top \in Nat /\ \A n \in M .. top : \E r \in pool : r.nonce = n
    BY <1>1, <2>1, <2>2
  <2>4. top - M + 1 <= Cardinality(pool)
    <3> HIDE DEF M, Free
    <3> QED
      BY <1>1, <2>3, NoncesCount
  <2> QED
    BY <1>1, <2>2, <2>4
<1>3. Free \subseteq Nat
  BY <1>1
<1>4. PICK n \in Free : \A m \in Free : n <= m
  <2> HIDE DEF Free
  <2> QED
    BY <1>2, <1>3, Least
<1>5. \A m \in M .. n - 1 : Pending(m)
  <2> SUFFICES ASSUME NEW m \in M .. n - 1, ~Pending(m) PROVE FALSE
    OBVIOUS
  <2>1. m \in M .. M + C /\ m < n /\ m \in Nat /\ n \in Nat
    BY <1>1, <1>3
  <2>2. m \in Free
    BY <2>1
  <2>3. n <= m
    <3> HIDE DEF Free
    <3> QED
      BY <1>4, <2>2
  <2> QED
    BY <2>1, <2>3
<1>6. \E x \in M .. M + C : ~Pending(x) /\ \A m \in M .. x - 1 : Pending(m)
  BY <1>5
<1>7. PendingNonce(key) \in M .. M + C
  BY <1>6 DEF PendingNonce
<1> QED
  BY <1>1, <1>7

\* What a transaction is sent with enters the pool at most.
LEMMA SendKeeps ==
    ASSUME NodeInv, NEW s \in SignedTx, NEW answer, SendTransaction(s, answer)
    PROVE /\ NodeInv'
          /\ \A r \in pool' \cup Mined' :
                r \in pool \cup Mined \/ (r = s /\ s.tx \notin Refused)
          /\ answer = "fatal" => s.tx \in Refused
          /\ answer = "terminallyUnderpriced" => s \notin pool' \cup Mined'
<1>1. CASE UNCHANGED node
  <2>1. NodeInv' /\ pool' = pool /\ Mined' = Mined
    BY <1>1 DEF node, NodeInv, NodeTypeOK, Mined
  <2>2. s \in Mined => s.nonce < MinedNonce(s.from)
    BY MinedTyped
  <2>3. s.nonce \in Nat /\ MinedNonce(s.from) \in Nat
    BY MinedTyped DEF SignedTx
  <2>4. answer = "terminallyUnderpriced" => s \notin pool /\ s.nonce >= MinedNonce(s.from)
    BY DEF SendTransaction, Answer
  <2>5. answer = "fatal" => s.tx \in Refused
    BY DEF SendTransaction, Answer
  <2>6. \A r \in pool' \cup Mined' : r \in pool \cup Mined
    BY <2>1
  <2>7. answer = "terminallyUnderpriced" => s \notin pool' \cup Mined'
    BY <2>1, <2>2, <2>3, <2>4
  <2> QED
    BY <2>1, <2>5, <2>6, <2>7
<1>2. CASE ~UNCHANGED node
  <2>1. Accept(s) /\ answer \in {"ok", "none"}
    BY <1>2 DEF SendTransaction, Answer, NoAnswer
  <2> QED
    BY <2>1, AcceptKeeps
<1> QED
  BY <1>1, <1>2

\* Everything else that happens to the node brings in nothing of ours.
LEMMA NodeStep ==
    ASSUME NodeInv, NodeNext
    PROVE /\ NodeInv'
          /\ \A s \in pool' \cup Mined' :
                s \in pool \cup Mined \/ (s.tx = 0 /\ s.tx \notin Refused)
<1>1. ASSUME NEW txs \in SUBSET pool, Mine(txs)
      PROVE NodeInv' /\ pool' \cup Mined' \subseteq pool \cup Mined
  BY <1>1, MineKeeps
<1>2. ASSUME NEW n \in 1 .. Len(chain), Reorganise(n)
      PROVE NodeInv' /\ pool' \cup Mined' \subseteq pool \cup Mined
  BY <1>2, ReorganiseKeeps
<1>3. ASSUME NEW s \in pool, Evict(s)
      PROVE NodeInv' /\ pool' \cup Mined' \subseteq pool \cup Mined
  BY <1>3, PoolShrinks DEF Evict, NodeInv, NodeTypeOK
<1>4. ASSUME RaiseFloor
      PROVE NodeInv' /\ pool' \cup Mined' \subseteq pool \cup Mined
  <2>1. floor' \in Nat
    BY <1>4 DEF RaiseFloor, NodeInv, NodeTypeOK
  <2> QED
    BY <1>4, <2>1, PoolShrinks DEF RaiseFloor
<1>5. ASSUME NEW k \in Keys, NEW p \in Externals, ExternalWallet(k, p)
      PROVE /\ NodeInv'
            /\ \A s \in pool' \cup Mined' :
                  s \in pool \cup Mined \/ (s.tx = 0 /\ s.tx \notin Refused)
  <2> DEFINE s == [from |-> k, nonce |-> PendingNonce(k), tx |-> 0, price |-> p]
  <2>1. s \in SignedTx
    BY PendingNonceTyped, NodeAssumption DEF SignedTx
  <2>2. Accept(s)
    BY <1>5 DEF ExternalWallet
  <2>3. /\ NodeInv' /\ pool' \cup Mined' \subseteq pool \cup Mined \cup {s}
        /\ s.tx \notin Refused
    <3> HIDE DEF s
    <3> QED
      BY <2>1, <2>2, AcceptKeeps
  <2>4. s.tx = 0
    OBVIOUS
  <2> HIDE DEF s
  <2> QED
    BY <2>3, <2>4
<1> QED
  BY <1>1, <1>2, <1>3, <1>4, <1>5 DEF NodeNext

-----------------------------------------------------------------------------
(* Attempts and prices *)

LEMMA SignedTyped ==
    ASSUME NEW a \in EthTxAttempt
    PROVE Signed(a) \in SignedTx
BY DEF EthTxAttempt, Signed, SignedTx

LEMMA BumpRaises ==
    ASSUME NEW price \in Nat \ {0}
    PROVE BumpedGasPrice(price) \in Nat \ {0} /\ price < BumpedGasPrice(price)
BY GasAssumption DEF BumpedGasPrice, Larger

-----------------------------------------------------------------------------
(* The broadcaster *)


Typed ==
    /\ etxes \in Seq(EthTx)
    /\ attempts \subseteq EthTxAttempt
    /\ nextNonce \in [Keys -> Nat \cup {NULL}]
    /\ bpc \in [Keys -> BroadcasterPC]
    /\ reply \in [Keys -> Replies]
    /\ crashes \in 0 .. MaxCrashes

\* Who has a nonce, and that nobody else has it.  The transaction in progress
\* has the next one.
NonceInv ==
    /\ \A t \in DOMAIN etxes :
          /\ etxes[t].state \in {"unstarted", "in_progress", "fatal_error", "unconfirmed"}
          /\ etxes[t].nonce = NULL <=> etxes[t].state \in {"unstarted", "fatal_error"}
          /\ etxes[t].state = "in_progress" => etxes[t].nonce = nextNonce[etxes[t].from]
    /\ \A t, u \in DOMAIN etxes : t # u /\ etxes[t].from = etxes[u].from =>
          /\ etxes[t].nonce # NULL => etxes[t].nonce # etxes[u].nonce
          /\ ~(etxes[t].state = "in_progress" /\ etxes[u].state = "in_progress")

Broadcasts(k) == {t \in DOMAIN etxes : etxes[t].from = k /\ etxes[t].state = "unconfirmed"}

\* What a key has broadcast has the nonces from its first one to the next.
SeriesInv ==
    \A k \in Keys : \E first \in Nat :
        {etxes[t].nonce : t \in Broadcasts(k)} = first .. nextNonce[k] - 1

\* A transaction in progress, or broadcast, has one attempt, in a fitting state.
AttemptInv ==
    /\ \A a \in attempts :
          /\ a.tx \in DOMAIN etxes
          /\ a.from = etxes[a.tx].from /\ a.nonce = etxes[a.tx].nonce /\ a.before = NULL
          /\ \/ etxes[a.tx].state = "in_progress" /\ a.state = "in_progress"
             \/ etxes[a.tx].state = "unconfirmed" /\ a.state = "broadcast"
    /\ \A a, b \in attempts : a.tx = b.tx => a = b
    /\ \A t \in DOMAIN etxes :
          etxes[t].state \in {"in_progress", "unconfirmed"} => \E a \in attempts : a.tx = t

\* A goroutine that sends has a transaction in progress, and if it holds an
\* answer on which it drops the attempt, the node does not have that.
SenderInv ==
    \A k \in Keys :
        /\ bpc[k] \in {"send", "sent"} => InProgress(k) # {}
        /\ bpc[k] = "sent" =>
              \A a \in attempts : a.from = k /\ a.state = "in_progress" =>
                  /\ reply[k] = "fatal" => a.tx \in Refused
                  /\ reply[k] = "terminallyUnderpriced" => Signed(a) \notin pool \cup Mined

\* The node has nothing that it refuses.
Clean == NodeInv /\ \A s \in pool \cup Mined : s.tx \notin Refused

IInv == Clean /\ Typed /\ NonceInv /\ SeriesInv /\ AttemptInv /\ SenderInv /\ SentIsSaved

-----------------------------------------------------------------------------
(* What the invariant says of the tables *)

LEMMA RowTyped ==
    ASSUME Typed, NEW t \in DOMAIN etxes
    PROVE /\ t \in Nat \ {0} /\ etxes[t] \in EthTx
          /\ etxes[t].from \in Keys /\ etxes[t].value \in Nat
<1>1. t \in Nat \ {0} /\ etxes[t] \in EthTx
  BY DEF Typed
<1> QED
  BY <1>1 DEF EthTx

LEMMA Constraints == IInv => ConstraintsHold(etxes, attempts)
<1> SUFFICES ASSUME IInv PROVE ConstraintsHold(etxes, attempts)
  OBVIOUS
<1>1. \A t \in DOMAIN etxes : etxes[t].nonce = NULL <=> etxes[t].state \in {"unstarted", "fatal_error"}
  BY DEF IInv, NonceInv
<1>2. \A t, u \in DOMAIN etxes :
          t # u /\ etxes[t].from = etxes[u].from =>
             /\ etxes[t].nonce # NULL => etxes[t].nonce # etxes[u].nonce
             /\ ~(etxes[t].state = "in_progress" /\ etxes[u].state = "in_progress")
  BY DEF IInv, NonceInv
<1>3. \A a \in attempts : a.state # "broadcast" => a.before = NULL
  BY DEF IInv, AttemptInv
<1>4. \A a, b \in attempts : a # b => a.tx # b.tx
  BY DEF IInv, AttemptInv
<1> QED
  BY <1>1, <1>2, <1>3, <1>4 DEF ConstraintsHold

LEMMA Types == IInv => TypeOK
BY Constraints DEF IInv, Clean, NodeInv, Typed, TypeOK

LEMMA NoGap == IInv => NoncesHaveNoGap
<1> SUFFICES ASSUME IInv, NEW k \in Keys
             PROVE LET given == GivenNonces(k)
                   IN  /\ \A n, m \in given : \A i \in n .. m : i \in given
                       /\ \A n \in given :
                             \/ n < nextNonce[k]
                             \/ /\ n = nextNonce[k]
                                /\ \E t \in InProgress(k) : etxes[t].nonce = n
                       /\ given # {} => \/ nextNonce[k] \in given
                                        \/ nextNonce[k] - 1 \in given
  BY DEF NoncesHaveNoGap
<1> DEFINE given == GivenNonces(k)
           series == {etxes[t].nonce : t \in Broadcasts(k)}
<1>1. nextNonce[k] \in Nat \cup {-1}
  BY DEF IInv, Typed, NULL
<1>2. PICK first \in Nat : series = first .. nextNonce[k] - 1
  BY DEF IInv, SeriesInv
<1>3. ASSUME InProgress(k) = {}
      PROVE given = series
  BY <1>3 DEF IInv, NonceInv, GivenNonces, Broadcasts, InProgress, TxsIn
<1>4. ASSUME NEW t \in InProgress(k)
      PROVE given = series \cup {nextNonce[k]} /\ etxes[t].nonce = nextNonce[k] /\ nextNonce[k] \in Nat
  <2>1. t \in DOMAIN etxes /\ etxes[t].from = k /\ etxes[t].state = "in_progress"
    BY DEF InProgress, TxsIn
  <2>2. etxes[t].nonce = nextNonce[k] /\ nextNonce[k] # NULL
    BY <2>1 DEF IInv, NonceInv
  <2>3. given \subseteq series \cup {nextNonce[k]}
    BY <2>1, <2>2 DEF IInv, NonceInv, GivenNonces, Broadcasts
  <2>4. series \cup {nextNonce[k]} \subseteq given
    BY <2>1, <2>2 DEF IInv, NonceInv, GivenNonces, Broadcasts
  <2> QED
    BY <1>1, <2>2, <2>3, <2>4 DEF NULL
<1> HIDE DEF given, series
<1>5. CASE InProgress(k) = {}
  BY <1>1, <1>2, <1>3, <1>5 DEF given
<1>6. ASSUME NEW t \in InProgress(k)
      PROVE /\ \A n, m \in given : \A i \in n .. m : i \in given
            /\ \A n \in given :
                  \/ n < nextNonce[k]
                  \/ n = nextNonce[k] /\ \E u \in InProgress(k) : etxes[u].nonce = n
            /\ given # {} => nextNonce[k] \in given \/ nextNonce[k] - 1 \in given
  BY <1>1, <1>2, <1>4
<1> QED
  BY <1>5, <1>6 DEF given

\* The transaction in progress, its attempt, and its nonce.
LEMMA Current ==
    ASSUME IInv, NEW k \in Keys, InProgress(k) # {}
    PROVE LET t == CurrentTx(k)
              a == CurrentAttempt(k)
          IN  /\ t \in DOMAIN etxes /\ etxes[t].from = k /\ etxes[t].state = "in_progress"
              /\ etxes[t].nonce = nextNonce[k] /\ nextNonce[k] \in Nat
              /\ a \in attempts /\ a.tx = t /\ a.from = k /\ a.nonce = nextNonce[k]
              /\ a.state = "in_progress" /\ a.before = NULL
              /\ AttemptsOf(attempts, t) = {a}
<1> DEFINE t == CurrentTx(k)
           a == CurrentAttempt(k)
<1>1. t \in InProgress(k)
  BY DEF CurrentTx
<1>2. t \in DOMAIN etxes /\ etxes[t].from = k /\ etxes[t].state = "in_progress"
  BY <1>1 DEF InProgress, TxsIn
<1>3. etxes[t].nonce = nextNonce[k] /\ nextNonce[k] \in Nat
  BY <1>2 DEF IInv, NonceInv, Typed, NULL
<1>4. \E b \in attempts : b.tx = t
  BY <1>2 DEF IInv, AttemptInv
<1>5. a \in attempts /\ a.tx = t
  BY <1>4 DEF CurrentAttempt
<1>6. a.from = k /\ a.nonce = nextNonce[k] /\ a.state = "in_progress" /\ a.before = NULL
  BY <1>2, <1>3, <1>5 DEF IInv, AttemptInv
<1>7. AttemptsOf(attempts, t) = {a}
  BY <1>5 DEF IInv, AttemptInv, AttemptsOf
<1> QED
  BY <1>2, <1>3, <1>5, <1>6, <1>7
-----------------------------------------------------------------------------
(* Steps that leave the tables alone *)

LEMMA LocalStep ==
    ASSUME IInv, UNCHANGED <<tables, node>>, crashes' \in 0 .. MaxCrashes,
           bpc' \in [Keys -> BroadcasterPC], reply' \in [Keys -> Replies],
           \A k \in Keys :
              /\ bpc'[k] = "send" => InProgress(k) # {}
              /\ bpc'[k] = "sent" => bpc[k] = "sent" /\ reply'[k] = reply[k]
    PROVE IInv'
<1> USE DEF tables, node
<1>1. Clean' /\ pool' = pool /\ Mined' = Mined
  BY DEF IInv, Clean, NodeInv, NodeTypeOK, Mined
<1>2. Typed' /\ NonceInv' /\ AttemptInv'
  BY DEF IInv, Typed, NonceInv, AttemptInv
<1>3. SeriesInv' /\ SentIsSaved'
  BY <1>1 DEF IInv, SeriesInv, Broadcasts, SentIsSaved
<1>4. SenderInv'
  <2>1. \A k \in Keys : InProgress(k)' = InProgress(k)
    BY DEF InProgress
  <2>2. \A k \in Keys : bpc[k] = "sent" => InProgress(k) # {}
    BY DEF IInv, SenderInv
  <2> QED
    BY <1>1, <2>1, <2>2 DEF IInv, SenderInv
<1> QED
  BY <1>1, <1>2, <1>3, <1>4 DEF IInv

LEMMA GoToTyped ==
    ASSUME Typed, NEW k \in Keys, NEW pc \in BroadcasterPC, GoTo(k, pc)
    PROVE /\ bpc' \in [Keys -> BroadcasterPC] /\ reply' \in [Keys -> Replies]
          /\ bpc'[k] = pc /\ \A l \in Keys \ {k} : bpc'[l] = bpc[l] /\ reply'[l] = reply[l]
BY DEF Typed, GoTo, Replies

LEMMA EndStep ==
    ASSUME IInv, NEW k \in Keys, NEW pc \in {"idle", "next", "send"}, GoTo(k, pc),
           UNCHANGED <<tables, node, crashes>>, pc = "send" => InProgress(k) # {}
    PROVE IInv'
<1>1. /\ bpc' \in [Keys -> BroadcasterPC] /\ reply' \in [Keys -> Replies]
      /\ bpc'[k] = pc /\ \A l \in Keys \ {k} : bpc'[l] = bpc[l] /\ reply'[l] = reply[l]
  BY GoToTyped DEF IInv, BroadcasterPC
<1>2. ASSUME NEW l \in Keys
      PROVE /\ bpc'[l] = "send" => InProgress(l) # {}
            /\ bpc'[l] = "sent" => bpc[l] = "sent" /\ reply'[l] = reply[l]
  <2>1. CASE l = k
    BY <1>1, <2>1
  <2>2. CASE l # k
    <3>1. bpc'[l] = bpc[l] /\ reply'[l] = reply[l]
      BY <1>1, <2>2
    <3> QED
      BY <3>1 DEF IInv, SenderInv
  <2> QED
    BY <2>1, <2>2
<1>3. crashes' \in 0 .. MaxCrashes
  BY DEF IInv, Typed
<1> QED
  BY <1>1, <1>2, <1>3, LocalStep

LEMMA QuietSteps ==
    ASSUME IInv, \/ StartRound \/ BroadcasterCrash
                 \/ \E k \in Keys : \/ ResumeInProgress(k) \/ FinishRound(k)
                                       \/ LoadNonceFails(k) \/ BailOut(k)
    PROVE IInv'
<1>1. CASE StartRound
  <2>1. bpc' = [k \in Keys |-> "next"] /\ UNCHANGED <<tables, node, reply, crashes>>
    BY <1>1 DEF StartRound
  <2>2. bpc' \in [Keys -> BroadcasterPC] /\ reply' \in [Keys -> Replies]
    BY <2>1 DEF IInv, Typed, BroadcasterPC
  <2>3. \A k \in Keys : bpc'[k] = "next"
    BY <2>1
  <2>4. crashes' \in 0 .. MaxCrashes
    BY <2>1 DEF IInv, Typed
  <2> QED
    BY <2>1, <2>2, <2>3, <2>4, LocalStep
<1>2. CASE BroadcasterCrash
  <2>1. /\ bpc' = [k \in Keys |-> "idle"] /\ reply' = [k \in Keys |-> "none"]
        /\ UNCHANGED <<tables, node>> /\ crashes < MaxCrashes /\ crashes' = crashes + 1
    BY <1>2 DEF BroadcasterCrash
  <2>2. bpc' \in [Keys -> BroadcasterPC] /\ reply' \in [Keys -> Replies]
    BY <2>1 DEF BroadcasterPC, Replies
  <2>3. \A k \in Keys : bpc'[k] # "send" /\ bpc'[k] # "sent"
    BY <2>1
  <2>4. crashes' \in 0 .. MaxCrashes
    BY <2>1, BroadcasterAssumption DEF IInv, Typed
  <2> QED
    BY <2>1, <2>2, <2>3, <2>4, LocalStep
<1>3. ASSUME NEW k \in Keys, ResumeInProgress(k) PROVE IInv'
  <2>1. PICK pc \in {"idle", "send"} : GoTo(k, pc)
    BY <1>3 DEF ResumeInProgress
  <2>2. UNCHANGED <<tables, node, crashes>> /\ InProgress(k) # {}
    BY <1>3 DEF ResumeInProgress
  <2> QED
    BY <2>1, <2>2, EndStep
<1>4. ASSUME NEW k \in Keys, FinishRound(k) \/ LoadNonceFails(k) \/ BailOut(k) PROVE IInv'
  <2>1. GoTo(k, "idle") /\ UNCHANGED <<tables, node, crashes>>
    BY <1>4 DEF FinishRound, LoadNonceFails, BailOut
  <2> QED
    BY <2>1, EndStep
<1> QED
  BY <1>1, <1>2, <1>3, <1>4

\* What the node has of ours is what it had, or what is sent now.
LEMMA NodeChanges ==
    ASSUME IInv, UNCHANGED <<tables, local, crashes>>, NodeNext
    PROVE IInv'
<1>1. Clean' /\ \A s \in pool' \cup Mined' : s \in pool \cup Mined \/ s.tx = 0
  BY NodeStep DEF IInv, Clean
<1>2. Typed' /\ NonceInv' /\ AttemptInv'
  BY DEF IInv, Typed, NonceInv, AttemptInv, tables, local
<1>3. SeriesInv' /\ SentIsSaved'
  BY <1>1 DEF IInv, SeriesInv, Broadcasts, SentIsSaved, tables
<1>4. SenderInv'
  <2>1. \A k \in Keys : InProgress(k)' = InProgress(k)
    BY DEF InProgress, tables
  <2>2. \A a \in attempts : Signed(a).tx # 0
    BY DEF IInv, Typed, EthTxAttempt, Signed
  <2> QED
    BY <1>1, <2>1, <2>2 DEF IInv, SenderInv, tables, local
<1> QED
  BY <1>1, <1>2, <1>3, <1>4 DEF IInv

LEMMA SameSeries ==
    ASSUME SeriesInv, nextNonce' = nextNonce, \A l \in Keys : Broadcasts(l)' = Broadcasts(l),
           \A l \in Keys : \A t \in Broadcasts(l) : etxes'[t] = etxes[t]
    PROVE SeriesInv'
<1>1. \A l \in Keys : {etxes'[t].nonce : t \in Broadcasts(l)'} = {etxes[t].nonce : t \in Broadcasts(l)}
  <2> SUFFICES ASSUME NEW l \in Keys
               PROVE {etxes'[t].nonce : t \in Broadcasts(l)'} = {etxes[t].nonce : t \in Broadcasts(l)}
    OBVIOUS
  <2>1. Broadcasts(l)' = Broadcasts(l) /\ \A t \in Broadcasts(l) : etxes'[t] = etxes[t]
    OBVIOUS
  <2> QED
    BY <2>1
<1> QED
  BY <1>1 DEF SeriesInv

LEMMA SendStep ==
    ASSUME IInv, NEW k \in Keys, NEW answer \in Replies, Send(k, answer)
    PROVE IInv'
<1> DEFINE a == CurrentAttempt(k)
<1>1. /\ bpc[k] = "send" /\ SendTransaction(Signed(a), answer)
      /\ bpc' = [bpc EXCEPT ![k] = "sent"] /\ reply' = [reply EXCEPT ![k] = answer]
      /\ UNCHANGED <<etxes, attempts, nextNonce, crashes>>
  BY DEF Send, tables
<1>2. a \in attempts /\ a.tx = CurrentTx(k) /\ a.from = k /\ a.state = "in_progress"
      /\ CurrentTx(k) \in DOMAIN etxes /\ etxes[CurrentTx(k)].from = k
      /\ etxes[CurrentTx(k)].state = "in_progress"
  BY <1>1, Current DEF IInv, SenderInv
<1>3. Signed(a) \in SignedTx
  BY <1>2, SignedTyped DEF IInv, Typed
<1> HIDE DEF a
<1>4. /\ Clean' /\ pool' \cup Mined' \subseteq pool \cup Mined \cup {Signed(a)}
      /\ answer = "fatal" => Signed(a).tx \in Refused
      /\ answer = "terminallyUnderpriced" => Signed(a) \notin pool' \cup Mined'
  BY <1>1, <1>3, SendKeeps DEF IInv, Clean
<1>5. Typed' /\ NonceInv' /\ AttemptInv'
  BY <1>1 DEF IInv, Typed, NonceInv, AttemptInv, BroadcasterPC
<1>6. SeriesInv'
  <2>1. UNCHANGED <<etxes, nextNonce>> /\ SeriesInv
    BY <1>1 DEF IInv
  <2>2. \A l \in Keys : Broadcasts(l)' = Broadcasts(l)
    BY <2>1 DEF Broadcasts
  <2> QED
    BY <2>1, <2>2, SameSeries
<1>7. SentIsSaved'
  <2>1. \A s \in pool' \cup Mined' : s \in pool \cup Mined \/ s = Signed(a)
    BY <1>4
  <2>2. attempts' = attempts /\ a \in attempts /\ SentIsSaved
    BY <1>1, <1>2 DEF IInv
  <2> QED
    BY <2>1, <2>2 DEF SentIsSaved
\* The key has no other attempt in progress, and another key has other attempts.
<1>8. \A b \in attempts : b.from = k /\ b.state = "in_progress" => b = a
  <2> SUFFICES ASSUME NEW b \in attempts, b.from = k, b.state = "in_progress" PROVE b = a
    OBVIOUS
  <2>1. b.tx \in DOMAIN etxes /\ etxes[b.tx].from = k /\ etxes[b.tx].state = "in_progress"
    BY DEF IInv, AttemptInv
  <2>2. b.tx = a.tx
    BY <1>2, <2>1 DEF IInv, NonceInv
  <2> QED
    BY <1>2, <2>2 DEF IInv, AttemptInv
<1>9. \A b \in attempts : b.from # k => Signed(b) # Signed(a)
  BY <1>2 DEF Signed
<1>10. SenderInv'
  <2> SUFFICES ASSUME NEW l \in Keys
               PROVE /\ bpc'[l] \in {"send", "sent"} => InProgress(l)' # {}
                     /\ bpc'[l] = "sent" =>
                          \A b \in attempts' : b.from = l /\ b.state = "in_progress" =>
                             /\ reply'[l] = "fatal" => b.tx \in Refused
                             /\ reply'[l] = "terminallyUnderpriced" => Signed(b) \notin pool' \cup Mined'
    BY DEF SenderInv
  <2>1. InProgress(l)' = InProgress(l)
    BY <1>1 DEF InProgress
  <2>2. CASE l = k
    <3>1. bpc'[k] = "sent" /\ reply'[k] = answer /\ InProgress(k) # {}
      BY <1>1 DEF IInv, SenderInv, Typed
    <3>2. Signed(a).tx = a.tx
      BY DEF Signed
    <3> QED
      BY <1>1, <1>4, <1>8, <2>1, <2>2, <3>1, <3>2
  <2>3. CASE l # k
    <3>1. bpc'[l] = bpc[l] /\ reply'[l] = reply[l]
      BY <1>1, <2>3 DEF IInv, Typed
    <3> QED
      BY <1>1, <1>4, <1>9, <2>1, <2>3, <3>1 DEF IInv, SenderInv
  <2> QED
    BY <2>2, <2>3
<1> QED
  BY <1>4, <1>5, <1>6, <1>7, <1>10 DEF IInv

-----------------------------------------------------------------------------
(* Insertion, and the first nonce of a key *)

LEMMA InsertStep ==
    ASSUME IInv, NEW k \in Keys, NEW v \in Values, InsertEthTx(k, v)
    PROVE IInv'
<1> DEFINE n == Len(etxes) + 1
           row == UnstartedTx(k, v)
<1>1. /\ etxes' = Append(etxes, row) /\ UNCHANGED <<attempts, nextNonce, bpc, reply, crashes>>
      /\ UNCHANGED <<pool, chain, forks, floor>>
  BY DEF InsertEthTx, local, node
<1>2. /\ row \in EthTx /\ row.state = "unstarted" /\ row.nonce = NULL /\ row.from = k
  BY BroadcasterAssumption DEF UnstartedTx, EthTx, EthTxState
<1> HIDE DEF row
<1>3. /\ etxes' \in Seq(EthTx) /\ DOMAIN etxes' = DOMAIN etxes \cup {n}
      /\ n \notin DOMAIN etxes
      /\ etxes'[n] = row /\ \A t \in DOMAIN etxes : etxes'[t] = etxes[t]
  BY <1>1, <1>2, AppendProperties DEF IInv, Typed
<1> HIDE DEF n
<1>4. Clean' /\ pool' = pool /\ Mined' = Mined
  BY <1>1 DEF IInv, Clean, NodeInv, NodeTypeOK, Mined
<1>5. Typed'
  BY <1>1, <1>3 DEF IInv, Typed
<1>6. NonceInv'
  BY <1>1, <1>2, <1>3 DEF IInv, NonceInv
<1>7. AttemptInv'
  BY <1>1, <1>2, <1>3 DEF IInv, AttemptInv
<1>8. SeriesInv'
  <2>1. \A l \in Keys : Broadcasts(l)' = Broadcasts(l)
    BY <1>2, <1>3 DEF Broadcasts
  <2>2. \A l \in Keys : \A t \in Broadcasts(l) : etxes'[t] = etxes[t]
    BY <1>3 DEF Broadcasts
  <2> QED
    BY <1>1, <2>1, <2>2, SameSeries DEF IInv
<1>9. SenderInv'
  <2>1. \A l \in Keys : InProgress(l)' = InProgress(l)
    BY <1>2, <1>3 DEF InProgress, TxsIn
  <2> QED
    BY <1>1, <1>4, <2>1 DEF IInv, SenderInv
<1>10. SentIsSaved'
  BY <1>1, <1>4 DEF IInv, SentIsSaved
<1> QED
  BY <1>4, <1>5, <1>6, <1>7, <1>8, <1>9, <1>10 DEF IInv

LEMMA LoadNonceStep ==
    ASSUME IInv, NEW k \in Keys, LoadNonce(k)
    PROVE IInv'
<1>1. /\ InProgress(k) = {} /\ nextNonce[k] = NULL
      /\ nextNonce' = [nextNonce EXCEPT ![k] = PendingNonce(k)]
      /\ UNCHANGED <<etxes, attempts, bpc, reply, crashes>>
      /\ UNCHANGED <<pool, chain, forks, floor>>
  BY DEF LoadNonce, local, node
<1>2. PendingNonce(k) \in Nat
  BY PendingNonceTyped DEF IInv, Clean
<1>3. /\ nextNonce' \in [Keys -> Nat \cup {NULL}] /\ nextNonce'[k] = PendingNonce(k)
      /\ \A l \in Keys \ {k} : nextNonce'[l] = nextNonce[l]
  BY <1>1, <1>2 DEF IInv, Typed
<1>4. Clean' /\ pool' = pool /\ Mined' = Mined
  BY <1>1 DEF IInv, Clean, NodeInv, NodeTypeOK, Mined
<1>5. Typed' /\ AttemptInv'
  BY <1>1, <1>3 DEF IInv, Typed, AttemptInv
<1>6. NonceInv'
  <2>1. \A t \in DOMAIN etxes : etxes[t].state = "in_progress" =>
            etxes[t].from \in Keys \ {k}
    BY <1>1, RowTyped DEF IInv, InProgress, TxsIn
  <2> QED
    BY <1>1, <1>3, <2>1 DEF IInv, NonceInv
<1>7. SeriesInv'
  <2> SUFFICES ASSUME NEW l \in Keys
               PROVE \E first \in Nat : {etxes[t].nonce : t \in Broadcasts(l)} = first .. nextNonce'[l] - 1
    BY <1>1 DEF SeriesInv, Broadcasts
  <2>1. PICK first \in Nat : {etxes[t].nonce : t \in Broadcasts(l)} = first .. nextNonce[l] - 1
    BY DEF IInv, SeriesInv
  <2>2. CASE l = k
    <3>1. first .. nextNonce[l] - 1 = {} /\ nextNonce'[l] .. nextNonce'[l] - 1 = {}
      BY <1>1, <1>2, <1>3, <2>2 DEF NULL
    <3> QED
      BY <1>2, <1>3, <2>1, <2>2, <3>1
  <2>3. CASE l # k
    BY <1>3, <2>1, <2>3
  <2> QED
    BY <2>2, <2>3
<1>8. SenderInv' /\ SentIsSaved'
  BY <1>1, <1>4 DEF IInv, SenderInv, SentIsSaved, InProgress
<1> QED
  BY <1>4, <1>5, <1>6, <1>7, <1>8 DEF IInv

-----------------------------------------------------------------------------
(* A transaction gets its nonce *)

\* The order of the query finds one.
LEMMA NextUnstartedExists ==
    ASSUME Typed, NEW k \in Keys, Unstarted(k) # {}
    PROVE NextUnstarted(k) \in Unstarted(k)
<1>1. \A t \in Unstarted(k) : t \in Nat /\ etxes[t].value \in Nat
  BY RowTyped DEF Unstarted, TxsIn
<1>2. PICK t \in Unstarted(k) : \A u \in Unstarted(k) : etxes[t].value <= etxes[u].value
  <2> DEFINE values == {etxes[t].value : t \in Unstarted(k)}
  <2>1. values \subseteq Nat /\ values # {}
    BY <1>1
  <2>2. PICK v \in values : \A w \in values : v <= w
    <3> HIDE DEF values
    <3> QED
      BY <2>1, Least
  <2> QED
    BY <2>2
<1>3. PICK first \in {u \in Unstarted(k) : etxes[u].value = etxes[t].value} :
          \A u \in {w \in Unstarted(k) : etxes[w].value = etxes[t].value} : first <= u
  <2> DEFINE lowest == {u \in Unstarted(k) : etxes[u].value = etxes[t].value}
  <2>1. lowest \subseteq Nat /\ lowest # {}
    BY <1>1
  <2>2. PICK first \in lowest : \A u \in lowest : first <= u
    <3> HIDE DEF lowest
    <3> QED
      BY <2>1, Least
  <2> QED
    BY <2>2
<1>4. ASSUME NEW u \in Unstarted(k)
      PROVE \/ etxes[first].value < etxes[u].value
            \/ etxes[first].value = etxes[u].value /\ first <= u
  <2>1. etxes[first].value = etxes[t].value /\ etxes[t].value <= etxes[u].value
    BY <1>2, <1>3
  <2>2. CASE etxes[u].value = etxes[t].value
    BY <1>3, <2>1, <2>2
  <2>3. CASE etxes[u].value # etxes[t].value
    BY <1>1, <2>1, <2>3
  <2> QED
    BY <2>2, <2>3
<1> QED
  BY <1>3, <1>4 DEF NextUnstarted

\* A row that is changed, and the others.
LEMMA RowChanged ==
    ASSUME Typed, NEW t \in DOMAIN etxes, NEW row \in EthTx, etxes' = [etxes EXCEPT ![t] = row]
    PROVE /\ etxes' \in Seq(EthTx) /\ DOMAIN etxes' = DOMAIN etxes /\ etxes'[t] = row
          /\ \A u \in DOMAIN etxes : u # t => etxes'[u] = etxes[u]
BY DEF Typed

LEMMA BroadcastBelow ==
    ASSUME IInv, NEW t \in DOMAIN etxes, etxes[t].state = "unconfirmed"
    PROVE etxes[t].nonce < nextNonce[etxes[t].from]
<1> DEFINE k == etxes[t].from
<1>1. k \in Keys /\ t \in Broadcasts(k)
  BY RowTyped DEF IInv, Broadcasts
<1>2. PICK first \in Nat : {etxes[u].nonce : u \in Broadcasts(k)} = first .. nextNonce[k] - 1
  BY <1>1 DEF IInv, SeriesInv
<1>3. etxes[t].nonce \in first .. nextNonce[k] - 1
  BY <1>1, <1>2
<1>4. nextNonce[k] \in Int
  BY <1>1 DEF IInv, Typed, NULL
<1> QED
  BY <1>3, <1>4

LEMMA SaveInProgressStep ==
    ASSUME IInv, NEW k \in Keys, SaveInProgress(k)
    PROVE IInv'
<1> DEFINE t == NextUnstarted(k)
           row == WithNonce(t, k)
           a == NewAttempt(t, row, GasPriceDefault)
<1>1. /\ bpc[k] = "next" /\ InProgress(k) = {} /\ Unstarted(k) # {} /\ nextNonce[k] # NULL
      /\ etxes' = [etxes EXCEPT ![t] = row] /\ attempts' = attempts \cup {a}
      /\ GoTo(k, "send") /\ UNCHANGED <<nextNonce, crashes>>
      /\ UNCHANGED <<pool, chain, forks, floor>>
  BY DEF SaveInProgress, node
<1>2. t \in DOMAIN etxes /\ etxes[t].from = k /\ etxes[t].state = "unstarted" /\ t \in Nat \ {0}
  BY <1>1, NextUnstartedExists DEF IInv, Typed, Unstarted, TxsIn
<1>3. nextNonce[k] \in Nat
  BY <1>1 DEF IInv, Typed
<1>4. /\ row \in EthTx /\ row.from = k /\ row.state = "in_progress" /\ row.nonce = nextNonce[k]
  <2>1. etxes[t] \in EthTx
    BY <1>2 DEF IInv, Typed
  <2> QED
    BY <1>2, <1>3, <2>1 DEF WithNonce, EthTx, EthTxState
<1>5. /\ a \in EthTxAttempt /\ a.tx = t /\ a.from = k /\ a.nonce = nextNonce[k]
      /\ a.state = "in_progress" /\ a.before = NULL
  BY <1>2, <1>3, <1>4, GasAssumption DEF NewAttempt, EthTxAttempt, EthTxAttemptState
<1> HIDE DEF t, row, a
<1>6. /\ etxes' \in Seq(EthTx) /\ DOMAIN etxes' = DOMAIN etxes /\ etxes'[t] = row
      /\ \A u \in DOMAIN etxes : u # t => etxes'[u] = etxes[u]
  BY <1>1, <1>2, <1>4, RowChanged DEF IInv
<1>7. /\ bpc' \in [Keys -> BroadcasterPC] /\ reply' \in [Keys -> Replies]
      /\ bpc'[k] = "send" /\ \A l \in Keys \ {k} : bpc'[l] = bpc[l] /\ reply'[l] = reply[l]
  BY <1>1, GoToTyped DEF IInv, BroadcasterPC
<1>8. Clean' /\ pool' = pool /\ Mined' = Mined
  BY <1>1 DEF IInv, Clean, NodeInv, NodeTypeOK, Mined
<1>9. Typed'
  BY <1>1, <1>5, <1>6, <1>7 DEF IInv, Typed
<1>10. \A u \in DOMAIN etxes : u # t /\ etxes[u].from = k =>
           etxes[u].state # "in_progress" /\ etxes[u].nonce # nextNonce[k]
  <2> SUFFICES ASSUME NEW u \in DOMAIN etxes, etxes[u].from = k
               PROVE etxes[u].state # "in_progress" /\ etxes[u].nonce # nextNonce[k]
    OBVIOUS
  <2>1. etxes[u].state # "in_progress"
    BY <1>1 DEF InProgress, TxsIn
  <2>2. CASE etxes[u].state = "unconfirmed"
    <3>1. etxes[u].nonce < nextNonce[k]
      BY <2>2, BroadcastBelow
    <3> QED
      BY <1>3, <2>1, <3>1
  <2>3. CASE etxes[u].state # "unconfirmed"
    BY <1>1, <2>1, <2>3 DEF IInv, NonceInv
  <2> QED
    BY <2>2, <2>3
<1>11. NonceInv'
  BY <1>1, <1>2, <1>4, <1>6, <1>10 DEF IInv, NonceInv
<1>12. AttemptInv'
  <2>1. \A b \in attempts : b.tx # t
    BY <1>2 DEF IInv, AttemptInv
  <2> QED
    BY <1>1, <1>2, <1>4, <1>5, <1>6, <2>1 DEF IInv, AttemptInv
<1>13. SeriesInv'
  <2>1. \A l \in Keys : Broadcasts(l)' = Broadcasts(l)
    BY <1>2, <1>4, <1>6 DEF Broadcasts
  <2>2. \A l \in Keys : \A u \in Broadcasts(l) : etxes'[u] = etxes[u]
    BY <1>2, <1>6 DEF Broadcasts
  <2> QED
    BY <1>1, <2>1, <2>2, SameSeries DEF IInv
<1>14. SenderInv'
  <2>1. t \in InProgress(k)'
    BY <1>2, <1>4, <1>6 DEF InProgress, TxsIn
  <2>2. \A l \in Keys \ {k} : InProgress(l)' = InProgress(l)
    BY <1>2, <1>4, <1>6 DEF InProgress, TxsIn
  <2> QED
    BY <1>1, <1>5, <1>7, <1>8, <2>1, <2>2 DEF IInv, SenderInv
<1>15. SentIsSaved'
  BY <1>1, <1>8 DEF IInv, SentIsSaved
<1> QED
  BY <1>8, <1>9, <1>11, <1>12, <1>13, <1>14, <1>15 DEF IInv

-----------------------------------------------------------------------------
(* The answer is taken *)

LEMMA SaveFatallyErroredStep ==
    ASSUME IInv, NEW k \in Keys, SaveFatallyErrored(k)
    PROVE IInv'
<1> DEFINE t == CurrentTx(k)
           row == GiveUpNonce(etxes[t])
           a == CurrentAttempt(k)
<1>1. /\ bpc[k] = "sent" /\ reply[k] = "fatal" /\ InProgress(k) # {}
      /\ etxes' = [etxes EXCEPT ![t] = row] /\ attempts' = attempts \ AttemptsOf(attempts, t)
      /\ GoTo(k, "next") /\ UNCHANGED <<nextNonce, crashes>>
      /\ UNCHANGED <<pool, chain, forks, floor>>
  BY DEF SaveFatallyErrored, node, IInv, SenderInv
<1>2. /\ t \in DOMAIN etxes /\ etxes[t].from = k /\ etxes[t].state = "in_progress"
      /\ a \in attempts /\ a.tx = t /\ a.from = k /\ a.state = "in_progress"
      /\ AttemptsOf(attempts, t) = {a}
  BY <1>1, Current
<1>3. /\ row \in EthTx /\ row.from = k /\ row.state = "fatal_error" /\ row.nonce = NULL
  <2>1. etxes[t] \in EthTx
    BY <1>2, RowTyped DEF IInv
  <2> QED
    BY <1>2, <2>1 DEF GiveUpNonce, EthTx, EthTxState
<1> HIDE DEF t, row, a
<1>4. /\ etxes' \in Seq(EthTx) /\ DOMAIN etxes' = DOMAIN etxes /\ etxes'[t] = row
      /\ \A u \in DOMAIN etxes : u # t => etxes'[u] = etxes[u]
  BY <1>1, <1>2, <1>3, RowChanged DEF IInv
<1>5. /\ bpc' \in [Keys -> BroadcasterPC] /\ reply' \in [Keys -> Replies]
      /\ bpc'[k] = "next" /\ \A l \in Keys \ {k} : bpc'[l] = bpc[l] /\ reply'[l] = reply[l]
  BY <1>1, GoToTyped DEF IInv, BroadcasterPC
<1>6. attempts' = attempts \ {a}
  BY <1>1, <1>2
<1>7. Clean' /\ pool' = pool /\ Mined' = Mined
  BY <1>1 DEF IInv, Clean, NodeInv, NodeTypeOK, Mined
<1>8. Typed'
  BY <1>1, <1>4, <1>5, <1>6 DEF IInv, Typed
<1>9. NonceInv'
  BY <1>1, <1>2, <1>3, <1>4 DEF IInv, NonceInv
<1>10. AttemptInv'
  BY <1>2, <1>3, <1>4, <1>6 DEF IInv, AttemptInv
<1>11. SeriesInv'
  <2>1. \A l \in Keys : Broadcasts(l)' = Broadcasts(l)
    BY <1>2, <1>3, <1>4 DEF Broadcasts
  <2>2. \A l \in Keys : \A u \in Broadcasts(l) : etxes'[u] = etxes[u]
    BY <1>2, <1>4 DEF Broadcasts
  <2> QED
    BY <1>1, <2>1, <2>2, SameSeries DEF IInv
<1>12. SenderInv'
  <2>1. \A l \in Keys \ {k} : InProgress(l)' = InProgress(l)
    BY <1>2, <1>3, <1>4 DEF InProgress, TxsIn
  <2> QED
    BY <1>5, <1>6, <1>7, <2>1 DEF IInv, SenderInv
<1>13. SentIsSaved'
  <2>1. a.tx \in Refused
    BY <1>1, <1>2 DEF IInv, SenderInv
  <2>2. \A s \in pool \cup Mined : s.tx \notin Refused
    BY DEF IInv, Clean, NodeInv
  <2>3. Signed(a).tx = a.tx
    BY DEF Signed
  <2> QED
    BY <1>6, <1>7, <2>1, <2>2, <2>3 DEF IInv, SentIsSaved
<1> QED
  BY <1>7, <1>8, <1>9, <1>10, <1>11, <1>12, <1>13 DEF IInv

LEMMA SaveUnconfirmedStep ==
    ASSUME IInv, NEW k \in Keys, SaveUnconfirmed(k)
    PROVE IInv'
<1> DEFINE t == CurrentTx(k)
           row == [etxes[t] EXCEPT !.state = "unconfirmed"]
           a == CurrentAttempt(k)
           b == [a EXCEPT !.state = "broadcast"]
<1>1. bpc[k] = "sent" /\ InProgress(k) # {}
  BY DEF SaveUnconfirmed, IInv, SenderInv
<1>2. /\ t \in DOMAIN etxes /\ etxes[t].from = k /\ etxes[t].state = "in_progress"
      /\ etxes[t].nonce = nextNonce[k] /\ nextNonce[k] \in Nat
      /\ a \in attempts /\ a.tx = t /\ a.from = k /\ a.nonce = nextNonce[k]
      /\ a.state = "in_progress" /\ a.before = NULL
  BY <1>1, Current
<1>3. /\ etxes' = [etxes EXCEPT ![t] = row] /\ attempts' = (attempts \ {a}) \cup {b}
      /\ nextNonce' = [nextNonce EXCEPT ![k] = nextNonce[k] + 1]
      /\ GoTo(k, "next") /\ UNCHANGED crashes
      /\ UNCHANGED <<pool, chain, forks, floor>>
  BY <1>2 DEF SaveUnconfirmed, IncrementNextNonce, node
<1>4. /\ row \in EthTx /\ row.from = k /\ row.state = "unconfirmed" /\ row.nonce = nextNonce[k]
  <2>1. etxes[t] \in EthTx
    BY <1>2, RowTyped DEF IInv
  <2> QED
    BY <1>2, <2>1 DEF EthTx, EthTxState
<1>5. /\ b \in EthTxAttempt /\ b.tx = t /\ b.from = k /\ b.nonce = nextNonce[k]
      /\ b.state = "broadcast" /\ b.before = NULL /\ Signed(b) = Signed(a)
  <2>1. a \in EthTxAttempt
    BY <1>2 DEF IInv, Typed
  <2> QED
    BY <1>2, <2>1 DEF EthTxAttempt, EthTxAttemptState, Signed
<1> HIDE DEF t, row, a, b
<1>6. /\ etxes' \in Seq(EthTx) /\ DOMAIN etxes' = DOMAIN etxes /\ etxes'[t] = row
      /\ \A u \in DOMAIN etxes : u # t => etxes'[u] = etxes[u]
  BY <1>2, <1>3, <1>4, RowChanged DEF IInv
<1>7. /\ bpc' \in [Keys -> BroadcasterPC] /\ reply' \in [Keys -> Replies]
      /\ bpc'[k] = "next" /\ \A l \in Keys \ {k} : bpc'[l] = bpc[l] /\ reply'[l] = reply[l]
  BY <1>3, GoToTyped DEF IInv, BroadcasterPC
<1>8. /\ nextNonce' \in [Keys -> Nat \cup {NULL}] /\ nextNonce'[k] = nextNonce[k] + 1
      /\ \A l \in Keys \ {k} : nextNonce'[l] = nextNonce[l]
  BY <1>2, <1>3 DEF IInv, Typed
<1>9. Clean' /\ pool' = pool /\ Mined' = Mined
  BY <1>3 DEF IInv, Clean, NodeInv, NodeTypeOK, Mined
<1>10. Typed'
  BY <1>3, <1>5, <1>6, <1>7, <1>8 DEF IInv, Typed
<1>11. NonceInv'
  <2>1. \A u \in DOMAIN etxes : u # t /\ etxes[u].state = "in_progress" =>
            etxes[u].from \in Keys \ {k}
    BY <1>2, RowTyped DEF IInv, NonceInv
  <2>2. \A u \in DOMAIN etxes :
            /\ etxes'[u].from = etxes[u].from /\ etxes'[u].nonce = etxes[u].nonce
            /\ etxes'[u].state = "in_progress" =>
                  u # t /\ etxes[u].state = "in_progress"
    BY <1>2, <1>4, <1>6
  <2>3. ASSUME NEW u \in DOMAIN etxes
        PROVE /\ etxes'[u].state \in {"unstarted", "in_progress", "fatal_error", "unconfirmed"}
              /\ etxes'[u].nonce = NULL <=> etxes'[u].state \in {"unstarted", "fatal_error"}
              /\ etxes'[u].state = "in_progress" => etxes'[u].nonce = nextNonce'[etxes'[u].from]
    <3>1. CASE u = t
      BY <1>2, <1>4, <1>6, <3>1 DEF NULL
    <3>2. CASE u # t
      <4>1. etxes'[u] = etxes[u]
        BY <1>6, <3>2
      <4>2. etxes[u].state = "in_progress" => nextNonce'[etxes[u].from] = nextNonce[etxes[u].from]
        BY <1>8, <2>1, <3>2
      <4> QED
        BY <4>1, <4>2 DEF IInv, NonceInv
    <3> QED
      BY <3>1, <3>2
  <2>4. ASSUME NEW u \in DOMAIN etxes, NEW w \in DOMAIN etxes, u # w, etxes[u].from = etxes[w].from
        PROVE /\ etxes'[u].nonce # NULL => etxes'[u].nonce # etxes'[w].nonce
              /\ ~(etxes'[u].state = "in_progress" /\ etxes'[w].state = "in_progress")
    BY <2>2, <2>4 DEF IInv, NonceInv
  <2> QED
    BY <1>6, <2>2, <2>3, <2>4 DEF NonceInv
<1>12. AttemptInv'
  BY <1>2, <1>3, <1>4, <1>5, <1>6 DEF IInv, AttemptInv
<1>13. SeriesInv'
  <2> SUFFICES ASSUME NEW l \in Keys
               PROVE \E first \in Nat :
                        {etxes'[u].nonce : u \in Broadcasts(l)'} = first .. nextNonce'[l] - 1
    BY DEF SeriesInv
  <2>1. PICK first \in Nat : {etxes[u].nonce : u \in Broadcasts(l)} = first .. nextNonce[l] - 1
    BY DEF IInv, SeriesInv
  <2>2. CASE l # k
    <3>1. Broadcasts(l)' = Broadcasts(l) /\ \A u \in Broadcasts(l) : etxes'[u] = etxes[u]
      BY <1>2, <1>4, <1>6, <2>2 DEF Broadcasts
    <3>2. {etxes'[u].nonce : u \in Broadcasts(l)'} = {etxes[u].nonce : u \in Broadcasts(l)}
      BY <3>1
    <3> QED
      BY <1>8, <2>1, <2>2, <3>2
  <2>3. CASE l = k
    <3>1. Broadcasts(k)' = Broadcasts(k) \cup {t} /\ \A u \in Broadcasts(k) : etxes'[u] = etxes[u]
      BY <1>2, <1>4, <1>6 DEF Broadcasts
    <3>2. {etxes'[u].nonce : u \in Broadcasts(k)'}
             = {etxes[u].nonce : u \in Broadcasts(k)} \cup {nextNonce[k]}
      BY <1>4, <1>6, <3>1
    <3>3. PICK n \in Nat : n = nextNonce[k]
      BY <1>2
    <3>4. (first .. n - 1) \cup {n} = IF first <= n THEN first .. n ELSE n .. n
      OBVIOUS
    <3>5. nextNonce'[k] - 1 = n
      BY <1>8, <3>3
    <3> QED
      BY <2>1, <2>3, <3>2, <3>3, <3>4, <3>5
  <2> QED
    BY <2>2, <2>3
<1>14. SenderInv'
  <2>1. \A l \in Keys \ {k} : InProgress(l)' = InProgress(l)
    BY <1>2, <1>4, <1>6 DEF InProgress, TxsIn
  <2> QED
    BY <1>3, <1>5, <1>7, <1>9, <2>1 DEF IInv, SenderInv
<1>15. SentIsSaved'
  BY <1>3, <1>5, <1>9 DEF IInv, SentIsSaved
<1> QED
  BY <1>9, <1>10, <1>11, <1>12, <1>13, <1>14, <1>15 DEF IInv

LEMMA TryAgainStep ==
    ASSUME IInv, NEW k \in Keys, TryAgain(k)
    PROVE IInv'
<1> DEFINE t == CurrentTx(k)
           a == CurrentAttempt(k)
           b == NewAttempt(a.tx, etxes[a.tx], BumpedGasPrice(a.price))
<1>1. /\ bpc[k] = "sent" /\ reply[k] = "terminallyUnderpriced" /\ InProgress(k) # {}
      /\ UNCHANGED <<etxes, nextNonce, crashes>> /\ UNCHANGED <<pool, chain, forks, floor>>
  BY DEF TryAgain, node, IInv, SenderInv
<1>2. /\ t \in DOMAIN etxes /\ etxes[t].from = k /\ etxes[t].state = "in_progress"
      /\ etxes[t].nonce = nextNonce[k] /\ nextNonce[k] \in Nat
      /\ a \in attempts /\ a.tx = t /\ a.from = k /\ a.state = "in_progress"
  BY <1>1, Current
<1>3. CASE UNCHANGED attempts /\ GoTo(k, "idle")
  BY <1>1, <1>3, EndStep DEF tables, node
<1>4. CASE attempts' = (attempts \ {a}) \cup {b} /\ GoTo(k, "send")
  <2>1. a \in EthTxAttempt
    BY <1>2 DEF IInv, Typed
  <2>2. BumpedGasPrice(a.price) \in Nat \ {0}
    BY <2>1, BumpRaises DEF EthTxAttempt
  <2>3. /\ b \in EthTxAttempt /\ b.tx = t /\ b.from = k /\ b.nonce = etxes[t].nonce
        /\ b.state = "in_progress" /\ b.before = NULL
    BY <1>2, <2>1, <2>2 DEF NewAttempt, EthTxAttempt, EthTxAttemptState
  <2> HIDE DEF t, a, b
  <2>4. /\ bpc' \in [Keys -> BroadcasterPC] /\ reply' \in [Keys -> Replies]
        /\ bpc'[k] = "send" /\ \A l \in Keys \ {k} : bpc'[l] = bpc[l] /\ reply'[l] = reply[l]
    BY <1>4, GoToTyped DEF IInv, BroadcasterPC
  <2>5. Clean' /\ pool' = pool /\ Mined' = Mined
    BY <1>1 DEF IInv, Clean, NodeInv, NodeTypeOK, Mined
  <2>6. Typed' /\ NonceInv'
    BY <1>1, <1>4, <2>3, <2>4 DEF IInv, Typed, NonceInv
  <2>7. AttemptInv'
    BY <1>1, <1>2, <1>4, <2>3 DEF IInv, AttemptInv
  <2>8. SeriesInv'
    BY <1>1 DEF IInv, SeriesInv, Broadcasts
  <2>9. SenderInv'
    <3>1. \A l \in Keys : InProgress(l)' = InProgress(l)
      BY <1>1 DEF InProgress
    <3> QED
      BY <1>1, <1>4, <2>3, <2>4, <2>5, <3>1 DEF IInv, SenderInv
  <2>10. SentIsSaved'
    <3>1. Signed(a) \notin pool \cup Mined
      BY <1>1, <1>2 DEF IInv, SenderInv
    <3> QED
      BY <1>4, <2>5, <3>1 DEF IInv, SentIsSaved
  <2> QED
    BY <2>5, <2>6, <2>7, <2>8, <2>9, <2>10 DEF IInv
<1> QED
  BY <1>3, <1>4 DEF TryAgain

-----------------------------------------------------------------------------
(* The theorems *)

LEMMA InvInit == Init => IInv
<1> SUFFICES ASSUME Init PROVE IInv
  OBVIOUS
<1> USE DEF Init, BroadcasterInit
<1>1. Clean /\ pool = {} /\ Mined = {}
  <2>1. pool = {} /\ chain = <<>>
    BY DEF NodeInit
  <2>2. DOMAIN chain = {}
    BY <2>1
  <2> QED
    BY <2>1, <2>2, NodeInvInit DEF Clean, Mined, MinedIn
<1>2. DOMAIN etxes = {}
  OBVIOUS
<1>3. Typed
  BY BroadcasterAssumption DEF Typed, BroadcasterPC, Replies
<1>4. NonceInv /\ AttemptInv
  BY <1>2 DEF NonceInv, AttemptInv
<1>5. SeriesInv
  <2>1. 0 .. NULL - 1 = {}
    BY DEF NULL
  <2>2. \A k \in Keys : Broadcasts(k) = {} /\ nextNonce[k] = NULL
    BY <1>2 DEF Broadcasts
  <2>3. \A k \in Keys : {etxes[t].nonce : t \in Broadcasts(k)} = 0 .. nextNonce[k] - 1
    BY <2>1, <2>2
  <2> QED
    BY <2>3 DEF SeriesInv
<1>6. SenderInv /\ SentIsSaved
  BY <1>1 DEF SenderInv, SentIsSaved
<1> QED
  BY <1>1, <1>3, <1>4, <1>5, <1>6 DEF IInv

LEMMA InvNext == IInv /\ [Next]_vars => IInv'
<1> SUFFICES ASSUME IInv, [Next]_vars PROVE IInv'
  OBVIOUS
<1>1. CASE Insertion
  BY <1>1, InsertStep DEF Insertion
<1>2. CASE StartRound \/ BroadcasterCrash
  BY <1>2, QuietSteps
<1>3. ASSUME NEW k \in Keys, BroadcasterStep(k) PROVE IInv'
  <2>1. CASE ResumeInProgress(k) \/ FinishRound(k) \/ LoadNonceFails(k) \/ BailOut(k)
    BY <2>1, QuietSteps
  <2>2. CASE LoadNonce(k)
    BY <2>2, LoadNonceStep
  <2>3. CASE SaveInProgress(k)
    BY <2>3, SaveInProgressStep
  <2>4. CASE \E answer \in Replies : Send(k, answer)
    BY <2>4, SendStep
  <2>5. CASE SaveFatallyErrored(k)
    BY <2>5, SaveFatallyErroredStep
  <2>6. CASE SaveUnconfirmed(k)
    BY <2>6, SaveUnconfirmedStep
  <2>7. CASE TryAgain(k)
    BY <2>7, TryAgainStep
  <2> QED
    BY <1>3, <2>1, <2>2, <2>3, <2>4, <2>5, <2>6, <2>7 DEF BroadcasterStep
<1>4. CASE NodeNext /\ UNCHANGED <<tables, local, crashes>>
  BY <1>4, NodeChanges
<1>5. CASE UNCHANGED vars
  <2>1. UNCHANGED <<tables, node, bpc, reply, crashes>>
    BY <1>5 DEF vars, local
  <2>2. /\ bpc' \in [Keys -> BroadcasterPC] /\ reply' \in [Keys -> Replies]
        /\ crashes' \in 0 .. MaxCrashes
    BY <2>1 DEF IInv, Typed
  <2>3. \A k \in Keys : bpc[k] \in {"send", "sent"} => InProgress(k) # {}
    BY DEF IInv, SenderInv
  <2> QED
    BY <2>1, <2>2, <2>3, LocalStep
<1> QED
  BY <1>1, <1>2, <1>3, <1>4, <1>5 DEF Next

\* The invariant behind the others: who has a nonce, that what a key has
\* broadcast is a series up to its next nonce, that one attempt goes with
\* each, and that the sender drops an attempt only if the node has not got it.
THEOREM EthBroadcasterInvariant == Spec => []IInv
<1>1. Init => IInv
  BY InvInit
<1>2. IInv /\ [Next]_vars => IInv'
  BY InvNext
<1> QED
  BY <1>1, <1>2, PTL DEF Spec

\* No statement of the broadcaster fails on a constraint of eth_txes or of
\* eth_tx_attempts, one transaction in progress for a key among them.
THEOREM TablesStayTyped == Spec => []TypeOK
<1>1. IInv => TypeOK
  BY Types
<1> QED
  BY <1>1, EthBroadcasterInvariant, PTL

\* "A monotonic series of increasing nonces": saveFatallyErroredTransaction
\* gives back the nonce that the next transaction takes, and a restart goes on
\* where the tables are.
THEOREM NoncesNeverHaveGap == Spec => []NoncesHaveNoGap
<1>1. IInv => NoncesHaveNoGap
  BY NoGap
<1> QED
  BY <1>1, EthBroadcasterInvariant, PTL

\* An attempt is saved before it is sent, and dropped only on an answer that
\* says the node has not got it, so that its receipt can be asked for.
THEOREM WhatIsSentIsSaved == Spec => []SentIsSaved
<1>1. IInv => SentIsSaved
  BY DEF IInv
<1> QED
  BY <1>1, EthBroadcasterInvariant, PTL

-----------------------------------------------------------------------------
(* The confirmer *)

\* A key's goroutine takes up its own transactions only: with no limit on the
\* transactions to bump, it would take up those of other keys.
KeysApart == BumpTxDepth > 0 \/ \A k, l \in Keys : k = l

ReceiptRow == [of : SignedTx, num : Nat \ {0}, fork : Nat]

RowsTyped ==
    /\ etxes \in Seq(EthTx)
    /\ attempts \subseteq EthTxAttempt
    /\ receipts \subseteq ReceiptRow
    /\ highest \in Nat
    /\ head \in Seq(Block)
    /\ cpc \in ConfirmerPC
    /\ todo \subseteq DOMAIN etxes
    /\ work \in [Keys -> Work]

\* A transaction has the nonce it was sent with until it is given up.
RowInv ==
    /\ DOMAIN etxes = DOMAIN Broadcast
    /\ \A t \in DOMAIN etxes :
          /\ etxes[t].from = Broadcast[t]
          /\ etxes[t].state \in Sent \cup {"fatal_error"}
          /\ etxes[t].nonce = IF etxes[t].state = "fatal_error" THEN NULL
                              ELSE BroadcastTx(t).nonce

\* An attempt is signed with that nonce, and what is in progress is the
\* dearest of its transaction.
FitsTx(a) ==
    /\ a.tx \in DOMAIN etxes
    /\ a.from = Broadcast[a.tx] /\ a.nonce = BroadcastTx(a.tx).nonce
    /\ a.price <= MaxGasPrice
    /\ a.state # "broadcast" => a.before = NULL

PriceInv ==
    /\ \A a \in attempts : FitsTx(a)
    /\ \A a, b \in attempts : a.tx = b.tx /\ a.price = b.price => a = b
    /\ InProgressIsHighest

\* A receipt is of an attempt of a confirmed transaction, which has no other.
ReceiptInv ==
    /\ \A r \in receipts :
          /\ \E a \in attempts : Signed(a) = r.of
          /\ etxes[r.of.tx].state = "confirmed"
    /\ \A r, s \in receipts : r.of.tx = s.of.tx => r = s

Resendable(t) == \E a \in attempts : a.tx = t /\ a.state = "in_progress"

\* The goroutine of a key has transactions of that key: the one it sends has an
\* attempt in progress, and so have those that were left behind.
WorkOf(k) ==
    /\ work[k].cur # 0 <=> work[k].pc \in {"send", "sent"}
    /\ work[k].cur # 0 => work[k].cur \in TxsIn(etxes, k, Sent) /\ Resendable(work[k].cur)
    /\ work[k].list \subseteq TxsIn(etxes, k, Sent) \ {work[k].cur}
    /\ work[k].stage = "leftovers" => \A t \in work[k].list : Resendable(t)
    /\ work[k].pc = "done" => work[k].list = {}

AtWork == cpc \in {"bump", "leftovers"}

WorkInv ==
    \A k \in Keys : /\ WorkOf(k)
                    /\ ~AtWork => work[k].list = {} /\ work[k].cur = 0

\* A receipt of a broadcast attempt is old, or of the head's chain, or its
\* transaction is still to be marked.
Accounted(r) ==
    (\E a \in attempts : a.state = "broadcast" /\ Signed(a) = r.of) =>
        r.num < Earliest(head) \/ InLongestChain(r, head) \/ r.of.tx \in todo

\* What is asked for has no receipt yet, and what is to be sent again has none
\* in the head's chain.
PhaseInv ==
    /\ cpc = "receipts" => \A t \in todo : etxes[t].state \in AwaitReceipt
    /\ cpc = "ensure" =>
          /\ \A t \in todo : AttemptsOf(attempts, t) # {} /\ ~HasReceiptInLongestChain(t)
          /\ \A r \in receipts : Accounted(r)

OwnInv == RowsTyped /\ RowInv /\ PriceInv /\ ReceiptInv /\ WorkInv /\ PhaseInv

ConfirmerInv == NodeInv /\ OwnInv

-----------------------------------------------------------------------------
(* Rows and attempts *)

\* Two transactions of a key were sent with different nonces.
LEMMA OwnNonce ==
    ASSUME NEW t \in DOMAIN Broadcast
    PROVE /\ BroadcastTx(t).nonce \in Nat
          /\ BroadcastTx(t).from = Broadcast[t] /\ Broadcast[t] \in Keys
          /\ \A u \in 1 .. t - 1 : Broadcast[u] = Broadcast[t] =>
                BroadcastTx(u).nonce < BroadcastTx(t).nonce
<1> DEFINE Before(u) == {v \in 1 .. u - 1 : Broadcast[v] = Broadcast[u]}
<1>1. Broadcast \in Seq(Keys) /\ DOMAIN Broadcast = 1 .. Len(Broadcast) /\ Len(Broadcast) \in Nat
  BY ConfirmerAssumption
<1>2. \A u \in DOMAIN Broadcast : IsFiniteSet(Before(u)) /\ Cardinality(Before(u)) \in Nat
  <2> SUFFICES ASSUME NEW u \in DOMAIN Broadcast
               PROVE IsFiniteSet(Before(u)) /\ Cardinality(Before(u)) \in Nat
    OBVIOUS
  <2>1. IsFiniteSet(1 .. u - 1)
    BY <1>1, FS_Interval
  <2>2. IsFiniteSet(Before(u))
    BY <2>1, FS_Subset
  <2> QED
    BY <2>2, FS_CardinalityType
<1>3. \A u \in DOMAIN Broadcast :
          /\ BroadcastTx(u).nonce = Cardinality(Before(u))
          /\ BroadcastTx(u).from = Broadcast[u]
  BY DEF BroadcastTx
<1>4. ASSUME NEW u \in 1 .. t - 1, Broadcast[u] = Broadcast[t]
      PROVE Cardinality(Before(u)) < Cardinality(Before(t))
  <2>1. u \in DOMAIN Broadcast /\ u \notin Before(u) /\ Before(u) \cup {u} \subseteq Before(t)
    BY <1>1, <1>4
  <2> HIDE DEF Before
  <2>2. /\ IsFiniteSet(Before(u) \cup {u})
        /\ Cardinality(Before(u) \cup {u}) = Cardinality(Before(u)) + 1
    BY <1>2, <2>1, FS_AddElement
  <2>3. Cardinality(Before(u) \cup {u}) <= Cardinality(Before(t))
    BY <1>2, <2>1, FS_Subset
  <2> QED
    BY <1>2, <2>1, <2>2, <2>3
<1> HIDE DEF Before
<1>5. \A u \in 1 .. t - 1 : u \in DOMAIN Broadcast
  BY <1>1
<1> QED
  BY <1>1, <1>2, <1>3, <1>4, <1>5

LEMMA NoncesDiffer ==
    ASSUME NEW t \in DOMAIN Broadcast, NEW u \in DOMAIN Broadcast,
           t # u, Broadcast[t] = Broadcast[u]
    PROVE BroadcastTx(t).nonce # BroadcastTx(u).nonce
<1>1. t \in Nat /\ u \in Nat /\ t >= 1 /\ u >= 1
  BY ConfirmerAssumption
<1>2. t \in 1 .. u - 1 \/ u \in 1 .. t - 1
  BY <1>1
<1>3. BroadcastTx(t).nonce \in Nat /\ BroadcastTx(u).nonce \in Nat
  BY OwnNonce
<1>4. BroadcastTx(t).nonce < BroadcastTx(u).nonce \/ BroadcastTx(u).nonce < BroadcastTx(t).nonce
  BY <1>2, OwnNonce
<1> QED
  BY <1>3, <1>4

\* A row of the table.
LEMMA TxTyped ==
    ASSUME RowsTyped, RowInv, NEW t \in DOMAIN etxes
    PROVE /\ t \in Nat \ {0} /\ etxes[t] \in EthTx /\ etxes[t].from \in Keys
          /\ etxes[t].from = Broadcast[t]
          /\ etxes[t].state \in Sent =>
                etxes[t].nonce = BroadcastTx(t).nonce /\ etxes[t].nonce \in Nat
<1>1. t \in Nat \ {0} /\ etxes[t] \in EthTx
  BY DEF RowsTyped
<1>2. etxes[t].state \in Sent => etxes[t].state # "fatal_error"
  BY DEF Sent
<1> QED
  BY <1>1, <1>2, OwnNonce DEF RowInv, EthTx

LEMMA TxConstraints ==
    ASSUME OwnInv
    PROVE ConstraintsHold(etxes, attempts)
<1>1. ASSUME NEW t \in DOMAIN etxes
      PROVE etxes[t].nonce = NULL <=> etxes[t].state \in {"unstarted", "fatal_error"}
  <2>1. etxes[t].state \in Sent \cup {"fatal_error"} /\ NULL \notin Nat
    BY DEF OwnInv, RowInv, NULL
  <2> QED
    BY <2>1, TxTyped DEF OwnInv, RowInv, Sent
<1>2. ASSUME NEW t \in DOMAIN etxes, NEW u \in DOMAIN etxes, t # u, etxes[t].from = etxes[u].from
      PROVE /\ etxes[t].nonce # NULL => etxes[t].nonce # etxes[u].nonce
            /\ ~(etxes[t].state = "in_progress" /\ etxes[u].state = "in_progress")
  <2>1. Broadcast[t] = Broadcast[u] /\ BroadcastTx(t).nonce # BroadcastTx(u).nonce
    BY <1>2, NoncesDiffer DEF OwnInv, RowInv
  <2>2. etxes[t].state # "in_progress"
    BY DEF OwnInv, RowInv, Sent
  <2> QED
    BY <2>1, <2>2 DEF OwnInv, RowInv
<1>3. \A a \in attempts : a.state # "broadcast" => a.before = NULL
  BY DEF OwnInv, PriceInv, FitsTx
<1>4. ASSUME NEW a \in attempts, NEW b \in attempts, a # b, a.tx = b.tx
      PROVE /\ a.price # b.price
            /\ ~(a.state = "in_progress" /\ b.state = "in_progress")
  <2>1. a.price # b.price
    BY <1>4 DEF OwnInv, PriceInv
  <2>2. a.price \in Nat /\ b.price \in Nat
    BY DEF OwnInv, RowsTyped, EthTxAttempt
  <2>3. a.state = "in_progress" => b.price <= a.price
    BY <1>4 DEF OwnInv, PriceInv, InProgressIsHighest, AttemptsOf
  <2>4. b.state = "in_progress" => a.price <= b.price
    BY <1>4 DEF OwnInv, PriceInv, InProgressIsHighest, AttemptsOf
  <2> QED
    BY <2>1, <2>2, <2>3, <2>4
<1> QED
  BY <1>1, <1>2, <1>3, <1>4 DEF ConstraintsHold

\* A transaction with attempts has a dearest one.
LEMMA HighestExists ==
    ASSUME RowsTyped, PriceInv, NEW t, AttemptsOf(attempts, t) # {}
    PROVE LET h == HighestAttempt(attempts, t)
          IN  /\ h \in attempts /\ h.tx = t
              /\ \A a \in AttemptsOf(attempts, t) : a.price <= h.price
<1> DEFINE room(a) == MaxGasPrice - a.price
           rooms == {room(a) : a \in AttemptsOf(attempts, t)}
<1>1. \A a \in AttemptsOf(attempts, t) : a.price \in Nat /\ room(a) \in Nat
  BY GasAssumption DEF RowsTyped, EthTxAttempt, AttemptsOf, PriceInv, FitsTx
<1>2. rooms \subseteq Nat /\ rooms # {}
  BY <1>1
<1>3. PICK least \in rooms : \A x \in rooms : least <= x
  <2> HIDE DEF rooms
  <2> QED
    BY <1>2, Least
<1>4. PICK a \in AttemptsOf(attempts, t) : least = room(a)
  BY <1>3
<1>5. ASSUME NEW b \in AttemptsOf(attempts, t) PROVE b.price <= a.price
  <2>1. room(a) <= room(b)
    BY <1>3, <1>4
  <2> QED
    BY <1>1, <2>1, GasAssumption
<1>6. \E h \in AttemptsOf(attempts, t) : \A b \in AttemptsOf(attempts, t) : b.price <= h.price
  BY <1>5
<1> QED
  BY <1>6 DEF HighestAttempt, AttemptsOf

LEMMA InHandExists ==
    ASSUME OwnInv, NEW k \in Keys, work[k].pc \in {"send", "sent"}
    PROVE LET a == InHand(k)
          IN  /\ a \in attempts /\ a.tx = work[k].cur /\ a.state = "in_progress"
              /\ a \in EthTxAttempt /\ FitsTx(a) /\ a.before = NULL
              /\ \A b \in AttemptsOf(attempts, a.tx) : b.price <= a.price
              /\ \A b \in AttemptsOf(attempts, a.tx) : b.state = "in_progress" => b = a
              /\ a.tx \in TxsIn(etxes, k, Sent)
<1>1. work[k].cur \in TxsIn(etxes, k, Sent) /\ Resendable(work[k].cur)
  BY DEF OwnInv, WorkInv, WorkOf
<1>2. /\ InHand(k) \in attempts /\ InHand(k).tx = work[k].cur
      /\ InHand(k).state = "in_progress"
  BY <1>1 DEF InHand, Resendable
<1>3. InHand(k) \in EthTxAttempt /\ FitsTx(InHand(k)) /\ InHand(k).before = NULL
  BY <1>2 DEF OwnInv, RowsTyped, PriceInv, FitsTx
<1>4. \A b \in AttemptsOf(attempts, InHand(k).tx) : b.price <= InHand(k).price
  BY <1>2 DEF OwnInv, PriceInv, InProgressIsHighest
<1>5. ASSUME NEW b \in AttemptsOf(attempts, InHand(k).tx), b.state = "in_progress"
      PROVE b = InHand(k)
  <2>1. ConstraintsHold(etxes, attempts)
    BY TxConstraints
  <2> QED
    BY <1>2, <1>5, <2>1 DEF ConstraintsHold, AttemptsOf
<1> QED
  BY <1>1, <1>2, <1>3, <1>4, <1>5

-----------------------------------------------------------------------------
(* Saving an attempt *)

\* The attempts of other transactions stay.
OthersStay(t) == \A a : a.tx # t => (a \in attempts' <=> a \in attempts)

\* What was signed is signed still.
SignedStays == \A a \in attempts : \E c \in attempts' : Signed(c) = Signed(a)

LEMMA SaveKeeps ==
    ASSUME OwnInv, DOMAIN etxes' = DOMAIN etxes,
           NEW b \in EthTxAttempt, FitsTx(b), attempts' = WithAttempt(b),
           \A a \in AttemptsOf(attempts, b.tx) :
              a.price <= b.price /\ (a.state = "in_progress" => a.price = b.price)
    PROVE /\ attempts' \subseteq EthTxAttempt /\ PriceInv'
          /\ b \in attempts' /\ OthersStay(b.tx) /\ SignedStays
<1>1. attempts' = {a \in attempts : a.tx # b.tx \/ a.price # b.price} \cup {b}
  BY DEF WithAttempt
<1>2. attempts' \subseteq EthTxAttempt /\ b \in attempts' /\ OthersStay(b.tx)
  BY <1>1 DEF OwnInv, RowsTyped, OthersStay
<1>3. \A a \in attempts' : FitsTx(a)'
  BY <1>1 DEF OwnInv, PriceInv, FitsTx
<1>4. \A a, c \in attempts' : a.tx = c.tx /\ a.price = c.price => a = c
  BY <1>1 DEF OwnInv, PriceInv
<1>5. ASSUME NEW a \in attempts', a.state = "in_progress", NEW c \in AttemptsOf(attempts', a.tx)
      PROVE c.price <= a.price
  <2>1. c \in attempts' /\ c.tx = a.tx
    BY DEF AttemptsOf
  <2>2. a.price \in Nat /\ c.price \in Nat /\ b.price \in Nat
    BY <1>2, <2>1 DEF EthTxAttempt
  <2>3. CASE a = b
    BY <1>1, <2>1, <2>2, <2>3 DEF AttemptsOf
  <2>4. CASE a # b
    <3>1. a \in attempts /\ (a.tx # b.tx \/ a.price # b.price)
      BY <1>1, <2>4
    <3>2. a.tx # b.tx
      BY <1>5, <3>1 DEF AttemptsOf
    <3>3. c \in attempts
      BY <1>1, <2>1, <3>2
    <3> QED
      BY <1>5, <2>1, <3>1, <3>3 DEF OwnInv, PriceInv, InProgressIsHighest, AttemptsOf
  <2> QED
    BY <2>3, <2>4
<1>6. SignedStays
  <2> SUFFICES ASSUME NEW a \in attempts PROVE \E c \in attempts' : Signed(c) = Signed(a)
    BY DEF SignedStays
  <2>1. CASE a.tx # b.tx \/ a.price # b.price
    BY <1>1, <2>1
  <2>2. CASE a.tx = b.tx /\ a.price = b.price
    <3>1. a.from = b.from /\ a.nonce = b.nonce
      BY <2>2 DEF OwnInv, PriceInv, FitsTx
    <3> QED
      BY <1>2, <2>2, <3>1 DEF Signed
  <2> QED
    BY <2>1, <2>2
<1>7. InProgressIsHighest'
  BY <1>5 DEF InProgressIsHighest
<1> QED
  BY <1>2, <1>3, <1>4, <1>6, <1>7 DEF PriceInv

\* An attempt goes, with its receipts, and perhaps a dearer one takes its place.
LEMMA DropKeeps ==
    ASSUME OwnInv, UNCHANGED etxes, NEW a \in attempts,
           attempts' \in {attempts \ {a}} \cup
               {(attempts \ {a}) \cup {b} : b \in {c \in EthTxAttempt :
                   /\ FitsTx(c) /\ c.tx = a.tx
                   /\ \A d \in AttemptsOf(attempts, a.tx) :
                         d.price < c.price /\ (d.state = "in_progress" => d = a)}},
           receipts' = ReceiptsWithout(a)
    PROVE /\ attempts' \subseteq EthTxAttempt /\ PriceInv'
          /\ OthersStay(a.tx) /\ ReceiptInv' /\ receipts' \subseteq receipts
<1>1. /\ receipts' \subseteq receipts
      /\ \A r \in receipts' : \E c \in attempts \ {a} : Signed(c) = r.of
  BY DEF ReceiptsWithout, OwnInv, ReceiptInv
<1>2. attempts \ {a} \subseteq attempts'
  OBVIOUS
<1>3. ReceiptInv'
  BY <1>1, <1>2 DEF OwnInv, ReceiptInv
<1>4. CASE attempts' = attempts \ {a}
  <2>1. attempts' \subseteq EthTxAttempt /\ OthersStay(a.tx)
    BY <1>4 DEF OwnInv, RowsTyped, OthersStay
  <2>2. \A c \in attempts' : FitsTx(c)'
    BY <1>4 DEF OwnInv, PriceInv, FitsTx
  <2>3. InProgressIsHighest'
    BY <1>4 DEF OwnInv, PriceInv, InProgressIsHighest, AttemptsOf
  <2>4. \A c, d \in attempts' : c.tx = d.tx /\ c.price = d.price => c = d
    BY <1>4 DEF OwnInv, PriceInv
  <2> QED
    BY <1>1, <1>3, <2>1, <2>2, <2>3, <2>4 DEF PriceInv
<1>5. ASSUME NEW b \in EthTxAttempt, FitsTx(b), b.tx = a.tx,
             attempts' = (attempts \ {a}) \cup {b},
             \A d \in AttemptsOf(attempts, a.tx) :
                d.price < b.price /\ (d.state = "in_progress" => d = a)
      PROVE attempts' \subseteq EthTxAttempt /\ OthersStay(a.tx) /\ PriceInv'
  <2>1. attempts' \subseteq EthTxAttempt /\ OthersStay(a.tx)
    BY <1>5 DEF OwnInv, RowsTyped, OthersStay
  <2>2. \A c \in attempts' : FitsTx(c)'
    BY <1>5 DEF OwnInv, PriceInv, FitsTx
  <2>3. \A c \in attempts' : c.price \in Nat
    BY <2>1 DEF EthTxAttempt
  <2>4. \A c, d \in attempts' : c.tx = d.tx /\ c.price = d.price => c = d
    <3> SUFFICES ASSUME NEW c \in attempts', NEW d \in attempts', c.tx = d.tx, c.price = d.price
                 PROVE c = d
      OBVIOUS
    <3>1. CASE c # b /\ d # b
      BY <1>5, <3>1 DEF OwnInv, PriceInv
    <3>2. ASSUME NEW e \in attempts', e # b, e.tx = b.tx PROVE e.price < b.price
      BY <1>5, <3>2 DEF AttemptsOf
    <3>3. b \in attempts'
      BY <1>5
    <3> QED
      BY <2>3, <3>1, <3>2, <3>3
  <2>5. ASSUME NEW c \in attempts', c.state = "in_progress", NEW d \in attempts', d.tx = c.tx
        PROVE d.price <= c.price
    <3>1. CASE c.tx # a.tx
      <4>1. c \in attempts /\ d \in attempts
        BY <1>5, <2>5, <3>1
      <4> QED
        BY <2>5, <4>1 DEF OwnInv, PriceInv, InProgressIsHighest, AttemptsOf
    <3>2. CASE c.tx = a.tx
      <4>1. c = b
        <5>1. CASE c \in attempts /\ c # a
          BY <1>5, <2>5, <3>2, <5>1 DEF AttemptsOf
        <5> QED
          BY <1>5, <5>1
      <4>2. d = b \/ (d \in attempts /\ d.tx = a.tx)
        BY <1>5, <2>5, <3>2
      <4>3. d = b \/ d.price < b.price
        BY <1>5, <4>2 DEF AttemptsOf
      <4> QED
        BY <2>3, <4>1, <4>3
    <3> QED
      BY <3>1, <3>2
  <2>6. InProgressIsHighest'
    BY <2>5 DEF InProgressIsHighest, AttemptsOf
  <2> QED
    BY <2>1, <2>2, <2>4, <2>6 DEF PriceInv
<1> QED
  BY <1>1, <1>3, <1>4, <1>5

-----------------------------------------------------------------------------
(* Steps of a key's goroutine *)

\* A goroutine with nothing to do and nothing in hand.
LEMMA RestKeeps ==
    ASSUME \A k \in Keys : work'[k].list = {} /\ work'[k].cur = 0
                           /\ work'[k].pc \notin {"send", "sent"}
    PROVE WorkInv'
BY DEF WorkInv, WorkOf, AtWork

\* The goroutine of one key moves, and changes attempts of one transaction.
LEMMA KeyKeeps ==
    ASSUME OwnInv, AtWork, NEW k \in Keys, NEW t, Broadcast[t] = k,
           UNCHANGED <<etxes, highest, head, cpc, todo>>,
           work' \in [Keys -> Work], \A l \in Keys \ {k} : work'[l] = work[l],
           WorkOf(k)', attempts' \subseteq EthTxAttempt, PriceInv', OthersStay(t),
           receipts' \subseteq receipts, ReceiptInv'
    PROVE OwnInv'
<1>1. RowsTyped' /\ RowInv'
  BY DEF OwnInv, RowsTyped, RowInv
<1>2. PhaseInv'
  BY DEF PhaseInv, AtWork
<1>3. ASSUME NEW l \in Keys \ {k} PROVE WorkOf(l)'
  <2>1. TxsIn(etxes, l, Sent)' = TxsIn(etxes, l, Sent)
    BY DEF TxsIn
  <2>2. ASSUME NEW u \in TxsIn(etxes, l, Sent), Resendable(u) PROVE Resendable(u)'
    <3>1. u # t
      BY DEF OwnInv, RowInv, TxsIn
    <3>2. PICK a \in attempts : a.tx = u /\ a.state = "in_progress"
      BY <2>2 DEF Resendable
    <3>3. a \in attempts'
      BY <3>1, <3>2 DEF OthersStay
    <3> QED
      BY <3>2, <3>3 DEF Resendable
  <2>3. WorkOf(l) /\ work'[l] = work[l]
    BY DEF OwnInv, WorkInv
  <2> QED
    BY <2>1, <2>2, <2>3 DEF WorkOf
<1>4. WorkInv'
  BY <1>3 DEF WorkInv, AtWork
<1> QED
  BY <1>1, <1>2, <1>4 DEF OwnInv

\* It moves and changes nothing else.
LEMMA MoveKeeps ==
    ASSUME OwnInv, AtWork, NEW k \in Keys,
           UNCHANGED <<etxes, attempts, receipts, highest, head, cpc, todo>>,
           work' \in [Keys -> Work], \A l \in Keys \ {k} : work'[l] = work[l], WorkOf(k)'
    PROVE OwnInv'
<1>1. RowsTyped' /\ RowInv' /\ PriceInv' /\ ReceiptInv'
  BY DEF OwnInv, RowsTyped, RowInv, PriceInv, InProgressIsHighest, FitsTx, ReceiptInv
<1>2. PhaseInv'
  BY DEF PhaseInv, AtWork
<1>3. ASSUME NEW l \in Keys \ {k} PROVE WorkOf(l)'
  <2>1. WorkOf(l) /\ work'[l] = work[l]
    BY DEF OwnInv, WorkInv
  <2> QED
    BY <2>1 DEF WorkOf, Resendable, TxsIn
<1>4. WorkInv'
  BY <1>3 DEF WorkInv, AtWork
<1> QED
  BY <1>1, <1>2, <1>4 DEF OwnInv

LEMMA WorkTyped ==
    ASSUME RowsTyped, NEW k \in Keys
    PROVE /\ work[k].stage \in {"leftovers", "bumps"}
          /\ work[k].pc \in {"query", "pick", "send", "sent", "done", "failed"}
          /\ work[k].list \subseteq Nat \ {0}
          /\ work[k].cur \in Nat
          /\ work[k].reply \in Replies
BY DEF RowsTyped, Work

LEMMA TxsAreIds ==
    ASSUME RowsTyped, NEW k, NEW states
    PROVE TxsIn(etxes, k, states) \subseteq Nat \ {0}
BY DEF RowsTyped, TxsIn

LEMMA OwnTxs ==
    ASSUME OwnInv, NEW k, NEW t \in TxsIn(etxes, k, Sent)
    PROVE /\ t \in DOMAIN etxes /\ Broadcast[t] = k /\ etxes[t].state \in Sent
          /\ etxes[t].nonce = BroadcastTx(t).nonce /\ etxes[t].nonce \in Nat
          /\ etxes[t].from = Broadcast[t] /\ etxes[t].from \in Keys /\ t \in Nat \ {0}
BY TxTyped DEF OwnInv, RowInv, TxsIn

LEMMA QueryLeftoversStep ==
    ASSUME OwnInv, NEW k \in Keys, QueryLeftovers(k)
    PROVE OwnInv'
<1> DEFINE left == {t \in TxsIn(etxes, k, Sent) :
                       \E a \in AttemptsOf(attempts, t) : a.state = "in_progress"}
<1>1. /\ AtWork /\ work[k].stage = "leftovers" /\ work[k].pc = "query"
      /\ work' = [work EXCEPT ![k].pc = "pick", ![k].list = left]
      /\ UNCHANGED <<etxes, attempts, receipts, highest, head, cpc, todo>>
  BY DEF QueryLeftovers, Running, AtWork, ctables
<1>2. left \subseteq TxsIn(etxes, k, Sent) /\ \A t \in left : Resendable(t)
  BY DEF Resendable, AttemptsOf
<1>3. left \subseteq Nat \ {0}
  BY <1>2, TxsAreIds DEF OwnInv
<1> HIDE DEF left
<1>4. /\ work' \in [Keys -> Work] /\ \A l \in Keys \ {k} : work'[l] = work[l]
      /\ work'[k].stage = "leftovers" /\ work'[k].pc = "pick"
      /\ work'[k].list = left /\ work'[k].cur = work[k].cur
  BY <1>1, <1>3 DEF OwnInv, RowsTyped, Work
<1>5. work[k].cur = 0
  BY <1>1, WorkTyped DEF OwnInv, WorkInv, WorkOf
<1>6. WorkOf(k)'
  BY <1>1, <1>2, <1>3, <1>4, <1>5 DEF WorkOf, Resendable
<1> QED
  BY <1>1, <1>4, <1>6, MoveKeeps

LEMMA PickLeftoverStep ==
    ASSUME OwnInv, NEW k \in Keys, PickLeftover(k)
    PROVE OwnInv'
<1>1. /\ AtWork /\ work[k].stage = "leftovers" /\ work[k].pc = "pick"
      /\ UNCHANGED <<etxes, attempts, receipts, highest, head, cpc, todo>>
  BY DEF PickLeftover, Running, AtWork, ctables
<1>2. PICK t \in work[k].list :
          work' = [work EXCEPT ![k].pc = "send", ![k].cur = t, ![k].list = @ \ {t}]
  BY DEF PickLeftover
<1>3. t \in TxsIn(etxes, k, Sent) /\ t \in Nat \ {0} /\ Resendable(t)
  BY <1>1, <1>2, WorkTyped DEF OwnInv, WorkInv, WorkOf
<1>4. /\ work' \in [Keys -> Work] /\ \A l \in Keys \ {k} : work'[l] = work[l]
      /\ work'[k].stage = "leftovers" /\ work'[k].pc = "send"
      /\ work'[k].list = work[k].list \ {t} /\ work'[k].cur = t
  BY <1>1, <1>2, <1>3 DEF OwnInv, RowsTyped, Work
<1>5. WorkOf(k)
  BY DEF OwnInv, WorkInv
<1>6. WorkOf(k)'
  BY <1>1, <1>3, <1>4, <1>5 DEF WorkOf, Resendable
<1> QED
  BY <1>1, <1>4, <1>6, MoveKeeps

LEMMA RequiringOwn ==
    ASSUME OwnInv, KeysApart, NEW k \in Keys
    PROVE RequiringNewAttempt(k) \subseteq TxsIn(etxes, k, Sent)
<1> SUFFICES ASSUME NEW t \in RequiringNewAttempt(k) PROVE t \in TxsIn(etxes, k, Sent)
  OBVIOUS
<1>1. t \in AllTxsIn({"unconfirmed"}) /\ (BumpTxDepth > 0 => AmongTheFirst(t, k))
  BY DEF RequiringNewAttempt
<1>2. PICK l \in Keys : t \in TxsIn(etxes, l, {"unconfirmed"})
  BY <1>1 DEF AllTxsIn
<1>3. t \in DOMAIN etxes /\ etxes[t].from = l /\ etxes[t].state = "unconfirmed"
  BY <1>2 DEF TxsIn
<1>4. l = k
  BY <1>1, <1>3 DEF KeysApart, AmongTheFirst
<1> QED
  BY <1>3, <1>4 DEF TxsIn, Sent

LEMMA LeftoversDoneStep ==
    ASSUME OwnInv, KeysApart, NEW k \in Keys, LeftoversDone(k)
    PROVE OwnInv'
<1> DEFINE new == RequiringNewAttempt(k)
<1>1. /\ AtWork /\ work[k].stage = "leftovers" /\ work[k].pc = "pick" /\ work[k].list = {}
      /\ work' = [work EXCEPT ![k] = IF cpc = "bump"
                                     THEN [work[k] EXCEPT !.stage = "bumps", !.list = new]
                                     ELSE [work[k] EXCEPT !.pc = "done"]]
      /\ UNCHANGED <<etxes, attempts, receipts, highest, head, cpc, todo>>
  BY DEF LeftoversDone, Running, AtWork, ctables
<1>2. new \subseteq TxsIn(etxes, k, Sent)
  BY RequiringOwn
<1>3. new \subseteq Nat \ {0}
  BY <1>2, TxsAreIds DEF OwnInv
<1> HIDE DEF new
<1>4. WorkOf(k) /\ work[k].cur = 0
  BY <1>1, WorkTyped DEF OwnInv, WorkInv, WorkOf
<1>5. CASE cpc = "bump"
  <2>1. /\ work' \in [Keys -> Work] /\ \A l \in Keys \ {k} : work'[l] = work[l]
        /\ work'[k].stage = "bumps" /\ work'[k].pc = "pick"
        /\ work'[k].list = new /\ work'[k].cur = work[k].cur
    BY <1>1, <1>3, <1>5 DEF OwnInv, RowsTyped, Work
  <2>2. WorkOf(k)'
    BY <1>1, <1>2, <1>3, <1>4, <2>1 DEF WorkOf
  <2> QED
    BY <1>1, <2>1, <2>2, MoveKeeps
<1>6. CASE cpc # "bump"
  <2>1. /\ work' \in [Keys -> Work] /\ \A l \in Keys \ {k} : work'[l] = work[l]
        /\ work'[k].stage = "leftovers" /\ work'[k].pc = "done"
        /\ work'[k].list = {} /\ work'[k].cur = work[k].cur
    BY <1>1, <1>6 DEF OwnInv, RowsTyped, Work
  <2>2. WorkOf(k)'
    BY <1>1, <1>4, <2>1 DEF WorkOf
  <2> QED
    BY <1>1, <2>1, <2>2, MoveKeeps
<1> QED
  BY <1>5, <1>6

LEMMA BumpsDoneStep ==
    ASSUME OwnInv, NEW k \in Keys, BumpsDone(k)
    PROVE OwnInv'
<1>1. /\ AtWork /\ work[k].stage = "bumps" /\ work[k].pc = "pick" /\ work[k].list = {}
      /\ work' = [work EXCEPT ![k].pc = "done"]
      /\ UNCHANGED <<etxes, attempts, receipts, highest, head, cpc, todo>>
  BY DEF BumpsDone, Running, AtWork, ctables
<1>2. /\ work' \in [Keys -> Work] /\ \A l \in Keys \ {k} : work'[l] = work[l]
      /\ work'[k].stage = "bumps" /\ work'[k].pc = "done"
      /\ work'[k].list = {} /\ work'[k].cur = work[k].cur
  BY <1>1 DEF OwnInv, RowsTyped, Work
<1>3. WorkOf(k) /\ work[k].cur = 0
  BY <1>1, WorkTyped DEF OwnInv, WorkInv, WorkOf
<1>4. WorkOf(k)'
  BY <1>1, <1>2, <1>3 DEF WorkOf
<1> QED
  BY <1>1, <1>2, <1>4, MoveKeeps

LEMMA ThenMoves ==
    ASSUME RowsTyped, NEW k \in Keys, NEW pc \in {"pick", "send", "failed"}, Then(k, pc)
    PROVE /\ work' \in [Keys -> Work] /\ \A l \in Keys \ {k} : work'[l] = work[l]
          /\ work'[k].stage = work[k].stage /\ work'[k].pc = pc
          /\ work'[k].list = work[k].list
          /\ work'[k].cur = IF pc = "send" THEN work[k].cur ELSE 0
<1>1. PICK cur : cur = IF pc = "send" THEN work[k].cur ELSE 0
  OBVIOUS
<1>2. work[k] \in Work /\ cur \in Nat
  BY <1>1 DEF RowsTyped, Work
<1>3. work' = [work EXCEPT ![k] = [work[k] EXCEPT !.pc = pc, !.reply = "none", !.cur = cur]]
  BY <1>1 DEF Then, RowsTyped
<1>4. PICK w : w = [work[k] EXCEPT !.pc = pc, !.reply = "none", !.cur = cur]
  OBVIOUS
<1>5. /\ w \in Work /\ w.stage = work[k].stage /\ w.pc = pc
      /\ w.list = work[k].list /\ w.cur = cur
  BY <1>2, <1>4 DEF Work, Replies
<1>6. work' = [work EXCEPT ![k] = w]
  BY <1>3, <1>4
<1> QED
  BY <1>1, <1>5, <1>6 DEF RowsTyped

\* When it is done with a transaction, or fails with it, nothing is in hand.
LEMMA ThenRests ==
    ASSUME OwnInv, NEW k \in Keys, NEW pc \in {"pick", "failed"}, Then(k, pc),
           work[k].pc \in {"send", "sent"},
           UNCHANGED etxes, OthersStay(work[k].cur)
    PROVE WorkOf(k)'
<1>1. /\ work'[k].stage = work[k].stage /\ work'[k].pc = pc
      /\ work'[k].list = work[k].list /\ work'[k].cur = 0
  BY ThenMoves DEF OwnInv
<1>2. WorkOf(k)
  BY DEF OwnInv, WorkInv
<1>3. \A t \in work[k].list : t # work[k].cur /\ t # 0
  BY <1>2, TxsAreIds DEF WorkOf, OwnInv
<1>4. \A t \in work[k].list : Resendable(t) => Resendable(t)'
  BY <1>3 DEF Resendable, OthersStay
<1>5. TxsIn(etxes, k, Sent)' = TxsIn(etxes, k, Sent)
  OBVIOUS
<1> QED
  BY <1>1, <1>2, <1>3, <1>4, <1>5 DEF WorkOf

LEMMA NewFits ==
    ASSUME OwnInv, NEW k, NEW t \in TxsIn(etxes, k, Sent),
           NEW price \in Nat \ {0}, price <= MaxGasPrice
    PROVE LET b == NewAttempt(t, etxes[t], price)
          IN  /\ b \in EthTxAttempt /\ FitsTx(b)
              /\ b.tx = t /\ b.price = price /\ b.state = "in_progress"
<1>1. /\ t \in DOMAIN etxes /\ t \in Nat \ {0}
      /\ etxes[t].from \in Keys /\ etxes[t].from = Broadcast[t]
      /\ etxes[t].nonce = BroadcastTx(t).nonce /\ etxes[t].nonce \in Nat
  BY OwnTxs
<1> QED
  BY <1>1 DEF NewAttempt, EthTxAttempt, EthTxAttemptState, FitsTx

LEMMA AgainFits ==
    ASSUME OwnInv, NEW a \in attempts
    PROVE LET b == SentAgain(a)
          IN  /\ b \in EthTxAttempt /\ FitsTx(b)
              /\ b.tx = a.tx /\ b.price = a.price /\ b.state = "in_progress"
<1>1. a \in EthTxAttempt /\ FitsTx(a)
  BY DEF OwnInv, RowsTyped, PriceInv
<1> QED
  BY <1>1 DEF SentAgain, EthTxAttempt, EthTxAttemptState, FitsTx

\* What was broadcast stays the attempt it is when its state is saved.
LEMMA StateFits ==
    ASSUME OwnInv, NEW a \in attempts, NEW state \in EthTxAttemptState, a.before = NULL
    PROVE LET b == [a EXCEPT !.state = state]
          IN b \in EthTxAttempt /\ FitsTx(b) /\ b.tx = a.tx /\ b.price = a.price
<1>1. a \in EthTxAttempt /\ FitsTx(a)
  BY DEF OwnInv, RowsTyped, PriceInv
<1> QED
  BY <1>1 DEF EthTxAttempt, FitsTx

LEMMA ReceiptsStay ==
    ASSUME ReceiptInv, UNCHANGED <<etxes, receipts>>, SignedStays
    PROVE ReceiptInv'
BY DEF ReceiptInv, SignedStays

LEMMA BumpFits ==
    ASSUME OwnInv, NEW k, NEW t \in TxsIn(etxes, k, Sent)
    PROVE LET b == AttemptWithGasBump(t)
          IN  /\ b \in EthTxAttempt /\ FitsTx(b) /\ b.tx = t /\ b.state = "in_progress"
              /\ \A a \in AttemptsOf(attempts, t) : a.price <= b.price
<1> DEFINE h == HighestAttempt(attempts, t)
<1>1. CASE AttemptsOf(attempts, t) = {}
  BY <1>1, NewFits, GasAssumption DEF AttemptWithGasBump
<1>2. CASE AttemptsOf(attempts, t) # {}
  <2>1. /\ h \in attempts /\ h.tx = t
        /\ \A a \in AttemptsOf(attempts, t) : a.price <= h.price
    BY <1>2, HighestExists DEF OwnInv
  <2>2. h.price \in Nat \ {0} /\ \A a \in AttemptsOf(attempts, t) : a.price \in Nat
    BY <2>1 DEF OwnInv, RowsTyped, EthTxAttempt, AttemptsOf
  <2>3. CASE h.state = "insufficient_eth" \/ ~CanBump(h.price)
    <3>1. AttemptWithGasBump(t) = SentAgain(h)
      BY <1>2, <2>3 DEF AttemptWithGasBump
    <3> HIDE DEF h
    <3> QED
      BY <2>1, <3>1, AgainFits
  <2>4. CASE ~(h.state = "insufficient_eth" \/ ~CanBump(h.price))
    <3>1. AttemptWithGasBump(t) = NewAttempt(t, etxes[t], BumpedGasPrice(h.price))
      BY <1>2, <2>4 DEF AttemptWithGasBump
    <3> HIDE DEF h
    <3>2. PICK price : price = BumpedGasPrice(h.price)
      OBVIOUS
    <3>3. price \in Nat \ {0} /\ h.price < price /\ price <= MaxGasPrice
      BY <2>2, <2>4, <3>2, BumpRaises DEF CanBump
    <3>4. /\ NewAttempt(t, etxes[t], price) \in EthTxAttempt
          /\ FitsTx(NewAttempt(t, etxes[t], price))
          /\ NewAttempt(t, etxes[t], price).tx = t
          /\ NewAttempt(t, etxes[t], price).price = price
          /\ NewAttempt(t, etxes[t], price).state = "in_progress"
      BY <3>3, NewFits
    <3>5. \A a \in AttemptsOf(attempts, t) : a.price <= price
      BY <2>1, <2>2, <3>3
    <3> QED
      BY <3>1, <3>2, <3>4, <3>5
  <2> QED
    BY <2>3, <2>4
<1> QED
  BY <1>1, <1>2

LEMMA BumpStep ==
    ASSUME OwnInv, NEW k \in Keys, Bump(k)
    PROVE OwnInv'
<1>1. /\ AtWork /\ work[k].stage = "bumps" /\ work[k].pc = "pick"
      /\ UNCHANGED <<etxes, receipts, highest, head, cpc, todo>>
  BY DEF Bump, Running, AtWork
<1>2. PICK t \in work[k].list :
          IF \E a \in AttemptsOf(attempts, t) : a.state = "in_progress"
          THEN work' = [work EXCEPT ![k].pc = "failed"] /\ UNCHANGED attempts
          ELSE /\ attempts' = WithAttempt(AttemptWithGasBump(t))
               /\ work' = [work EXCEPT ![k].pc = "send", ![k].cur = t, ![k].list = @ \ {t}]
  BY DEF Bump
<1>3. WorkOf(k) /\ work[k].cur = 0
  BY <1>1, WorkTyped DEF OwnInv, WorkInv, WorkOf
<1>4. t \in TxsIn(etxes, k, Sent) /\ t \in Nat \ {0} /\ Broadcast[t] = k
  BY <1>2, <1>3, OwnTxs DEF WorkOf
<1>5. CASE \E a \in AttemptsOf(attempts, t) : a.state = "in_progress"
  <2>1. work' = [work EXCEPT ![k].pc = "failed"] /\ UNCHANGED attempts
    BY <1>2, <1>5
  <2>2. /\ work' \in [Keys -> Work] /\ \A l \in Keys \ {k} : work'[l] = work[l]
        /\ work'[k].stage = "bumps" /\ work'[k].pc = "failed"
        /\ work'[k].list = work[k].list /\ work'[k].cur = work[k].cur
    BY <1>1, <2>1 DEF OwnInv, RowsTyped, Work
  <2>3. WorkOf(k)'
    BY <1>1, <1>3, <2>2 DEF WorkOf
  <2> QED
    BY <1>1, <2>1, <2>2, <2>3, MoveKeeps
<1>6. CASE ~\E a \in AttemptsOf(attempts, t) : a.state = "in_progress"
  <2>1. PICK b : b = AttemptWithGasBump(t)
    OBVIOUS
  <2>2. /\ attempts' = WithAttempt(b)
        /\ work' = [work EXCEPT ![k].pc = "send", ![k].cur = t, ![k].list = @ \ {t}]
    BY <1>2, <1>6, <2>1
  <2>3. /\ b \in EthTxAttempt /\ FitsTx(b) /\ b.tx = t /\ b.state = "in_progress"
        /\ \A a \in AttemptsOf(attempts, t) : a.price <= b.price
    BY <1>4, <2>1, BumpFits
  <2>4. /\ attempts' \subseteq EthTxAttempt /\ PriceInv'
        /\ b \in attempts' /\ OthersStay(t) /\ SignedStays
    BY <1>1, <1>6, <2>2, <2>3, SaveKeeps
  <2>5. /\ work' \in [Keys -> Work] /\ \A l \in Keys \ {k} : work'[l] = work[l]
        /\ work'[k].stage = "bumps" /\ work'[k].pc = "send"
        /\ work'[k].list = work[k].list \ {t} /\ work'[k].cur = t
    BY <1>1, <1>4, <2>2 DEF OwnInv, RowsTyped, Work
  <2>6. Resendable(t)'
    BY <2>3, <2>4 DEF Resendable
  <2>7. WorkOf(k)'
    BY <1>1, <1>3, <1>4, <2>5, <2>6 DEF WorkOf
  <2>8. ReceiptInv' /\ receipts' \subseteq receipts
    BY <1>1, <2>4, ReceiptsStay DEF OwnInv
  <2> QED
    BY <1>1, <1>4, <2>4, <2>5, <2>7, <2>8, KeyKeeps
<1> QED
  BY <1>5, <1>6

-----------------------------------------------------------------------------
(* What the goroutine does with the attempt in hand *)

LEMMA ResendStep ==
    ASSUME ConfirmerInv, NEW k \in Keys, NEW answer \in Replies, Resend(k, answer)
    PROVE ConfirmerInv'
<1>1. /\ AtWork /\ work[k].pc = "send" /\ SendTransaction(Signed(InHand(k)), answer)
      /\ work' = [work EXCEPT ![k].pc = "sent", ![k].reply = answer]
      /\ UNCHANGED <<etxes, attempts, receipts, highest, head, cpc, todo>>
  BY DEF Resend, AtWork, ctables
<1>2. Signed(InHand(k)) \in SignedTx
  BY <1>1, InHandExists, SignedTyped DEF ConfirmerInv
<1>3. NodeInv'
  BY <1>1, <1>2, SendKeeps DEF ConfirmerInv
<1>4. /\ work' \in [Keys -> Work] /\ \A l \in Keys \ {k} : work'[l] = work[l]
      /\ work'[k].stage = work[k].stage /\ work'[k].pc = "sent"
      /\ work'[k].list = work[k].list /\ work'[k].cur = work[k].cur
  BY <1>1 DEF ConfirmerInv, OwnInv, RowsTyped, Work
<1>5. WorkOf(k)'
  <2>1. WorkOf(k)
    BY DEF ConfirmerInv, OwnInv, WorkInv
  <2> QED
    BY <1>1, <1>4, <2>1 DEF WorkOf, Resendable
<1>6. OwnInv'
  BY <1>1, <1>4, <1>5, MoveKeeps DEF ConfirmerInv
<1> QED
  BY <1>3, <1>6 DEF ConfirmerInv

\* The answer is saved as the state of the attempt.
LEMMA SaveStateStep ==
    ASSUME OwnInv, NEW k \in Keys, SaveSent(k) \/ SaveInsufficientEth(k)
    PROVE OwnInv'
<1> DEFINE a == InHand(k)
<1>1. /\ AtWork /\ work[k].pc = "sent" /\ Then(k, "pick")
      /\ UNCHANGED <<etxes, receipts, highest, head, cpc, todo>>
  BY DEF SaveSent, SaveInsufficientEth, Answered, AtWork
<1>2. PICK state \in {"broadcast", "insufficient_eth"} :
          attempts' = WithAttempt([a EXCEPT !.state = state])
  BY DEF SaveSent, SaveInsufficientEth
<1>3. /\ a \in attempts /\ a.tx = work[k].cur /\ a.before = NULL
      /\ \A b \in AttemptsOf(attempts, a.tx) :
            b.price <= a.price /\ (b.state = "in_progress" => b.price = a.price)
      /\ a.tx \in TxsIn(etxes, k, Sent)
  BY <1>1, InHandExists
<1> HIDE DEF a
<1>4. PICK b : b = [a EXCEPT !.state = state]
  OBVIOUS
<1>5. /\ b \in EthTxAttempt /\ FitsTx(b) /\ b.tx = a.tx /\ b.price = a.price
      /\ attempts' = WithAttempt(b)
  BY <1>2, <1>3, <1>4, StateFits DEF EthTxAttemptState
<1>6. /\ attempts' \subseteq EthTxAttempt /\ PriceInv'
      /\ OthersStay(work[k].cur) /\ SignedStays
  BY <1>1, <1>3, <1>5, SaveKeeps
<1>7. /\ work' \in [Keys -> Work] /\ \A l \in Keys \ {k} : work'[l] = work[l]
  BY <1>1, ThenMoves DEF OwnInv
<1>8. WorkOf(k)'
  BY <1>1, <1>6, ThenRests
<1>9. ReceiptInv' /\ receipts' \subseteq receipts
  BY <1>1, <1>6, ReceiptsStay DEF OwnInv
<1>10. Broadcast[work[k].cur] = k
  BY <1>3, OwnTxs
<1> QED
  BY <1>1, <1>6, <1>7, <1>8, <1>9, <1>10, KeyKeeps

LEMMA DeleteAttemptStep ==
    ASSUME OwnInv, NEW k \in Keys, DeleteAttempt(k)
    PROVE OwnInv'
<1> DEFINE a == InHand(k)
<1>1. /\ AtWork /\ work[k].pc = "sent" /\ Then(k, "pick")
      /\ attempts' = attempts \ {a} /\ receipts' = ReceiptsWithout(a)
      /\ UNCHANGED <<etxes, highest, head, cpc, todo>>
  BY DEF DeleteAttempt, Answered, AtWork
<1>2. a \in attempts /\ a.tx = work[k].cur /\ a.tx \in TxsIn(etxes, k, Sent)
  BY <1>1, InHandExists
<1> HIDE DEF a
<1>3. /\ attempts' \subseteq EthTxAttempt /\ PriceInv'
      /\ OthersStay(work[k].cur) /\ ReceiptInv' /\ receipts' \subseteq receipts
  BY <1>1, <1>2, DropKeeps
<1>4. /\ work' \in [Keys -> Work] /\ \A l \in Keys \ {k} : work'[l] = work[l]
  BY <1>1, ThenMoves DEF OwnInv
<1>5. WorkOf(k)'
  BY <1>1, <1>3, ThenRests
<1>6. Broadcast[work[k].cur] = k
  BY <1>2, OwnTxs
<1> QED
  BY <1>1, <1>3, <1>4, <1>5, <1>6, KeyKeeps

LEMMA ResendFailsStep ==
    ASSUME OwnInv, NEW k \in Keys, AtWork, work[k].pc = "sent", Then(k, "failed"),
           UNCHANGED <<etxes, attempts, receipts, highest, head, cpc, todo>>
    PROVE OwnInv'
<1>1. /\ work' \in [Keys -> Work] /\ \A l \in Keys \ {k} : work'[l] = work[l]
  BY ThenMoves DEF OwnInv
<1>2. OthersStay(work[k].cur)
  BY DEF OthersStay
<1>3. WorkOf(k)'
  BY <1>2, ThenRests
<1> QED
  BY <1>1, <1>3, MoveKeeps

LEMMA ReplaceStep ==
    ASSUME OwnInv, NEW k \in Keys, Replace(k)
    PROVE OwnInv'
<1>0. PICK a : a = InHand(k)
  OBVIOUS
<1>1. /\ AtWork /\ work[k].pc = "sent"
      /\ UNCHANGED <<etxes, highest, head, cpc, todo>>
  BY DEF Replace, Answered, AtWork
<1>2. IF CanBump(a.price)
      THEN /\ attempts' = (attempts \ {a})
                  \cup {NewAttempt(a.tx, etxes[a.tx], BumpedGasPrice(a.price))}
           /\ receipts' = ReceiptsWithout(a)
           /\ Then(k, "send")
      ELSE UNCHANGED <<attempts, receipts>> /\ Then(k, "failed")
  BY <1>0 DEF Replace
<1>3. /\ a \in attempts /\ a.tx = work[k].cur /\ a \in EthTxAttempt
      /\ \A d \in AttemptsOf(attempts, a.tx) :
            d.price <= a.price /\ (d.state = "in_progress" => d = a)
      /\ a.tx \in TxsIn(etxes, k, Sent)
  BY <1>0, <1>1, InHandExists
<1>4. CASE ~CanBump(a.price)
  BY <1>1, <1>2, <1>4, ResendFailsStep
<1>5. CASE CanBump(a.price)
  <2>1. PICK price : price = BumpedGasPrice(a.price)
    OBVIOUS
  <2>2. price \in Nat \ {0} /\ a.price < price /\ price <= MaxGasPrice /\ a.price \in Nat
    BY <1>3, <1>5, <2>1, BumpRaises DEF CanBump, EthTxAttempt
  <2>3. PICK c : c = NewAttempt(a.tx, etxes[a.tx], price)
    OBVIOUS
  <2>4. /\ c \in EthTxAttempt /\ FitsTx(c)
        /\ c.tx = a.tx /\ c.price = price /\ c.state = "in_progress"
    BY <1>3, <2>2, <2>3, NewFits
  <2>5. /\ attempts' = (attempts \ {a}) \cup {c} /\ receipts' = ReceiptsWithout(a)
        /\ Then(k, "send")
    BY <1>2, <1>5, <2>1, <2>3
  <2>6. \A d \in AttemptsOf(attempts, a.tx) :
            d.price < c.price /\ (d.state = "in_progress" => d = a)
    <3>1. \A d \in AttemptsOf(attempts, a.tx) : d.price \in Nat
      BY DEF AttemptsOf, OwnInv, RowsTyped, EthTxAttempt
    <3> QED
      BY <1>3, <2>2, <2>4, <3>1
  <2>7. /\ attempts' \subseteq EthTxAttempt /\ PriceInv'
        /\ OthersStay(a.tx) /\ ReceiptInv' /\ receipts' \subseteq receipts
    BY <1>1, <1>3, <2>4, <2>5, <2>6, DropKeeps
  <2>8. /\ work' \in [Keys -> Work] /\ \A l \in Keys \ {k} : work'[l] = work[l]
        /\ work'[k].stage = work[k].stage /\ work'[k].pc = "send"
        /\ work'[k].list = work[k].list /\ work'[k].cur = work[k].cur
    BY <2>5, ThenMoves DEF OwnInv
  <2>9. WorkOf(k)'
    <3>1. WorkOf(k)
      BY DEF OwnInv, WorkInv
    <3>2. Resendable(a.tx)'
      BY <2>4, <2>5 DEF Resendable
    <3>3. \A t \in work[k].list : t # a.tx
      BY <1>3, <3>1 DEF WorkOf
    <3>4. \A t \in work[k].list : Resendable(t) => Resendable(t)'
      BY <2>7, <3>3 DEF Resendable, OthersStay
    <3>5. TxsIn(etxes, k, Sent)' = TxsIn(etxes, k, Sent)
      BY <1>1
    <3> QED
      BY <1>1, <1>3, <2>8, <3>1, <3>2, <3>4, <3>5 DEF WorkOf
  <2>10. Broadcast[a.tx] = k
    BY <1>3, OwnTxs
  <2> QED
    BY <1>1, <2>7, <2>8, <2>9, <2>10, KeyKeeps
<1> QED
  BY <1>4, <1>5

-----------------------------------------------------------------------------
(* Steps of processHead *)

\* Between the phases with goroutines, they are at rest.
LEMMA IdleKeeps ==
    ASSUME OwnInv, ~AtWork, UNCHANGED work
    PROVE WorkInv'
<1>1. \A k \in Keys : WorkOf(k) /\ work[k].list = {} /\ work[k].cur = 0
  BY DEF OwnInv, WorkInv
<1> QED
  BY <1>1 DEF WorkInv, WorkOf

LEMMA ForgetKeeps ==
    ASSUME OwnInv, Forget, UNCHANGED <<etxes, attempts, receipts, highest>>
    PROVE OwnInv'
<1>1. /\ head' = <<>> /\ cpc' = "idle" /\ todo' = {}
      /\ work' = [k \in Keys |-> Goroutine("done")]
  BY DEF Forget, AtRest
<1>2. Goroutine("done") \in Work
  BY DEF Goroutine, Work, Replies
<1>3. RowsTyped'
  BY <1>1, <1>2 DEF OwnInv, RowsTyped, ConfirmerPC
<1>4. RowInv' /\ PriceInv' /\ ReceiptInv'
  BY DEF OwnInv, RowInv, PriceInv, InProgressIsHighest, FitsTx, ReceiptInv
<1>5. WorkInv'
  <2>1. \A k \in Keys : /\ work'[k].list = {} /\ work'[k].cur = 0
                        /\ work'[k].pc \notin {"send", "sent"}
    BY <1>1 DEF Goroutine
  <2> QED
    BY <2>1, RestKeeps
<1>6. PhaseInv'
  BY <1>1 DEF PhaseInv
<1> QED
  BY <1>3, <1>4, <1>5, <1>6 DEF OwnInv

\* All goroutines start.
LEMMA StartKeeps ==
    ASSUME work' = Started
    PROVE work' \in [Keys -> Work] /\ WorkInv'
<1>1. Goroutine("query") \in Work
  BY DEF Goroutine, Work, Replies
<1>2. \A k \in Keys : /\ work'[k].list = {} /\ work'[k].cur = 0
                      /\ work'[k].pc \notin {"send", "sent"}
  BY DEF Started, Goroutine
<1>3. WorkInv'
  BY <1>2, RestKeeps
<1> QED
  BY <1>1, <1>3 DEF Started

\* SetBroadcastBeforeBlockNum changes no signature, price or state.
LEMMA SeenKeeps ==
    ASSUME OwnInv, UNCHANGED etxes, NEW height \in Nat,
           attempts' = {IF a.state = "broadcast" /\ a.before = NULL
                        THEN [a EXCEPT !.before = height] ELSE a : a \in attempts}
    PROVE attempts' \subseteq EthTxAttempt /\ PriceInv' /\ SignedStays
<1> DEFINE Seen(a) == IF a.state = "broadcast" /\ a.before = NULL
                      THEN [a EXCEPT !.before = height] ELSE a
<1>1. ASSUME NEW a \in attempts
      PROVE /\ Seen(a) \in EthTxAttempt /\ FitsTx(Seen(a)) /\ Seen(a).tx = a.tx
            /\ Seen(a).price = a.price /\ Seen(a).state = a.state
            /\ Seen(a).from = a.from /\ Seen(a).nonce = a.nonce
  <2>1. a \in EthTxAttempt /\ FitsTx(a)
    BY DEF OwnInv, RowsTyped, PriceInv
  <2>2. CASE a.state = "broadcast" /\ a.before = NULL
    <3>1. PICK b : b = [a EXCEPT !.before = height]
      OBVIOUS
    <3>2. /\ b \in EthTxAttempt /\ b.tx = a.tx /\ b.price = a.price /\ b.state = a.state
          /\ b.from = a.from /\ b.nonce = a.nonce
      BY <2>1, <3>1 DEF EthTxAttempt
    <3>3. FitsTx(b)
      BY <2>1, <2>2, <3>2 DEF FitsTx
    <3> QED
      BY <2>2, <3>1, <3>2, <3>3
  <2> QED
    BY <2>1, <2>2
<1>2. attempts' = {Seen(a) : a \in attempts}
  OBVIOUS
<1> HIDE DEF Seen
<1>3. \A b \in attempts' : \E a \in attempts : b = Seen(a)
  BY <1>2
<1>4. attempts' \subseteq EthTxAttempt /\ \A b \in attempts' : FitsTx(b)'
  BY <1>1, <1>3 DEF FitsTx
<1>5. \A b, c \in attempts' : b.tx = c.tx /\ b.price = c.price => b = c
  <2> SUFFICES ASSUME NEW b \in attempts', NEW c \in attempts', b.tx = c.tx, b.price = c.price
               PROVE b = c
    OBVIOUS
  <2>1. PICK d \in attempts, e \in attempts : b = Seen(d) /\ c = Seen(e)
    BY <1>3
  <2>2. d.tx = e.tx /\ d.price = e.price
    BY <1>1, <2>1
  <2>3. d = e
    BY <2>2 DEF OwnInv, PriceInv
  <2> QED
    BY <2>1, <2>3
<1>6. InProgressIsHighest'
  <2> SUFFICES ASSUME NEW b \in attempts', b.state = "in_progress",
                      NEW c \in attempts', c.tx = b.tx
               PROVE c.price <= b.price
    BY DEF InProgressIsHighest, AttemptsOf
  <2>1. PICK d \in attempts, e \in attempts : b = Seen(d) /\ c = Seen(e)
    BY <1>3
  <2>2. d.state = "in_progress" /\ e.tx = d.tx
    BY <1>1, <2>1
  <2>3. e.price <= d.price
    BY <2>2 DEF OwnInv, PriceInv, InProgressIsHighest, AttemptsOf
  <2> QED
    BY <1>1, <2>1, <2>3
<1>7. SignedStays
  <2>1. \A a \in attempts : Seen(a) \in attempts' /\ Signed(Seen(a)) = Signed(a)
    BY <1>1, <1>2 DEF Signed
  <2> QED
    BY <2>1 DEF SignedStays
<1> QED
  BY <1>4, <1>5, <1>6, <1>7 DEF PriceInv

LEMMA OnNewLongestChainStep ==
    ASSUME ConfirmerInv, OnNewLongestChain
    PROVE OwnInv'
<1>1. /\ highest' = Len(chain) /\ head' = chain /\ work' = Started
      /\ attempts' = {IF a.state = "broadcast" /\ a.before = NULL
                      THEN [a EXCEPT !.before = Len(chain)] ELSE a : a \in attempts}
      /\ todo' = AllTxsIn(AwaitReceipt)
      /\ cpc' \in {"bump", "receipts"}
      /\ UNCHANGED <<etxes, receipts>>
  BY DEF OnNewLongestChain
<1>2. chain \in Seq(Block) /\ Len(chain) \in Nat
  BY DEF ConfirmerInv, NodeInv, NodeTypeOK
<1>3. PICK height \in Nat : height = Len(chain)
  BY <1>2
<1>4. attempts' = {IF a.state = "broadcast" /\ a.before = NULL
                   THEN [a EXCEPT !.before = height] ELSE a : a \in attempts}
  BY <1>1, <1>3
<1>5. attempts' \subseteq EthTxAttempt /\ PriceInv' /\ SignedStays
  BY <1>1, <1>4, SeenKeeps DEF ConfirmerInv
<1>6. \A t \in todo' : t \in DOMAIN etxes /\ etxes[t].state \in AwaitReceipt
  BY <1>1 DEF AllTxsIn, TxsIn
<1>7. work' \in [Keys -> Work] /\ WorkInv'
  BY <1>1, StartKeeps
<1>8. RowsTyped'
  BY <1>1, <1>2, <1>5, <1>6, <1>7 DEF ConfirmerInv, OwnInv, RowsTyped, ConfirmerPC
<1>9. RowInv'
  BY <1>1 DEF ConfirmerInv, OwnInv, RowInv
<1>10. ReceiptInv'
  BY <1>1, <1>5, ReceiptsStay DEF ConfirmerInv, OwnInv
<1>11. PhaseInv'
  BY <1>1, <1>6 DEF PhaseInv
<1> QED
  BY <1>5, <1>7, <1>8, <1>9, <1>10, <1>11 DEF OwnInv

\* Marking rows that were sent keeps what they were sent with.
LEMMA MarkKeeps ==
    ASSUME RowsTyped, RowInv, NEW txs, NEW state \in Sent, etxes' = Mark(txs, state),
           \A t \in txs : t \in DOMAIN etxes /\ etxes[t].state \in Sent
    PROVE /\ etxes' \in Seq(EthTx) /\ DOMAIN etxes' = DOMAIN etxes /\ RowInv'
          /\ \A t \in DOMAIN etxes :
                etxes'[t].state = IF t \in txs THEN state ELSE etxes[t].state
<1>1. /\ etxes \in Seq(EthTx) /\ DOMAIN etxes = 1 .. Len(etxes) /\ Len(etxes) \in Nat
      /\ state \in EthTxState /\ state # "fatal_error"
  BY DEF RowsTyped, Sent, EthTxState
<1>2. ASSUME NEW t \in DOMAIN etxes
      PROVE /\ etxes'[t] \in EthTx /\ etxes'[t].from = etxes[t].from
            /\ etxes'[t].nonce = etxes[t].nonce
            /\ etxes'[t].state = IF t \in txs THEN state ELSE etxes[t].state
  <2>1. etxes[t] \in EthTx
    BY <1>1
  <2>2. etxes'[t] = IF t \in txs THEN [etxes[t] EXCEPT !.state = state] ELSE etxes[t]
    BY DEF Mark
  <2> QED
    BY <1>1, <2>1, <2>2 DEF EthTx
<1>3. DOMAIN etxes' = DOMAIN etxes
  BY DEF Mark
<1>4. etxes' \in Seq(EthTx)
  <2>1. etxes' \in [1 .. Len(etxes) -> EthTx]
    BY <1>1, <1>2 DEF Mark
  <2> QED
    BY <1>1, <2>1, SeqDef
<1>5. RowInv'
  <2>1. \A t \in txs : etxes[t].state # "fatal_error"
    BY DEF Sent
  <2> QED
    BY <1>1, <1>2, <1>3, <2>1 DEF RowInv
<1> QED
  BY <1>2, <1>3, <1>4, <1>5

\* Rows change, attempts do not.
LEMMA PriceStays ==
    ASSUME PriceInv, DOMAIN etxes' = DOMAIN etxes, UNCHANGED attempts
    PROVE PriceInv'
BY DEF PriceInv, FitsTx, InProgressIsHighest

\* A step between the phases with goroutines that confirms nothing.
LEMMA RowsKeep ==
    ASSUME OwnInv, ~AtWork, UNCHANGED <<attempts, receipts, highest, head, work>>,
           etxes' \in Seq(EthTx), DOMAIN etxes' = DOMAIN etxes, RowInv',
           cpc' \in {"receipts", "missing", "old", "bump"},
           todo' \subseteq DOMAIN etxes,
           cpc' = "receipts" => \A t \in todo' : etxes'[t].state \in AwaitReceipt,
           \A t \in DOMAIN etxes :
              etxes[t].state = "confirmed" => etxes'[t].state = "confirmed"
    PROVE OwnInv'
<1>1. RowsTyped'
  BY DEF OwnInv, RowsTyped, ConfirmerPC
<1>2. PriceInv'
  BY PriceStays DEF OwnInv
<1>3. ReceiptInv'
  <2>1. ASSUME NEW r \in receipts PROVE etxes'[r.of.tx].state = "confirmed"
    <3>1. PICK a \in attempts : Signed(a) = r.of
      BY DEF OwnInv, ReceiptInv
    <3>2. r.of.tx = a.tx /\ a.tx \in DOMAIN etxes
      BY <3>1 DEF Signed, OwnInv, PriceInv, FitsTx
    <3> QED
      BY <3>2 DEF OwnInv, ReceiptInv
  <2> QED
    BY <2>1 DEF OwnInv, ReceiptInv
<1>4. WorkInv'
  BY IdleKeeps
<1>5. PhaseInv'
  BY DEF PhaseInv
<1> QED
  BY <1>1, <1>2, <1>3, <1>4, <1>5 DEF OwnInv

\* The receipts that the node has for a transaction.
Found(t) ==
    {r \in [of : {Signed(a) : a \in AttemptsOf(attempts, t)},
            num : DOMAIN chain, fork : 0 .. MaxForks] :
        /\ r.of \in chain[r.num].txs
        /\ r.fork = chain[r.num].fork}

\* A transaction that waits for its receipt finds one at most.
LEMMA FoundIsOne ==
    ASSUME ConfirmerInv, NEW t \in DOMAIN etxes,
           NEW found, found = Found(t)
    PROVE /\ found \subseteq ReceiptRow
          /\ \A r \in found : r.of.tx = t /\ \E a \in attempts : Signed(a) = r.of
          /\ \A r, s \in found : r = s
<1>1. chain \in Seq(Block) /\ DOMAIN chain = 1 .. Len(chain) /\ Len(chain) \in Nat /\ Once(chain)
  BY DEF ConfirmerInv, NodeInv, NodeTypeOK
<1>2. ASSUME NEW r \in found
      PROVE /\ r \in ReceiptRow /\ r.of.tx = t /\ \E a \in attempts : Signed(a) = r.of
            /\ r.of.from = Broadcast[t] /\ r.of.nonce = BroadcastTx(t).nonce
            /\ r.num \in 1 .. Len(chain) /\ r.of \in chain[r.num].txs
            /\ r.fork = chain[r.num].fork
  <2>1. PICK a \in AttemptsOf(attempts, t) : r.of = Signed(a)
    BY DEF Found
  <2>2. a \in attempts /\ a.tx = t /\ a \in EthTxAttempt /\ FitsTx(a)
    BY DEF AttemptsOf, ConfirmerInv, OwnInv, RowsTyped, PriceInv
  <2>3. Signed(a) \in SignedTx
    BY <2>2, SignedTyped
  <2>4. /\ r \in [of : {Signed(b) : b \in AttemptsOf(attempts, t)},
                  num : DOMAIN chain, fork : 0 .. MaxForks]
        /\ r.of \in chain[r.num].txs /\ r.fork = chain[r.num].fork
    BY DEF Found
  <2>5. r.num \in Nat \ {0} /\ r.num \in 1 .. Len(chain) /\ r.fork \in Nat
    BY <1>1, <2>4, NodeAssumption
  <2>6. r \in ReceiptRow
    BY <2>1, <2>3, <2>4, <2>5 DEF ReceiptRow
  <2> QED
    BY <2>1, <2>2, <2>4, <2>5, <2>6 DEF Signed, FitsTx
<1>3. ASSUME NEW r \in found, NEW s \in found PROVE r = s
  <2>1. SameNonce(r.of, s.of)
    BY <1>2 DEF SameNonce
  <2>2. r.num = s.num /\ r.of = s.of
    BY <1>1, <1>2, <2>1 DEF Once
  <2>3. r.fork = s.fork
    BY <1>2, <2>2
  <2> QED
    BY <1>2, <2>2, <2>3 DEF ReceiptRow
<1> QED
  BY <1>2, <1>3

LEMMA FetchReceiptStep ==
    ASSUME ConfirmerInv, NEW t \in todo, FetchReceipt(t)
    PROVE OwnInv'
<1>1. PICK found : found = Found(t)
  OBVIOUS
<1>2. /\ receipts' = receipts \cup found
      /\ etxes' = IF found = {} THEN etxes ELSE Mark({t}, "confirmed")
      /\ cpc = "receipts" /\ cpc' = cpc /\ todo' = todo \ {t}
      /\ UNCHANGED <<attempts, highest, head, work>>
  BY <1>1 DEF FetchReceipt, Found
<1>3. /\ OwnInv /\ RowsTyped /\ RowInv /\ t \in DOMAIN etxes
      /\ todo \subseteq DOMAIN etxes /\ etxes[t].state \in AwaitReceipt
      /\ ~AtWork
  BY <1>2 DEF ConfirmerInv, OwnInv, RowsTyped, PhaseInv, AtWork
<1>4. /\ found \subseteq ReceiptRow
      /\ \A r \in found : r.of.tx = t /\ \E a \in attempts : Signed(a) = r.of
      /\ \A r, s \in found : r = s
  BY <1>1, <1>3, FoundIsOne
<1>5. /\ etxes' \in Seq(EthTx) /\ DOMAIN etxes' = DOMAIN etxes /\ RowInv'
      /\ \A u \in DOMAIN etxes :
            etxes'[u].state = IF u = t /\ found # {} THEN "confirmed" ELSE etxes[u].state
  <2>1. CASE found = {}
    BY <1>2, <1>3, <2>1 DEF RowsTyped, RowInv
  <2>2. CASE found # {}
    <3>1. PICK txs : txs = {t}
      OBVIOUS
    <3>2. etxes' = Mark(txs, "confirmed") /\ "confirmed" \in Sent
      BY <1>2, <2>2, <3>1 DEF Sent
    <3>3. \A u \in txs : u \in DOMAIN etxes /\ etxes[u].state \in Sent
      BY <1>3, <3>1 DEF Sent, AwaitReceipt
    <3>4. /\ etxes' \in Seq(EthTx) /\ DOMAIN etxes' = DOMAIN etxes /\ RowInv'
          /\ \A u \in DOMAIN etxes :
                etxes'[u].state = IF u \in txs THEN "confirmed" ELSE etxes[u].state
      BY <1>3, <3>2, <3>3, MarkKeeps
    <3> QED
      BY <2>2, <3>1, <3>4
  <2> QED
    BY <2>1, <2>2
<1>6. ReceiptInv'
  <2>1. ASSUME NEW r \in receipts
        PROVE r.of.tx # t /\ r.of.tx \in DOMAIN etxes
    <3>1. PICK a \in attempts : Signed(a) = r.of
      BY <1>3 DEF OwnInv, ReceiptInv
    <3>2. r.of.tx = a.tx /\ a.tx \in DOMAIN etxes
      BY <1>3, <3>1 DEF Signed, OwnInv, PriceInv, FitsTx
    <3>3. etxes[r.of.tx].state = "confirmed"
      BY <1>3 DEF OwnInv, ReceiptInv
    <3> QED
      BY <1>3, <3>2, <3>3 DEF AwaitReceipt
  <2>2. \A r \in receipts' : \E a \in attempts' : Signed(a) = r.of
    BY <1>2, <1>3, <1>4 DEF OwnInv, ReceiptInv
  <2>3. \A r \in receipts' : etxes'[r.of.tx].state = "confirmed"
    BY <1>2, <1>3, <1>4, <1>5, <2>1 DEF OwnInv, ReceiptInv
  <2>4. \A r, s \in receipts' : r.of.tx = s.of.tx => r = s
    BY <1>2, <1>3, <1>4, <2>1 DEF OwnInv, ReceiptInv
  <2> QED
    BY <2>2, <2>3, <2>4 DEF ReceiptInv
<1>7. PriceInv'
  BY <1>2, <1>5, PriceStays DEF ConfirmerInv, OwnInv
<1>8. WorkInv'
  BY <1>2, <1>3, IdleKeeps
<1>9. RowsTyped'
  BY <1>2, <1>3, <1>4, <1>5 DEF RowsTyped
<1>10. PhaseInv'
  BY <1>2, <1>3, <1>5 DEF PhaseInv, OwnInv
<1> QED
  BY <1>5, <1>6, <1>7, <1>8, <1>9, <1>10 DEF OwnInv

LEMMA FetchFailsStep ==
    ASSUME OwnInv, NEW t \in todo, FetchFails(t)
    PROVE OwnInv'
<1>1. /\ cpc = "receipts" /\ cpc' = cpc /\ todo' = todo \ {t}
      /\ UNCHANGED <<etxes, attempts, receipts, highest, head, work>>
  BY DEF FetchFails, ctables
<1>2. ~AtWork /\ etxes' \in Seq(EthTx) /\ DOMAIN etxes' = DOMAIN etxes /\ RowInv'
  BY <1>1 DEF AtWork, OwnInv, RowsTyped, RowInv
<1>3. todo' \subseteq DOMAIN etxes /\ \A u \in todo' : etxes'[u].state \in AwaitReceipt
  BY <1>1 DEF OwnInv, RowsTyped, PhaseInv
<1> QED
  BY <1>1, <1>2, <1>3, RowsKeep

LEMMA ReceiptsFetchedStep ==
    ASSUME OwnInv, ReceiptsFetched
    PROVE OwnInv'
<1>1. /\ cpc = "receipts" /\ cpc' = "missing"
      /\ UNCHANGED <<etxes, attempts, receipts, highest, head, todo, work>>
  BY DEF ReceiptsFetched, ctables
<1>2. /\ ~AtWork /\ etxes' \in Seq(EthTx) /\ DOMAIN etxes' = DOMAIN etxes /\ RowInv'
      /\ todo' \subseteq DOMAIN etxes
  BY <1>1 DEF AtWork, OwnInv, RowsTyped, RowInv
<1> QED
  BY <1>1, <1>2, RowsKeep

LEMMA MarkConfirmedMissingReceiptStep ==
    ASSUME OwnInv, MarkConfirmedMissingReceipt
    PROVE OwnInv'
<1>1. PICK txs : txs = {t \in AllTxsIn({"unconfirmed"}) : Superseded(t)}
  OBVIOUS
<1>2. /\ cpc = "missing" /\ cpc' = "old"
      /\ etxes' = Mark(txs, "confirmed_missing_receipt")
      /\ UNCHANGED <<attempts, receipts, highest, head, todo, work>>
  BY <1>1 DEF MarkConfirmedMissingReceipt
<1>3. \A t \in txs : t \in DOMAIN etxes /\ etxes[t].state = "unconfirmed"
  BY <1>1 DEF AllTxsIn, TxsIn
<1>4. /\ "confirmed_missing_receipt" \in Sent /\ RowsTyped /\ RowInv
      /\ \A t \in txs : t \in DOMAIN etxes /\ etxes[t].state \in Sent
  BY <1>3 DEF Sent, OwnInv
<1>5. /\ etxes' \in Seq(EthTx) /\ DOMAIN etxes' = DOMAIN etxes /\ RowInv'
      /\ \A t \in DOMAIN etxes : etxes'[t].state =
            IF t \in txs THEN "confirmed_missing_receipt" ELSE etxes[t].state
  BY <1>2, <1>4, MarkKeeps
<1>6. \A t \in DOMAIN etxes : etxes[t].state = "confirmed" => etxes'[t].state = "confirmed"
  BY <1>3, <1>5
<1>7. ~AtWork /\ todo' \subseteq DOMAIN etxes
  BY <1>2 DEF AtWork, OwnInv, RowsTyped
<1> QED
  BY <1>2, <1>5, <1>6, <1>7, RowsKeep

LEMMA MarkOldTxesStep ==
    ASSUME OwnInv, MarkOldTxesMissingReceiptAsErrored
    PROVE OwnInv'
<1>1. PICK old :
          /\ old \subseteq AllTxsIn({"confirmed_missing_receipt"})
          /\ etxes' = [t \in DOMAIN etxes |->
                          IF t \in old THEN GiveUpNonce(etxes[t]) ELSE etxes[t]]
  BY DEF MarkOldTxesMissingReceiptAsErrored
<1>2. /\ cpc = "old" /\ cpc' = "bump"
      /\ UNCHANGED <<attempts, receipts, highest, head, todo, work>>
  BY DEF MarkOldTxesMissingReceiptAsErrored
<1>3. \A t \in old : t \in DOMAIN etxes /\ etxes[t].state = "confirmed_missing_receipt"
  BY <1>1 DEF AllTxsIn, TxsIn
<1>4. etxes \in Seq(EthTx) /\ DOMAIN etxes = 1 .. Len(etxes) /\ Len(etxes) \in Nat
  BY DEF OwnInv, RowsTyped
<1>5. ASSUME NEW t \in DOMAIN etxes
      PROVE /\ etxes'[t] \in EthTx /\ etxes'[t].from = etxes[t].from
            /\ IF t \in old THEN etxes'[t].state = "fatal_error" /\ etxes'[t].nonce = NULL
               ELSE etxes'[t] = etxes[t]
  <2>1. etxes[t] \in EthTx
    BY <1>4
  <2>2. etxes'[t] = IF t \in old THEN GiveUpNonce(etxes[t]) ELSE etxes[t]
    BY <1>1
  <2> QED
    BY <2>1, <2>2 DEF EthTx, EthTxState, GiveUpNonce
<1>6. DOMAIN etxes' = DOMAIN etxes
  BY <1>1
<1>7. etxes' \in Seq(EthTx)
  <2>1. etxes' \in [1 .. Len(etxes) -> EthTx]
    BY <1>1, <1>4, <1>5
  <2> QED
    BY <1>4, <2>1, SeqDef
<1>8. RowInv'
  BY <1>5, <1>6 DEF OwnInv, RowInv
<1>9. \A t \in DOMAIN etxes : etxes[t].state = "confirmed" => etxes'[t].state = "confirmed"
  BY <1>3, <1>5
<1>10. ~AtWork /\ todo' \subseteq DOMAIN etxes
  BY <1>2 DEF AtWork, OwnInv, RowsTyped
<1> QED
  BY <1>2, <1>6, <1>7, <1>8, <1>9, <1>10, RowsKeep

LEMMA EarliestTyped ==
    ASSUME NEW h \in Seq(Block)
    PROVE Earliest(h) \in Nat \ {0} /\ Number(h) \in Nat
BY ConfirmerAssumption DEF Earliest, Larger, Number

\* The receipts of a transaction, and their attempts, are told by its id.
LEMMA ReceiptsById ==
    ASSUME ReceiptInv, NEW t
    PROVE \A r : r \in ReceiptsOf(t) <=> (r \in receipts /\ r.of.tx = t)
<1>1. ASSUME NEW r \in receipts
      PROVE (\E a \in AttemptsOf(attempts, t) : Signed(a) = r.of) <=> r.of.tx = t
  <2>1. PICK a \in attempts : Signed(a) = r.of
    BY DEF ReceiptInv
  <2>2. \A b : Signed(b) = r.of => r.of.tx = b.tx
    BY DEF Signed
  <2> QED
    BY <2>1, <2>2 DEF AttemptsOf
<1> QED
  BY <1>1 DEF ReceiptsOf

LEMMA BumpsFinishedStep ==
    ASSUME OwnInv, BumpsFinished
    PROVE OwnInv'
<1>1. /\ cpc = "bump" /\ \A k \in Keys : work[k].pc \in {"done", "failed"}
      /\ UNCHANGED <<etxes, attempts, receipts, highest>>
  BY DEF BumpsFinished, ctables
<1>2. CASE \E k \in Keys : work[k].pc = "failed"
  BY <1>1, <1>2, ForgetKeeps DEF BumpsFinished
<1>3. CASE ~\E k \in Keys : work[k].pc = "failed"
  <2>1. /\ cpc' = "ensure" /\ UNCHANGED <<head, work>>
        /\ todo' = {t \in ConfirmedRecently : ~HasReceiptInLongestChain(t)}
    BY <1>3 DEF BumpsFinished
  <2>2. ASSUME NEW t \in ConfirmedRecently
        PROVE t \in DOMAIN etxes /\ AttemptsOf(attempts, t) # {}
    BY DEF ConfirmedRecently, AllTxsIn, TxsIn
  <2>3. RowsTyped'
    BY <1>1, <2>1, <2>2 DEF OwnInv, RowsTyped, ConfirmerPC
  <2>4. RowInv' /\ PriceInv' /\ ReceiptInv'
    BY <1>1 DEF OwnInv, RowInv, PriceInv, InProgressIsHighest, FitsTx, ReceiptInv
  <2>5. WorkInv'
    <3>1. ASSUME NEW k \in Keys
          PROVE /\ work'[k].list = {} /\ work'[k].cur = 0
                /\ work'[k].pc \notin {"send", "sent"}
      BY <1>1, <1>3, <2>1 DEF OwnInv, WorkInv, WorkOf
    <3> QED
      BY <3>1, RestKeeps
  <2>6. \A t \in todo' : AttemptsOf(attempts', t) # {} /\ ~HasReceiptInLongestChain(t)'
    BY <1>1, <2>1, <2>2 DEF HasReceiptInLongestChain, ReceiptsOf
  <2>7. ASSUME NEW r \in receipts, NEW a \in attempts, a.state = "broadcast", Signed(a) = r.of,
               ~(r.num < Earliest(head)), ~InLongestChain(r, head)
        PROVE r.of.tx \in todo'
    <3>1. r.of.tx = a.tx /\ a.tx \in DOMAIN etxes /\ etxes[a.tx].state = "confirmed"
          /\ etxes[a.tx].from \in Keys
      BY <2>7, TxTyped DEF OwnInv, ReceiptInv, PriceInv, FitsTx, Signed
    <3>2. r.num >= Earliest(head)
      BY <2>7, EarliestTyped DEF OwnInv, RowsTyped, ReceiptRow
    <3>3. a.tx \in ConfirmedRecently
      BY <2>7, <3>1, <3>2 DEF ConfirmedRecently, AllTxsIn, TxsIn, AttemptsOf
    <3>4. ~HasReceiptInLongestChain(a.tx)
      BY <2>7, <3>1, ReceiptsById DEF HasReceiptInLongestChain, OwnInv, ReceiptInv
    <3> QED
      BY <2>1, <3>1, <3>3, <3>4
  <2>8. \A r \in receipts' : Accounted(r)'
    BY <1>1, <2>1, <2>7 DEF Accounted
  <2>9. PhaseInv'
    BY <2>1, <2>6, <2>8 DEF PhaseInv
  <2> QED
    BY <2>3, <2>4, <2>5, <2>9 DEF OwnInv
<1> QED
  BY <1>2, <1>3

\* The attempt that is sent again is the dearest: none is in progress yet.
LEMMA RebroadcastFits ==
    ASSUME OwnInv, NEW t, CanRebroadcast(t), AttemptsOf(attempts, t) # {},
           NEW b, b = SentAgain(HighestAttempt(attempts, t))
    PROVE /\ b \in EthTxAttempt /\ FitsTx(b) /\ b.tx = t /\ b.state = "in_progress"
          /\ \A a \in AttemptsOf(attempts, t) :
                a.price <= b.price /\ a.state # "in_progress"
<1>1. PICK h : h = HighestAttempt(attempts, t)
  OBVIOUS
<1>2. /\ h \in attempts /\ h.tx = t /\ h.state = "broadcast"
      /\ \A a \in AttemptsOf(attempts, t) : a.price <= h.price
  BY <1>1, HighestExists DEF OwnInv, CanRebroadcast
<1>3. /\ b \in EthTxAttempt /\ FitsTx(b) /\ b.tx = t /\ b.state = "in_progress"
      /\ b.price = h.price
  BY <1>1, <1>2, AgainFits
<1>4. ASSUME NEW a \in AttemptsOf(attempts, t), a.state = "in_progress"
      PROVE FALSE
  <2>1. a \in attempts /\ a.tx = t /\ a.price <= h.price
    BY <1>2 DEF AttemptsOf
  <2>2. h.price <= a.price
    BY <1>2, <1>4, <2>1 DEF OwnInv, PriceInv, InProgressIsHighest, AttemptsOf
  <2>3. a.price \in Nat /\ h.price \in Nat
    BY <1>2, <2>1 DEF OwnInv, RowsTyped, EthTxAttempt
  <2>4. a = h
    BY <1>2, <2>1, <2>2, <2>3 DEF OwnInv, PriceInv
  <2> QED
    BY <1>2, <1>4, <2>4
<1> QED
  BY <1>2, <1>3, <1>4

LEMMA MarkForRebroadcastStep ==
    ASSUME OwnInv, MarkForRebroadcast
    PROVE OwnInv'
<1>1. PICK t \in todo :
          IF CanRebroadcast(t)
          THEN /\ receipts' = DeleteAllReceipts(t)
               /\ etxes' = Mark({t}, "unconfirmed")
               /\ attempts' = WithAttempt(SentAgain(HighestAttempt(attempts, t)))
               /\ todo' = todo \ {t}
               /\ UNCHANGED <<head, cpc, work>>
          ELSE Forget /\ UNCHANGED ctables
  BY DEF MarkForRebroadcast
<1>2. cpc = "ensure" /\ UNCHANGED highest /\ ~AtWork
  BY DEF MarkForRebroadcast, AtWork
<1>3. CASE ~CanRebroadcast(t)
  BY <1>1, <1>2, <1>3, ForgetKeeps DEF ctables
<1>4. CASE CanRebroadcast(t)
  <2>1. PICK b, txs : b = SentAgain(HighestAttempt(attempts, t)) /\ txs = {t}
    OBVIOUS
  <2>2. /\ receipts' = DeleteAllReceipts(t) /\ etxes' = Mark(txs, "unconfirmed")
        /\ attempts' = WithAttempt(b) /\ todo' = todo \ {t}
        /\ UNCHANGED <<head, cpc, work>>
    BY <1>1, <1>4, <2>1
  <2>3. /\ RowsTyped /\ RowInv /\ t \in DOMAIN etxes /\ AttemptsOf(attempts, t) # {}
        /\ "unconfirmed" \in Sent /\ \A u \in txs : u \in DOMAIN etxes /\ etxes[u].state \in Sent
    BY <1>2, <1>4, <2>1 DEF OwnInv, RowsTyped, PhaseInv, CanRebroadcast, Sent
  <2>4. /\ etxes' \in Seq(EthTx) /\ DOMAIN etxes' = DOMAIN etxes /\ RowInv'
        /\ \A u \in DOMAIN etxes :
              etxes'[u].state = IF u = t THEN "unconfirmed" ELSE etxes[u].state
    <3>1. /\ etxes' \in Seq(EthTx) /\ DOMAIN etxes' = DOMAIN etxes /\ RowInv'
          /\ \A u \in DOMAIN etxes :
                etxes'[u].state = IF u \in txs THEN "unconfirmed" ELSE etxes[u].state
      BY <2>2, <2>3, MarkKeeps
    <3> QED
      BY <2>1, <3>1
  <2>5. /\ b \in EthTxAttempt /\ FitsTx(b) /\ b.tx = t
        /\ \A a \in AttemptsOf(attempts, t) : a.price <= b.price /\ a.state # "in_progress"
    BY <1>4, <2>1, <2>3, RebroadcastFits
  <2>6. /\ attempts' \subseteq EthTxAttempt /\ PriceInv' /\ OthersStay(t) /\ SignedStays
    BY <2>2, <2>4, <2>5, SaveKeeps
  <2>7. \A r : r \in receipts' <=> (r \in receipts /\ r.of.tx # t)
    BY <2>2, ReceiptsById DEF OwnInv, DeleteAllReceipts
  <2>8. \A r \in receipts : \E a \in attempts : Signed(a) = r.of /\ r.of.tx = a.tx
                               /\ a.tx \in DOMAIN etxes
    BY DEF OwnInv, ReceiptInv, PriceInv, FitsTx, Signed
  <2>9. ReceiptInv'
    <3>1. \A r \in receipts' : \E a \in attempts' : Signed(a) = r.of
      BY <2>6, <2>7 DEF OwnInv, ReceiptInv, SignedStays
    <3>2. \A r \in receipts' : etxes'[r.of.tx].state = "confirmed"
      BY <2>4, <2>7, <2>8 DEF OwnInv, ReceiptInv
    <3>3. \A r, s \in receipts' : r.of.tx = s.of.tx => r = s
      BY <2>7 DEF OwnInv, ReceiptInv
    <3> QED
      BY <3>1, <3>2, <3>3 DEF ReceiptInv
  <2>10. WorkInv'
    BY <1>2, <2>2, IdleKeeps
  <2>11. RowsTyped'
    BY <1>2, <2>2, <2>3, <2>4, <2>6, <2>7 DEF RowsTyped
  <2>12. ASSUME NEW u \in todo'
         PROVE AttemptsOf(attempts', u) # {} /\ ~HasReceiptInLongestChain(u)'
    <3>1. u # t /\ u \in todo /\ AttemptsOf(attempts, u) # {} /\ ~HasReceiptInLongestChain(u)
      BY <1>2, <2>2 DEF OwnInv, PhaseInv
    <3>2. AttemptsOf(attempts', u) = AttemptsOf(attempts, u)
      BY <2>6, <3>1 DEF AttemptsOf, OthersStay
    <3> QED
      BY <2>2, <2>7, <3>1, <3>2 DEF HasReceiptInLongestChain, ReceiptsOf
  <2>13. ASSUME NEW r \in receipts' PROVE Accounted(r)'
    <3>1. r \in receipts /\ r.of.tx # t /\ Accounted(r)
      BY <1>2, <2>7 DEF OwnInv, PhaseInv
    <3>2. \A a \in attempts' : Signed(a) = r.of => a \in attempts
      BY <2>6, <3>1 DEF Signed, OthersStay
    <3> QED
      BY <2>2, <3>1, <3>2 DEF Accounted
  <2>14. PhaseInv'
    BY <1>2, <2>2, <2>12, <2>13 DEF PhaseInv
  <2> QED
    BY <2>4, <2>6, <2>9, <2>10, <2>11, <2>14 DEF OwnInv
<1> QED
  BY <1>3, <1>4

LEMMA RebroadcastsMarkedStep ==
    ASSUME OwnInv, RebroadcastsMarked
    PROVE OwnInv'
<1>1. /\ cpc' = "leftovers" /\ work' = Started
      /\ UNCHANGED <<etxes, attempts, receipts, highest, head, todo>>
  BY DEF RebroadcastsMarked, ctables
<1>2. work' \in [Keys -> Work] /\ WorkInv'
  BY <1>1, StartKeeps
<1>3. RowsTyped' /\ RowInv' /\ PriceInv' /\ ReceiptInv'
  BY <1>1, <1>2 DEF OwnInv, RowsTyped, ConfirmerPC, RowInv, PriceInv,
                    InProgressIsHighest, FitsTx, ReceiptInv
<1>4. PhaseInv'
  BY <1>1 DEF PhaseInv
<1> QED
  BY <1>2, <1>3, <1>4 DEF OwnInv

-----------------------------------------------------------------------------
(* The invariant *)

LEMMA HandoverInv == Handover => ConfirmerInv
<1> SUFFICES ASSUME Handover PROVE ConfirmerInv
  OBVIOUS
<1>1. /\ receipts = {} /\ highest = 0 /\ head = <<>> /\ cpc = "idle" /\ todo = {}
      /\ work = [k \in Keys |-> Goroutine("done")]
      /\ etxes = [t \in DOMAIN Broadcast |-> BroadcastTx(t)]
      /\ attempts = {BroadcastAttempt(t) : t \in DOMAIN Broadcast}
      /\ pool \subseteq {Signed(a) : a \in attempts}
      /\ chain = <<>> /\ forks = 0 /\ floor = GasPriceDefault
  BY DEF Handover, ConfirmerInit, AtRest
<1>2. /\ DOMAIN Broadcast = 1 .. Len(Broadcast) /\ Len(Broadcast) \in Nat
      /\ \A t \in DOMAIN Broadcast : t \in Nat \ {0} /\ Broadcast[t] \in Keys
  BY ConfirmerAssumption
<1>3. ASSUME NEW t \in DOMAIN Broadcast
      PROVE /\ BroadcastTx(t) \in EthTx /\ BroadcastTx(t).state = "unconfirmed"
            /\ BroadcastTx(t).from = Broadcast[t] /\ BroadcastTx(t).nonce \in Nat
  <2>1. BroadcastTx(t).nonce \in Nat
    BY OwnNonce
  <2>2. PICK n : n = Cardinality({u \in 1 .. t - 1 : Broadcast[u] = Broadcast[t]})
    OBVIOUS
  <2>3. BroadcastTx(t) = [from |-> Broadcast[t], value |-> 0, state |-> "unconfirmed",
                          nonce |-> n]
    BY <2>2 DEF BroadcastTx
  <2>4. n \in Nat
    BY <2>1, <2>3
  <2> QED
    BY <1>2, <2>3, <2>4 DEF EthTx, EthTxState
<1>4. ASSUME NEW t \in DOMAIN Broadcast
      PROVE /\ BroadcastAttempt(t) \in EthTxAttempt
            /\ BroadcastAttempt(t).tx = t /\ BroadcastAttempt(t).state = "broadcast"
            /\ BroadcastAttempt(t).from = Broadcast[t]
            /\ BroadcastAttempt(t).nonce = BroadcastTx(t).nonce
            /\ BroadcastAttempt(t).price = GasPriceDefault
  <2>1. PICK tx : tx = BroadcastTx(t)
    OBVIOUS
  <2>2. tx.from \in Keys /\ tx.nonce \in Nat /\ tx.from = Broadcast[t]
    BY <1>2, <1>3, <2>1
  <2>3. BroadcastAttempt(t) = [NewAttempt(t, tx, GasPriceDefault) EXCEPT !.state = "broadcast"]
    BY <2>1 DEF BroadcastAttempt
  <2> QED
    BY <1>2, <2>1, <2>2, <2>3, GasAssumption DEF NewAttempt, EthTxAttempt, EthTxAttemptState
<1>5. \A a \in attempts : \E t \in DOMAIN Broadcast : a = BroadcastAttempt(t)
  BY <1>1
<1>6. RowsTyped
  <2>1. etxes \in Seq(EthTx)
    BY <1>1, <1>2, <1>3, SeqDef
  <2>2. Goroutine("done") \in Work
    BY DEF Goroutine, Work, Replies
  <2>3. attempts \subseteq EthTxAttempt
    BY <1>4, <1>5
  <2> QED
    BY <1>1, <2>1, <2>2, <2>3 DEF RowsTyped, ConfirmerPC
<1>7. RowInv
  BY <1>1, <1>3 DEF RowInv, Sent
<1>8. PriceInv
  <2>1. \A a \in attempts : FitsTx(a)
    BY <1>1, <1>4, <1>5, GasAssumption DEF FitsTx
  <2>2. \A a, b \in attempts : a.tx = b.tx /\ a.price = b.price => a = b
    BY <1>4, <1>5
  <2>3. InProgressIsHighest
    BY <1>4, <1>5 DEF InProgressIsHighest
  <2> QED
    BY <2>1, <2>2, <2>3 DEF PriceInv
<1>9. ReceiptInv /\ PhaseInv
  BY <1>1 DEF ReceiptInv, PhaseInv
<1>10. WorkInv
  BY <1>1 DEF WorkInv, WorkOf, Goroutine
<1>11. pool \subseteq SignedTx
  BY <1>1, <1>6, SignedTyped DEF RowsTyped
<1>12. IsFiniteSet(pool)
  <2>1. IsFiniteSet(DOMAIN Broadcast)
    BY <1>2, FS_Interval
  <2>2. [t \in DOMAIN Broadcast |-> Signed(BroadcastAttempt(t))]
            \in Surjection(DOMAIN Broadcast, {Signed(BroadcastAttempt(t)) : t \in DOMAIN Broadcast})
    BY DEF Surjection
  <2>3. IsFiniteSet({Signed(BroadcastAttempt(t)) : t \in DOMAIN Broadcast})
    BY <2>1, <2>2, FS_Surjection
  <2>4. pool \subseteq {Signed(BroadcastAttempt(t)) : t \in DOMAIN Broadcast}
    BY <1>1
  <2> QED
    BY <2>3, <2>4, FS_Subset
<1>13. NodeTypeOK
  <2>1. chain \in Seq(Block) /\ Len(chain) = 0
    BY <1>1
  <2> QED
    BY <1>1, <1>11, <2>1, NodeAssumption, GasAssumption DEF NodeTypeOK
<1>14. FiniteBlocks(chain) /\ Used(chain) /\ Once(chain)
  BY <1>1 DEF FiniteBlocks, Used, Once, Below
<1> QED
  BY <1>6, <1>7, <1>8, <1>9, <1>10, <1>12, <1>13, <1>14 DEF ConfirmerInv, OwnInv, NodeInv

LEMMA KeyStepKeeps ==
    ASSUME ConfirmerInv, KeysApart, NEW k \in Keys, KeyStep(k)
    PROVE ConfirmerInv'
<1>1. CASE \E answer \in Replies : Resend(k, answer)
  BY <1>1, ResendStep
<1>2. CASE QueryLeftovers(k) \/ PickLeftover(k) \/ LeftoversDone(k) \/ Bump(k) \/ BumpsDone(k)
  <2>1. UNCHANGED node
    BY <1>2 DEF QueryLeftovers, PickLeftover, LeftoversDone, Bump, BumpsDone
  <2>2. OwnInv'
    BY <1>2, QueryLeftoversStep, PickLeftoverStep, LeftoversDoneStep, BumpStep, BumpsDoneStep
       DEF ConfirmerInv
  <2> QED
    BY <2>1, <2>2, NodeInvStays DEF ConfirmerInv
<1>3. CASE SaveSent(k) \/ SaveInsufficientEth(k) \/ Replace(k) \/ DeleteAttempt(k)
  <2>1. UNCHANGED node
    BY <1>3 DEF SaveSent, SaveInsufficientEth, Replace, DeleteAttempt
  <2>2. OwnInv'
    BY <1>3, SaveStateStep, ReplaceStep, DeleteAttemptStep DEF ConfirmerInv
  <2> QED
    BY <2>1, <2>2, NodeInvStays DEF ConfirmerInv
<1>4. CASE ResendFails(k)
  <2>1. /\ AtWork /\ work[k].pc = "sent" /\ Then(k, "failed") /\ UNCHANGED node
        /\ UNCHANGED <<etxes, attempts, receipts, highest, head, cpc, todo>>
    BY <1>4 DEF ResendFails, Answered, AtWork, ctables
  <2>2. OwnInv'
    BY <2>1, ResendFailsStep DEF ConfirmerInv
  <2> QED
    BY <2>1, <2>2, NodeInvStays DEF ConfirmerInv
<1> QED
  BY <1>1, <1>2, <1>3, <1>4 DEF KeyStep

LEMMA ConfirmerStepKeeps ==
    ASSUME ConfirmerInv, KeysApart, ConfirmerStep
    PROVE ConfirmerInv'
<1>1. CASE OnNewLongestChain
  BY <1>1, OnNewLongestChainStep, NodeInvStays DEF ConfirmerInv, OnNewLongestChain
<1>2. ASSUME NEW t \in todo, FetchReceipt(t) \/ FetchFails(t)
      PROVE ConfirmerInv'
  <2>1. OwnInv'
    BY <1>2, FetchReceiptStep, FetchFailsStep DEF ConfirmerInv
  <2>2. UNCHANGED node
    BY <1>2 DEF FetchReceipt, FetchFails
  <2> QED
    BY <2>1, <2>2, NodeInvStays DEF ConfirmerInv
<1>3. CASE ReceiptsFetched \/ MarkConfirmedMissingReceipt \/ MarkOldTxesMissingReceiptAsErrored
  <2>1. OwnInv'
    BY <1>3, ReceiptsFetchedStep, MarkConfirmedMissingReceiptStep, MarkOldTxesStep
       DEF ConfirmerInv
  <2>2. UNCHANGED node
    BY <1>3 DEF ReceiptsFetched, MarkConfirmedMissingReceipt, MarkOldTxesMissingReceiptAsErrored
  <2> QED
    BY <2>1, <2>2, NodeInvStays DEF ConfirmerInv
<1>4. ASSUME NEW k \in Keys, KeyStep(k)
      PROVE ConfirmerInv'
  BY <1>4, KeyStepKeeps
<1>5. CASE BumpsFinished \/ MarkForRebroadcast \/ RebroadcastsMarked
  <2>1. OwnInv'
    BY <1>5, BumpsFinishedStep, MarkForRebroadcastStep, RebroadcastsMarkedStep
       DEF ConfirmerInv
  <2>2. UNCHANGED node
    BY <1>5 DEF BumpsFinished, MarkForRebroadcast, RebroadcastsMarked
  <2> QED
    BY <2>1, <2>2, NodeInvStays DEF ConfirmerInv
<1>6. CASE HeadProcessed
  <2>1. Forget /\ UNCHANGED <<etxes, attempts, receipts, highest>> /\ UNCHANGED node
    BY <1>6 DEF HeadProcessed, ctables
  <2> QED
    BY <2>1, ForgetKeeps, NodeInvStays DEF ConfirmerInv
<1> QED
  BY <1>1, <1>2, <1>3, <1>4, <1>5, <1>6 DEF ConfirmerStep

LEMMA ConfirmerInvNext ==
    ASSUME ConfirmerInv, KeysApart, [ConfirmerNext]_cvars
    PROVE ConfirmerInv'
<1>1. CASE ConfirmerStep
  BY <1>1, ConfirmerStepKeeps
<1>2. CASE ConfirmerCrash /\ UNCHANGED node
  <2>1. Forget /\ UNCHANGED <<etxes, attempts, receipts, highest>>
    BY <1>2 DEF ConfirmerCrash, ctables
  <2> QED
    BY <1>2, <2>1, ForgetKeeps, NodeInvStays DEF ConfirmerInv
<1>3. ASSUME UNCHANGED <<ctables, highest, clocal>>
      PROVE OwnInv'
  <2>1. UNCHANGED <<etxes, attempts, receipts, highest, head, cpc, todo, work>>
    BY <1>3 DEF ctables, clocal
  <2>2. RowsTyped' /\ RowInv' /\ PriceInv' /\ ReceiptInv'
    BY <2>1 DEF ConfirmerInv, OwnInv, RowsTyped, RowInv, PriceInv,
                InProgressIsHighest, FitsTx, ReceiptInv
  <2>3. WorkInv'
    BY <2>1 DEF ConfirmerInv, OwnInv, WorkInv, WorkOf, AtWork, Resendable, TxsIn
  <2>4. PhaseInv'
    BY <2>1 DEF ConfirmerInv, OwnInv, PhaseInv, Accounted, InLongestChain,
                HasReceiptInLongestChain, ReceiptsOf
  <2> QED
    BY <2>2, <2>3, <2>4 DEF OwnInv
<1>4. CASE NodeNext /\ UNCHANGED <<ctables, highest, clocal>>
  BY <1>3, <1>4, NodeStep DEF ConfirmerInv
<1>5. CASE UNCHANGED cvars
  BY <1>3, <1>5, NodeInvStays DEF cvars, ConfirmerInv
<1> QED
  BY <1>1, <1>2, <1>4, <1>5 DEF ConfirmerNext

-----------------------------------------------------------------------------
(* What follows from it *)

LEMMA OneReceipt ==
    ASSUME OwnInv, NEW t \in DOMAIN etxes
    PROVE /\ Cardinality(ReceiptsOf(t)) <= 1
          /\ ReceiptsOf(t) # {} => etxes[t].state = "confirmed"
<1>1. \A r \in ReceiptsOf(t) : r \in receipts /\ r.of.tx = t
  BY ReceiptsById DEF OwnInv
<1>2. CASE ReceiptsOf(t) = {}
  BY <1>2, FS_EmptySet
<1>3. CASE ReceiptsOf(t) # {}
  <2>1. PICK r \in ReceiptsOf(t) : TRUE
    BY <1>3
  <2>2. ReceiptsOf(t) = {r}
    BY <1>1, <2>1 DEF OwnInv, ReceiptInv
  <2>3. Cardinality(ReceiptsOf(t)) = 1
    BY <2>2, FS_Singleton
  <2>4. etxes[t].state = "confirmed"
    BY <1>1, <2>1 DEF OwnInv, ReceiptInv
  <2> QED
    BY <2>3, <2>4
<1> QED
  BY <1>2, <1>3

LEMMA InvImpliesTypeOK == ConfirmerInv => ConfirmerTypeOK
<1> SUFFICES ASSUME ConfirmerInv PROVE ConfirmerTypeOK
  OBVIOUS
<1>1. NodeTypeOK /\ RowsTyped
  BY DEF ConfirmerInv, NodeInv, OwnInv
<1>2. ConstraintsHold(etxes, attempts)
  BY TxConstraints DEF ConfirmerInv
<1>3. \A k \in Keys : work[k].cur # 0 <=> work[k].pc \in {"send", "sent"}
  BY DEF ConfirmerInv, OwnInv, WorkInv, WorkOf
<1> QED
  BY <1>1, <1>2, <1>3 DEF ConfirmerTypeOK, RowsTyped, ReceiptRow

LEMMA InvImpliesNoReceiptOfAnotherChain == ConfirmerInv => NoReceiptOfAnotherChain
<1> SUFFICES ASSUME ConfirmerInv, cpc = "ensure", todo = {}, NEW r \in receipts,
                    \E a \in attempts : a.state = "broadcast" /\ Signed(a) = r.of
             PROVE \/ r.num < Earliest(head)
                   \/ (r.num <= Number(head) /\ head[r.num].fork = r.fork)
  BY DEF NoReceiptOfAnotherChain
<1>1. r.num < Earliest(head) \/ InLongestChain(r, head)
  BY DEF ConfirmerInv, OwnInv, PhaseInv, Accounted
<1>2. Earliest(head) \in Nat /\ Number(head) \in Nat
  BY EarliestTyped DEF ConfirmerInv, OwnInv, RowsTyped
<1> QED
  BY <1>1, <1>2 DEF InLongestChain

\* Only markForRebroadcast takes a confirmation back.
LEMMA StepSendsAgain ==
    ASSUME ConfirmerInv, [ConfirmerNext]_cvars,
           NEW t \in AllTxsIn({"confirmed"}), etxes'[t].state # "confirmed"
    PROVE /\ etxes'[t].state = "unconfirmed"
          /\ \E a \in attempts' : a.tx = t /\ a.state = "in_progress"
          /\ ~HasReceiptInLongestChain(t)
<1>1. t \in DOMAIN etxes /\ etxes[t].state = "confirmed"
  BY DEF AllTxsIn, TxsIn
<1>2. etxes' # etxes
  BY <1>1
<1>3. \A txs, state : Mark(txs, state)[t] = IF t \in txs THEN [etxes[t] EXCEPT !.state = state]
                                            ELSE etxes[t]
  BY <1>1 DEF Mark
<1>4. etxes[t] \in EthTx
  BY <1>1 DEF ConfirmerInv, OwnInv, RowsTyped
<1>5. MarkForRebroadcast
  <2>1. \A u \in todo : ~FetchReceipt(u)
    BY <1>1, <1>2, <1>3, <1>4 DEF FetchReceipt, EthTx
  <2>2. ASSUME MarkConfirmedMissingReceipt PROVE FALSE
    <3>1. PICK txs : /\ txs = {v \in AllTxsIn({"unconfirmed"}) : Superseded(v)}
                     /\ etxes' = Mark(txs, "confirmed_missing_receipt")
      BY <2>2 DEF MarkConfirmedMissingReceipt
    <3>2. t \notin txs
      BY <1>1, <3>1 DEF AllTxsIn, TxsIn
    <3> QED
      BY <1>1, <1>3, <3>1, <3>2
  <2>3. ~MarkOldTxesMissingReceiptAsErrored
    BY <1>1 DEF MarkOldTxesMissingReceiptAsErrored, AllTxsIn, TxsIn
  <2>4. \A k \in Keys : ~KeyStep(k)
    BY <1>2 DEF KeyStep, QueryLeftovers, PickLeftover, LeftoversDone, Bump, BumpsDone, Resend,
                SaveSent, SaveInsufficientEth, Replace, DeleteAttempt, ResendFails, ctables
  <2>5. /\ ~OnNewLongestChain /\ \A u \in todo : ~FetchFails(u)
        /\ ~ReceiptsFetched /\ ~BumpsFinished /\ ~RebroadcastsMarked /\ ~HeadProcessed
    BY <1>2 DEF OnNewLongestChain, FetchFails, ReceiptsFetched, BumpsFinished,
                RebroadcastsMarked, HeadProcessed, ctables
  <2>6. ~ConfirmerCrash /\ ~UNCHANGED <<ctables, highest, clocal>> /\ ~UNCHANGED cvars
    BY <1>2 DEF ConfirmerCrash, ctables, cvars
  <2> QED
    BY <2>1, <2>2, <2>3, <2>4, <2>5, <2>6 DEF ConfirmerNext, ConfirmerStep
<1>6. PICK u \in todo :
          IF CanRebroadcast(u)
          THEN /\ etxes' = Mark({u}, "unconfirmed")
               /\ attempts' = WithAttempt(SentAgain(HighestAttempt(attempts, u)))
          ELSE UNCHANGED ctables
  BY <1>5 DEF MarkForRebroadcast
<1>7. CanRebroadcast(u) /\ etxes' = Mark({u}, "unconfirmed")
      /\ attempts' = WithAttempt(SentAgain(HighestAttempt(attempts, u)))
  BY <1>2, <1>6 DEF ctables
<1>8. u = t /\ etxes'[t].state = "unconfirmed"
  <2>1. PICK txs : txs = {u}
    OBVIOUS
  <2>2. etxes'[t] = IF t \in txs THEN [etxes[t] EXCEPT !.state = "unconfirmed"] ELSE etxes[t]
    BY <1>3, <1>7, <2>1
  <2>3. t \in txs
    BY <1>1, <2>2
  <2> QED
    BY <1>4, <2>1, <2>2, <2>3 DEF EthTx
<1>9. AttemptsOf(attempts, t) # {} /\ ~HasReceiptInLongestChain(t)
  BY <1>5, <1>6, <1>8 DEF MarkForRebroadcast, ConfirmerInv, OwnInv, PhaseInv
<1>10. PICK b : b = SentAgain(HighestAttempt(attempts, t))
  OBVIOUS
<1>11. b.tx = t /\ b.state = "in_progress"
  BY <1>7, <1>8, <1>9, <1>10, RebroadcastFits DEF ConfirmerInv
<1>12. b \in attempts'
  BY <1>7, <1>8, <1>10 DEF WithAttempt
<1> QED
  BY <1>8, <1>9, <1>11, <1>12

-----------------------------------------------------------------------------
(* What is left in progress *)

\* Once a goroutine has asked for its leftovers, what its key has in progress is
\* on its list, or in hand.
Taken(k) ==
    work[k].pc \in {"pick", "send", "sent", "done"} =>
        \A t \in TxsIn(etxes, k, Sent) : Resendable(t) =>
            t = work[k].cur \/ (work[k].stage = "leftovers" /\ t \in work[k].list)

\* It asks for them after the receipts.
LeftInv ==
    /\ cpc \in {"receipts", "missing", "old"} => \A k \in Keys : work[k].pc = "query"
    /\ AtWork => \A k \in Keys : Taken(k)

\* A goroutine at work changes the attempts of its own key only.
LEMMA KeyTakes ==
    ASSUME LeftInv, AtWork, NEW k \in Keys, UNCHANGED <<etxes, cpc>>,
           \A l \in Keys \ {k} :
              /\ work'[l] = work[l]
              /\ \A t \in TxsIn(etxes, l, Sent) : Resendable(t)' => Resendable(t),
           Taken(k)'
    PROVE LeftInv'
<1>1. ASSUME NEW l \in Keys \ {k} PROVE Taken(l)'
  <2>1. Taken(l) /\ work'[l] = work[l] /\ TxsIn(etxes, l, Sent)' = TxsIn(etxes, l, Sent)
    BY DEF LeftInv, TxsIn
  <2> QED
    BY <2>1 DEF Taken
<1> QED
  BY <1>1 DEF LeftInv, AtWork

LEMMA KeyMovesTakes ==
    ASSUME LeftInv, AtWork, NEW k \in Keys, UNCHANGED <<etxes, attempts, cpc>>,
           \A l \in Keys \ {k} : work'[l] = work[l], Taken(k)'
    PROVE LeftInv'
<1>1. \A t : Resendable(t)' => Resendable(t)
  BY DEF Resendable
<1> QED
  BY <1>1, KeyTakes

LEMMA OneTxTakes ==
    ASSUME OwnInv, LeftInv, AtWork, NEW k \in Keys, NEW u \in TxsIn(etxes, k, Sent),
           UNCHANGED <<etxes, cpc>>, OthersStay(u),
           \A l \in Keys \ {k} : work'[l] = work[l], Taken(k)'
    PROVE LeftInv'
<1>1. ASSUME NEW l \in Keys \ {k}, NEW t \in TxsIn(etxes, l, Sent), Resendable(t)'
      PROVE Resendable(t)
  <2>1. t # u
    BY DEF TxsIn
  <2> QED
    BY <1>1, <2>1 DEF Resendable, OthersStay
<1> QED
  BY <1>1, KeyTakes

LEMMA ListStepsTake ==
    ASSUME OwnInv, LeftInv, NEW k \in Keys,
           \/ QueryLeftovers(k) \/ PickLeftover(k)
           \/ LeftoversDone(k) \/ BumpsDone(k)
    PROVE LeftInv'
<1>1. AtWork /\ UNCHANGED <<etxes, attempts, cpc>>
  BY DEF QueryLeftovers, PickLeftover, LeftoversDone, BumpsDone, Running, AtWork, ctables
<1>2. /\ \A t : Resendable(t)' => Resendable(t)
      /\ TxsIn(etxes, k, Sent)' = TxsIn(etxes, k, Sent)
      /\ 0 \notin TxsIn(etxes, k, Sent)
  BY <1>1, TxsAreIds DEF Resendable, OwnInv
<1>3. CASE QueryLeftovers(k)
  <2> DEFINE left == {t \in TxsIn(etxes, k, Sent) :
                         \E a \in AttemptsOf(attempts, t) : a.state = "in_progress"}
  <2>1. work[k].stage = "leftovers" /\ work' = [work EXCEPT ![k].pc = "pick", ![k].list = left]
    BY <1>3 DEF QueryLeftovers, Running
  <2>2. \A t \in TxsIn(etxes, k, Sent) : Resendable(t) => t \in left
    BY DEF Resendable, AttemptsOf
  <2> HIDE DEF left
  <2>3. /\ \A l \in Keys \ {k} : work'[l] = work[l]
        /\ work'[k].stage = "leftovers" /\ work'[k].list = left
    BY <2>1 DEF OwnInv, RowsTyped, Work
  <2>4. Taken(k)'
    BY <1>2, <2>2, <2>3 DEF Taken
  <2> QED
    BY <1>1, <2>3, <2>4, KeyMovesTakes
<1>4. CASE PickLeftover(k)
  <2>1. work[k].stage = "leftovers" /\ work[k].pc = "pick"
    BY <1>4 DEF PickLeftover, Running
  <2>2. PICK u \in work[k].list :
            work' = [work EXCEPT ![k].pc = "send", ![k].cur = u, ![k].list = @ \ {u}]
    BY <1>4 DEF PickLeftover
  <2>3. /\ \A l \in Keys \ {k} : work'[l] = work[l]
        /\ work'[k].stage = "leftovers" /\ work'[k].list = work[k].list \ {u}
        /\ work'[k].cur = u
    BY <2>1, <2>2 DEF OwnInv, RowsTyped, Work
  <2>4. work[k].cur = 0
    BY <2>1, WorkTyped DEF OwnInv, WorkInv, WorkOf
  <2>5. \A t \in TxsIn(etxes, k, Sent) : Resendable(t) => t \in work[k].list
    BY <1>1, <1>2, <2>1, <2>4 DEF LeftInv, Taken
  <2>6. Taken(k)'
    BY <1>2, <2>3, <2>5 DEF Taken
  <2> QED
    BY <1>1, <2>3, <2>6, KeyMovesTakes
<1>5. CASE LeftoversDone(k) \/ BumpsDone(k)
  <2>1. work[k].pc = "pick" /\ work[k].list = {}
    BY <1>5 DEF LeftoversDone, BumpsDone, Running
  <2>2. \A l \in Keys \ {k} : work'[l] = work[l]
    BY <1>5 DEF LeftoversDone, BumpsDone, OwnInv, RowsTyped
  <2>3. work[k].cur = 0
    BY <2>1, WorkTyped DEF OwnInv, WorkInv, WorkOf
  <2>4. \A t \in TxsIn(etxes, k, Sent) : ~Resendable(t)
    BY <1>1, <1>2, <2>1, <2>3 DEF LeftInv, Taken
  <2>5. Taken(k)'
    BY <1>2, <2>4 DEF Taken
  <2> QED
    BY <1>1, <2>2, <2>5, KeyMovesTakes
<1> QED
  BY <1>3, <1>4, <1>5

LEMMA BumpTakes ==
    ASSUME OwnInv, LeftInv, NEW k \in Keys, Bump(k)
    PROVE LeftInv'
<1>1. /\ AtWork /\ work[k].stage = "bumps" /\ work[k].pc = "pick" /\ UNCHANGED <<etxes, cpc>>
  BY DEF Bump, Running, AtWork
<1>2. PICK t \in work[k].list :
          IF \E a \in AttemptsOf(attempts, t) : a.state = "in_progress"
          THEN work' = [work EXCEPT ![k].pc = "failed"] /\ UNCHANGED attempts
          ELSE /\ attempts' = WithAttempt(AttemptWithGasBump(t))
               /\ work' = [work EXCEPT ![k].pc = "send", ![k].cur = t, ![k].list = @ \ {t}]
  BY DEF Bump
<1>3. work[k].cur = 0 /\ t \in TxsIn(etxes, k, Sent)
  BY <1>1, <1>2, WorkTyped DEF OwnInv, WorkInv, WorkOf
<1>4. CASE \E a \in AttemptsOf(attempts, t) : a.state = "in_progress"
  <2>1. work' = [work EXCEPT ![k].pc = "failed"] /\ UNCHANGED attempts
    BY <1>2, <1>4
  <2>2. work'[k].pc = "failed" /\ \A l \in Keys \ {k} : work'[l] = work[l]
    BY <2>1 DEF OwnInv, RowsTyped, Work
  <2>3. Taken(k)'
    BY <2>2 DEF Taken
  <2> QED
    BY <1>1, <2>1, <2>2, <2>3, KeyMovesTakes
<1>5. CASE ~\E a \in AttemptsOf(attempts, t) : a.state = "in_progress"
  <2>1. PICK b : b = AttemptWithGasBump(t)
    OBVIOUS
  <2>2. /\ attempts' = WithAttempt(b)
        /\ work' = [work EXCEPT ![k].pc = "send", ![k].cur = t, ![k].list = @ \ {t}]
    BY <1>2, <1>5, <2>1
  <2>3. b.tx = t
    BY <1>3, <2>1, BumpFits
  <2>4. OthersStay(t)
    BY <2>2, <2>3 DEF WithAttempt, OthersStay
  <2>5. work'[k].cur = t /\ \A l \in Keys \ {k} : work'[l] = work[l]
    BY <2>2 DEF OwnInv, RowsTyped, Work
  <2>6. \A u \in TxsIn(etxes, k, Sent) : ~Resendable(u)
    <3>1. 0 \notin TxsIn(etxes, k, Sent)
      BY TxsAreIds DEF OwnInv
    <3> QED
      BY <1>1, <1>3, <3>1 DEF LeftInv, Taken
  <2>7. \A u \in TxsIn(etxes, k, Sent) : u # t => ~Resendable(u)'
    BY <2>4, <2>6 DEF Resendable, OthersStay
  <2>8. Taken(k)'
    BY <1>1, <2>5, <2>7 DEF Taken, TxsIn
  <2> QED
    BY <1>1, <1>3, <2>4, <2>5, <2>8, OneTxTakes
<1> QED
  BY <1>4, <1>5

LEMMA ResendTakes ==
    ASSUME OwnInv, LeftInv, NEW k \in Keys, NEW answer, Resend(k, answer)
    PROVE LeftInv'
<1>1. /\ AtWork /\ work[k].pc = "send" /\ UNCHANGED <<etxes, attempts, cpc>>
      /\ work' = [work EXCEPT ![k].pc = "sent", ![k].reply = answer]
  BY DEF Resend, AtWork, ctables
<1>2. /\ \A l \in Keys \ {k} : work'[l] = work[l]
      /\ work'[k].stage = work[k].stage /\ work'[k].list = work[k].list
      /\ work'[k].cur = work[k].cur
  BY <1>1 DEF OwnInv, RowsTyped, Work
<1>3. Taken(k)'
  BY <1>1, <1>2 DEF LeftInv, Taken, Resendable, TxsIn
<1> QED
  BY <1>1, <1>2, <1>3, KeyMovesTakes

\* What was sent is no longer in progress, or another attempt is in its place.
LEMMA AnswerTakes ==
    ASSUME OwnInv, LeftInv, NEW k \in Keys, AtWork, work[k].pc = "sent",
           NEW pc \in {"pick", "send", "failed"}, Then(k, pc), UNCHANGED <<etxes, cpc>>,
           NEW u, u = work[k].cur, OthersStay(u), pc = "pick" => ~Resendable(u)'
    PROVE LeftInv'
<1>1. u \in TxsIn(etxes, k, Sent)
  BY WorkTyped DEF OwnInv, WorkInv, WorkOf
<1>2. /\ \A l \in Keys \ {k} : work'[l] = work[l]
      /\ work'[k].stage = work[k].stage /\ work'[k].pc = pc
      /\ work'[k].list = work[k].list
      /\ work'[k].cur = IF pc = "send" THEN u ELSE 0
  BY ThenMoves DEF OwnInv
<1>3. ASSUME NEW t \in TxsIn(etxes, k, Sent), t # u, Resendable(t)'
      PROVE work[k].stage = "leftovers" /\ t \in work[k].list
  <2>1. Resendable(t)
    BY <1>3 DEF Resendable, OthersStay
  <2> QED
    BY <1>3, <2>1 DEF LeftInv, Taken
<1>4. TxsIn(etxes, k, Sent)' = TxsIn(etxes, k, Sent)
  BY DEF TxsIn
<1>5. Taken(k)'
  BY <1>2, <1>3, <1>4 DEF Taken
<1> QED
  BY <1>1, <1>2, <1>5, OneTxTakes

LEMMA AnsweredTakes ==
    ASSUME OwnInv, LeftInv, NEW k \in Keys,
           \/ SaveSent(k) \/ SaveInsufficientEth(k)
           \/ Replace(k) \/ DeleteAttempt(k) \/ ResendFails(k)
    PROVE LeftInv'
<1>0. PICK a : a = InHand(k)
  OBVIOUS
<1>1. AtWork /\ work[k].pc = "sent" /\ UNCHANGED <<etxes, cpc>>
  BY DEF SaveSent, SaveInsufficientEth, Replace, DeleteAttempt, ResendFails, Answered,
         AtWork, ctables
<1>2. /\ a \in attempts /\ a.tx = work[k].cur /\ a \in EthTxAttempt
      /\ \A b \in AttemptsOf(attempts, a.tx) : b.state = "in_progress" => b = a
  BY <1>0, <1>1, InHandExists
<1>3. CASE SaveSent(k) \/ SaveInsufficientEth(k)
  <2>1. PICK state \in {"broadcast", "insufficient_eth"} :
            attempts' = WithAttempt([a EXCEPT !.state = state])
    BY <1>0, <1>3 DEF SaveSent, SaveInsufficientEth
  <2>2. PICK b : b = [a EXCEPT !.state = state]
    OBVIOUS
  <2>3. b.tx = a.tx /\ b.price = a.price /\ b.state = state
    BY <1>2, <2>2 DEF EthTxAttempt
  <2>4. attempts' = {c \in attempts : c.tx # b.tx \/ c.price # b.price} \cup {b}
    BY <2>1, <2>2 DEF WithAttempt
  <2>5. OthersStay(a.tx) /\ ~Resendable(a.tx)'
    BY <1>2, <2>1, <2>3, <2>4 DEF OthersStay, Resendable, AttemptsOf
  <2>6. Then(k, "pick")
    BY <1>3 DEF SaveSent, SaveInsufficientEth
  <2> QED
    BY <1>1, <1>2, <2>5, <2>6, AnswerTakes
<1>4. CASE DeleteAttempt(k)
  <2>1. attempts' = attempts \ {a} /\ Then(k, "pick")
    BY <1>0, <1>4 DEF DeleteAttempt
  <2>2. OthersStay(a.tx) /\ ~Resendable(a.tx)'
    BY <1>2, <2>1 DEF OthersStay, Resendable, AttemptsOf
  <2> QED
    BY <1>1, <1>2, <2>1, <2>2, AnswerTakes
<1>5. CASE Replace(k) \/ ResendFails(k)
  <2>1. PICK c : c = NewAttempt(a.tx, etxes[a.tx], BumpedGasPrice(a.price))
    OBVIOUS
  <2>2. c.tx = a.tx
    BY <2>1 DEF NewAttempt
  <2>3. \/ attempts' = (attempts \ {a}) \cup {c} /\ Then(k, "send")
        \/ attempts' = attempts /\ Then(k, "failed")
    BY <1>0, <1>5, <2>1 DEF Replace, ResendFails, ctables
  <2>4. OthersStay(a.tx)
    BY <1>2, <2>2, <2>3 DEF OthersStay
  <2> QED
    BY <1>1, <1>2, <2>3, <2>4, AnswerTakes
<1> QED
  BY <1>3, <1>4, <1>5

LEMMA LeftInvNext ==
    ASSUME ConfirmerInv, LeftInv, [ConfirmerNext]_cvars
    PROVE LeftInv'
<1>1. CASE OnNewLongestChain \/ RebroadcastsMarked
  <2>1. work' = Started
    BY <1>1 DEF OnNewLongestChain, RebroadcastsMarked
  <2>2. \A k \in Keys : work'[k].pc = "query"
    BY <2>1 DEF Started, Goroutine
  <2> QED
    BY <2>2 DEF LeftInv, Taken
<1>2. ASSUME UNCHANGED work, cpc \in {"receipts", "missing", "old"} PROVE LeftInv'
  <2>1. \A k \in Keys : work'[k].pc = "query"
    BY <1>2 DEF LeftInv
  <2> QED
    BY <2>1 DEF LeftInv, Taken
<1>3. CASE (\E t \in todo : FetchReceipt(t) \/ FetchFails(t)) \/ ReceiptsFetched
           \/ MarkConfirmedMissingReceipt \/ MarkOldTxesMissingReceiptAsErrored
  BY <1>2, <1>3 DEF FetchReceipt, FetchFails, ReceiptsFetched, MarkConfirmedMissingReceipt,
                    MarkOldTxesMissingReceiptAsErrored
<1>4. ASSUME NEW k \in Keys, KeyStep(k) PROVE LeftInv'
  BY <1>4, ListStepsTake, BumpTakes, ResendTakes, AnsweredTakes DEF KeyStep, ConfirmerInv
<1>5. ASSUME cpc' \in {"idle", "ensure"} PROVE LeftInv'
  BY <1>5 DEF LeftInv, AtWork
<1>6. CASE BumpsFinished \/ MarkForRebroadcast \/ HeadProcessed \/ ConfirmerCrash
  BY <1>5, <1>6 DEF BumpsFinished, MarkForRebroadcast, HeadProcessed, ConfirmerCrash, Forget
<1>7. CASE UNCHANGED <<ctables, highest, clocal>> \/ UNCHANGED cvars
  <2>1. UNCHANGED <<etxes, attempts, cpc, work>>
    BY <1>7 DEF ctables, clocal, cvars
  <2> QED
    BY <2>1 DEF LeftInv, Taken, AtWork, Resendable, TxsIn
<1> QED
  BY <1>1, <1>3, <1>4, <1>6, <1>7 DEF ConfirmerNext, ConfirmerStep

\* An attempt in progress goes only when the node was asked to take it.
LEMMA StepWaitsForTheNode ==
    ASSUME ConfirmerInv, [ConfirmerNext]_cvars, NEW a \in attempts,
           a.state = "in_progress", a \notin attempts'
    PROVE \E k \in Keys : work[k].pc = "sent" /\ work[k].cur = a.tx
<1>1. ASSUME NEW k \in Keys,
             \/ SaveSent(k) \/ SaveInsufficientEth(k) \/ Replace(k) \/ DeleteAttempt(k)
      PROVE work[k].pc = "sent" /\ work[k].cur = a.tx
  <2>0. PICK b : b = InHand(k)
    OBVIOUS
  <2>1. work[k].pc = "sent"
    BY <1>1 DEF SaveSent, SaveInsufficientEth, Replace, DeleteAttempt, Answered
  <2>2. b \in attempts /\ b.tx = work[k].cur /\ b \in EthTxAttempt
    BY <2>0, <2>1, InHandExists DEF ConfirmerInv
  <2>3. CASE SaveSent(k) \/ SaveInsufficientEth(k)
    <3>1. PICK state \in {"broadcast", "insufficient_eth"} :
              attempts' = WithAttempt([b EXCEPT !.state = state])
      BY <2>0, <2>3 DEF SaveSent, SaveInsufficientEth
    <3>2. PICK c : c = [b EXCEPT !.state = state]
      OBVIOUS
    <3>3. c.tx = b.tx
      BY <2>2, <3>2 DEF EthTxAttempt
    <3> QED
      BY <2>1, <2>2, <3>1, <3>2, <3>3 DEF WithAttempt
  <2>4. CASE Replace(k) \/ DeleteAttempt(k)
    BY <2>0, <2>1, <2>2, <2>4 DEF Replace, DeleteAttempt
  <2> QED
    BY <1>1, <2>3, <2>4
<1>2. ASSUME NEW k \in Keys, Bump(k) PROVE FALSE
  <2>1. PICK t \in work[k].list :
            IF \E c \in AttemptsOf(attempts, t) : c.state = "in_progress"
            THEN UNCHANGED attempts
            ELSE attempts' = WithAttempt(AttemptWithGasBump(t))
    BY <1>2 DEF Bump
  <2>2. t \in TxsIn(etxes, k, Sent)
    BY <2>1 DEF ConfirmerInv, OwnInv, WorkInv, WorkOf
  <2>3. AttemptWithGasBump(t).tx = t
    BY <2>2, BumpFits DEF ConfirmerInv
  <2>4. a.tx # t
    BY <2>1 DEF AttemptsOf
  <2> QED
    BY <2>1, <2>3, <2>4 DEF WithAttempt
<1>3. ASSUME MarkForRebroadcast PROVE FALSE
  <2>1. PICK u \in todo :
            IF CanRebroadcast(u)
            THEN attempts' = WithAttempt(SentAgain(HighestAttempt(attempts, u)))
            ELSE UNCHANGED ctables
    BY <1>3 DEF MarkForRebroadcast
  <2>2. CanRebroadcast(u) /\ attempts' = WithAttempt(SentAgain(HighestAttempt(attempts, u)))
    BY <2>1 DEF ctables
  <2>3. PICK h : h = HighestAttempt(attempts, u)
    OBVIOUS
  <2>4. h \in attempts /\ h.state = "broadcast"
    <3>1. AttemptsOf(attempts, u) # {}
      BY <1>3, <2>1 DEF MarkForRebroadcast, ConfirmerInv, OwnInv, PhaseInv
    <3> QED
      BY <2>2, <2>3, <3>1, HighestExists DEF CanRebroadcast, ConfirmerInv, OwnInv
  <2>5. SentAgain(h).tx = h.tx /\ SentAgain(h).price = h.price
    BY <2>4, AgainFits DEF ConfirmerInv
  <2>6. a.tx = h.tx /\ a.price = h.price
    BY <2>2, <2>3, <2>5 DEF WithAttempt
  <2> QED
    BY <2>4, <2>6 DEF ConfirmerInv, OwnInv, PriceInv
<1>4. ~OnNewLongestChain
  BY DEF OnNewLongestChain
<1>5. ASSUME NEW k \in Keys, KeyStep(k)
      PROVE \/ Bump(k) \/ SaveSent(k) \/ SaveInsufficientEth(k) \/ Replace(k) \/ DeleteAttempt(k)
  BY <1>5 DEF KeyStep, QueryLeftovers, PickLeftover, LeftoversDone, BumpsDone, Resend,
              ResendFails, ctables
<1>6. /\ \A u \in todo : ~FetchReceipt(u) /\ ~FetchFails(u)
      /\ ~ReceiptsFetched /\ ~MarkConfirmedMissingReceipt
      /\ ~MarkOldTxesMissingReceiptAsErrored /\ ~BumpsFinished
      /\ ~RebroadcastsMarked /\ ~HeadProcessed /\ ~ConfirmerCrash
      /\ ~UNCHANGED <<ctables, highest, clocal>> /\ ~UNCHANGED cvars
  BY DEF FetchReceipt, FetchFails, ReceiptsFetched, MarkConfirmedMissingReceipt,
         MarkOldTxesMissingReceiptAsErrored, BumpsFinished, RebroadcastsMarked,
         HeadProcessed, ConfirmerCrash, ctables, cvars
<1> QED
  BY <1>1, <1>2, <1>3, <1>4, <1>5, <1>6 DEF ConfirmerNext, ConfirmerStep

\* When every goroutine is done, none of its key is left in progress.
LEMMA StepLeavesNothing ==
    ASSUME ConfirmerInv, LeftInv, [ConfirmerNext]_cvars, cpc = "bump", cpc' = "ensure",
           NEW a \in attempts, a.state = "in_progress"
    PROVE etxes[a.tx].state = "fatal_error"
<1>1. BumpsFinished
  <2>1. /\ ~OnNewLongestChain /\ \A t \in todo : ~FetchReceipt(t) /\ ~FetchFails(t)
        /\ ~ReceiptsFetched /\ ~MarkConfirmedMissingReceipt
        /\ ~MarkOldTxesMissingReceiptAsErrored /\ ~MarkForRebroadcast
        /\ ~RebroadcastsMarked /\ ~HeadProcessed /\ ~ConfirmerCrash
    BY DEF OnNewLongestChain, FetchReceipt, FetchFails, ReceiptsFetched,
           MarkConfirmedMissingReceipt, MarkOldTxesMissingReceiptAsErrored,
           MarkForRebroadcast, RebroadcastsMarked, HeadProcessed, ConfirmerCrash, Forget
  <2>2. \A k \in Keys : ~KeyStep(k)
    BY DEF KeyStep, QueryLeftovers, PickLeftover, LeftoversDone, Bump, BumpsDone, Resend,
           SaveSent, SaveInsufficientEth, Replace, DeleteAttempt, ResendFails
  <2>3. ~UNCHANGED <<ctables, highest, clocal>> /\ ~UNCHANGED cvars
    BY DEF clocal, cvars
  <2> QED
    BY <2>1, <2>2, <2>3 DEF ConfirmerNext, ConfirmerStep
<1>2. \A k \in Keys : work[k].pc = "done"
  BY <1>1 DEF BumpsFinished, Forget
<1>3. /\ a.tx \in DOMAIN etxes /\ etxes[a.tx].from \in Keys
      /\ etxes[a.tx].state \in Sent \cup {"fatal_error"}
  BY TxTyped DEF ConfirmerInv, OwnInv, PriceInv, FitsTx, RowInv, RowsTyped, EthTx
<1>4. ASSUME NEW k \in Keys, a.tx \in TxsIn(etxes, k, Sent) PROVE FALSE
  <2>1. work[k].list = {} /\ work[k].cur = 0
    BY <1>2, WorkTyped DEF ConfirmerInv, OwnInv, WorkInv, WorkOf
  <2>2. a.tx # 0
    BY <1>4, TxsAreIds DEF ConfirmerInv, OwnInv
  <2> QED
    BY <1>2, <1>4, <2>1, <2>2 DEF LeftInv, AtWork, Taken, Resendable
<1> QED
  BY <1>3, <1>4 DEF TxsIn

-----------------------------------------------------------------------------
(* Theorems on the confirmer *)

\* With one key, only what is below a confirmed nonce of that key is marked as
\* confirmed without a receipt.
LEMMA StepSupersedes ==
    ASSUME \A k, l \in Keys : k = l, ConfirmerInv, [ConfirmerNext]_cvars,
           NEW t \in AllTxsIn({"unconfirmed"}),
           etxes'[t].state = "confirmed_missing_receipt"
    PROVE \E u \in TxsIn(etxes, etxes[t].from, {"confirmed"}) :
              etxes[t].nonce < etxes[u].nonce
<1>1. t \in DOMAIN etxes /\ etxes[t].state = "unconfirmed" /\ etxes[t].from \in Keys
  BY DEF AllTxsIn, TxsIn
<1>2. etxes' # etxes
  BY <1>1
<1>3. \A txs, state : Mark(txs, state)[t] = IF t \in txs THEN [etxes[t] EXCEPT !.state = state]
                                            ELSE etxes[t]
  BY <1>1 DEF Mark
<1>4. etxes[t] \in EthTx
  BY <1>1 DEF ConfirmerInv, OwnInv, RowsTyped
<1>5. MarkConfirmedMissingReceipt
  <2>1. ASSUME NEW state, state # "confirmed_missing_receipt", NEW txs, etxes' = Mark(txs, state)
        PROVE FALSE
    <3>1. etxes'[t] = IF t \in txs THEN [etxes[t] EXCEPT !.state = state] ELSE etxes[t]
      BY <1>3, <2>1
    <3>2. [etxes[t] EXCEPT !.state = state].state = state
      BY <1>4 DEF EthTx
    <3> QED
      BY <1>1, <2>1, <3>1, <3>2
  <2>2. ASSUME NEW u \in todo, FetchReceipt(u) PROVE FALSE
    <3>1. PICK txs : txs = {u}
      OBVIOUS
    <3>2. etxes' = Mark(txs, "confirmed")
      BY <1>2, <2>2, <3>1 DEF FetchReceipt
    <3> QED
      BY <2>1, <3>2
  <2>3. ASSUME MarkForRebroadcast PROVE FALSE
    <3>1. PICK u \in todo : etxes' = Mark({u}, "unconfirmed") \/ UNCHANGED ctables
      BY <2>3 DEF MarkForRebroadcast
    <3>2. PICK txs : txs = {u}
      OBVIOUS
    <3>3. etxes' = Mark(txs, "unconfirmed")
      BY <1>2, <3>1, <3>2 DEF ctables
    <3> QED
      BY <2>1, <3>3
  <2>4. ~MarkOldTxesMissingReceiptAsErrored
    BY <1>1 DEF MarkOldTxesMissingReceiptAsErrored, AllTxsIn, TxsIn
  <2>5. \A k \in Keys : ~KeyStep(k)
    BY <1>2 DEF KeyStep, QueryLeftovers, PickLeftover, LeftoversDone, Bump, BumpsDone, Resend,
                SaveSent, SaveInsufficientEth, Replace, DeleteAttempt, ResendFails, ctables
  <2>6. /\ ~OnNewLongestChain /\ \A u \in todo : ~FetchFails(u)
        /\ ~ReceiptsFetched /\ ~BumpsFinished /\ ~RebroadcastsMarked /\ ~HeadProcessed
    BY <1>2 DEF OnNewLongestChain, FetchFails, ReceiptsFetched, BumpsFinished,
                RebroadcastsMarked, HeadProcessed, ctables
  <2>7. ~ConfirmerCrash /\ ~UNCHANGED <<ctables, highest, clocal>> /\ ~UNCHANGED cvars
    BY <1>2 DEF ConfirmerCrash, ctables, cvars
  <2> QED
    BY <2>2, <2>3, <2>4, <2>5, <2>6, <2>7 DEF ConfirmerNext, ConfirmerStep
<1>6. PICK txs : /\ txs = {v \in AllTxsIn({"unconfirmed"}) : Superseded(v)}
                 /\ etxes' = Mark(txs, "confirmed_missing_receipt")
  BY <1>5 DEF MarkConfirmedMissingReceipt
<1>7. t \in txs
  BY <1>1, <1>3, <1>6
<1>8. PICK u \in AllTxsIn({"confirmed"}) : etxes[t].nonce < etxes[u].nonce
  BY <1>6, <1>7 DEF Superseded
<1>9. u \in TxsIn(etxes, etxes[t].from, {"confirmed"})
  BY <1>1, <1>8 DEF AllTxsIn, TxsIn
<1> QED
  BY <1>8, <1>9

\* The invariant behind the others: every attempt is signed with the nonce its
\* transaction was sent with, what is in progress is dearest, a receipt is of an
\* attempt of a confirmed transaction that has no other, a goroutine has in hand
\* what it has stored in progress, and after the bumps every receipt of another
\* chain belongs to a transaction that is still to be sent again.
THEOREM ConfirmerInvariant ==
    ASSUME KeysApart
    PROVE ConfirmerSpec => []ConfirmerInv
<1>1. Handover => ConfirmerInv
  BY HandoverInv
<1>2. ConfirmerInv /\ [ConfirmerNext]_cvars => ConfirmerInv'
  BY ConfirmerInvNext
<1> QED
  BY <1>1, <1>2, PTL DEF ConfirmerSpec

\* The tables and the goroutines have their types, and no save of processHead
\* meets a unique index or a CHECK constraint it does not look for first.
THEOREM ConfirmerTypes ==
    ASSUME KeysApart
    PROVE ConfirmerSpec => []ConfirmerTypeOK
BY ConfirmerInvariant, InvImpliesTypeOK, PTL

\* "There should only ever be one receipt for an eth_tx, and if it exists then
\* the transaction is marked confirmed": whatever is reorganised, evicted or
\* bumped between two heads.
THEOREM ConfirmedByOneReceipt ==
    ASSUME KeysApart
    PROVE ConfirmerSpec => []ReceiptMeansConfirmed
<1>1. ConfirmerInv => ReceiptMeansConfirmed
  BY OneReceipt DEF ConfirmerInv, ReceiptMeansConfirmed
<1> QED
  BY <1>1, ConfirmerInvariant, PTL

\* When processHead is done with its rebroadcasts, no receipt that counts is of a
\* block outside the chain of the head.
THEOREM ReceiptsAreOfTheChain ==
    ASSUME KeysApart
    PROVE ConfirmerSpec => []NoReceiptOfAnotherChain
BY ConfirmerInvariant, InvImpliesNoReceiptOfAnotherChain, PTL

\* "The attempt referenced in this function has the highest gas price of all
\* attempts": what handleInProgressAttempt sends never undercuts what it sent.
THEOREM ResentAtHighestPrice ==
    ASSUME KeysApart
    PROVE ConfirmerSpec => []InProgressIsHighest
<1>1. ConfirmerInv => InProgressIsHighest
  BY DEF ConfirmerInv, OwnInv, PriceInv
<1> QED
  BY <1>1, ConfirmerInvariant, PTL

\* A confirmation is taken back by markForRebroadcast only, of a transaction
\* without a receipt in the head's chain, and with its dearest attempt put in
\* progress by the same commit; whatever crashes or errors come, it stays in
\* progress until the node was asked to take it, and a head that comes to its
\* rebroadcasts has found nothing in progress any more.
THEOREM ReorganisedTxIsSentAgain ==
    ASSUME KeysApart
    PROVE ConfirmerSpec => ReorganisedIsSentAgain
<1>1. Handover => LeftInv
  BY DEF Handover, ConfirmerInit, LeftInv, AtWork
<1>2. ConfirmerInv /\ LeftInv /\ [ConfirmerNext]_cvars => LeftInv'
  BY LeftInvNext
<1>3. ConfirmerInv /\ LeftInv /\ [ConfirmerNext]_cvars =>
          [GoesBackInProgress /\ WaitsForTheNode /\ NothingIsLeft]_cvars
  <2> SUFFICES ASSUME ConfirmerInv, LeftInv, [ConfirmerNext]_cvars
               PROVE GoesBackInProgress /\ WaitsForTheNode /\ NothingIsLeft
    OBVIOUS
  <2>1. GoesBackInProgress
    BY StepSendsAgain DEF GoesBackInProgress
  <2>2. WaitsForTheNode
    BY StepWaitsForTheNode DEF WaitsForTheNode
  <2>3. NothingIsLeft
    BY StepLeavesNothing DEF NothingIsLeft
  <2> QED
    BY <2>1, <2>2, <2>3
<1> QED
  BY <1>1, <1>2, <1>3, ConfirmerInvariant, PTL DEF ConfirmerSpec, ReorganisedIsSentAgain

\* With one key, "a transaction with this nonce has long since been confirmed" is
\* true whenever a transaction is marked as confirmed without a receipt: it is
\* the query over all keys that can mark one by the nonces of another account.
THEOREM OneKeyIsSuperseded ==
    ASSUME \A k, l \in Keys : k = l
    PROVE ConfirmerSpec => MissingReceiptIsSuperseded
<1>1. ASSUME ConfirmerInv, [ConfirmerNext]_cvars, NEW t \in AllTxsIn({"unconfirmed"}),
             etxes'[t].state = "confirmed_missing_receipt"
      PROVE \E u \in TxsIn(etxes, etxes[t].from, {"confirmed"}) :
                etxes[t].nonce < etxes[u].nonce
  BY <1>1, StepSupersedes
<1>2. ConfirmerInv /\ [ConfirmerNext]_cvars =>
          [\A t \in AllTxsIn({"unconfirmed"}) :
              etxes'[t].state = "confirmed_missing_receipt" =>
                  \E u \in TxsIn(etxes, etxes[t].from, {"confirmed"}) :
                      etxes[t].nonce < etxes[u].nonce]_cvars
  BY <1>1
<1> QED
  BY <1>2, ConfirmerInvariant, PTL DEF ConfirmerSpec, MissingReceiptIsSuperseded, KeysApart
=============================================================================

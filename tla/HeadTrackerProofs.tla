--------------------------- MODULE HeadTrackerProofs ---------------------------
(***************************************************************************)
(* The callbacks hear of ever higher heads, each with a complete chain:    *)
(* for any depths, size of the buffer, number of reorganisations, failures *)
(* and restarts.                                                           *)
(***************************************************************************)
EXTENDS HeadTracker, Integers, FiniteSetTheorems, SequenceTheorems, WellFoundedInduction, TLAPS

Chains == Seq(Nat)

Handed == {"chain", "backfill", "call"}

Doings == [step : {"down", "subscribe", "idle", "save"} \cup Handed,
           head : Chains, prev : Chains, at : Chains, undisturbed : BOOLEAN]

Shape ==
    /\ best \in Chains
    /\ buffer \in Seq(Chains)
    /\ doing \in Doings
    /\ highest \in Chains
    /\ heads \subseteq Chains
    /\ told.head \in Chains
    /\ reorgs \in Nat

\* No row is above block.
Tops(block) == \A h \in heads : number(h) <= number(block)

\* A highest row is as high as what the callbacks have heard of: from it a new
\* process learns what not to hand on again.  Trimming never takes it away.
RowKept ==
    \/ heads = {} /\ told.head = None
    \/ \E h \in heads : Tops(h) /\ number(told.head) <= number(h)

\* A process knows a height that no row and nothing it has handed on exceeds.
HighestKnown ==
    doing.step # "down" => Tops(highest) /\ number(told.head) <= number(highest)

\* A head that is saved is compared with what was known before it; one that is
\* handed on is in the table and higher than the last, and its chain below it.
HandedOnlyHigher ==
    /\ doing.step \in {"save"} \cup Handed => number(doing.head) <= number(highest)
    /\ doing.step = "save" => Tops(doing.prev) /\ number(told.head) <= number(doing.prev)
    /\ doing.step \in Handed => doing.head \in heads /\ number(told.head) < number(doing.head)
    /\ doing.step = "backfill" => number(doing.at) <= number(doing.head)

IInv == Shape /\ RowKept /\ HighestKnown /\ HandedOnlyHigher

-----------------------------------------------------------------------------
(* Sets of numbers, and chains *)

LEMMA MaxExists ==
    ASSUME NEW n \in Nat, NEW S \in SUBSET (0 .. n), S # {}
    PROVE \E x \in S : \A y \in S : y <= x
<1> DEFINE Below == {n - x : x \in S}
<1>1. Below \subseteq Nat
  <2> SUFFICES ASSUME NEW x \in S PROVE n - x \in Nat
    OBVIOUS
  <2>1. x \in 0 .. n
    OBVIOUS
  <2> QED
    BY <2>1
<1>2. Below # {}
  OBVIOUS
<1>3. PICK m \in Below : \A k \in Below : ~ (<<k, m>> \in OpToRel(<, Nat))
  BY <1>1, <1>2, NatLessThanWellFounded, WFMin
<1>4. \A k \in Below : ~ (k < m)
  BY <1>1, <1>3 DEF OpToRel
<1>5. PICK x \in S : m = n - x
  OBVIOUS
<1>6. ASSUME NEW y \in S PROVE y <= x
  <2>1. n - y \in Below
    OBVIOUS
  <2>2. ~ (n - y < n - x)
    BY <1>4, <1>5, <2>1
  <2>3. x \in 0 .. n /\ y \in 0 .. n
    OBVIOUS
  <2> QED
    BY <2>2, <2>3
<1> QED
  BY <1>6

LEMMA MaxOfSome ==
    ASSUME NEW n \in Nat, NEW S \in SUBSET (0 .. n), S # {}
    PROVE Max(S) \in S /\ \A y \in S : y <= Max(S)
<1>1. \E x \in S : \A y \in S : x >= y
  BY MaxExists
<1> QED
  BY <1>1 DEF Max

LEMMA MinOfTwo ==
    ASSUME NEW a \in Nat, NEW b \in Nat
    PROVE Min({a, b}) = IF a <= b THEN a ELSE b
BY DEF Min

\* The chain of a head that is in the table has one head at least.
LEMMA ChainLengthBounds ==
    ASSUME NEW block \in Chains, block \in heads, number(block) > 0
    PROVE ChainLength(block) \in 1 .. number(block)
<1> DEFINE Linked == {k \in 0 .. number(block) :
                         \A i \in 0 .. k - 1 : SubSeq(block, 1, number(block) - i) \in heads}
<1>1. number(block) \in Nat
  BY DEF number, Chains
<1>2. SubSeq(block, 1, number(block) - 0) = block
  BY <1>1, SubSeqFull DEF number, Chains
<1>3. 1 \in Linked
  <2>1. ASSUME NEW i \in 0 .. 1 - 1
        PROVE SubSeq(block, 1, number(block) - i) \in heads
    <3>1. i = 0
      OBVIOUS
    <3> QED
      BY <1>2, <3>1
  <2>2. 1 \in 0 .. number(block)
    BY <1>1
  <2> QED
    BY <2>1, <2>2
<1>4. Max(Linked) \in 1 .. number(block)
  <2>1. Linked \in SUBSET (0 .. number(block))
    OBVIOUS
  <2>2. Max(Linked) \in Linked /\ \A y \in Linked : y <= Max(Linked)
    BY <1>1, <1>3, <2>1, MaxOfSome
  <2> QED
    BY <1>1, <1>3, <2>2
<1>5. FinalityDepth \in Nat \ {0}
  BY TrackerAssumption
<1>6. ChainLength(block) = Min({FinalityDepth, Max(Linked)})
  BY DEF ChainLength
<1> QED
  BY <1>1, <1>4, <1>5, <1>6, MinOfTwo

LEMMA Prefix ==
    ASSUME NEW block \in Chains, NEW n \in 0 .. number(block)
    PROVE SubSeq(block, 1, n) \in Chains /\ number(SubSeq(block, 1, n)) = n
BY SubSeqProperties DEF Chains, number

LEMMA FrontIsLower ==
    ASSUME NEW block \in Chains
    PROVE /\ Front(block) \in Chains
          /\ number(Front(block)) \in Nat
          /\ number(Front(block)) <= number(block)
<1>1. CASE number(block) = 0
  <2>1. block = <<>>
    BY <1>1 DEF number, Chains
  <2>2. Front(block) = <<>>
    BY <2>1 DEF Front
  <2> QED
    BY <1>1, <2>2 DEF number, Chains
<1>2. CASE number(block) > 0
  <2>1. number(block) - 1 \in 0 .. number(block)
    BY <1>2 DEF number, Chains
  <2>2. /\ SubSeq(block, 1, number(block) - 1) \in Chains
        /\ number(SubSeq(block, 1, number(block) - 1)) = number(block) - 1
    BY <2>1, Prefix
  <2>3. Front(block) = SubSeq(block, 1, number(block) - 1)
    BY DEF Front, number
  <2>4. number(block) \in Nat
    BY DEF number, Chains
  <2> QED
    BY <1>2, <2>2, <2>3, <2>4
<1> QED
  BY <1>1, <1>2 DEF number, Chains

-----------------------------------------------------------------------------
(* Shape *)

LEMMA FirstChains == None \in Chains /\ Genesis \in Chains /\ number(None) = 0
BY DEF None, Genesis, Chains, number

LEMMA IdleTyped ==
    /\ Idle \in Doings /\ Idle.step = "idle"
    /\ \A s \in {"down", "subscribe"} :
          [Idle EXCEPT !.step = s] \in Doings /\ [Idle EXCEPT !.step = s].step = s
BY FirstChains DEF Idle, Doings

LEMMA ShapeInit == Init => Shape
<1> SUFFICES ASSUME Init PROVE Shape
  OBVIOUS
<1>1. best \in Chains /\ highest \in Chains /\ heads \subseteq Chains /\ told.head \in Chains
  BY FirstChains DEF Init
<1>2. buffer \in Seq(Chains) /\ reorgs \in Nat /\ doing \in Doings
  BY IdleTyped DEF Init
<1> QED
  BY <1>1, <1>2 DEF Shape

LEMMA BufferKeeps ==
    ASSUME Shape, NEW h \in Chains, Sends(h)
    PROVE buffer' \in Seq(Chains)
<1>1. buffer \in Seq(Chains)
  BY DEF Shape
<1>2. CASE UNCHANGED buffer
  BY <1>1, <1>2
<1>3. CASE buffer' = KeepLatest(buffer, h)
  <2>1. BufferSize \in Nat \ {0}
    BY TrackerAssumption
  <2>2. CASE Len(buffer) < BufferSize
    BY <1>1, <1>3, <2>2, AppendProperties DEF KeepLatest
  <2>3. CASE ~(Len(buffer) < BufferSize)
    <3>1. buffer # <<>>
      BY <1>1, <2>1, <2>3
    <3>2. Tail(buffer) \in Seq(Chains)
      BY <1>1, <3>1, HeadTailProperties
    <3> QED
      BY <1>3, <2>3, <3>2, AppendProperties DEF KeepLatest
  <2> QED
    BY <2>2, <2>3
<1> QED
  BY <1>2, <1>3 DEF Sends

LEMMA ShapeStep ==
    ASSUME Shape, HandedOnlyHigher, [Next]_vars
    PROVE Shape'
<1>1. CASE UNCHANGED vars
  BY <1>1 DEF vars, Shape
<1>2. ASSUME NewBlock PROVE Shape'
  <2>1. best' \in Chains
    BY <1>2 DEF NewBlock, Shape, Chains
  <2> QED
    BY <1>2, <2>1, BufferKeeps DEF NewBlock, Shape
<1>3. ASSUME Reorg PROVE Shape'
  <2>1. PICK n \in 1 .. number(best) - 1 :
            best' = Canonical(n) \o [i \in 1 .. number(best) - n |-> reorgs']
    BY <1>3 DEF Reorg
  <2>2. number(best) \in Nat /\ reorgs' \in Nat
    BY <1>3 DEF Reorg, Shape, number, Chains
  <2>3. Canonical(n) \in Chains /\ number(Canonical(n)) = n
    BY <2>2, Prefix DEF Shape, Canonical
  <2>4. /\ [i \in 1 .. number(best) - n |-> reorgs'] \in Chains
        /\ number([i \in 1 .. number(best) - n |-> reorgs']) = number(best) - n
    BY <2>2 DEF Chains, number
  <2>5. best' \in Chains /\ number(best') = number(best)
    <3> DEFINE new == [i \in 1 .. number(best) - n |-> reorgs']
    <3>1. /\ Canonical(n) \o new \in Seq(Nat)
          /\ Len(Canonical(n) \o new) = Len(Canonical(n)) + Len(new)
      <4> HIDE DEF new
      <4> QED
        BY <2>3, <2>4, ConcatProperties DEF Chains, new
    <3>2. Len(Canonical(n)) + Len(new) = number(best)
      BY <2>2, <2>3, <2>4 DEF number
    <3> QED
      BY <2>1, <3>1, <3>2 DEF Chains, number
  <2>6. PICK k \in 1 .. number(best) : Sends(SubSeq(best', 1, k))
    BY <1>3 DEF Reorg
  <2>7. SubSeq(best', 1, k) \in Chains
    <3>1. k \in 0 .. number(best')
      BY <2>2, <2>5
    <3> QED
      BY <2>5, <3>1, Prefix
  <2>8. buffer' \in Seq(Chains)
    BY <2>6, <2>7, BufferKeeps
  <2> QED
    BY <1>3, <2>2, <2>5, <2>8 DEF Reorg, Shape
<1>4. ASSUME SubscriptionErr \/ Crash PROVE Shape'
  <2>1. doing' \in Doings
    BY <1>4, IdleTyped DEF SubscriptionErr, Resubscribes, Crash
  <2>2. buffer' \in Seq(Chains)
    <3>1. buffer' = <<>>
      BY <1>4 DEF SubscriptionErr, Resubscribes, Crash
    <3> QED
      BY <3>1
  <2>3. highest' \in Chains
    BY <1>4, FirstChains DEF SubscriptionErr, Crash, Shape
  <2> QED
    BY <1>4, <2>1, <2>2, <2>3 DEF SubscriptionErr, Crash, Shape
<1>5. ASSUME DatabaseFails PROVE Shape'
  <2>1. heads' \subseteq Chains
    BY <1>5 DEF DatabaseFails, Shape, Doings
  <2> QED
    BY <1>5, <2>1, IdleTyped DEF DatabaseFails, Resubscribes, Shape
<1>6. ASSUME Start \/ subscribeToHead PROVE Shape'
  <2>1. highest' \in Chains
    BY <1>6, FirstChains DEF Start, subscribeToHead, LastHead, Shape
  <2> QED
    BY <1>6, <2>1, IdleTyped DEF Start, subscribeToHead, Shape
<1>7. ASSUME Receive PROVE Shape'
  <2>1. Head(buffer) \in Chains /\ Tail(buffer) \in Seq(Chains)
    BY <1>7, HeadTailProperties DEF Receive, Shape
  <2>2. doing' \in Doings
    BY <1>7, <2>1, IdleTyped DEF Receive, Doings, Shape, Idle
  <2> QED
    BY <1>7, <2>1, <2>2 DEF Receive, Shape
<1>8. ASSUME Save PROVE Shape'
  <2>1. doing' \in Doings
    BY <1>8, IdleTyped DEF Save, Doings, Shape, Handed
  <2>2. heads' \subseteq Chains
    BY <1>8 DEF Save, TrimOldHeads, Doings, Shape
  <2> QED
    BY <1>8, <2>1, <2>2 DEF Save, Shape
<1>9. ASSUME Chain PROVE Shape'
  <2>1. /\ doing.step \in Handed /\ doing.head \in heads /\ doing.head \in Chains
        /\ number(doing.head) \in Nat /\ number(told.head) \in Nat
    BY <1>9 DEF Chain, Shape, HandedOnlyHigher, Handed, Doings, Chains, number
  <2>2. number(told.head) < number(doing.head)
    BY <2>1 DEF HandedOnlyHigher
  <2>3. ChainLength(doing.head) \in 1 .. number(doing.head)
    BY <2>1, <2>2, ChainLengthBounds
  <2>4. number(doing.head) - ChainLength(doing.head) + 1 \in 0 .. number(doing.head)
    BY <2>1, <2>3
  <2>5. SubSeq(doing.head, 1, number(doing.head) - ChainLength(doing.head) + 1) \in Chains
    BY <2>1, <2>4, Prefix
  <2>6. doing' \in Doings
    BY <1>9, <2>5 DEF Chain, Shape, Handed, Doings
  <2> QED
    BY <1>9, <2>6 DEF Chain, Shape
<1>10. ASSUME backfill PROVE Shape'
  <2>1. Front(doing.at) \in Chains /\ number(Front(doing.at)) \in Nat
    BY FrontIsLower DEF Shape, Doings
  <2>2. CASE Front(doing.at) \in heads
    BY <1>10, <2>1, <2>2 DEF backfill, Shape, Doings
  <2>3. CASE Front(doing.at) \notin heads
    <3>1. number(Front(doing.at)) \in 0 .. number(best)
      BY <1>10, <2>1, <2>3 DEF backfill, Shape, Chains, number
    <3>2. Canonical(number(Front(doing.at))) \in Chains
      BY <3>1, Prefix DEF Shape, Canonical
    <3> QED
      BY <1>10, <2>3, <3>2 DEF backfill, Shape, Doings, IsCanonical
  <2> QED
    BY <2>2, <2>3
<1>11. ASSUME BackfillEnds PROVE Shape'
  <2>1. doing' \in Doings
    BY <1>11 DEF BackfillEnds, Doings, Shape, Handed
  <2> QED
    BY <1>11, <2>1 DEF BackfillEnds, Shape
<1>12. ASSUME onNewLongestChain PROVE Shape'
  <2>1. told'.head \in Chains
    BY <1>12 DEF onNewLongestChain, Shape, Doings
  <2> QED
    BY <1>12, <2>1, IdleTyped DEF onNewLongestChain, Shape
<1> QED
  BY <1>1, <1>2, <1>3, <1>4, <1>5, <1>6, <1>7, <1>8, <1>9, <1>10, <1>11, <1>12
  DEF Next, TrackerStep

-----------------------------------------------------------------------------
(* The order *)

LEMMA Numbers ==
    ASSUME Shape
    PROVE /\ \A c \in Chains : number(c) \in Nat
          /\ {doing.head, doing.prev, doing.at, highest, told.head, best} \subseteq Chains
BY DEF Shape, Doings, Chains, number

\* A row that is added leaves one that is highest.
LEMMA RowAdded ==
    ASSUME Shape, RowKept, NEW h \in Chains, heads' = heads \cup {h}, told' = told
    PROVE RowKept'
<1> USE DEF RowKept, Tops
<1>1. \A c \in Chains : number(c) \in Nat
  BY Numbers
<1>2. CASE heads = {} /\ told.head = None
  BY <1>1, <1>2, FirstChains
<1>3. ASSUME NEW m \in heads, Tops(m), number(told.head) <= number(m) PROVE RowKept'
  <2>1. m \in Chains /\ told.head \in Chains /\ heads \subseteq Chains
    BY DEF Shape
  <2>2. CASE number(h) <= number(m)
    BY <1>3, <2>1, <2>2
  <2>3. CASE ~(number(h) <= number(m))
    <3>1. \A k \in heads' : number(k) <= number(h)
      BY <1>1, <1>3, <2>1, <2>3
    <3>2. number(told.head) <= number(h)
      BY <1>1, <1>3, <2>1, <2>3
    <3> QED
      BY <3>1, <3>2
  <2> QED
    BY <2>2, <2>3
<1> QED
  BY <1>2, <1>3

\* A highest row is not trimmed.
LEMMA HighestStays ==
    ASSUME NEW t, t \subseteq Chains, NEW m \in t, \A h \in t : number(h) <= number(m)
    PROVE m \in TrimOldHeads(t)
<1>1. {other \in t : number(other) > number(m)} = {}
  BY DEF Chains, number
<1>2. Cardinality({other \in t : number(other) > number(m)}) = 0
  BY <1>1, FS_EmptySet
<1> QED
  BY <1>2, TrackerAssumption DEF TrimOldHeads

LEMMA RowKeptStep ==
    ASSUME IInv, [Next]_vars
    PROVE RowKept'
<1> USE DEF IInv
<1>1. CASE UNCHANGED <<heads, told>>
  BY <1>1 DEF RowKept, Tops
<1>2. ASSUME NEW h \in Chains, heads' = heads \cup {h}, told' = told PROVE RowKept'
  BY <1>2, RowAdded
<1>3. CASE DatabaseFails
  BY <1>1, <1>2, <1>3, Numbers DEF DatabaseFails
<1>4. CASE Save
  <2>1. PICK t : t = heads \cup {doing.head}
    OBVIOUS
  <2>2. t \subseteq Chains /\ doing.head \in Chains /\ told' = told /\ heads' = TrimOldHeads(t)
    BY <1>4, <2>1, Numbers DEF Save, Shape
  <2>3. PICK m \in t : /\ \A h \in t : number(h) <= number(m)
                        /\ number(told.head) <= number(m)
    <3>1. \A c \in Chains : number(c) \in Nat
      BY Numbers
    <3>2. CASE heads = {} /\ told.head = None
      BY <2>1, <2>2, <3>1, <3>2, FirstChains
    <3>3. ASSUME NEW m \in heads, Tops(m), number(told.head) <= number(m),
                 number(doing.head) <= number(m)
          PROVE \E k \in t : (\A h \in t : number(h) <= number(k)) /\ number(told.head) <= number(k)
      BY <2>1, <3>3 DEF Tops
    <3>4. ASSUME NEW m \in heads, Tops(m), number(told.head) <= number(m),
                 ~(number(doing.head) <= number(m))
          PROVE \E k \in t : (\A h \in t : number(h) <= number(k)) /\ number(told.head) <= number(k)
      <4>1. m \in Chains /\ told.head \in Chains /\ heads \subseteq Chains
        BY DEF Shape
      <4>2. \A h \in t : number(h) <= number(doing.head)
        BY <2>1, <2>2, <3>1, <3>4, <4>1 DEF Tops
      <4>3. number(told.head) <= number(doing.head)
        BY <2>2, <3>1, <3>4, <4>1
      <4> QED
        BY <2>1, <4>2, <4>3
    <3> QED
      BY <3>2, <3>3, <3>4 DEF RowKept
  <2>4. m \in heads'
    BY <2>2, <2>3, HighestStays
  <2>5. heads' \subseteq t
    BY <2>2 DEF TrimOldHeads
  <2> QED
    BY <2>2, <2>3, <2>4, <2>5 DEF RowKept, Tops
<1>5. CASE backfill
  <2>1. CASE Front(doing.at) \in heads
    BY <1>1, <1>5, <2>1 DEF backfill
  <2>2. CASE Front(doing.at) \notin heads
    <3>1. number(Front(doing.at)) \in Nat
      BY Numbers, FrontIsLower
    <3>2. number(Front(doing.at)) \in 0 .. number(best)
      BY <1>5, <2>2, <3>1, Numbers DEF backfill
    <3>3. Canonical(number(Front(doing.at))) \in Chains
      BY <3>2, Prefix DEF Shape, Canonical
    <3> QED
      BY <1>2, <1>5, <2>2, <3>3 DEF backfill
  <2> QED
    BY <2>1, <2>2
<1>6. CASE onNewLongestChain
  <2>1. doing.step \in Handed /\ told'.head = doing.head /\ heads' = heads
    BY <1>6 DEF onNewLongestChain, Handed
  <2>2. doing.head \in heads
    BY <2>1 DEF HandedOnlyHigher
  <2>3. PICK m \in heads : Tops(m)
    BY <2>2 DEF RowKept
  <2>4. number(doing.head) <= number(m)
    BY <2>2, <2>3 DEF Tops
  <2> QED
    BY <2>1, <2>3, <2>4 DEF RowKept, Tops
<1>7. CASE UNCHANGED vars
  BY <1>1, <1>7 DEF vars
<1>8. CASE NewBlock \/ Reorg \/ SubscriptionErr \/ Crash
  BY <1>1, <1>8 DEF NewBlock, Reorg, SubscriptionErr, Crash
<1>9. CASE Start \/ subscribeToHead \/ Receive \/ Chain \/ BackfillEnds
  BY <1>1, <1>9 DEF Start, subscribeToHead, Receive, Chain, BackfillEnds
<1> QED
  BY <1>3, <1>4, <1>5, <1>6, <1>7, <1>8, <1>9 DEF Next, TrackerStep

LEMMA KnownStep ==
    ASSUME IInv, [Next]_vars
    PROVE HighestKnown' /\ HandedOnlyHigher'
<1> DEFINE Known == HighestKnown /\ HandedOnlyHigher
<1> USE DEF IInv
<1>1. \A c \in Chains : number(c) \in Nat
  BY Numbers
<1>2. ASSUME UNCHANGED <<doing, highest, heads, told>> PROVE Known'
  BY <1>2 DEF HighestKnown, HandedOnlyHigher, Tops
<1>3. CASE UNCHANGED vars \/ NewBlock \/ Reorg
  BY <1>2, <1>3 DEF vars, NewBlock, Reorg
\* Whenever the tracker is idle or connects, what it knows remains.
<1>4. ASSUME doing'.step \in {"idle", "subscribe"}, Tops(highest)',
             (number(told.head) <= number(highest))'
      PROVE Known'
  BY <1>4 DEF HighestKnown, HandedOnlyHigher, Handed
<1>5. CASE SubscriptionErr
  <2>1. doing'.step = "subscribe" /\ UNCHANGED <<highest, heads, told>>
    BY <1>5, IdleTyped DEF SubscriptionErr, Resubscribes
  <2>2. doing.step # "down"
    BY <1>5 DEF SubscriptionErr
  <2> QED
    BY <1>4, <2>1, <2>2 DEF HighestKnown, Tops
<1>6. CASE Crash
  <2>1. doing'.step = "down"
    BY <1>6, IdleTyped DEF Crash
  <2> QED
    BY <2>1 DEF HighestKnown, HandedOnlyHigher, Handed
<1>7. CASE DatabaseFails
  <2>1. doing'.step = "subscribe" /\ UNCHANGED <<highest, told>>
    BY <1>7, IdleTyped DEF DatabaseFails, Resubscribes
  <2>2. /\ Tops(highest) /\ number(told.head) <= number(highest)
        /\ number(doing.head) <= number(highest)
    BY <1>7 DEF DatabaseFails, HighestKnown, HandedOnlyHigher, Handed
  <2>3. heads' \subseteq heads \cup {doing.head}
    BY <1>7 DEF DatabaseFails
  <2> QED
    BY <1>4, <2>1, <2>2, <2>3 DEF Tops
<1>8. CASE Start
  <2>1. doing'.step = "subscribe" /\ UNCHANGED <<heads, told>>
    BY <1>8, IdleTyped DEF Start
  <2>2. CASE heads = {}
    <3>1. told.head = None /\ highest' = None
      BY <1>8, <2>2 DEF Start, RowKept
    <3> QED
      BY <1>4, <2>1, <2>2, <3>1, FirstChains DEF Tops
  <2>3. CASE heads # {}
    <3>1. highest' \in heads /\ \A h \in heads : number(h) <= number(highest')
      BY <1>8, <2>3 DEF Start, LastHead
    <3>2. PICK m \in heads : number(told.head) <= number(m)
      BY <2>3 DEF RowKept
    <3>3. number(told.head) <= number(highest')
      <4>1. m \in Chains /\ highest' \in Chains /\ told.head \in Chains
        BY <3>1 DEF Shape
      <4> QED
        BY <1>1, <3>1, <3>2, <4>1
    <3> QED
      BY <1>4, <2>1, <3>1, <3>3 DEF Tops
  <2> QED
    BY <2>2, <2>3
<1>9. CASE subscribeToHead
  <2>1. doing'.step = "idle" /\ doing.step # "down" /\ UNCHANGED <<highest, heads, told>>
    BY <1>9, IdleTyped DEF subscribeToHead
  <2> QED
    BY <1>4, <2>1 DEF HighestKnown, Tops
<1>10. CASE Receive
  <2>1. PICK h : h = Head(buffer)
    OBVIOUS
  <2>2. h \in Chains
    BY <1>10, <2>1, HeadTailProperties DEF Receive, Shape
  <2>3. /\ doing'.step = "save" /\ doing'.head = h /\ doing'.prev = highest
        /\ UNCHANGED <<heads, told>>
        /\ highest' = IF number(h) > number(highest) THEN h ELSE highest
    BY <1>10, <2>1 DEF Receive, Idle
  <2>4. Tops(highest) /\ number(told.head) <= number(highest)
    BY <1>10 DEF Receive, HighestKnown
  <2>5. /\ number(h) <= number(highest') /\ number(highest) <= number(highest')
        /\ number(told.head) <= number(highest')
        /\ \A k \in heads : number(k) <= number(highest')
    <3>1. highest \in Chains /\ told.head \in Chains /\ heads \subseteq Chains
      BY DEF Shape
    <3> QED
      BY <1>1, <2>2, <2>3, <2>4, <3>1 DEF Tops
  <2> QED
    BY <2>3, <2>4, <2>5 DEF HighestKnown, HandedOnlyHigher, Handed, Tops
<1>11. CASE Save
  <2>1. /\ doing.step = "save" /\ UNCHANGED <<highest, told>>
        /\ Tops(highest) /\ number(told.head) <= number(highest)
        /\ number(doing.head) <= number(highest)
        /\ Tops(doing.prev) /\ number(told.head) <= number(doing.prev)
    BY <1>11 DEF Save, HighestKnown, HandedOnlyHigher
  <2>2. heads' = TrimOldHeads(heads \cup {doing.head})
    BY <1>11 DEF Save
  <2>3. \A k \in heads' : number(k) <= number(highest)
    BY <2>1, <2>2 DEF TrimOldHeads, Tops
  <2>4. CASE ~IsHighest
    <3>1. doing'.step = "idle"
      BY <1>11, <2>4, IdleTyped DEF Save
    <3> QED
      BY <1>4, <2>1, <2>3, <3>1 DEF Tops
  <2>5. CASE IsHighest
    <3>1. doing'.step = "chain" /\ doing'.head = doing.head
      BY <1>11, <2>5 DEF Save, Shape, Doings
    <3>2. {doing.head, doing.prev, told.head} \cup heads \subseteq Chains
      BY Numbers DEF Shape
    <3>3. \A k \in heads \cup {doing.head} : number(k) <= number(doing.head)
      BY <1>1, <2>1, <2>5, <3>2 DEF IsHighest, Tops
    <3>4. doing.head \in heads'
      BY <2>2, <3>2, <3>3, HighestStays
    <3>5. number(told.head) < number(doing.head)
      BY <1>1, <2>1, <2>5, <3>2 DEF IsHighest
    <3> QED
      BY <2>1, <2>3, <3>1, <3>4, <3>5 DEF HighestKnown, HandedOnlyHigher, Handed, Tops
  <2> QED
    BY <2>4, <2>5
\* While the chain is completed.
<1>12. ASSUME doing.step \in Handed, doing'.step \in Handed, doing'.head = doing.head,
              UNCHANGED <<highest, told>>, heads \subseteq heads',
              \A h \in heads' \ heads : number(h) <= number(highest),
              doing'.step = "backfill" => number(doing'.at) <= number(doing'.head)
       PROVE Known'
  BY <1>12 DEF HighestKnown, HandedOnlyHigher, Handed, Tops
<1>13. CASE Chain
  <2>1. /\ doing.step = "chain" /\ doing.head \in heads /\ UNCHANGED <<highest, heads, told>>
        /\ number(told.head) < number(doing.head)
    BY <1>13 DEF Chain, HandedOnlyHigher, Handed
  <2>2. PICK n : n = ChainLength(doing.head)
    OBVIOUS
  <2>3. doing.head \in Chains /\ n \in 1 .. number(doing.head)
    BY <1>1, <2>1, <2>2, Numbers, ChainLengthBounds
  <2>4. number(SubSeq(doing.head, 1, number(doing.head) - n + 1)) <= number(doing.head)
    <3>1. number(doing.head) - n + 1 \in 0 .. number(doing.head)
      BY <1>1, <2>3
    <3> QED
      BY <1>1, <2>3, <3>1, Prefix
  <2>5. doing'.step \in {"call", "backfill"} /\ doing'.head = doing.head
    BY <1>13 DEF Chain, Shape, Doings
  <2>6. doing'.step = "backfill" => doing'.at = SubSeq(doing.head, 1, number(doing.head) - n + 1)
    BY <1>13, <2>2 DEF Chain, Shape, Doings
  <2> QED
    BY <1>12, <2>1, <2>4, <2>5, <2>6 DEF Handed
<1>14. CASE backfill
  <2>1. /\ doing.step = "backfill" /\ UNCHANGED <<highest, told>>
        /\ number(doing.at) <= number(doing.head) /\ number(doing.head) <= number(highest)
        /\ number(told.head) < number(doing.head)
    BY <1>14 DEF backfill, HandedOnlyHigher, Handed
  <2>2. PICK parent : parent = Front(doing.at)
    OBVIOUS
  <2>3. {doing.at, doing.head, highest, told.head, best} \subseteq Chains
    BY Numbers
  <2>4. /\ parent \in Chains
        /\ number(parent) <= number(doing.head) /\ number(parent) <= number(highest)
    BY <1>1, <2>1, <2>2, <2>3, FrontIsLower
  <2>5. CASE parent \in heads
    <3>1. /\ heads' = heads /\ doing'.step = "backfill" /\ doing'.head = doing.head
          /\ doing'.at = parent
      BY <1>14, <2>2, <2>1, <2>5 DEF backfill, Shape, Doings
    <3> QED
      BY <1>12, <2>1, <2>4, <3>1 DEF Handed
  <2>6. CASE parent \notin heads
    <3>1. PICK h : h = Canonical(number(parent))
      OBVIOUS
    <3>2. /\ heads' = heads \cup {h} /\ doing'.step = "backfill" /\ doing'.head = doing.head
          /\ doing'.at = h /\ number(parent) <= number(best)
      BY <1>14, <2>1, <2>2, <2>6, <3>1 DEF backfill, Shape, Doings
    <3>3. number(h) = number(parent)
      BY <1>1, <2>3, <2>4, <3>1, <3>2, Prefix DEF Canonical
    <3> QED
      BY <1>12, <2>1, <2>4, <3>2, <3>3 DEF Handed
  <2> QED
    BY <2>5, <2>6
<1>15. CASE BackfillEnds
  <2>1. /\ doing.step = "backfill" /\ doing'.step = "call" /\ doing'.head = doing.head
        /\ UNCHANGED <<highest, heads, told>>
    BY <1>15 DEF BackfillEnds, Shape, Doings
  <2> QED
    BY <1>12, <2>1 DEF Handed
<1>16. CASE onNewLongestChain
  <2>1. /\ doing.step = "call" /\ doing'.step = "idle" /\ told'.head = doing.head
        /\ UNCHANGED <<highest, heads>>
    BY <1>16, IdleTyped DEF onNewLongestChain
  <2>2. Tops(highest) /\ number(doing.head) <= number(highest)
    BY <2>1 DEF HighestKnown, HandedOnlyHigher, Handed
  <2> QED
    BY <1>4, <2>1, <2>2 DEF Tops
<1> QED
  BY <1>3, <1>5, <1>6, <1>7, <1>8, <1>9, <1>10, <1>11, <1>13, <1>14, <1>15, <1>16
  DEF Next, TrackerStep

-----------------------------------------------------------------------------
(* The chain of a head *)

\* The table has the ancestors of block down to height n.
Joined(block, n) == \A i \in n .. number(block) : SubSeq(block, 1, i) \in heads

\* Unless a reorganisation interfered, backfill has joined the head to where it
\* is, on the head's own chain, and ends at the base.
BackfillJoins ==
    /\ doing.step = "backfill" /\ doing.undisturbed =>
          /\ number(doing.at) > 0
          /\ doing.at = SubSeq(doing.head, 1, number(doing.at))
          /\ Joined(doing.head, number(doing.at))
    /\ doing.step = "call" /\ doing.undisturbed => Joined(doing.head, BaseHeight(doing.head))

LEMMA MaxOfTwo ==
    ASSUME NEW a \in Int, NEW b \in Int
    PROVE Max({a, b}) = IF a <= b THEN b ELSE a
BY DEF Max

LEMMA BaseOfChain ==
    ASSUME NEW block \in Chains, number(block) > 0
    PROVE /\ FinalityDepth \in Nat \ {0} /\ number(block) \in Nat
          /\ BaseHeight(block) = IF number(block) <= FinalityDepth THEN 1
                                 ELSE number(block) - FinalityDepth + 1
<1>1. FinalityDepth \in Nat \ {0} /\ number(block) \in Nat
  BY TrackerAssumption DEF Chains, number
<1>2. number(Genesis) = 1
  BY DEF number, Genesis
<1>3. number(block) - (FinalityDepth - 1) \in Int
  BY <1>1
<1> QED
  BY <1>1, <1>2, <1>3, MaxOfTwo DEF BaseHeight

\* ChainLength counts rows that are joined, and all that it looks for.
LEMMA ChainLengthJoins ==
    ASSUME NEW block \in Chains, block \in heads, number(block) > 0
    PROVE /\ Joined(block, number(block) - ChainLength(block) + 1)
          /\ Joined(block, BaseHeight(block)) =>
                ChainLength(block) = Min({FinalityDepth, number(block)})
<1> DEFINE len == number(block)
           Linked == {k \in 0 .. number(block) :
                         \A i \in 0 .. k - 1 : SubSeq(block, 1, number(block) - i) \in heads}
           m == Max(Linked)
<1>1. len \in Nat /\ FinalityDepth \in Nat \ {0}
  BY BaseOfChain
<1>2. 0 \in Linked
  BY <1>1
<1>3. m \in Linked /\ \A k \in Linked : k <= m
  <2>1. Linked \in SUBSET (0 .. len)
    OBVIOUS
  <2> HIDE DEF Linked
  <2> QED
    BY <1>1, <1>2, <2>1, MaxOfSome
<1>4. ChainLength(block) = Min({FinalityDepth, m})
  BY DEF ChainLength
<1>5. m \in 0 .. len /\ \A i \in 0 .. m - 1 : SubSeq(block, 1, len - i) \in heads
  BY <1>3
<1>6. ASSUME Joined(block, BaseHeight(block)) PROVE \E k \in Linked : k = Min({FinalityDepth, len})
  <2>1. PICK k : k = Min({FinalityDepth, len})
    OBVIOUS
  <2>2. k = IF FinalityDepth <= len THEN FinalityDepth ELSE len
    BY <1>1, <2>1, MinOfTwo
  <2>3. k \in 0 .. len /\ BaseHeight(block) = len - k + 1
    BY <1>1, <2>2, BaseOfChain
  <2>4. ASSUME NEW i \in 0 .. k - 1 PROVE SubSeq(block, 1, len - i) \in heads
    <3>1. len - i \in BaseHeight(block) .. len
      BY <1>1, <2>3
    <3> QED
      BY <1>6, <3>1 DEF Joined
  <2> QED
    BY <2>1, <2>3, <2>4
<1> HIDE DEF Linked, m
<1>7. ChainLength(block) \in Nat /\ ChainLength(block) <= m
  BY <1>1, <1>4, <1>5, MinOfTwo
<1>8. Joined(block, len - ChainLength(block) + 1)
  <2> SUFFICES ASSUME NEW j \in len - ChainLength(block) + 1 .. len
               PROVE SubSeq(block, 1, j) \in heads
    BY DEF Joined
  <2>1. len - j \in 0 .. m - 1 /\ len - (len - j) = j
    BY <1>1, <1>5, <1>7
  <2> QED
    BY <1>5, <2>1
<1>9. ASSUME Joined(block, BaseHeight(block)) PROVE ChainLength(block) = Min({FinalityDepth, len})
  <2>1. PICK k \in Linked : k = Min({FinalityDepth, len})
    BY <1>6, <1>9
  <2>2. k <= m
    BY <1>3, <2>1
  <2>3. k = IF FinalityDepth <= len THEN FinalityDepth ELSE len
    BY <1>1, <2>1, MinOfTwo
  <2>4. Min({FinalityDepth, m}) = IF FinalityDepth <= m THEN FinalityDepth ELSE m
    BY <1>1, <1>5, MinOfTwo
  <2> QED
    BY <1>1, <1>4, <1>5, <2>1, <2>2, <2>3, <2>4
<1> QED
  BY <1>8, <1>9

\* An ancestor of an ancestor is an ancestor.
LEMMA PrefixOfPrefix ==
    ASSUME NEW block \in Chains, NEW n \in 0 .. number(block), NEW k \in 0 .. n
    PROVE SubSeq(SubSeq(block, 1, n), 1, k) = SubSeq(block, 1, k)
<1> DEFINE up == SubSeq(block, 1, n)
<1>1. number(block) \in Nat /\ k \in 0 .. number(block)
  BY DEF Chains, number
<1>2. /\ up \in Seq(Nat) /\ Len(up) = n
      /\ \A i \in 1 .. n : up[i] = block[i]
  BY <1>1, SubSeqProperties DEF Chains, number
<1> HIDE DEF up
<1>3. /\ SubSeq(up, 1, k) \in Seq(Nat) /\ Len(SubSeq(up, 1, k)) = k
      /\ \A i \in 1 .. k : SubSeq(up, 1, k)[i] = up[i]
  BY <1>1, <1>2, SubSeqProperties
<1>4. /\ SubSeq(block, 1, k) \in Seq(Nat) /\ Len(SubSeq(block, 1, k)) = k
      /\ \A i \in 1 .. k : SubSeq(block, 1, k)[i] = block[i]
  BY <1>1, SubSeqProperties DEF Chains, number
<1>5. \A i \in 1 .. k : SubSeq(up, 1, k)[i] = SubSeq(block, 1, k)[i]
  BY <1>1, <1>2, <1>3, <1>4
<1> QED
  BY <1>3, <1>4, <1>5, SeqEqual DEF up

LEMMA JoinStep ==
    ASSUME IInv, BackfillJoins, [Next]_vars
    PROVE BackfillJoins'
<1> USE DEF IInv
<1>1. CASE UNCHANGED <<doing, heads>>
  BY <1>1 DEF BackfillJoins, Joined
<1>2. CASE doing'.step \notin {"backfill", "call"}
  BY <1>2 DEF BackfillJoins
<1>3. ASSUME Start \/ subscribeToHead \/ SubscriptionErr \/ Crash \/ DatabaseFails \/ onNewLongestChain
      PROVE doing'.step \notin {"backfill", "call"}
  BY <1>3, IdleTyped
  DEF Start, subscribeToHead, SubscriptionErr, Crash, DatabaseFails, Resubscribes, onNewLongestChain
<1>4. ASSUME Receive \/ Save PROVE doing'.step \notin {"backfill", "call"}
  <2>1. CASE Receive
    BY <2>1 DEF Receive, Idle
  <2>2. CASE Save /\ IsHighest
    BY <2>2 DEF Save, Shape, Doings
  <2>3. CASE Save /\ ~IsHighest
    BY <2>3, IdleTyped DEF Save
  <2> QED
    BY <1>4, <2>1, <2>2, <2>3
<1>5. ASSUME doing.step \in Handed
      PROVE /\ doing.head \in Chains /\ doing.head \in heads /\ number(doing.head) \in Nat
            /\ number(doing.head) > 0
  <2>1. {doing.head, told.head} \subseteq Chains
    BY Numbers
  <2>2. number(told.head) \in Nat /\ number(doing.head) \in Nat
    BY <2>1, Numbers
  <2> QED
    BY <1>5, <2>1, <2>2 DEF HandedOnlyHigher
<1>6. CASE Chain
  <2>1. doing.step \in Handed /\ UNCHANGED heads
    BY <1>6 DEF Chain, Handed
  <2>2. PICK head, n : head = doing.head /\ n = ChainLength(head)
    OBVIOUS
  <2>3. head \in Chains /\ head \in heads /\ number(head) \in Nat /\ number(head) > 0
    BY <1>5, <2>1, <2>2
  <2>4. n \in 1 .. number(head) /\ Joined(head, number(head) - n + 1)
    BY <2>2, <2>3, ChainLengthBounds, ChainLengthJoins
  <2>5. PICK b : b = number(head) - n + 1
    OBVIOUS
  <2>6. b \in 1 .. number(head)
    BY <2>3, <2>4, <2>5
  <2>7. CASE n >= FinalityDepth
    <3>1. doing'.step = "call" /\ doing'.head = head
      BY <1>6, <2>2, <2>7 DEF Chain, Shape, Doings
    <3>2. BaseHeight(head) >= b
      <4>1. BaseHeight(head) = IF number(head) <= FinalityDepth THEN 1
                               ELSE number(head) - FinalityDepth + 1
        BY <2>3, BaseOfChain
      <4> QED
        BY <2>3, <2>4, <2>5, <2>6, <2>7, <4>1, BaseOfChain
    <3>3. Joined(head, BaseHeight(head))
      BY <2>3, <2>4, <2>5, <2>6, <3>2, BaseOfChain DEF Joined
    <3> QED
      BY <2>1, <3>1, <3>3 DEF BackfillJoins, Joined
  <2>8. CASE ~(n >= FinalityDepth)
    <3>1. doing'.step = "backfill" /\ doing'.head = head /\ doing'.at = SubSeq(head, 1, b)
      BY <1>6, <2>2, <2>5, <2>8 DEF Chain, Shape, Doings
    <3>2. number(SubSeq(head, 1, b)) = b
      BY <2>3, <2>6, Prefix
    <3> QED
      BY <2>1, <2>4, <2>5, <2>6, <3>1, <3>2 DEF BackfillJoins, Joined
  <2> QED
    BY <2>7, <2>8
<1>7. CASE backfill
  <2>1. doing.step = "backfill" /\ ~ReachesBase /\ heads \subseteq heads'
    BY <1>7 DEF backfill
  <2>2. PICK head, at : head = doing.head /\ at = doing.at
    OBVIOUS
  <2>3. PICK n : n = number(at) - 1
    OBVIOUS
  <2>4. /\ head \in Chains /\ number(head) \in Nat /\ number(head) > 0
        /\ at \in Chains /\ number(at) \in Nat /\ number(at) <= number(head)
    BY <1>5, <2>1, <2>2, Numbers DEF Handed, HandedOnlyHigher
  <2>5. number(at) > 1
    BY <2>1, <2>2, <2>4, BaseOfChain DEF ReachesBase
  <2>6. n \in 1 .. number(at) /\ n \in 0 .. number(head) /\ n \in 0 .. number(at)
    BY <2>3, <2>4, <2>5
  <2>7. Front(at) = SubSeq(at, 1, n) /\ number(Front(at)) = n
    <3>1. Front(at) = SubSeq(at, 1, n)
      BY <2>3 DEF Front, number
    <3> QED
      BY <2>4, <2>6, <3>1, Prefix
  \* The parent, or what is fetched in its place, is the head's own ancestor.
  <2>8. ASSUME doing.undisturbed, doing'.at = SubSeq(head, 1, n), SubSeq(head, 1, n) \in heads',
               doing'.head = head, doing'.step = "backfill"
        PROVE BackfillJoins'
    <3>1. Joined(head, number(at))
      BY <2>1, <2>2, <2>8 DEF BackfillJoins
    <3>2. \A i \in n .. number(head) : SubSeq(head, 1, i) \in heads'
      BY <2>1, <2>3, <2>4, <2>6, <2>8, <3>1 DEF Joined
    <3>3. number(SubSeq(head, 1, n)) = n
      BY <2>4, <2>6, Prefix
    <3> QED
      BY <2>6, <2>8, <3>2, <3>3 DEF BackfillJoins, Joined
  <2>9. ASSUME doing.undisturbed PROVE Front(at) = SubSeq(head, 1, n)
    <3>1. at = SubSeq(head, 1, number(at))
      BY <2>1, <2>2, <2>9 DEF BackfillJoins
    <3>2. number(at) \in 0 .. number(head)
      BY <2>4
    <3> QED
      BY <2>4, <2>6, <2>7, <3>1, <3>2, PrefixOfPrefix
  <2>10. CASE Front(at) \in heads
    <3>1. /\ doing'.step = "backfill" /\ doing'.head = head /\ doing'.at = Front(at)
          /\ doing'.undisturbed = doing.undisturbed /\ heads' = heads
      BY <1>7, <2>1, <2>2, <2>10 DEF backfill, Shape, Doings
    <3>2. CASE doing.undisturbed
      BY <2>8, <2>9, <2>10, <3>1, <3>2
    <3>3. CASE ~doing.undisturbed
      BY <3>1, <3>3 DEF BackfillJoins
    <3> QED
      BY <3>2, <3>3
  <2>11. CASE Front(at) \notin heads
    <3>1. /\ doing'.step = "backfill" /\ doing'.head = head /\ doing'.at = Canonical(n)
          /\ doing'.undisturbed = (doing.undisturbed /\ IsCanonical(head))
          /\ heads' = heads \cup {Canonical(n)}
      BY <1>7, <2>1, <2>2, <2>7, <2>11 DEF backfill, Shape, Doings
    <3>2. CASE doing.undisturbed /\ IsCanonical(head)
      <4>1. best \in Chains /\ number(best) \in Nat
        BY Numbers DEF Shape
      <4>2. number(head) \in 0 .. number(best) /\ head = SubSeq(best, 1, number(head))
        BY <2>4, <3>2, <4>1 DEF IsCanonical, Canonical
      <4>3. Canonical(n) = SubSeq(head, 1, n)
        BY <2>6, <4>1, <4>2, PrefixOfPrefix DEF Canonical
      <4> QED
        BY <2>8, <3>1, <3>2, <4>3
    <3>3. CASE ~(doing.undisturbed /\ IsCanonical(head))
      BY <3>1, <3>3 DEF BackfillJoins
    <3> QED
      BY <3>2, <3>3
  <2> QED
    BY <2>10, <2>11
<1>8. CASE BackfillEnds
  <2>1. /\ doing.step = "backfill" /\ doing'.step = "call" /\ doing'.head = doing.head
        /\ doing'.undisturbed => doing.undisturbed /\ ReachesBase
        /\ UNCHANGED heads
    BY <1>8 DEF BackfillEnds, Shape, Doings
  <2>2. ASSUME doing'.undisturbed PROVE Joined(doing.head, BaseHeight(doing.head))
    <3>1. Joined(doing.head, number(doing.at)) /\ number(doing.at) <= BaseHeight(doing.head)
      BY <2>1, <2>2 DEF BackfillJoins, ReachesBase
    <3>2. /\ doing.head \in Chains /\ number(doing.head) \in Nat /\ number(doing.head) > 0
          /\ number(doing.at) \in Nat
      BY <1>5, <2>1, Numbers DEF Handed
    <3>3. BaseHeight(doing.head) \in Nat
      BY <3>2, BaseOfChain
    <3> QED
      BY <3>1, <3>2, <3>3 DEF Joined
  <2> QED
    BY <2>1, <2>2 DEF BackfillJoins, Joined
<1>9. CASE UNCHANGED vars \/ NewBlock \/ Reorg
  BY <1>1, <1>9 DEF vars, NewBlock, Reorg
<1> QED
  BY <1>2, <1>3, <1>4, <1>6, <1>7, <1>8, <1>9 DEF Next, TrackerStep

LEMMA CompleteStep ==
    ASSUME IInv, BackfillJoins, ChainIsComplete, [Next]_vars
    PROVE ChainIsComplete'
<1>1. CASE UNCHANGED told
  BY <1>1 DEF ChainIsComplete
<1>2. CASE onNewLongestChain
  <2>1. /\ doing.step = "call"
        /\ told' = [head |-> doing.head, length |-> ChainLength(doing.head),
                    undisturbed |-> doing.undisturbed]
    BY <1>2 DEF onNewLongestChain
  <2>2. doing.head \in heads /\ {doing.head, told.head} \subseteq Chains
        /\ number(told.head) < number(doing.head)
    BY <2>1, Numbers DEF IInv, HandedOnlyHigher, Handed
  <2>3. number(doing.head) > 0
    BY <2>2, Numbers DEF IInv
  <2>4. ASSUME doing.undisturbed
        PROVE ChainLength(doing.head) = Min({FinalityDepth, number(doing.head)})
    BY <2>1, <2>2, <2>3, <2>4, ChainLengthJoins DEF BackfillJoins
  <2> QED
    BY <2>1, <2>4 DEF ChainIsComplete
<1> QED
  BY <1>1, <1>2
  DEF Next, TrackerStep, vars, NewBlock, Reorg, SubscriptionErr, Crash, DatabaseFails,
      Start, subscribeToHead, Receive, Save, Chain, backfill, BackfillEnds

-----------------------------------------------------------------------------
(* Types *)

Forks == 0 .. MaxReorgs

\* What is in memory and in the table are blocks of the chains that there were;
\* while there is no head at hand, none is kept.
Bounds ==
    /\ best \in Blocks /\ reorgs \in Forks
    /\ buffer \in Seq(Blocks) /\ Len(buffer) <= BufferSize
    /\ {doing.head, doing.prev, doing.at, highest, told.head} \subseteq Blocks \cup {None}
    /\ heads \subseteq Blocks
    /\ due \subseteq 1 .. MaxHeight
    /\ IF doing.step \in {"save"} \cup Handed THEN doing.head \in Blocks ELSE doing.head = None
    /\ doing.step = "backfill" => doing.at \in Blocks

LEMMA BlockIs ==
    ASSUME NEW b
    PROVE b \in Blocks <=> (b \in Seq(Forks) /\ Len(b) \in 1 .. MaxHeight)
<1>1. ASSUME b \in Blocks PROVE b \in Seq(Forks) /\ Len(b) \in 1 .. MaxHeight
  <2>1. PICK n \in 1 .. MaxHeight : b \in [1 .. n -> Forks]
    BY <1>1 DEF Blocks, Forks
  <2> QED
    BY <2>1, TrackerAssumption
<1>2. ASSUME b \in Seq(Forks), Len(b) \in 1 .. MaxHeight PROVE b \in Blocks
  <2>1. b \in [1 .. Len(b) -> Forks]
    BY <1>2
  <2> QED
    BY <1>2, <2>1 DEF Blocks, Forks
<1> QED
  BY <1>1, <1>2

LEMMA BlocksAreChains ==
    ASSUME NEW b \in Blocks
    PROVE b \in Chains /\ number(b) \in 1 .. MaxHeight
<1>1. b \in Seq(Forks) /\ Len(b) \in 1 .. MaxHeight
  BY BlockIs
<1>2. b \in Seq(Nat)
  <2>1. \A i \in 1 .. Len(b) : b[i] \in Nat
    BY <1>1, TrackerAssumption DEF Forks
  <2>2. b \in [1 .. Len(b) -> Nat]
    BY <1>1, <2>1
  <2> QED
    BY <1>1, <2>2
<1> QED
  BY <1>1, <1>2 DEF Chains, number

LEMMA PrefixFits ==
    ASSUME NEW b \in Blocks, NEW n \in 1 .. number(b)
    PROVE SubSeq(b, 1, n) \in Blocks /\ number(SubSeq(b, 1, n)) = n
<1>1. b \in Seq(Forks) /\ Len(b) \in 1 .. MaxHeight /\ n \in 1 .. Len(b) /\ n \in 0 .. Len(b)
  <2>1. b \in Seq(Forks) /\ Len(b) \in 1 .. MaxHeight /\ MaxHeight \in Nat
    BY BlockIs, TrackerAssumption
  <2> QED
    BY <2>1 DEF number
<1>2. SubSeq(b, 1, n) \in Seq(Forks) /\ Len(SubSeq(b, 1, n)) = n
  BY <1>1, SubSeqProperties
<1>3. n \in 1 .. MaxHeight
  BY <1>1, TrackerAssumption
<1> QED
  BY <1>2, <1>3, BlockIs DEF number

LEMMA SendsKeeps ==
    ASSUME Bounds, NEW h \in Blocks, Sends(h)
    PROVE /\ buffer' \in Seq(Blocks) /\ Len(buffer') <= BufferSize
          /\ due' \subseteq 1 .. MaxHeight
<1>1. BufferSize \in Nat \ {0} /\ buffer \in Seq(Blocks) /\ Len(buffer) \in Nat
      /\ Len(buffer) <= BufferSize
  BY TrackerAssumption DEF Bounds
<1>2. due' \subseteq due \cup {number(h)}
  BY DEF Sends
<1>3. due' \subseteq 1 .. MaxHeight
  BY <1>2, BlocksAreChains DEF Bounds
<1>4. CASE UNCHANGED buffer
  BY <1>1, <1>3, <1>4
<1>5. CASE buffer' = KeepLatest(buffer, h)
  <2>1. CASE Len(buffer) < BufferSize
    <3>1. buffer' = Append(buffer, h)
      BY <1>5, <2>1 DEF KeepLatest
    <3>2. buffer' \in Seq(Blocks) /\ Len(buffer') = Len(buffer) + 1
      BY <1>1, <3>1, AppendProperties
    <3> QED
      BY <1>1, <1>3, <2>1, <3>2
  <2>2. CASE ~(Len(buffer) < BufferSize)
    <3>1. buffer' = Append(Tail(buffer), h) /\ buffer # <<>>
      BY <1>1, <1>5, <2>2 DEF KeepLatest
    <3>2. Tail(buffer) \in Seq(Blocks) /\ Len(Tail(buffer)) = Len(buffer) - 1
      BY <1>1, <3>1, HeadTailProperties
    <3>3. buffer' \in Seq(Blocks) /\ Len(buffer') = Len(Tail(buffer)) + 1
      BY <3>1, <3>2, AppendProperties
    <3> QED
      BY <1>1, <1>3, <3>2, <3>3
  <2> QED
    BY <2>1, <2>2
<1> QED
  BY <1>4, <1>5 DEF Sends

LEMMA IdleIs ==
    /\ Idle.head = None /\ Idle.prev = None /\ Idle.at = None /\ Idle.step = "idle"
    /\ \A s \in {"down", "subscribe"} :
          LET d == [Idle EXCEPT !.step = s]
          IN  d.step = s /\ d.head = None /\ d.prev = None /\ d.at = None
BY DEF Idle

\* The goroutine has no head at hand.
LEMMA RestFits ==
    ASSUME Bounds, doing' \in {Idle} \cup {[Idle EXCEPT !.step = s] : s \in {"down", "subscribe"}},
           UNCHANGED <<best, reorgs>>, buffer' \in {buffer, <<>>},
           highest' \in Blocks \cup {None}, told'.head \in Blocks \cup {None},
           heads' \subseteq Blocks, due' \subseteq due
    PROVE Bounds'
<1>1. /\ doing'.step \in {"idle", "down", "subscribe"}
      /\ doing'.head = None /\ doing'.prev = None /\ doing'.at = None
  BY IdleIs
<1>2. buffer' \in Seq(Blocks) /\ Len(buffer') <= BufferSize
  <2>1. BufferSize \in Nat
    BY TrackerAssumption
  <2>2. CASE buffer' = buffer
    BY <2>2 DEF Bounds
  <2>3. CASE buffer' = <<>>
    BY <2>1, <2>3
  <2> QED
    BY <2>2, <2>3
<1> QED
  BY <1>1, <1>2 DEF Bounds, Handed

LEMMA BoundsStep ==
    ASSUME IInv, Bounds, [Next]_vars
    PROVE Bounds'
<1>1. CASE UNCHANGED vars
  BY <1>1 DEF vars, Bounds
<1>2. CASE NewBlock
  <2>1. best' = Append(best, reorgs) /\ number(best) < MaxHeight /\ Sends(best')
    BY <1>2 DEF NewBlock
  <2>2. best \in Seq(Forks) /\ Len(best) \in 1 .. MaxHeight /\ reorgs \in Forks
    BY BlockIs DEF Bounds
  <2>3. best' \in Seq(Forks) /\ Len(best') = Len(best) + 1
    BY <2>1, <2>2, AppendProperties
  <2>4. best' \in Blocks
    <3>1. Len(best') \in 1 .. MaxHeight
      BY <2>1, <2>2, <2>3, TrackerAssumption DEF number
    <3> QED
      BY <2>3, <3>1, BlockIs
  <2>5. PICK h : h = best'
    OBVIOUS
  <2>6. /\ buffer' \in Seq(Blocks) /\ Len(buffer') <= BufferSize
        /\ due' \subseteq 1 .. MaxHeight
    BY <2>1, <2>4, <2>5, SendsKeeps
  <2> QED
    BY <1>2, <2>4, <2>6 DEF NewBlock, Bounds
<1>3. CASE Reorg
  <2>1. PICK n \in 1 .. number(best) - 1 :
            best' = Canonical(n) \o [i \in 1 .. number(best) - n |-> reorgs']
    BY <1>3 DEF Reorg
  <2>2. /\ best \in Seq(Forks) /\ Len(best) \in 1 .. MaxHeight
        /\ number(best) = Len(best) /\ reorgs' \in Forks
    <3>1. reorgs' \in Forks
      BY <1>3, TrackerAssumption DEF Reorg, Bounds, Forks
    <3> QED
      BY <3>1, BlockIs DEF Bounds, number
  <2>3. PICK new : new = [i \in 1 .. number(best) - n |-> reorgs']
    OBVIOUS
  <2>4. new \in Seq(Forks) /\ Len(new) = number(best) - n
    <3>1. number(best) - n \in Nat
      BY <2>2, TrackerAssumption
    <3>2. \A i \in 1 .. number(best) - n : reorgs' \in Forks
      BY <2>2
    <3>3. new \in [1 .. number(best) - n -> Forks]
      BY <2>2, <2>3
    <3> QED
      BY <3>1, <3>3
  <2>5. Canonical(n) \in Seq(Forks) /\ Len(Canonical(n)) = n
    <3>1. n \in 0 .. Len(best)
      BY <2>2, TrackerAssumption
    <3> QED
      BY <2>2, <3>1, SubSeqProperties DEF Canonical
  <2>6. best' \in Seq(Forks) /\ Len(best') = n + (number(best) - n)
    <3>1. PICK kept : kept = Canonical(n)
      OBVIOUS
    <3>2. best' = kept \o new
      BY <2>1, <2>3, <3>1
    <3> QED
      BY <2>4, <2>5, <3>1, <3>2, ConcatProperties
  <2>7. Len(best') = Len(best)
    BY <2>2, <2>6, TrackerAssumption
  <2>8. best' \in Blocks /\ number(best') = number(best)
    BY <2>2, <2>6, <2>7, BlockIs DEF number
  <2>9. PICK k \in 1 .. number(best) : Sends(SubSeq(best', 1, k))
    BY <1>3 DEF Reorg
  <2>10. PICK h : h = SubSeq(best', 1, k)
    OBVIOUS
  <2>11. h \in Blocks /\ Sends(h)
    BY <2>8, <2>9, <2>10, PrefixFits
  <2>12. /\ buffer' \in Seq(Blocks) /\ Len(buffer') <= BufferSize
         /\ due' \subseteq 1 .. MaxHeight
    BY <2>11, SendsKeeps
  <2> QED
    BY <1>3, <2>2, <2>8, <2>12 DEF Reorg, Bounds
<1>4. CASE SubscriptionErr \/ Crash \/ subscribeToHead
  BY <1>4, RestFits DEF SubscriptionErr, Resubscribes, Crash, subscribeToHead, Bounds
<1>5. CASE Start
  BY <1>5, RestFits DEF Start, LastHead, Bounds
<1>6. CASE DatabaseFails
  <2>1. heads' \subseteq Blocks
    BY <1>6 DEF DatabaseFails, Bounds
  <2> QED
    BY <1>6, <2>1, RestFits DEF DatabaseFails, Resubscribes, Bounds
<1>7. CASE Receive
  <2>1. PICK h : h = Head(buffer)
    OBVIOUS
  <2>2. /\ h \in Blocks /\ buffer' \in Seq(Blocks) /\ Len(buffer') <= BufferSize
    <3>1. buffer # <<>> /\ buffer \in Seq(Blocks) /\ buffer' = Tail(buffer)
          /\ Len(buffer) <= BufferSize
      BY <1>7 DEF Receive, Bounds
    <3>2. Head(buffer) \in Blocks /\ Tail(buffer) \in Seq(Blocks) /\ Len(Tail(buffer)) = Len(buffer) - 1
      BY <3>1, HeadTailProperties
    <3>3. Len(buffer) \in Nat /\ BufferSize \in Nat
      BY <3>1, TrackerAssumption
    <3> QED
      BY <2>1, <3>1, <3>2, <3>3
  <2>3. /\ doing'.step = "save" /\ doing'.head = h /\ doing'.prev = highest /\ doing'.at = None
        /\ highest' \in {h, highest}
    BY <1>7, <2>1 DEF Receive, Idle
  <2> QED
    BY <1>7, <2>2, <2>3 DEF Receive, Bounds
<1>8. CASE Save
  <2>1. doing.head \in Blocks
    BY <1>8 DEF Save, Bounds
  <2>2. heads' \subseteq Blocks
    BY <1>8, <2>1 DEF Save, TrimOldHeads, Bounds
  <2>3. CASE IsHighest
    <3>1. doing'.step = "chain" /\ doing'.head = doing.head /\ doing'.prev = doing.prev
          /\ doing'.at = doing.at /\ due' = due
      BY <1>8, <2>3 DEF Save, IInv, Shape, Doings
    <3> QED
      BY <1>8, <2>1, <2>2, <3>1 DEF Save, Bounds, Handed
  <2>4. CASE ~IsHighest
    BY <1>8, <2>2, <2>4, RestFits DEF Save, Bounds
  <2> QED
    BY <2>3, <2>4
<1>9. CASE Chain
  <2>1. PICK head, n : head = doing.head /\ n = ChainLength(head)
    OBVIOUS
  <2>2. doing.step = "chain" /\ head \in heads /\ head \in Blocks
    BY <1>9, <2>1 DEF Chain, Handed, IInv, HandedOnlyHigher, Bounds
  <2>3. head \in Chains /\ number(head) \in Nat /\ number(head) > 0
    BY <2>2, BlocksAreChains, TrackerAssumption
  <2>4. n \in 1 .. number(head)
    BY <2>1, <2>2, <2>3, ChainLengthBounds
  <2>5. SubSeq(head, 1, number(head) - n + 1) \in Blocks
    <3>1. number(head) - n + 1 \in 1 .. number(head)
      BY <2>3, <2>4
    <3> QED
      BY <2>2, <3>1, PrefixFits
  <2>6. /\ doing'.step \in {"call", "backfill"} /\ doing'.head = head /\ doing'.prev = doing.prev
        /\ doing'.step = "call" => doing'.at = doing.at
        /\ doing'.step = "backfill" => doing'.at = SubSeq(head, 1, number(head) - n + 1)
    BY <1>9, <2>1 DEF Chain, IInv, Shape, Doings
  <2> QED
    BY <1>9, <2>2, <2>5, <2>6 DEF Chain, Bounds, Handed
<1>10. CASE backfill
  <2>1. PICK at, parent : at = doing.at /\ parent = Front(at)
    OBVIOUS
  <2>2. doing.step = "backfill" /\ at \in Blocks /\ doing.head \in Blocks
    BY <1>10, <2>1 DEF backfill, Bounds, Handed
  <2>3. /\ at \in Chains /\ number(at) \in Nat /\ number(at) > 0
        /\ doing.head \in Chains /\ number(doing.head) \in Nat /\ number(doing.head) > 0
    BY <2>2, BlocksAreChains, TrackerAssumption
  <2>4. number(at) > 1
    BY <1>10, <2>1, <2>3, BaseOfChain DEF backfill, ReachesBase
  <2>5. parent \in Blocks /\ number(parent) \in Nat \ {0}
    <3>1. parent = SubSeq(at, 1, number(at) - 1)
      BY <2>1 DEF Front, number
    <3>2. number(at) - 1 \in 1 .. number(at)
      BY <2>3, <2>4
    <3> QED
      BY <2>2, <3>1, <3>2, PrefixFits
  <2>6. CASE parent \in heads
    <3>1. /\ doing'.step = "backfill" /\ doing'.head = doing.head /\ doing'.prev = doing.prev
          /\ doing'.at = parent /\ UNCHANGED heads
      BY <1>10, <2>1, <2>2, <2>6 DEF backfill, IInv, Shape, Doings
    <3> QED
      BY <1>10, <2>2, <2>5, <3>1 DEF backfill, Bounds, Handed
  <2>7. CASE parent \notin heads
    <3>1. PICK h : h = Canonical(number(parent))
      OBVIOUS
    <3>2. /\ doing'.step = "backfill" /\ doing'.head = doing.head /\ doing'.prev = doing.prev
          /\ doing'.at = h /\ heads' = heads \cup {h} /\ number(parent) <= number(best)
      BY <1>10, <2>1, <2>2, <2>7, <3>1 DEF backfill, IInv, Shape, Doings
    <3>3. best \in Blocks /\ number(best) \in Nat
      BY BlocksAreChains, TrackerAssumption DEF Bounds
    <3>4. h \in Blocks
      BY <2>5, <3>1, <3>2, <3>3, PrefixFits DEF Canonical
    <3> QED
      BY <1>10, <2>2, <3>2, <3>4 DEF backfill, Bounds, Handed
  <2> QED
    BY <2>6, <2>7
<1>11. CASE BackfillEnds
  <2>1. /\ doing.step = "backfill" /\ doing'.step = "call" /\ doing'.head = doing.head
        /\ doing'.prev = doing.prev /\ doing'.at = doing.at
    BY <1>11 DEF BackfillEnds, IInv, Shape, Doings
  <2> QED
    BY <1>11, <2>1 DEF BackfillEnds, Bounds, Handed
<1>12. CASE onNewLongestChain
  <2>1. told'.head = doing.head /\ due' \subseteq due
    BY <1>12 DEF onNewLongestChain
  <2> QED
    BY <1>12, <2>1, RestFits DEF onNewLongestChain, Bounds
<1> QED
  BY <1>1, <1>2, <1>3, <1>4, <1>5, <1>6, <1>7, <1>8, <1>9, <1>10, <1>11, <1>12
  DEF Next, TrackerStep

LEMMA BoundsInit == Init => Bounds
<1> SUFFICES ASSUME Init PROVE Bounds
  OBVIOUS
<1>1. Genesis \in Blocks
  <2>1. 0 \in Forks /\ 1 \in 1 .. MaxHeight
    BY TrackerAssumption DEF Forks
  <2>2. Genesis \in Seq(Forks) /\ Len(Genesis) = 1
    BY <2>1 DEF Genesis
  <2> QED
    BY <2>1, <2>2, BlockIs
<1>2. /\ doing.step = "down" /\ doing.head = None /\ doing.prev = None /\ doing.at = None
  BY IdleIs DEF Init
<1>3. buffer \in Seq(Blocks) /\ Len(buffer) <= BufferSize
  <2>1. BufferSize \in Nat /\ Len(<<>>) = 0 /\ <<>> \in Seq(Blocks)
    BY TrackerAssumption
  <2> QED
    BY <2>1 DEF Init
<1>4. best \in Blocks /\ reorgs \in Forks /\ heads = {} /\ due = {}
  BY <1>1, TrackerAssumption DEF Init, Forks
<1>5. {doing.head, doing.prev, doing.at, highest, told.head} \subseteq Blocks \cup {None}
  BY <1>2 DEF Init
<1> QED
  BY <1>2, <1>3, <1>4, <1>5 DEF Bounds, Handed

-----------------------------------------------------------------------------
(* Theorems *)

\* The inductive invariant holds of every state that the tracker reaches.
THEOREM TrackerInvariant == Spec => []IInv
<1>1. Init => IInv
  <2>1. Init => RowKept /\ HighestKnown /\ HandedOnlyHigher
    BY IdleTyped DEF Init, RowKept, HighestKnown, HandedOnlyHigher, Handed
  <2> QED
    BY <2>1, ShapeInit DEF IInv
<1>2. IInv /\ [Next]_vars => IInv'
  <2> SUFFICES ASSUME IInv, [Next]_vars PROVE IInv'
    OBVIOUS
  <2>1. Shape'
    BY ShapeStep DEF IInv
  <2> QED
    BY <2>1, RowKeptStep, KnownStep DEF IInv
<1> QED
  BY <1>1, <1>2, PTL DEF Spec

\* The buffer keeps its limit, every head in memory or in the table is a block of
\* a chain there was, the head that is handled is not trimmed away, and nothing is
\* higher than highestSeenHead: for any depths and sizes.
THEOREM TrackerTypes == Spec => []TypeOK
<1>1. IInv /\ Bounds => TypeOK
  <2> SUFFICES ASSUME IInv, Bounds PROVE TypeOK
    OBVIOUS
  <2>1. doing.step \in {"down", "subscribe", "idle", "save", "chain", "backfill", "call"}
    BY DEF IInv, Shape, Doings, Handed
  <2>2. doing.step \in {"chain", "backfill", "call"} => doing.head \in heads
    BY DEF IInv, HandedOnlyHigher, Handed
  <2>3. number(doing.head) <= number(highest)
    <3>1. number(highest) \in Nat
      BY Numbers DEF IInv
    <3>2. CASE doing.step \in {"save"} \cup Handed
      BY <3>2 DEF IInv, HandedOnlyHigher
    <3>3. CASE doing.step \notin {"save"} \cup Handed
      BY <3>1, <3>3, FirstChains DEF Bounds
    <3> QED
      BY <3>2, <3>3
  <2> QED
    BY <2>1, <2>2, <2>3 DEF TypeOK, Bounds
<1>2. IInv /\ Bounds /\ [Next]_vars => Bounds'
  BY BoundsStep
<1> QED
  BY <1>1, <1>2, BoundsInit, TrackerInvariant, PTL DEF Spec

\* The callbacks hear of ever higher heads, across reorganisations, heads out of
\* order, failures of the database and restarts.
THEOREM CallbacksAscend == Spec => HeadsAscend
<1>1. IInv /\ [Next]_vars => [told' # told => number(told'.head) > number(told.head)]_vars
  <2> SUFFICES ASSUME IInv, [Next]_vars, told' # told
               PROVE number(told'.head) > number(told.head)
    OBVIOUS
  <2>1. onNewLongestChain
    BY DEF Next, TrackerStep, vars, NewBlock, Reorg, SubscriptionErr, Crash, DatabaseFails,
           Start, subscribeToHead, Receive, Save, Chain, backfill, BackfillEnds
  <2>2. doing.step \in Handed /\ told'.head = doing.head
    BY <2>1 DEF onNewLongestChain, Handed
  <2>3. number(told.head) < number(doing.head)
    BY <2>2 DEF IInv, HandedOnlyHigher
  <2>4. number(told.head) \in Nat /\ number(doing.head) \in Nat
    BY Numbers DEF IInv
  <2> QED
    BY <2>2, <2>3, <2>4
<1> QED
  BY <1>1, TrackerInvariant, PTL DEF Spec, HeadsAscend

\* What the callbacks are handed goes down to the finality depth or to genesis,
\* unless a reorganisation overtook the head while its chain was completed
\* (GetChainWithBackfill, backfill), whatever the trimming leaves of other forks.
THEOREM ChainsAreComplete == Spec => []ChainIsComplete
<1>1. Init => BackfillJoins /\ ChainIsComplete
  <2>1. ASSUME Init PROVE doing.step = "down"
    BY <2>1, IdleTyped DEF Init
  <2>2. ASSUME Init PROVE ChainIsComplete
    <3>1. Min({FinalityDepth, 0}) = 0
      BY TrackerAssumption, MinOfTwo
    <3> QED
      BY <2>2, <3>1, FirstChains DEF Init, ChainIsComplete
  <2> QED
    BY <2>1, <2>2 DEF BackfillJoins
<1>2. IInv /\ BackfillJoins /\ ChainIsComplete /\ [Next]_vars => (BackfillJoins /\ ChainIsComplete)'
  BY JoinStep, CompleteStep
<1> QED
  BY <1>1, <1>2, TrackerInvariant, PTL DEF Spec
=============================================================================

----------------------------- MODULE HeadTracker -----------------------------
(***************************************************************************)
(* The head tracker of core/services/head_tracker.go and its table of      *)
(* heads.                                                                  *)
(*                                                                         *)
(* The Ethereum node sends new heads, a ring buffer keeps the latest, and  *)
(* one goroutine takes them: it saves a head, and if it is higher than all *)
(* before, completes its chain in the database and hands it to the         *)
(* callbacks, the confirmer of transactions and the queue of runs among    *)
(* them.                                                                   *)
(*                                                                         *)
(* A hash commits to all the ancestors of a block, so that a block is the  *)
(* sequence of the forks its ancestors and itself belong to: its parent is *)
(* its front, and the genesis block has one element.                       *)
(***************************************************************************)
EXTENDS Naturals, Sequences, FiniteSets, SequencesExt, FiniteSetsExt

CONSTANTS
    FinalityDepth, \* EthFinalityDepth
    HistoryDepth,  \* EthHeadTrackerHistoryDepth
    BufferSize,    \* EthHeadTrackerMaxBufferSize
    MaxHeight,     \* bound on the height of the chain
    MaxReorgs,     \* bound on the reorganisations
    MaxFaults      \* bound on the failures of the database and of the
                   \* connection, and the crashes, together

ASSUME TrackerAssumption ==
    /\ {FinalityDepth, HistoryDepth, BufferSize} \subseteq Nat \ {0}
    /\ HistoryDepth >= FinalityDepth
    /\ MaxHeight \in Nat \ {0} /\ {MaxReorgs, MaxFaults} \subseteq Nat

VARIABLES
    best,      \* the last block of the node's chain
    buffer,    \* heads in the ring buffer
    doing,     \* what the goroutine does, with which head
    highest,   \* highestSeenHead, or None
    heads,     \* table heads
    told,      \* what the callbacks were handed last
    due,       \* history: heights announced that the callbacks have yet to hear of
    reorgs, faults

vars == <<best, buffer, doing, highest, heads, told, due, reorgs, faults>>

None == <<>>
Genesis == <<0>>

\* None is below every block.
number(block) == Len(block)

Canonical(n) == SubSeq(best, 1, n)

IsCanonical(block) == number(block) <= number(best) /\ Canonical(number(block)) = block

Idle == [step |-> "idle", head |-> None, prev |-> None, at |-> None, undisturbed |-> TRUE]

\* Nothing was announced, and the tracker is not connected.
Init ==
    /\ best = Genesis
    /\ buffer = <<>>
    /\ doing = [Idle EXCEPT !.step = "down"]
    /\ highest = None /\ heads = {}
    /\ told = [head |-> None, length |-> 0, undisturbed |-> TRUE]
    /\ due = {}
    /\ reorgs = 0 /\ faults = 0

-----------------------------------------------------------------------------
(* The node and the ring buffer *)

\* A slip: a full buffer refuses the new head.
KeepOldest(q, h) == IF Len(q) < BufferSize THEN Append(q, h) ELSE q

KeepLatest(q, h) == Append(IF Len(q) < BufferSize THEN q ELSE Tail(q), h)

NumbersOf(q) == {number(h) : h \in ToSet(q)}

Connected == doing.step \notin {"down", "subscribe"}

\* A head is due when it is higher than any that was seen; one that the buffer
\* drops is not any more.
Sends(h) ==
    IF Connected
    THEN /\ buffer' = KeepLatest(buffer, h)
         /\ due' = (due \cup ({number(h)} \ 0 .. number(highest)))
                   \ (IF Len(buffer) < BufferSize THEN {} ELSE {number(Head(buffer))} \ {number(h)})
    ELSE UNCHANGED <<buffer, due>>

NewBlock ==
    /\ number(best) < MaxHeight
    /\ best' = Append(best, reorgs)
    /\ Sends(best')
    /\ UNCHANGED <<doing, highest, heads, told, reorgs, faults>>

\* The chain from some block on is replaced, and one block of it announced.
Reorg ==
    /\ reorgs < MaxReorgs
    /\ reorgs' = reorgs + 1
    /\ \E n \in 1 .. number(best) - 1 :
          best' = Canonical(n) \o [i \in 1 .. number(best) - n |-> reorgs']
    /\ \E n \in 1 .. number(best) : Sends(SubSeq(best', 1, n)) /\ ~IsCanonical(SubSeq(best', 1, n))
    /\ UNCHANGED <<doing, highest, heads, told, faults>>

-----------------------------------------------------------------------------
(* Start, connection and crash *)

Fault == faults < MaxFaults /\ faults' = faults + 1

\* A slip: whichever head the database returns first.
AnyHead == heads

\* LastHead; of two heads of one height, either may have been created later.
LastHead == {h \in heads : \A other \in heads : number(other) <= number(h)}

Start ==
    /\ doing.step = "down"
    /\ doing' = [Idle EXCEPT !.step = "subscribe"]
    /\ IF heads = {} THEN highest' = None ELSE highest' \in LastHead
    /\ UNCHANGED <<best, buffer, heads, told, due, reorgs, faults>>

\* subscribe, which tries until it succeeds.
subscribeToHead ==
    /\ doing.step = "subscribe"
    /\ doing' = Idle
    /\ UNCHANGED <<best, buffer, highest, heads, told, due, reorgs, faults>>

\* receiveHeaders returns an error: the buffer is drained.
Resubscribes ==
    /\ doing' = [Idle EXCEPT !.step = "subscribe"]
    /\ buffer' = <<>>
    /\ due' = due \ (NumbersOf(buffer) \cup {number(doing.head)})

SubscriptionErr ==
    /\ doing.step = "idle" /\ Fault
    /\ Resubscribes
    /\ UNCHANGED <<best, highest, heads, told, reorgs>>

\* The process is stopped or killed.
Crash ==
    /\ doing.step # "down" /\ Fault
    /\ doing' = [Idle EXCEPT !.step = "down"]
    /\ buffer' = <<>> /\ highest' = None /\ due' = {}
    /\ UNCHANGED <<best, heads, told, reorgs>>

-----------------------------------------------------------------------------
(* handleNewHead *)

\* Save, in memory.
Receive ==
    /\ doing.step = "idle" /\ buffer # <<>>
    /\ LET h == Head(buffer)
       IN  /\ doing' = [Idle EXCEPT !.step = "save", !.head = h, !.prev = highest]
           /\ highest' = IF number(h) > number(highest) THEN h ELSE highest
    /\ buffer' = Tail(buffer)
    /\ UNCHANGED <<best, heads, told, due, reorgs, faults>>

\* A slip: it is the latest rows that go.
TrimLatest(t) == {h \in t : Cardinality({other \in t : number(other) < number(h)}) < HistoryDepth}

\* TrimOldHeads: rows below the lowest of the HistoryDepth highest rows.
TrimOldHeads(t) == {h \in t : Cardinality({other \in t : number(other) > number(h)}) < HistoryDepth}

\* A slip: another head of the same height counts as higher.
IsNotLower == number(doing.head) >= number(doing.prev)

\* A slip: a head is not handed on when one below it did not come.
IsNext == number(doing.head) = number(doing.prev) + 1

IsHighest == number(doing.head) > number(doing.prev)

\* Save, in the database.  A head that is not the highest is not handed on.
Save ==
    /\ doing.step = "save"
    /\ heads' = TrimOldHeads(heads \cup {doing.head})
    /\ doing' = IF IsHighest THEN [doing EXCEPT !.step = "chain"] ELSE Idle
    /\ UNCHANGED <<best, buffer, highest, told, due, reorgs, faults>>

\* Any statement to the database fails; the insertion may have been done.
DatabaseFails ==
    /\ doing.step \in {"save", "chain", "backfill"} /\ Fault
    /\ heads' \in IF doing.step = "save" THEN {heads, heads \cup {doing.head}} ELSE {heads}
    /\ Resubscribes
    /\ UNCHANGED <<best, highest, told, reorgs>>

\* The length of ORM.Chain: rows of the table linked by their hashes.
ChainLength(block) ==
    Min({FinalityDepth,
         Max({k \in 0 .. number(block) :
                 \A i \in 0 .. k - 1 : SubSeq(block, 1, number(block) - i) \in heads})})

\* The height down to which the chain is completed.
BaseHeight(block) == Max({number(Genesis), number(block) - (FinalityDepth - 1)})

\* GetChainWithBackfill: the chain in the database is long enough, or it is
\* backfilled below its earliest head.
Chain ==
    /\ doing.step = "chain"
    /\ LET n == ChainLength(doing.head)
       IN  doing' = IF n >= FinalityDepth THEN [doing EXCEPT !.step = "call"]
                    ELSE [doing EXCEPT !.step = "backfill",
                                       !.at = SubSeq(doing.head, 1, number(doing.head) - n + 1)]
    /\ UNCHANGED <<best, buffer, highest, heads, told, due, reorgs, faults>>

\* A slip: the last head that is missing is not fetched.
StopsEarly == number(doing.at) <= BaseHeight(doing.head) + 1

ReachesBase == number(doing.at) <= BaseHeight(doing.head)

\* One turn of backfill: the parent is there, or the head of the height below
\* is asked for by its number and stored, whichever chain it belongs to.
backfill ==
    /\ doing.step = "backfill" /\ ~ReachesBase
    /\ LET parent == Front(doing.at)
       IN  IF parent \in heads
           THEN doing' = [doing EXCEPT !.at = parent] /\ UNCHANGED heads
           ELSE /\ number(parent) <= number(best)
                /\ heads' = heads \cup {Canonical(number(parent))}
                /\ doing' = [doing EXCEPT !.at = Canonical(number(parent)),
                                          !.undisturbed = @ /\ IsCanonical(doing.head)]
    /\ UNCHANGED <<best, buffer, highest, told, due, reorgs, faults>>

\* The base is reached; or a head is not found, or time is up.
BackfillEnds ==
    /\ doing.step = "backfill"
    /\ \/ ReachesBase /\ doing' = [doing EXCEPT !.step = "call"]
       \/ /\ ~ReachesBase /\ Front(doing.at) \notin heads
          /\ doing' = [doing EXCEPT !.step = "call", !.undisturbed = FALSE]
    /\ UNCHANGED <<best, buffer, highest, heads, told, due, reorgs, faults>>

\* onNewLongestChain, with the chain as the database has it then.
onNewLongestChain ==
    /\ doing.step = "call"
    /\ told' = [head |-> doing.head, length |-> ChainLength(doing.head),
                undisturbed |-> doing.undisturbed]
    /\ due' = due \ 0 .. number(doing.head)
    /\ doing' = Idle
    /\ UNCHANGED <<best, buffer, highest, heads, reorgs, faults>>

-----------------------------------------------------------------------------
TrackerStep ==
    \/ Start \/ subscribeToHead \/ Receive \/ Save \/ Chain \/ backfill \/ BackfillEnds
    \/ onNewLongestChain

Next ==
    \/ NewBlock \/ Reorg \/ SubscriptionErr \/ Crash \/ DatabaseFails
    \/ TrackerStep

\* The goroutine runs, and the process is started again.
Spec == Init /\ [][Next]_vars /\ WF_vars(TrackerStep)

-----------------------------------------------------------------------------
(* Properties *)

Blocks == UNION {[1 .. n -> 0 .. MaxReorgs] : n \in 1 .. MaxHeight}

\* Type invariant; the head that is handled is in the table, which the
\* trimming after every insertion must not take away, and in memory nothing is
\* higher than highestSeenHead.
TypeOK ==
    /\ best \in Blocks
    /\ buffer \in Seq(Blocks) /\ Len(buffer) <= BufferSize
    /\ doing.step \in {"down", "subscribe", "idle", "save", "chain", "backfill", "call"}
    /\ {doing.head, doing.prev, doing.at, highest, told.head} \subseteq Blocks \cup {None}
    /\ heads \subseteq Blocks
    /\ doing.step \in {"chain", "backfill", "call"} => doing.head \in heads
    /\ number(doing.head) <= number(highest)
    /\ due \subseteq 1 .. MaxHeight

\* The chain that the callbacks are handed goes down to the finality depth or
\* to genesis, unless a reorganisation overtook the head while its chain was
\* completed or a head could not be had: although rows of other forks are in
\* the table and count when it is trimmed.
ChainIsComplete ==
    told.undisturbed =>
        told.length = Min({FinalityDepth, number(told.head)})

\* The callbacks hear of ever higher heads, across reorganisations, heads out
\* of order, failures of the database and restarts.
HeadsAscend == [][told' # told => number(told'.head) > number(told.head)]_vars

\* Time and again the callbacks have heard of a head as high as any that was
\* announced, but for those that the buffer dropped, that came while the
\* tracker was not connected, or that a failure caught: a head that was seen
\* but not saved is not handed on when it is announced again, and higher ones
\* are.
HeadsAreTold == []<>(due = {})

=============================================================================

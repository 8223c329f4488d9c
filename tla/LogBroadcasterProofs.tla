------------------------- MODULE LogBroadcasterProofs -------------------------
(***************************************************************************)
(* The subscription of the log broadcaster covers the contracts of its     *)
(* listeners, and the listeners know whether they are connected: for any   *)
(* listeners and contracts, and any chain, depth and number of failures.   *)
(* What they hold are logs that they asked for.                            *)
(***************************************************************************)
EXTENDS LogBroadcaster, FiniteSetTheorems, SequenceTheorems, TLAPS

Registered == {"added", "yes", "no", "in", "removing"}
States == {"new", "again", "registering", "gone"} \cup Registered

\* A record with the fields of a subscription.
IsSub(s) == s = [state |-> s.state, addresses |-> s.addresses, logs |-> s.logs]

Shape ==
    /\ loop \in {"down", "waiting", "create", "backfill", "process"}
    /\ IsSub(sub) /\ IsSub(next)
    /\ {needs, connected} \subseteq BOOLEAN
    /\ listener \in [Listeners -> States]
    /\ told \in [Listeners -> BOOLEAN]
    /\ raced \in [Listeners -> BOOLEAN]

\* The subscription that is to come has the addresses of the moment already:
\* nobody is added or removed until the loop processes again.
NextCovers == loop = "backfill" => next.addresses = addresses

\* The broadcaster is connected while it processes and not before it subscribes;
\* and an answer of Register that a listener has got is right, unless the
\* connection has come or failed since.
Answers ==
    /\ loop = "process" => connected
    /\ loop \in {"down", "waiting"} => ~connected
    /\ \A l \in Listeners : ~raced[l] =>
          /\ listener[l] = "yes" => connected
          /\ listener[l] = "no" => ~connected

IInv == Shape /\ SubscriptionCovers /\ NextCovers /\ Answers /\ ListenersKnow

-----------------------------------------------------------------------------
(* Shape *)

LEMMA ShapeInit == Init => Shape
BY DEF Init, Shape, IsSub, NoSub, For, States, Registered

LEMMA ShapeStep ==
    ASSUME Shape, [Next]_vars
    PROVE Shape'
<1> USE DEF Shape, IsSub, States, Registered
<1>1. CASE UNCHANGED vars
  BY <1>1 DEF vars, client, jobs, history
<1>2. ASSUME NewBlock \/ Reorg PROVE Shape'
  BY <1>2 DEF NewBlock, Reorg, Sends, SendsBoth, With, jobs, history
<1>3. ASSUME SubscriptionFails PROVE Shape'
  BY <1>3 DEF SubscriptionFails, jobs, history
<1>4. ASSUME Crash PROVE Shape'
  BY <1>4 DEF Crash, NoSub, For
<1>5. ASSUME Start \/ DependentsReady PROVE Shape'
  BY <1>5 DEF Start, DependentsReady, jobs, history
<1>6. ASSUME createSubscription PROVE Shape'
  BY <1>6 DEF createSubscription, NoSub, jobs, history
<1>7. ASSUME Resubscribe PROVE Shape'
  BY <1>7 DEF Resubscribe, Outdates, NoSub
<1>8. ASSUME onRawLog PROVE Shape'
  BY <1>8 DEF onRawLog, history
<1>9. ASSUME Debounce \/ SubscriptionErr PROVE Shape'
  BY <1>9 DEF Debounce, SubscriptionErr, notifyDisconnect, Outdates, jobs, history
<1>10. ASSUME NEW l \in Listeners, Register(l) \/ Unregister(l) PROVE Shape'
  BY <1>10 DEF Register, Unregister, Listener, Of, client, history
<1>11. ASSUME NEW l \in Listeners, ListenerStep(l) PROVE Shape'
  BY <1>11 DEF ListenerStep, RegisterReturns, NoteAnswer, Consume, Listener, Of, client, history
<1>12. ASSUME NEW l \in Listeners, onAddListener(l) PROVE Shape'
  BY <1>12 DEF onAddListener, NeedsResubscribe, Of
<1>13. ASSUME NEW l \in Listeners, onRemoveListener(l) PROVE Shape'
  BY <1>13 DEF onRemoveListener, ToldOff, Of, history
<1> HIDE DEF Shape, IsSub, States, Registered
<1> QED
  BY <1>1, <1>2, <1>3, <1>4, <1>5, <1>6, <1>7, <1>8, <1>9, <1>10, <1>11, <1>12, <1>13
  DEF Next, SubscriberStep, RegistrationStep

-----------------------------------------------------------------------------
(* The subscription covers the contracts *)

Covers == SubscriptionCovers /\ NextCovers

\* Who is not added or removed does not change the addresses.
LEMMA SameAddresses ==
    ASSUME In' = In
    PROVE addresses' = addresses
BY DEF addresses

LEMMA MoveKeepsIn ==
    ASSUME Shape, NEW l \in Listeners, NEW to \in States, listener' = Of(l, listener, to),
           listener[l] \in Registered <=> to \in Registered
    PROVE In' = In
BY DEF Shape, In, Of, Registered, States

LEMMA CoversStep ==
    ASSUME Shape, Covers, [Next]_vars
    PROVE Covers'
<1> USE DEF Covers, SubscriptionCovers, NextCovers
<1>1. ASSUME UNCHANGED <<loop, needs, listener, sub, next>> PROVE Covers'
  BY <1>1 DEF addresses, In
<1>2. CASE UNCHANGED vars
  BY <1>1, <1>2 DEF vars, client, jobs
<1>3. ASSUME NewBlock \/ Reorg PROVE Covers'
  <2>1. sub'.addresses = sub.addresses /\ next'.addresses = next.addresses
    BY <1>3 DEF NewBlock, Reorg, Sends, SendsBoth, With, Shape, IsSub
  <2>2. UNCHANGED <<loop, needs, listener>>
    BY <1>3 DEF NewBlock, Reorg, jobs
  <2>3. addresses' = addresses
    BY <2>2 DEF addresses, In
  <2> QED
    BY <2>1, <2>2, <2>3
<1>4. ASSUME SubscriptionFails PROVE Covers'
  <2>1. sub'.addresses = sub.addresses
    BY <1>4 DEF SubscriptionFails, Shape, IsSub
  <2>2. UNCHANGED <<loop, needs, listener, next>>
    BY <1>4 DEF SubscriptionFails, jobs
  <2>3. addresses' = addresses
    BY <2>2 DEF addresses, In
  <2> QED
    BY <2>1, <2>2, <2>3
<1>5. ASSUME Crash \/ Start \/ DependentsReady \/ Debounce \/ SubscriptionErr PROVE Covers'
  BY <1>5 DEF Crash, Start, DependentsReady, Debounce, SubscriptionErr
<1>6. ASSUME createSubscription PROVE Covers'
  <2>1. addresses' = addresses
    BY <1>6 DEF createSubscription, jobs, addresses, In
  <2>2. next'.addresses = addresses
    BY <1>6 DEF createSubscription, NoSub
  <2> QED
    BY <1>6, <2>1, <2>2 DEF createSubscription
<1>7. ASSUME Resubscribe PROVE Covers'
  <2>1. addresses' = addresses
    BY <1>7 DEF Resubscribe, addresses, In
  <2> QED
    BY <1>7, <2>1 DEF Resubscribe
<1>8. ASSUME onRawLog PROVE Covers'
  <2>1. sub'.addresses = sub.addresses
    BY <1>8 DEF onRawLog, Shape, IsSub
  <2>2. UNCHANGED <<loop, needs, listener, next>>
    BY <1>8 DEF onRawLog
  <2>3. addresses' = addresses
    BY <2>2 DEF addresses, In
  <2> QED
    BY <2>1, <2>2, <2>3
<1>9. ASSUME NEW l \in Listeners, Register(l) \/ Unregister(l) \/ ListenerStep(l)
      PROVE Covers'
  <2>1. UNCHANGED <<loop, needs, sub, next>>
    BY <1>9 DEF Register, Unregister, ListenerStep, RegisterReturns, NoteAnswer, Consume, client
  <2>2. In' = In
    <3>1. CASE Consume(l)
      BY <3>1 DEF Consume, In
    <3>2. CASE Register(l)
      BY <3>2, MoveKeepsIn DEF Register, Listener, States, Registered
    <3>3. CASE Unregister(l) \/ RegisterReturns(l) \/ NoteAnswer(l)
      BY <3>3, MoveKeepsIn
      DEF Unregister, RegisterReturns, NoteAnswer, Listener, States, Registered
    <3> QED
      BY <1>9, <3>1, <3>2, <3>3 DEF ListenerStep
  <2>3. addresses' = addresses
    BY <2>2, SameAddresses
  <2> QED
    BY <2>1, <2>3
<1>10. ASSUME NEW l \in Listeners, onAddListener(l) PROVE Covers'
  <2>1. In' = In \cup {l}
    BY <1>10 DEF onAddListener, Of, In, Shape
  <2>2. addresses' = addresses \cup {AddressOf[l]}
    BY <2>1 DEF addresses
  <2>3. loop' \in {"waiting", "process"} /\ sub' = sub /\ loop' = loop
    BY <1>10 DEF onAddListener
  <2>4. CASE loop = "process" /\ ~needs'
    <3>1. ~needs /\ AddressOf[l] \in addresses
      BY <1>10, <2>4 DEF onAddListener, NeedsResubscribe
    <3> QED
      BY <2>2, <2>3, <2>4, <3>1
  <2> QED
    BY <2>3, <2>4
<1>11. ASSUME NEW l \in Listeners, onRemoveListener(l) PROVE Covers'
  <2>1. In' = In \ {l} /\ l \in In
    BY <1>11 DEF onRemoveListener, Of, In, Shape
  <2>2. loop' = "process" /\ loop = "process" /\ sub' = sub
    BY <1>11 DEF onRemoveListener
  <2>3. CASE ~needs'
    <3>1. ~needs
      BY <1>11, <2>3 DEF onRemoveListener
    <3>2. PICK m \in In \ {l} : AddressOf[m] = AddressOf[l]
      BY <1>11, <2>3 DEF onRemoveListener
    <3>3. addresses' = addresses
      BY <2>1, <3>2 DEF addresses
    <3> QED
      BY <2>2, <3>1, <3>3
  <2> QED
    BY <2>2, <2>3
<1> HIDE DEF Covers
<1> QED
  BY <1>2, <1>3, <1>4, <1>5, <1>6, <1>7, <1>8, <1>9, <1>10, <1>11
  DEF Next, SubscriberStep, RegistrationStep

-----------------------------------------------------------------------------
(* The listeners know whether they are connected *)

Knows == Answers /\ ListenersKnow

LEMMA KnowsStep ==
    ASSUME Shape, Knows, [Next]_vars
    PROVE Knows'
<1> USE DEF Knows, Answers, ListenersKnow, Shape
<1>1. ASSUME UNCHANGED <<loop, connected, listener, told, raced>> PROVE Knows'
  BY <1>1
<1>2. CASE UNCHANGED vars
  BY <1>1, <1>2 DEF vars, client, jobs, history
<1>3. ASSUME NewBlock \/ Reorg \/ SubscriptionFails PROVE Knows'
  BY <1>1, <1>3 DEF NewBlock, Reorg, SubscriptionFails, jobs, history
<1>4. ASSUME onRawLog PROVE Knows'
  BY <1>1, <1>4 DEF onRawLog, history
<1>5. ASSUME Crash PROVE Knows'
  BY <1>5 DEF Crash, For
<1>6. ASSUME Start \/ DependentsReady \/ createSubscription \/ Debounce PROVE Knows'
  BY <1>6 DEF Start, DependentsReady, createSubscription, Debounce, jobs, history
<1>7. ASSUME Resubscribe PROVE Knows'
  BY <1>7 DEF Resubscribe, Outdates, In
<1>8. ASSUME SubscriptionErr PROVE Knows'
  BY <1>8 DEF SubscriptionErr, notifyDisconnect, Outdates, In
<1>9. ASSUME NEW l \in Listeners, Register(l) \/ Unregister(l) PROVE Knows'
  BY <1>9 DEF Register, Unregister, Listener, Of, client, history
<1>10. ASSUME NEW l \in Listeners, ListenerStep(l) PROVE Knows'
  BY <1>10 DEF ListenerStep, RegisterReturns, NoteAnswer, Consume, Listener, Of, client, history
<1>11. ASSUME NEW l \in Listeners, onAddListener(l) PROVE Knows'
  BY <1>11 DEF onAddListener, Of
<1>12. ASSUME NEW l \in Listeners, onRemoveListener(l) PROVE Knows'
  BY <1>12 DEF onRemoveListener, ToldOff, Of, history
<1> HIDE DEF Knows, Shape
<1> QED
  BY <1>2, <1>3, <1>4, <1>5, <1>6, <1>7, <1>8, <1>9, <1>10, <1>11, <1>12
  DEF Next, SubscriberStep, RegistrationStep

-----------------------------------------------------------------------------
(* Types *)

Entries == [log : Log, removed : BOOLEAN]

\* A subscription holds logs of its contracts only.
Holds(s) ==
    /\ s.state \in {"none", "noop", "live", "failed"}
    /\ s.logs \in Seq(Entries)
    /\ \A i \in DOMAIN s.logs : s.logs[i].log.address \in s.addresses

Logs ==
    /\ chain \in Seq(Log) /\ Len(chain) <= MaxHeight
    /\ Holds(sub) /\ Holds(next) /\ pipe \in Seq(Entries)
    /\ faults \in 0 .. MaxFaults

Inboxes ==
    /\ inbox \in [Listeners -> SUBSET Log]
    /\ \A l \in Listeners : \A log \in inbox[l] : log.address = AddressOf[l]
    /\ consumed \subseteq Listeners \X Log

OnlyMembersAreTold == \A l \in Listeners : told[l] => l \in In

Types == Logs /\ Inboxes /\ OnlyMembersAreTold

LEMMA EntryIs ==
    ASSUME NEW log \in Log, NEW r \in BOOLEAN
    PROVE Entry(log, r) \in Entries /\ Entry(log, r).log = log
BY DEF Entry, Entries

\* The node adds a log to what a subscription holds only if it asks for it.
LEMMA WithHolds ==
    ASSUME NEW s, IsSub(s), Holds(s), NEW e \in Entries
    PROVE Holds(With(s, e)) /\ IsSub(With(s, e))
<1>1. CASE ~Wanted(s, e)
  BY <1>1 DEF With
<1>2. CASE Wanted(s, e)
  <2> DEFINE t == With(s, e)
  <2>1. /\ t.logs = Append(s.logs, e) /\ t.state = s.state /\ t.addresses = s.addresses
        /\ IsSub(t)
    BY <1>2 DEF With, IsSub
  <2>2. s.logs \in Seq(Entries) /\ e.log.address \in s.addresses
    BY <1>2 DEF Holds, Wanted
  <2>3. /\ t.logs \in Seq(Entries) /\ Len(t.logs) = Len(s.logs) + 1
        /\ \A i \in 1 .. Len(s.logs) : t.logs[i] = s.logs[i]
        /\ t.logs[Len(s.logs) + 1] = e
    BY <2>1, <2>2, AppendProperties
  <2>4. DOMAIN t.logs = 1 .. Len(s.logs) + 1 /\ DOMAIN s.logs = 1 .. Len(s.logs)
        /\ Len(s.logs) \in Nat
    BY <2>2, <2>3
  <2> HIDE DEF t
  <2>5. \A i \in DOMAIN t.logs : t.logs[i].log.address \in t.addresses
    <3> SUFFICES ASSUME NEW i \in DOMAIN t.logs PROVE t.logs[i].log.address \in t.addresses
      OBVIOUS
    <3>1. i \in 1 .. Len(s.logs) \/ i = Len(s.logs) + 1
      BY <2>4
    <3> QED
      BY <3>1, <2>1, <2>2, <2>3, <2>4 DEF Holds
  <2>6. Holds(t)
    BY <2>1, <2>3, <2>5 DEF Holds
  <2> QED
    BY <2>1, <2>6 DEF t
<1> QED
  BY <1>1, <1>2

LEMMA NoSubHolds == Holds(NoSub) /\ NoSub.logs = <<>>
BY DEF Holds, NoSub

LEMMA HoldsSame ==
    ASSUME NEW s, NEW t, Holds(s), t.logs = s.logs, t.addresses = s.addresses,
           t.state \in {"none", "noop", "live", "failed"}
    PROVE Holds(t)
BY DEF Holds

LEMMA LogsNewBlock ==
    ASSUME Shape, Logs, NewBlock
    PROVE Logs'
<1>1. PICK a \in Address :
        LET log == [height |-> Len(chain) + 1, address |-> a, fork |-> faults]
        IN  chain' = Append(chain, log) /\ Sends(Entry(log, FALSE))
  BY DEF NewBlock
<1>2. PICK log : log = [height |-> Len(chain) + 1, address |-> a, fork |-> faults]
  OBVIOUS
<1>3. Len(chain) + 1 \in 1 .. MaxHeight /\ faults \in 0 .. MaxFaults /\ chain \in Seq(Log)
  BY BroadcasterAssumption DEF NewBlock, Logs
<1>4. log \in Log
  BY <1>2, <1>3 DEF Log
<1>5. chain' = Append(chain, log) /\ Sends(Entry(log, FALSE))
  BY <1>1, <1>2
<1>6. PICK e \in Entries : e = Entry(log, FALSE)
  BY <1>4, EntryIs
<1>7. Holds(With(sub, e)) /\ Holds(With(next, e))
  BY WithHolds DEF Logs, Shape
<1>8. Holds(sub') /\ Holds(next')
  BY <1>5, <1>6, <1>7 DEF Sends
<1>9. chain' \in Seq(Log) /\ Len(chain') = Len(chain) + 1
  BY <1>3, <1>4, <1>5, AppendProperties
<1>10. Len(chain') <= MaxHeight
  BY <1>3, <1>9
<1>11. UNCHANGED <<pipe, faults>>
  BY DEF NewBlock
<1> QED
  BY <1>8, <1>9, <1>10, <1>11 DEF Logs, Holds

LEMMA LogsReorg ==
    ASSUME Shape, Logs, Reorg
    PROVE Logs'
<1>1. PICK a \in Address :
        LET log == [height |-> Len(chain), address |-> a, fork |-> faults']
        IN  /\ chain' = [chain EXCEPT ![Len(chain)] = log]
            /\ SendsBoth(Entry(chain[Len(chain)], TRUE), Entry(log, FALSE))
  BY DEF Reorg
<1>2. PICK log : log = [height |-> Len(chain), address |-> a, fork |-> faults']
  OBVIOUS
<1>3. chain \in Seq(Log) /\ chain # <<>> /\ Len(chain) <= MaxHeight
  BY DEF Reorg, Logs
<1>4. Len(chain) \in 1 .. MaxHeight /\ Len(chain) \in DOMAIN chain /\ faults' \in 0 .. MaxFaults
  BY <1>3, BroadcasterAssumption DEF Reorg, Fault, Logs
<1>5. log \in Log /\ chain[Len(chain)] \in Log
  <2>1. log \in Log
    BY <1>2, <1>4 DEF Log
  <2>2. chain[Len(chain)] \in Log
    BY <1>3, <1>4, ElementOfSeq
  <2> QED
    BY <2>1, <2>2
<1>6. /\ chain' = [chain EXCEPT ![Len(chain)] = log]
      /\ SendsBoth(Entry(chain[Len(chain)], TRUE), Entry(log, FALSE))
  BY <1>1, <1>2
<1>7. PICK d \in Entries : d = Entry(chain[Len(chain)], TRUE)
  BY <1>5, EntryIs
<1>8. PICK e \in Entries : e = Entry(log, FALSE)
  BY <1>5, EntryIs
<1>9. Holds(With(sub, d)) /\ IsSub(With(sub, d)) /\ Holds(With(next, d)) /\ IsSub(With(next, d))
  BY WithHolds DEF Logs, Shape
<1>10. Holds(With(With(sub, d), e)) /\ Holds(With(With(next, d), e))
  BY <1>9, WithHolds
<1>11. Holds(sub') /\ Holds(next')
  BY <1>6, <1>7, <1>8, <1>10 DEF SendsBoth
<1>12. chain' \in Seq(Log) /\ Len(chain') = Len(chain)
  BY <1>3, <1>5, <1>6
<1>13. pipe' = pipe
  BY DEF Reorg
<1> QED
  BY <1>3, <1>4, <1>11, <1>12, <1>13 DEF Logs, Holds

\* The backfill consists of blocks of the chain.
LEMMA BackfillIs ==
    ASSUME Logs, NEW b \in InOrder(Backfilled)
    PROVE [i \in DOMAIN b |-> Entry(b[i], FALSE)] \in Seq(Entries)
<1>1. PICK n : n = Cardinality(Backfilled)
  OBVIOUS
<1>2. Backfilled \subseteq Log
  BY DEF Backfilled, LogsOf, ToSet, Logs
<1>3. b \in [1 .. n -> Log]
  BY <1>1, <1>2 DEF InOrder
<1>4. \A i \in 1 .. n : Entry(b[i], FALSE) \in Entries
  BY <1>3, EntryIs
<1>5. n \in Nat
  <2>1. Backfilled \subseteq ToSet(chain)
    BY DEF Backfilled, LogsOf
  <2>2. IsFiniteSet(ToSet(chain))
    <3>1. IsFiniteSet(1 .. Len(chain))
      BY FS_Interval DEF Logs
    <3>2. chain \in Surjection(1 .. Len(chain), ToSet(chain))
      BY DEF Surjection, ToSet, Logs
    <3> QED
      BY <3>1, <3>2, FS_Surjection
  <2> QED
    BY <1>1, <2>1, <2>2, FS_Subset, FS_CardinalityType
<1>6. [i \in 1 .. n |-> Entry(b[i], FALSE)] \in [1 .. n -> Entries]
  BY <1>4
<1>7. DOMAIN b = 1 .. n
  BY <1>3
<1> QED
  BY <1>5, <1>6, <1>7, SeqDef

LEMMA LogsResubscribe ==
    ASSUME Shape, Logs, Resubscribe
    PROVE Logs'
<1>1. PICK n \in 0 .. Len(sub.logs), b \in InOrder(Backfilled) :
        pipe' = pipe \o SubSeq(sub.logs, 1, n) \o [i \in DOMAIN b |-> Entry(b[i], FALSE)]
  BY DEF Resubscribe
<1>2. sub.logs \in Seq(Entries) /\ pipe \in Seq(Entries)
  BY DEF Logs, Holds
<1>3. SubSeq(sub.logs, 1, n) \in Seq(Entries)
  BY <1>1, <1>2, SubSeqProperties
<1>4. [i \in DOMAIN b |-> Entry(b[i], FALSE)] \in Seq(Entries)
  BY BackfillIs
<1>5. pipe \o SubSeq(sub.logs, 1, n) \in Seq(Entries)
  BY <1>2, <1>3, ConcatProperties
<1>6. pipe' \in Seq(Entries)
  BY <1>1, <1>4, <1>5, ConcatProperties
<1>7. sub' = next /\ next' = NoSub /\ UNCHANGED <<chain, faults>>
  BY DEF Resubscribe
<1>8. Holds(sub') /\ Holds(next')
  BY <1>7, NoSubHolds DEF Logs
<1> QED
  BY <1>6, <1>7, <1>8 DEF Logs, Holds

LEMMA LogsRaw ==
    ASSUME Shape, Logs, onRawLog
    PROVE Logs'
<1>1. UNCHANGED <<chain, next, faults>>
  BY DEF onRawLog
<1>2. CASE pipe # <<>>
  <2>1. pipe' = Tail(pipe) /\ sub' = sub
    BY <1>2 DEF onRawLog
  <2>2. pipe' \in Seq(Entries)
    BY <1>2, <2>1 DEF Logs
  <2> QED
    BY <1>1, <2>1, <2>2 DEF Logs, Holds
<1>3. CASE pipe = <<>>
  <2>1. pipe' = pipe /\ sub' = [sub EXCEPT !.logs = Tail(@)] /\ pipe \o sub.logs # <<>>
    BY <1>3 DEF onRawLog
  <2>2. PICK q \in Seq(Entries) : q = sub.logs
    BY DEF Logs, Holds
  <2>3. q # <<>>
    BY <1>3, <2>1, <2>2
  <2>4. /\ sub'.logs = Tail(q) /\ sub'.addresses = sub.addresses
        /\ sub'.state = sub.state
    BY <2>1, <2>2 DEF Shape, IsSub
  <2>5. Tail(q) \in Seq(Entries) /\ Len(Tail(q)) = Len(q) - 1
    BY <2>3
  <2>6. \A i \in DOMAIN Tail(q) : i + 1 \in DOMAIN q /\ Tail(q)[i] = q[i + 1]
    BY <2>3, <2>5
  <2>7. \A i \in DOMAIN q : q[i].log.address \in sub.addresses
    BY <2>2 DEF Logs, Holds
  <2>8. \A i \in DOMAIN sub'.logs : sub'.logs[i].log.address \in sub'.addresses
    BY <2>4, <2>6, <2>7
  <2>9. sub'.logs \in Seq(Entries) /\ sub'.state \in {"none", "noop", "live", "failed"}
    BY <2>4, <2>5 DEF Logs, Holds
  <2>10. Holds(sub)'
    BY <2>8, <2>9 DEF Holds
  <2> QED
    BY <1>1, <2>1, <2>10 DEF Logs, Holds
<1> QED
  BY <1>2, <1>3

LEMMA LogsStep ==
    ASSUME Shape, Logs, [Next]_vars
    PROVE Logs'
<1>1. ASSUME UNCHANGED <<chain, sub, next, pipe, faults>> PROVE Logs'
  BY <1>1 DEF Logs, Holds
<1>2. CASE UNCHANGED vars
  BY <1>1, <1>2 DEF vars, client
<1>3. ASSUME SubscriptionFails PROVE Logs'
  <2>1. sub' = [sub EXCEPT !.state = "failed"] /\ UNCHANGED <<chain, next, pipe>>
    BY <1>3 DEF SubscriptionFails
  <2>2. /\ sub'.state = "failed" /\ sub'.logs = sub.logs
        /\ sub'.addresses = sub.addresses
    BY <2>1 DEF Shape, IsSub
  <2>3. Holds(sub')
    BY <2>2, HoldsSame DEF Logs
  <2>4. faults' \in 0 .. MaxFaults
    BY <1>3, BroadcasterAssumption DEF SubscriptionFails, Fault, Logs
  <2> QED
    BY <2>1, <2>3, <2>4 DEF Logs, Holds
<1>4. ASSUME Crash PROVE Logs'
  <2>1. sub' = NoSub /\ next' = NoSub /\ pipe' = <<>> /\ chain' = chain
    BY <1>4 DEF Crash
  <2>2. faults' \in 0 .. MaxFaults
    BY <1>4, BroadcasterAssumption DEF Crash, Fault, Logs
  <2>3. Holds(sub') /\ Holds(next') /\ pipe' \in Seq(Entries)
    BY <2>1, NoSubHolds
  <2> QED
    BY <2>1, <2>2, <2>3 DEF Logs, Holds
<1>5. ASSUME createSubscription PROVE Logs'
  <2>1. UNCHANGED <<chain, sub, pipe, faults>>
    BY <1>5 DEF createSubscription
  <2>2. /\ next'.state \in {"noop", "live"} /\ next'.logs = <<>>
    BY <1>5 DEF createSubscription, NoSub
  <2>3. Holds(next')
    BY <2>2 DEF Holds
  <2> QED
    BY <2>1, <2>3 DEF Logs, Holds
<1>6. ASSUME Start \/ DependentsReady \/ Debounce \/ SubscriptionErr PROVE Logs'
  BY <1>1, <1>6 DEF Start, DependentsReady, Debounce, SubscriptionErr
<1>7. ASSUME NEW l \in Listeners,
             Register(l) \/ Unregister(l) \/ ListenerStep(l) \/ RegistrationStep(l)
      PROVE Logs'
  BY <1>1, <1>7
  DEF Register, Unregister, ListenerStep, RegisterReturns, NoteAnswer, Consume,
      RegistrationStep, onAddListener, onRemoveListener, client
<1> QED
  BY <1>2, <1>3, <1>4, <1>5, <1>6, <1>7,
     LogsNewBlock, LogsReorg, LogsResubscribe, LogsRaw
  DEF Next, SubscriberStep

LEMMA InboxesRaw ==
    ASSUME Logs, Inboxes, onRawLog
    PROVE Inboxes'
<1>1. PICK e : e = Head(pipe \o sub.logs)
  OBVIOUS
<1>2. inbox' = [l \in Listeners |->
                   IF l \in In /\ AddressOf[l] = e.log.address /\ ~e.removed
                   THEN inbox[l] \cup {e.log} ELSE inbox[l]]
  BY <1>1 DEF onRawLog
<1>3. e \in Entries
  <2>1. PICK q \in Seq(Entries) : q = pipe \o sub.logs
    BY ConcatProperties DEF Logs, Holds
  <2>2. q # <<>>
    BY <2>1 DEF onRawLog
  <2>3. Head(q) \in Entries
    BY <2>2
  <2> QED
    BY <1>1, <2>1, <2>3
<1>4. e.log \in Log
  BY <1>3 DEF Entries
<1>5. consumed' = consumed
  BY DEF onRawLog
<1> QED
  BY <1>2, <1>4, <1>5 DEF Inboxes

LEMMA InboxesStep ==
    ASSUME Logs, Inboxes, [Next]_vars
    PROVE Inboxes'
<1>1. ASSUME UNCHANGED <<inbox, consumed>> PROVE Inboxes'
  BY <1>1 DEF Inboxes
<1>2. CASE UNCHANGED vars
  BY <1>1, <1>2 DEF vars, jobs
<1>3. ASSUME NewBlock \/ Reorg \/ SubscriptionFails \/ SubscriberStep \/ Debounce
                \/ SubscriptionErr
      PROVE Inboxes'
  BY <1>1, <1>3
  DEF NewBlock, Reorg, SubscriptionFails, SubscriberStep, Start, DependentsReady,
      createSubscription, Resubscribe, Debounce, SubscriptionErr, jobs
<1>4. ASSUME Crash PROVE Inboxes'
  BY <1>4 DEF Crash, For, Inboxes
<1>5. ASSUME NEW l \in Listeners, Register(l) \/ RegisterReturns(l) \/ NoteAnswer(l)
                \/ onAddListener(l)
      PROVE Inboxes'
  BY <1>1, <1>5 DEF Register, RegisterReturns, NoteAnswer, onAddListener
<1>6. ASSUME NEW l \in Listeners, Unregister(l) \/ onRemoveListener(l) PROVE Inboxes'
  <2>1. inbox' = [inbox EXCEPT ![l] = {}] /\ consumed' = consumed
    BY <1>6 DEF Unregister, onRemoveListener, Of
  <2> QED
    BY <2>1 DEF Inboxes
<1>7. ASSUME NEW l \in Listeners, Consume(l) PROVE Inboxes'
  <2>1. PICK log \in inbox[l] :
          /\ inbox' = [inbox EXCEPT ![l] = inbox[l] \ {log}]
          /\ consumed' = consumed \cup {<<l, log>>}
    BY <1>7 DEF Consume, Of
  <2>2. log \in Log
    BY DEF Inboxes
  <2> QED
    BY <2>1, <2>2 DEF Inboxes
<1> QED
  BY <1>2, <1>3, <1>4, <1>5, <1>6, <1>7, InboxesRaw
  DEF Next, ListenerStep, RegistrationStep

LEMMA ToldStep ==
    ASSUME Shape, OnlyMembersAreTold, [Next]_vars
    PROVE OnlyMembersAreTold'
<1> USE DEF OnlyMembersAreTold, In, Shape
<1>1. ASSUME UNCHANGED <<listener, told>> PROVE OnlyMembersAreTold'
  BY <1>1
<1>2. CASE UNCHANGED vars
  BY <1>1, <1>2 DEF vars, jobs
<1>3. ASSUME NewBlock \/ Reorg \/ SubscriptionFails \/ Start \/ DependentsReady
                \/ createSubscription \/ onRawLog \/ Debounce
      PROVE OnlyMembersAreTold'
  BY <1>1, <1>3
  DEF NewBlock, Reorg, SubscriptionFails, Start, DependentsReady, createSubscription,
      onRawLog, Debounce, jobs
<1>4. ASSUME Crash PROVE OnlyMembersAreTold'
  BY <1>4 DEF Crash, For
<1>5. ASSUME Resubscribe PROVE OnlyMembersAreTold'
  BY <1>5 DEF Resubscribe
<1>6. ASSUME SubscriptionErr PROVE OnlyMembersAreTold'
  BY <1>6 DEF SubscriptionErr, notifyDisconnect
<1>7. ASSUME NEW l \in Listeners, Register(l) \/ Unregister(l) PROVE OnlyMembersAreTold'
  BY <1>7 DEF Register, Unregister, Listener, Of
<1>8. ASSUME NEW l \in Listeners, ListenerStep(l) PROVE OnlyMembersAreTold'
  BY <1>8 DEF ListenerStep, RegisterReturns, NoteAnswer, Consume, Listener, Of
<1>9. ASSUME NEW l \in Listeners, RegistrationStep(l) PROVE OnlyMembersAreTold'
  BY <1>9 DEF RegistrationStep, onAddListener, onRemoveListener, ToldOff, Of
<1> HIDE DEF OnlyMembersAreTold, In, Shape
<1> QED
  BY <1>2, <1>3, <1>4, <1>5, <1>6, <1>7, <1>8, <1>9 DEF Next, SubscriberStep

LEMMA TypesInit == Init => Types
<1> SUFFICES ASSUME Init PROVE Types
  OBVIOUS
<1>1. Holds(sub) /\ Holds(next)
  BY NoSubHolds DEF Init
<1>2. chain \in Seq(Log) /\ Len(chain) = 0 /\ pipe \in Seq(Entries)
  BY DEF Init
<1>3. faults \in 0 .. MaxFaults /\ 0 <= MaxHeight
  BY BroadcasterAssumption DEF Init
<1>4. Inboxes /\ OnlyMembersAreTold
  BY DEF Init, For, Inboxes, OnlyMembersAreTold
<1> QED
  BY <1>1, <1>2, <1>3, <1>4 DEF Types, Logs

-----------------------------------------------------------------------------
(* Theorems *)

\* The inductive invariant holds of every state that the broadcaster reaches.
THEOREM BroadcasterInvariant == Spec => []IInv
<1>1. Init => IInv
  <2>1. Init => SubscriptionCovers /\ NextCovers /\ Answers /\ ListenersKnow
    BY DEF Init, SubscriptionCovers, NextCovers, Answers, ListenersKnow, For
  <2> QED
    BY <2>1, ShapeInit DEF IInv
<1>2. IInv /\ [Next]_vars => IInv'
  BY ShapeStep, CoversStep, KnowsStep DEF IInv, Covers, Knows
<1> QED
  BY <1>1, <1>2, PTL DEF Spec

\* While logs are processed, the subscription covers exactly the contracts of
\* the listeners or the need to subscribe again is noted.
THEOREM SubscriptionAlwaysCovers == Spec => []SubscriptionCovers
<1>1. IInv => SubscriptionCovers
  BY DEF IInv
<1> QED
  BY <1>1, BroadcasterInvariant, PTL

\* A registered listener thinks it is connected exactly if the broadcaster is,
\* unless the connection came or failed when it had just got its answer.
THEOREM ListenersAlwaysKnow == Spec => []ListenersKnow
<1>1. IInv => ListenersKnow
  BY DEF IInv
<1> QED
  BY <1>1, BroadcasterInvariant, PTL

\* Every subscription holds logs of its contracts only, a listener is handed
\* logs of its contract only, and nobody who is not registered is told that it
\* is connected.
THEOREM BroadcasterTypes == Spec => []TypeOK
<1>1. Init => Types
  BY TypesInit
<1>2. IInv /\ Types /\ [Next]_vars => Types'
  BY LogsStep, InboxesStep, ToldStep DEF IInv, Types
<1>3. IInv /\ Types => TypeOK
  <2> SUFFICES ASSUME IInv, Types PROVE TypeOK
    OBVIOUS
  <2>1. /\ chain \in Seq(Log) /\ faults \in 0 .. MaxFaults
        /\ \A s \in {sub, next} :
              /\ s.state \in {"none", "noop", "live", "failed"}
              /\ \A i \in DOMAIN s.logs : s.logs[i].log.address \in s.addresses
    BY DEF Types, Logs, Holds
  <2>2. \A i \in DOMAIN pipe : pipe[i].log \in Log /\ pipe[i].removed \in BOOLEAN
    <3>1. \A i \in DOMAIN pipe : pipe[i] \in Entries
      BY DEF Types, Logs
    <3> QED
      BY <3>1 DEF Entries
  <2>3. /\ loop \in {"down", "waiting", "create", "backfill", "process"}
        /\ {needs, connected} \subseteq BOOLEAN
        /\ \A l \in Listeners :
              listener[l] \in {"new", "again", "registering", "added", "yes", "no", "in",
                               "removing", "gone"}
    BY DEF IInv, Shape, States, Registered
  <2>4. /\ consumed \subseteq Listeners \X Log
        /\ \A l \in Listeners : inbox[l] \subseteq {log \in Log : log.address = AddressOf[l]}
    BY DEF Types, Inboxes
  <2>5. \A l \in Listeners : told[l] => l \in In
    BY DEF Types, OnlyMembersAreTold
  <2> QED
    BY <2>1, <2>2, <2>3, <2>4, <2>5 DEF TypeOK
<1> QED
  BY <1>1, <1>2, <1>3, BroadcasterInvariant, PTL DEF Spec
=============================================================================

---------------------------- MODULE LogBroadcaster ----------------------------
(***************************************************************************)
(* The log broadcaster of core/services/log: one subscription to the       *)
(* Ethereum node for all listeners.                                        *)
(*                                                                         *)
(* When the set of addresses changes, or the connection fails, the         *)
(* broadcaster subscribes again, asks for the logs of the last Depth       *)
(* blocks, and reads from one channel: what remains from the last          *)
(* subscription, the backfilled logs, and those of the new subscription.   *)
(* Logs come twice; a listener records which ones it has consumed.         *)
(*                                                                         *)
(* A listener registers like a checker of the flux monitor, one for a job, *)
(* and keeps what it is handed in an inbox without a limit.                *)
(***************************************************************************)
EXTENDS Naturals, Sequences, FiniteSets, SequencesExt

CONSTANTS
    Listeners,
    AddressOf,     \* the contract that a listener listens to
    Depth,         \* backfillDepth
    MaxHeight,     \* bound on the height of the chain
    MaxDeleted,    \* bound on the jobs that are deleted
    MaxFaults      \* bound on the reorganisations, of one block each, the
                   \* failures of the connection and the crashes together

ASSUME BroadcasterAssumption ==
    /\ IsFiniteSet(Listeners)
    /\ DOMAIN AddressOf = Listeners
    /\ {Depth, MaxHeight, MaxDeleted, MaxFaults} \subseteq Nat

VARIABLES
    chain,     \* the blocks, each with one log
    loop,      \* where the goroutine of the broadcaster is
    sub,       \* its subscription, with the logs that the client still holds
    pipe,      \* what remains of earlier subscriptions and backfills
    next,      \* the new subscription and its logs, while the old one is there
    needs,     \* needsResubscribe
    connected, \* is the broadcaster connected?
    listener,  \* the state of each listener and its registration
    told,      \* does the listener think it is connected?
    inbox,     \* logs that a listener has been handed
    consumed,  \* table log_consumptions
    since,     \* history: the height above which a listener gets every log
    beyond,    \* history: logs that were too deep to be backfilled
    raced,     \* history: is the answer of Register to it outdated?
    faults     \* how many so far

client   == <<loop, sub, pipe, next, needs, connected>>
jobs     == <<listener, told, inbox>>
history  == <<since, beyond, raced>>
vars     == <<chain, client, jobs, consumed, history, faults>>

Address == {AddressOf[l] : l \in Listeners}
Log == [height : 1 .. MaxHeight, address : Address, fork : 0 .. MaxFaults]

\* A subscription: "none", "noop" for no addresses, "live" or "failed".
NoSub == [state |-> "none", addresses |-> {}, logs |-> <<>>]

\* Those in the map of listeners.
In == {l \in Listeners : listener[l] \in {"added", "yes", "no", "in", "removing"}}

addresses == {AddressOf[l] : l \in In}

Of(l, f, v) == [f EXCEPT ![l] = v]
For(v) == [l \in Listeners |-> v]

Init ==
    /\ chain = <<>>
    /\ loop = "down" /\ sub = NoSub /\ pipe = <<>> /\ next = NoSub
    /\ needs = FALSE /\ connected = FALSE
    /\ listener = For("new") /\ told = For(FALSE) /\ inbox = For({})
    /\ consumed = {}
    /\ since = For(0) /\ beyond = {} /\ raced = For(FALSE)
    /\ faults = 0

-----------------------------------------------------------------------------
(* The node *)

Entry(log, removed) == [log |-> log, removed |-> removed]

Wanted(s, e) == s.state = "live" /\ e.log.address \in s.addresses

With(s, e) == IF Wanted(s, e) THEN [s EXCEPT !.logs = Append(@, e)] ELSE s

\* The node sends a log to every subscription that asks for it.
Sends(e) == sub' = With(sub, e) /\ next' = With(next, e)

SendsBoth(d, e) == sub' = With(With(sub, d), e) /\ next' = With(With(next, d), e)

Fault == faults < MaxFaults /\ faults' = faults + 1

NewBlock ==
    /\ Len(chain) < MaxHeight
    /\ \E a \in Address :
          LET log == [height |-> Len(chain) + 1, address |-> a, fork |-> faults]
          IN  chain' = Append(chain, log) /\ Sends(Entry(log, FALSE))
    /\ UNCHANGED <<loop, pipe, needs, connected, jobs, consumed, history, faults>>

\* The last block is replaced: its log is sent once more, as removed.
Reorg ==
    /\ chain # <<>> /\ Fault
    /\ \E a \in Address :
          LET log == [height |-> Len(chain), address |-> a, fork |-> faults']
          IN  /\ chain' = [chain EXCEPT ![Len(chain)] = log]
              /\ SendsBoth(Entry(chain[Len(chain)], TRUE), Entry(log, FALSE))
    /\ UNCHANGED <<loop, pipe, needs, connected, jobs, consumed, history>>

SubscriptionFails ==
    /\ sub.state = "live" /\ loop = "process" /\ Fault
    /\ sub' = [sub EXCEPT !.state = "failed"]
    /\ UNCHANGED <<chain, loop, pipe, next, needs, connected, jobs, consumed, history>>

-----------------------------------------------------------------------------
(* The loop that subscribes *)

Start ==
    /\ loop = "down"
    /\ loop' = "waiting"
    /\ UNCHANGED <<chain, sub, pipe, next, needs, connected, jobs, consumed, history,
                   faults>>

\* awaitInitialSubscribers: the dependents are ready.  They are counted only
\* once their service starts, which is later: it need not wait for any.
DependentsReady ==
    /\ loop = "waiting"
    /\ loop' = "create"
    /\ UNCHANGED <<chain, sub, pipe, next, needs, connected, jobs, consumed, history, faults>>

\* It subscribes to the addresses of the moment; errors are tried again.
createSubscription ==
    /\ loop = "create"
    /\ next' = [NoSub EXCEPT !.state = IF In = {} THEN "noop" ELSE "live",
                             !.addresses = addresses]
    /\ loop' = "backfill"
    /\ UNCHANGED <<chain, sub, pipe, needs, connected, jobs, consumed, history, faults>>

fromBlock == IF Depth > Len(chain) THEN 0 ELSE Len(chain) - Depth

LogsOf(contracts) ==
    {log \in ToSet(chain) : log.height >= fromBlock /\ log.address \in contracts}

\* The node returns them in the order of the chain.
InOrder(logs) ==
    {b \in [1 .. Cardinality(logs) -> logs] :
        \A i, j \in DOMAIN b : i < j => b[i].height < b[j].height}

\* A slip: the addresses of the subscription that ends.
BackfilledBefore == LogsOf(sub.addresses)

Backfilled == LogsOf(addresses)

\* The connection comes or goes while a listener has got an answer of Register.
Outdates(answer) == raced' = [l \in Listeners |-> listener[l] = answer]

\* One log each, in the goroutine that combines the subscription that ends with
\* what was there before, and in the two of appendLogChannel that follow it.
MaxHeld == 3

\* backfillLogs, appendLogChannel, the switch to the new subscription, and
\* notifyConnect.  The client drops the logs it holds for the old one, but for
\* those that the goroutines of appendLogChannel have taken.
Resubscribe ==
    /\ loop = "backfill"
    /\ \E n \in 0 .. Len(sub.logs), b \in InOrder(Backfilled) :
          /\ n > 0 => n + Len(pipe) <= MaxHeld
          /\ pipe' = pipe \o SubSeq(sub.logs, 1, n) \o [i \in DOMAIN b |-> Entry(b[i], FALSE)]
    /\ sub' = next /\ next' = NoSub
    /\ needs' = FALSE
    /\ connected' = TRUE
    /\ told' = [l \in Listeners |-> told[l] \/ l \in In]
    /\ Outdates("no")
    /\ beyond' = beyond \cup {log \in ToSet(chain) : log.height < fromBlock}
    /\ loop' = "process"
    /\ UNCHANGED <<chain, listener, inbox, consumed, since, faults>>

-----------------------------------------------------------------------------
(* The loop that processes *)

\* onRawLog hands a log to the listeners of its address.
onRawLog ==
    /\ loop = "process" /\ pipe \o sub.logs # <<>>
    /\ pipe' = IF pipe # <<>> THEN Tail(pipe) ELSE pipe
    /\ sub' = IF pipe # <<>> THEN sub ELSE [sub EXCEPT !.logs = Tail(@)]
    /\ LET e == Head(pipe \o sub.logs)
       IN  inbox' = [l \in Listeners |->
                        IF l \in In /\ AddressOf[l] = e.log.address /\ ~e.removed
                        THEN inbox[l] \cup {e.log} ELSE inbox[l]]
    /\ UNCHANGED <<chain, loop, next, needs, connected, listener, told, consumed,
                   history, faults>>

\* A slip: a new address waits for the next failure of the connection.
NeverNeeded(l) == needs

NeedsResubscribe(l) == needs \/ AddressOf[l] \notin addresses

\* onAddListener, also before the first subscription.
onAddListener(l) ==
    /\ loop \in {"waiting", "process"}
    /\ listener[l] = "registering"
    /\ listener' = Of(l, listener, "added")
    /\ needs' = (loop = "process" /\ NeedsResubscribe(l))
    /\ since' = Of(l, since, IF loop = "process" /\ AddressOf[l] \in addresses
                             THEN Len(chain) ELSE since[l])
    /\ UNCHANGED <<chain, loop, sub, pipe, next, connected, told, inbox, consumed,
                   beyond, raced, faults>>

\* A slip: the listener is not told that it is cut off.
StillTold(l) == told

ToldOff(l) == Of(l, told, FALSE)

onRemoveListener(l) ==
    /\ loop = "process"
    /\ listener[l] = "removing"
    /\ listener' = Of(l, listener, "gone")
    /\ told' = ToldOff(l)
    /\ inbox' = Of(l, inbox, {})
    /\ needs' = (needs \/ \A m \in In \ {l} : AddressOf[m] # AddressOf[l])
    /\ UNCHANGED <<chain, loop, sub, pipe, next, connected, consumed, history, faults>>

\* The ticker finds that the addresses have changed.
Debounce ==
    /\ loop = "process" /\ needs
    /\ loop' = "create"
    /\ UNCHANGED <<chain, sub, pipe, next, needs, connected, jobs, consumed, history, faults>>

\* A slip: the listeners are not told.
notifyNobody == connected' = FALSE /\ UNCHANGED told

notifyDisconnect ==
    /\ connected' = FALSE
    /\ told' = [l \in Listeners |-> told[l] /\ l \notin In]

\* The subscription ends with an error, or without one.
SubscriptionErr ==
    /\ loop = "process" /\ sub.state = "failed"
    /\ loop' = "create"
    /\ \/ notifyDisconnect /\ Outdates("yes")
       \/ UNCHANGED <<connected, told, raced>>
    /\ UNCHANGED <<chain, sub, pipe, next, needs, listener, inbox, consumed, since, beyond,
                   faults>>

-----------------------------------------------------------------------------
(* The listeners *)

Listener(l, from, to) ==
    /\ loop # "down"
    /\ listener[l] = from
    /\ listener' = Of(l, listener, to)

\* The job is added, or found at a start, and its checker registers; ...
Register(l) ==
    /\ \E from \in {"new", "again"} : Listener(l, from, "registering")
    /\ UNCHANGED <<chain, client, told, inbox, consumed, history, faults>>

\* ... Register returns whether the broadcaster is connected, ...
RegisterReturns(l) ==
    /\ Listener(l, "added", IF connected THEN "yes" ELSE "no")
    /\ UNCHANGED <<chain, client, told, inbox, consumed, history, faults>>

\* ... and the checker notes the answer, which may be outdated by now.
NoteAnswer(l) ==
    /\ \E answer \in {"yes", "no"} :
          Listener(l, answer, "in") /\ told' = Of(l, told, answer = "yes")
    /\ UNCHANGED <<chain, client, inbox, consumed, history, faults>>

\* The job is deleted: its checker looks at no log any more and unregisters.
Unregister(l) ==
    /\ Cardinality({m \in Listeners : listener[m] \in {"removing", "gone"}}) < MaxDeleted
    /\ Listener(l, "in", "removing")
    /\ inbox' = Of(l, inbox, {})
    /\ UNCHANGED <<chain, client, told, consumed, history, faults>>

\* A log that was not consumed is acted upon and recorded.
Consume(l) ==
    /\ listener[l] = "in"
    /\ \E log \in inbox[l] :
          /\ inbox' = Of(l, inbox, inbox[l] \ {log})
          /\ consumed' = consumed \cup {<<l, log>>}
    /\ UNCHANGED <<chain, client, listener, told, history, faults>>

\* The process ends.  The next one finds the jobs in the database.
Crash ==
    /\ loop # "down" /\ Fault
    /\ loop' = "down" /\ sub' = NoSub /\ pipe' = <<>> /\ next' = NoSub
    /\ needs' = FALSE /\ connected' = FALSE
    /\ listener' = [l \in Listeners |->
                       CASE listener[l] = "new" -> "new"
                         [] listener[l] \in {"removing", "gone"} -> "gone"
                         [] OTHER -> "again"]
    /\ told' = For(FALSE) /\ inbox' = For({})
    /\ since' = For(0) /\ raced' = For(FALSE)
    /\ UNCHANGED <<chain, consumed, beyond>>

-----------------------------------------------------------------------------
\* A step of the goroutine that subscribes, of a listener, and of the loop
\* that processes on a listener's behalf.
SubscriberStep == Start \/ DependentsReady \/ createSubscription \/ Resubscribe

ListenerStep(l) == RegisterReturns(l) \/ NoteAnswer(l) \/ Consume(l)

RegistrationStep(l) == onAddListener(l) \/ onRemoveListener(l)

Next ==
    \/ NewBlock \/ Reorg \/ SubscriptionFails \/ Crash
    \/ SubscriberStep \/ onRawLog \/ Debounce \/ SubscriptionErr
    \/ \E l \in Listeners :
          Register(l) \/ Unregister(l) \/ ListenerStep(l) \/ RegistrationStep(l)

\* The goroutines run, the select takes every case that stays ready, calls to
\* the node succeed in the end, and the process is started again with its jobs.
Fairness ==
    /\ WF_vars(SubscriberStep)
    /\ SF_vars(onRawLog) /\ SF_vars(Debounce) /\ SF_vars(SubscriptionErr)
    /\ \A l \in Listeners :
          /\ WF_vars(listener[l] = "again" /\ Register(l))
          /\ WF_vars(ListenerStep(l)) /\ SF_vars(RegistrationStep(l))

Spec == Init /\ [][Next]_vars /\ Fairness

-----------------------------------------------------------------------------
(* Properties *)

\* Type invariant: of a subscription there are logs of its contracts only, a
\* listener has logs of its contract only, and who is not registered does not
\* think it is connected.
TypeOK ==
    /\ chain \in Seq(Log)
    /\ loop \in {"down", "waiting", "create", "backfill", "process"}
    /\ \A s \in {sub, next} :
          /\ s.state \in {"none", "noop", "live", "failed"}
          /\ \A i \in DOMAIN s.logs : s.logs[i].log.address \in s.addresses
    /\ \A i \in DOMAIN pipe : pipe[i].log \in Log /\ pipe[i].removed \in BOOLEAN
    /\ {needs, connected} \subseteq BOOLEAN
    /\ \A l \in Listeners :
          /\ listener[l] \in {"new", "again", "registering", "added", "yes", "no", "in", "removing",
                              "gone"}
          /\ inbox[l] \subseteq {log \in Log : log.address = AddressOf[l]}
          /\ told[l] => l \in In
    /\ consumed \subseteq Listeners \X Log
    /\ faults \in 0 .. MaxFaults

\* While logs are processed the subscription covers exactly the contracts of
\* the listeners, or the need to subscribe again is noted: also when listeners
\* come and go while the subscription is set up, or it has just failed.
SubscriptionCovers ==
    loop = "process" /\ ~needs => sub.addresses = addresses

\* A listener that is registered thinks it is connected exactly if the
\* broadcaster is, unless the connection came or failed when it had just got an
\* answer of Register, now outdated: until the connection comes or fails again.
ListenersKnow ==
    \A l \in Listeners :
        listener[l] = "in" /\ ~raced[l] => told[l] = connected

\* Time and again, every job that listens has consumed every log of its
\* contract: across failures of the connection, changes of the set of addresses
\* and restarts.  Excepted are logs from before its registration (after a
\* restart: its new one) when another job had brought its contract in, logs too
\* deep for a backfill, and logs that a reorganisation has removed.
NoLogIsMissed ==
    []<>(\A l \in Listeners :
            \/ listener[l] \in {"new", "removing", "gone"}
            \/ /\ listener[l] = "in"
               /\ \A log \in ToSet(chain) :
                     \/ log.address # AddressOf[l] \/ <<l, log>> \in consumed
                     \/ log \in beyond \/ log.height <= since[l])

=============================================================================

----------------------------- MODULE FluxMonitor -----------------------------
(***************************************************************************)
(* A checker of the flux monitor, core/services/fluxmonitor: it answers    *)
(* the rounds of one aggregator contract.                                  *)
(*                                                                         *)
(* One goroutine takes the logs of the contract from a bounded queue, and  *)
(* the ticks of its timers.  Either way it decides, from its table of      *)
(* rounds and the state of the contract, whether to submit; fetches an     *)
(* answer; creates a run, whose transaction submits it; and counts the     *)
(* submission in its table.                                                *)
(*                                                                         *)
(* The contract is external.  Ticks differ in the deviation that they ask  *)
(* for and in when they come, which is left open here.  A tick that finds  *)
(* the checker disconnected changes nothing.                               *)
(***************************************************************************)
EXTENDS Naturals, Sequences, FiniteSets, SequencesExt, FiniteSetsExt

CONSTANTS
    NULL,
    NewRoundCap, FlagCap, \* the capacities of the queue, by priority
    Bounds      \* what may happen: a set of records that bound the rounds, the
                \* runs, the changes of flags, and the failures, cancelled runs,
                \* crashes and reorganisations together

Log == [kind : {"round", "raised", "lowered"}, round : Nat, by : {"us", "other", NULL}, fork : Nat]

ASSUME CheckerAssumption ==
    /\ NULL \notin Log \cup Nat
    /\ {NewRoundCap, FlagCap} \subseteq Nat \ {0}
    /\ Bounds \subseteq [rounds : Nat, runs : Nat, raised : 0 .. 2, flags : Nat, faults : Nat]

VARIABLES
    rounds,    \* of the contract: who started each, and its status
    flags,     \* how many flags are raised: one is the contract's, one global
    logs,      \* the logs that the node has for the checker
    at,        \* how many of them the log broadcaster has delivered
    backlog,   \* the queue of logs, by priority
    doing,     \* what the goroutine does
    isHibernating,
    stats,     \* table flux_monitor_round_stats, by round
    runs,      \* table job_runs, with the fate of the transaction
    consumed,  \* table log_consumptions
    lost,      \* history: rounds whose submissions are not in the table
    missed,    \* history: logs that a failure, the full queue or a backfill has
               \* dropped, logs of flags that came again too late, and logs of
               \* rounds that were opened again
    left       \* what may still happen

chain    == <<rounds, flags, logs>>
checker  == <<at, backlog, doing, isHibernating>>
history  == <<lost, missed>>
vars     == <<chain, checker, stats, runs, consumed, history, left>>

Raised == [kind |-> "raised", round |-> Cardinality({i \in DOMAIN logs : logs[i].kind # "round"}),
           by |-> NULL, fork |-> 0]

Idle == [step |-> "idle", round |-> 0, log |-> NULL]

Empty == [flag |-> <<>>, round |-> <<>>]

Init ==
    /\ left \in Bounds
    /\ rounds = <<>> /\ flags = left.raised /\ logs = <<>>
    /\ at = 0 /\ backlog = Empty
    /\ doing = [Idle EXCEPT !.step = "down"] /\ isHibernating = FALSE
    /\ stats = <<>> /\ runs = <<>> /\ consumed = {}
    /\ lost = {} /\ missed = {}

Fault == left.faults > 0 /\ left' = [left EXCEPT !.faults = @ - 1]

-----------------------------------------------------------------------------
(* The contract *)

submitted(r) == \E i \in DOMAIN runs : runs[i].round = r /\ runs[i].tx = "mined"

\* A round accepts submissions while it is open or answered (or timed out), and
\* may be followed by the next once it is answered or closed.
accepting(r) == r \in DOMAIN rounds /\ rounds[r].status # "closed"

supersedable(r) == r > 0 => rounds[r].status # "open"

\* OracleRoundState for a round, and the round it suggests when asked for none.
EligibleToSubmit(r) ==
    \/ accepting(r) /\ ~submitted(r)
    \/ r = Len(rounds) + 1 /\ supersedable(Len(rounds))

SuggestedRound ==
    LET r == Len(rounds)
    IN  IF supersedable(r) /\ (submitted(r) \/ ~accepting(r)) THEN r + 1 ELSE r

NewRoundLog(r, who) == [kind |-> "round", round |-> r, by |-> who, fork |-> left.faults]

StartsRound(who) ==
    /\ Len(rounds) < left.rounds
    /\ rounds' = Append(rounds, [by |-> who, status |-> "open", fork |-> left.faults])
    /\ logs' = Append(logs, NewRoundLog(Len(rounds) + 1, who))

OtherStartsRound ==
    /\ supersedable(Len(rounds))
    /\ StartsRound("other")
    /\ UNCHANGED <<flags, checker, stats, runs, consumed, history, left>>

OthersSubmit(r) ==
    /\ accepting(r)
    /\ \E s \in {"answered", "closed"} :
          rounds[r].status # s /\ rounds' = [rounds EXCEPT ![r].status = s]
    /\ UNCHANGED <<flags, logs, checker, stats, runs, consumed, history, left>>

ChangeFlag ==
    /\ Raised.round < left.flags
    /\ \/ flags < 2 /\ flags' = flags + 1 /\ logs' = Append(logs, Raised)
       \/ flags > 0 /\ flags' = flags - 1 /\ logs' = Append(logs, [Raised EXCEPT !.kind = "lowered"])
    /\ UNCHANGED <<rounds, checker, stats, runs, consumed, history, left>>

\* The log of a round that another oracle has started.
LogOf(r) == [NewRoundLog(r, "other") EXCEPT !.fork = rounds[r].fork]

Starts(i, r) == runs[i].round = r /\ runs[i].tx = "mined" /\ rounds[r].by = "us"

\* The last rounds are undone, or submissions to rounds that stay, of which the
\* last may be open again, which no log tells if it was closed: the transactions
\* that were mined wait to be mined again, also those of runs that have completed.
Reorg ==
    /\ rounds # <<>> /\ Fault
    /\ \E n \in 0 .. Len(rounds),
          undone \in SUBSET {i \in DOMAIN runs : runs[i].tx \in {"mined", "reverted"}} :
          /\ \A i \in DOMAIN runs :
                IF runs[i].round > n THEN runs[i].tx \in {"mined", "reverted"} => i \in undone
                ELSE i \in undone => ~Starts(i, runs[i].round)
          /\ \E s \in {"open", "answered", "closed"} :
                /\ n > 0 => s \in {"open", rounds[n].status}
                /\ rounds' = [r \in 1 .. n |->
                                IF r = n THEN [rounds[r] EXCEPT !.status = s] ELSE rounds[r]]
                /\ missed' = IF n > 0 /\ ~accepting(n) /\ s # "closed"
                             THEN missed \cup {LogOf(n)} ELSE missed
          /\ runs' = [i \in DOMAIN runs |->
                         IF i \in undone THEN [runs[i] EXCEPT !.tx = "sent"] ELSE runs[i]]
    /\ UNCHANGED <<flags, logs, checker, stats, consumed, lost>>

\* The transaction of a run is mined, and may be reverted.
MineTx(i) ==
    /\ runs[i].tx = "sent"
    /\ LET r == runs[i].round
       IN  /\ runs' = [runs EXCEPT ![i].tx = IF EligibleToSubmit(r) THEN "mined" ELSE "reverted"]
           /\ IF EligibleToSubmit(r) /\ r = Len(rounds) + 1 THEN StartsRound("us")
              ELSE UNCHANGED <<rounds, logs>>
    /\ UNCHANGED <<flags, checker, stats, consumed, history, left>>

\* The run completes when there are enough confirmations, of either outcome.
RunCompletes(i) ==
    /\ runs[i].status = "open" /\ runs[i].tx \in {"mined", "reverted"}
    /\ runs' = [runs EXCEPT ![i].status = "completed"]
    /\ UNCHANGED <<chain, checker, stats, consumed, history, left>>

\* A run fails or is cancelled, before there is a transaction or while it is on
\* its way.
RunFails(i) ==
    /\ runs[i].status = "open" /\ runs[i].tx = "sent" /\ Fault
    /\ \E s \in {"errored", "cancelled"}, tx \in {"none", "sent"} :
          runs' = [runs EXCEPT ![i].status = s, ![i].tx = tx]
    /\ UNCHANGED <<chain, checker, stats, consumed, history>>

-----------------------------------------------------------------------------
(* The queue of logs *)

Queue(log) == IF log.kind = "round" THEN "round" ELSE "flag"

\* A slip: one log of flags fewer, so that there may not be one of either flag.
CapWithoutSpare(log) == IF log.kind = "round" THEN NewRoundCap ELSE FlagCap - 1

Cap(log) == IF log.kind = "round" THEN NewRoundCap ELSE FlagCap

\* A slip: the queue grows beyond its capacity.
AddUnbounded(q, log) == Append(q, log)

\* BoundedQueue.Add
Add(q, log) == IF Len(q) < Cap(log) THEN Append(q, log) ELSE Append(Tail(q), log)

\* What the full queue drops is missed; but a log of a flag is made up for by
\* one that takes its place, unless that is in the queue a second time.
Drops(q, log) == Len(q) = Cap(log) /\ (log.kind = "round" \/ log \in ToSet(Tail(q)))

\* HandleLog: the log broadcaster delivers the next log.
HandleLog ==
    /\ doing.step # "down" /\ at < Len(logs)
    /\ at' = at + 1
    /\ LET log == logs[at + 1]
           q == backlog[Queue(log)]
       IN  /\ backlog' = [backlog EXCEPT ![Queue(log)] = Add(q, log)]
           /\ missed' = IF Drops(q, log) THEN missed \cup {Head(q)} ELSE missed
    /\ UNCHANGED <<chain, doing, isHibernating, stats, runs, consumed, lost, left>>

\* BoundedPriorityQueue.Take
First == IF backlog.flag # <<>> THEN "flag" ELSE "round"

-----------------------------------------------------------------------------
(* Deciding *)

\* FindOrCreateFluxMonitorRoundStats: also a round without a submission gets
\* its row.
NoStats == [submissions |-> 0, run |-> NULL]

FindOrCreate(table, r) ==
    [k \in DOMAIN table \cup {r} |-> IF k \in DOMAIN table THEN table[k] ELSE NoStats]

StatusOf(row) == IF row.run = NULL THEN "none" ELSE runs[row.run].status

\* MostRecentFluxMonitorRoundID
MostRecent == Max(DOMAIN stats \cup {0})

\* pollIfEligible up to the fetch, which then ends with the log, if any.
Polls(log) ==
    LET r   == SuggestedRound
        row == FindOrCreate(stats, r)[r]
    IN  /\ stats' = FindOrCreate(stats, r)
        /\ doing' = IF ~(row.submissions > 0 /\ StatusOf(row) # "errored") /\ EligibleToSubmit(r)
                    THEN [step |-> "fetch", round |-> r, log |-> log]
                    ELSE [Idle EXCEPT !.step = IF log = NULL THEN "idle" ELSE "mark", !.log = log]

Tick ==
    /\ doing.step = "idle"
    /\ Polls(NULL)
    /\ UNCHANGED <<chain, at, backlog, isHibernating, runs, consumed, history, left>>

\* A slip: the row of the round itself is deleted too.
RewindsAlways(r) == r <= MostRecent

Rewinds(r) == r < MostRecent

\* DeleteFluxMonitorRoundsBackThrough
Kept(r) == [k \in {k \in DOMAIN stats : Rewinds(r) => k < r} |-> stats[k]]

\* A slip: rounds of others are left to the ticks.
StartedByAnyone(log) == TRUE

StartedByUs(log) == log.by = "us"

\* The submissions that go with the rows.
LostWith(r) ==
    IF r >= MostRecent THEN lost
    ELSE lost \cup {k \in DOMAIN stats : k >= r /\ stats[k].submissions > 0}

\* respondToNewRoundLog up to the fetch.
RespondToNewRound(log) ==
    LET r     == log.round
        table == FindOrCreate(Kept(r), r)
        row   == table[r]
    IN  /\ stats' = table
        /\ lost' = LostWith(r)
        /\ doing' =
              [step |-> IF \/ row.submissions > 0 /\ StatusOf(row) = "open"
                           \/ StartedByUs(log) \/ ~EligibleToSubmit(r)
                        THEN "mark" ELSE "fetch",
               round |-> r, log |-> log]
        /\ UNCHANGED isHibernating

IsFlagRaised == flags = 2

\* hibernate and reactivate, which polls.
RespondToFlag(log) ==
    /\ UNCHANGED lost
    /\ IF log.kind = "raised"
       THEN /\ isHibernating' = (isHibernating \/ IsFlagRaised)
            /\ doing' = [Idle EXCEPT !.step = "mark", !.log = log]
            /\ UNCHANGED stats
       ELSE isHibernating' = FALSE /\ Polls(log)

\* processLogs takes a log, unless it was consumed.
TakeLog ==
    /\ doing.step = "idle" /\ backlog[First] # <<>>
    /\ backlog' = [backlog EXCEPT ![First] = Tail(@)]
    /\ LET log == Head(backlog[First])
       IN  IF log \in consumed THEN UNCHANGED <<doing, stats, isHibernating, lost>>
           ELSE IF log.kind = "round" THEN RespondToNewRound(log)
           ELSE RespondToFlag(log)
    /\ UNCHANGED <<chain, at, runs, consumed, missed, left>>

\* WasAlreadyConsumed fails, and the log is dropped; or a call of the response
\* fails, and the log will be marked as consumed all the same.
LogFails ==
    /\ doing.step = "idle" /\ backlog[First] # <<>> /\ Fault
    /\ backlog' = [backlog EXCEPT ![First] = Tail(@)]
    /\ LET log == Head(backlog[First])
       IN  \/ /\ missed' = missed \cup {log}
              /\ UNCHANGED <<doing, stats, isHibernating, lost>>
           \/ /\ log \notin consumed
              /\ doing' = [Idle EXCEPT !.step = "mark", !.log = log]
              /\ isHibernating' = (isHibernating /\ log.kind # "lowered")
              /\ missed' = IF log.kind = "lowered" THEN missed ELSE missed \cup {log}
              /\ \/ UNCHANGED <<stats, lost>>
                 \/ /\ log.kind = "round"
                    /\ stats' = Kept(log.round) /\ lost' = LostWith(log.round)
    /\ UNCHANGED <<chain, at, runs, consumed>>

-----------------------------------------------------------------------------
(* Submitting *)

Ends(d) == IF d.log = NULL THEN Idle ELSE [d EXCEPT !.step = "mark"]

\* The answer is there, and createJobRun creates the run.
CreateRun ==
    /\ doing.step = "fetch" /\ Len(runs) < left.runs
    /\ runs' = Append(runs, [round |-> doing.round, status |-> "open", tx |-> "sent"])
    /\ doing' = [doing EXCEPT !.step = "update"]
    /\ UNCHANGED <<chain, at, backlog, isHibernating, stats, consumed, history, left>>

\* A poll finds that the answer does not deviate.
NoDeviation ==
    /\ doing.step = "fetch" /\ (doing.log # NULL => doing.log.kind # "round")
    /\ doing' = Ends(doing)
    /\ UNCHANGED <<chain, at, backlog, isHibernating, stats, runs, consumed, history, left>>

\* The answer cannot be fetched, or the run not be created.
FetchFails ==
    /\ doing.step = "fetch" /\ Fault
    /\ doing' = Ends(doing)
    /\ missed' = IF doing.log # NULL /\ doing.log.kind = "round" THEN missed \cup {doing.log}
                 ELSE missed
    /\ UNCHANGED <<chain, at, backlog, isHibernating, stats, runs, consumed, lost>>

\* UpdateFluxMonitorRoundStats, which may fail.
UpdateStats ==
    /\ doing.step = "update"
    /\ doing' = Ends(doing)
    /\ LET row == FindOrCreate(stats, doing.round)[doing.round]
       IN  \/ /\ stats' = [FindOrCreate(stats, doing.round) EXCEPT ![doing.round] =
                              [submissions |-> row.submissions + 1, run |-> Len(runs)]]
              /\ UNCHANGED <<lost, left>>
           \/ Fault /\ lost' = lost \cup {doing.round} /\ UNCHANGED stats
    /\ UNCHANGED <<chain, at, backlog, isHibernating, runs, consumed, missed>>

\* MarkConsumed, whose failure is only logged.
MarkConsumed ==
    /\ doing.step = "mark"
    /\ \/ consumed' = consumed \cup {doing.log} /\ UNCHANGED <<missed, left>>
       \/ Fault /\ missed' = missed \cup {doing.log} /\ UNCHANGED consumed
    /\ doing' = Idle
    /\ UNCHANGED <<chain, at, backlog, isHibernating, stats, runs, lost>>

\* The checker is stopped or its process killed.
Crash ==
    /\ doing.step # "down" /\ Fault
    /\ doing' = [Idle EXCEPT !.step = "down"]
    /\ backlog' = Empty
    /\ lost' = IF doing.step = "update" THEN lost \cup {doing.round} ELSE lost
    /\ UNCHANGED <<chain, at, isHibernating, stats, runs, consumed, missed>>

OnChain(log) ==
    log.kind # "round" \/ (log.round \in DOMAIN rounds /\ rounds[log.round].fork = log.fork)

\* Sequences of indices, those of either contract in their order.
InOrder(indices) ==
    {s \in [1 .. Cardinality(indices) -> indices] :
        \A i, j \in DOMAIN s :
            i < j /\ Queue(logs[s[i]]) = Queue(logs[s[j]]) => s[i] < s[j]}

\* Logs of flags that come again after a later one that was not forgotten.
Stale(indices) ==
    LET taken == consumed \cup ToSet(backlog.flag) \cup {doing.log}
    IN  {logs[i] : i \in {i \in indices :
            /\ logs[i].kind # "round" /\ logs[i] \notin consumed
            /\ \E j \in DOMAIN logs : j > i /\ logs[j].kind # "round" /\ logs[j] \in taken}}

\* The log broadcaster subscribes: logs that are still on the chain come again,
\* but not the first ones of either contract, which the backfill does not
\* reach, or which it leaves out altogether for a listener of an address that
\* the broadcaster had subscribed to before.
Subscribes(lacking, unread) ==
    \E s \in InOrder({i \in DOMAIN logs : OnChain(logs[i])}) :
        /\ logs' = [i \in DOMAIN s |-> logs[s[i]]]
        /\ at' \in 0 .. Len(s)
        /\ missed' = missed \cup unread
                         \cup {logs[s[i]] : i \in {i \in 1 .. at' : s[i] \in lacking}}
                         \cup Stale({s[i] : i \in at' + 1 .. Len(s)})

\* Start, which reads the flags, if they can be had.
Start ==
    /\ doing.step = "down"
    /\ doing' = Idle
    /\ LET lacking == {i \in DOMAIN logs : logs[i].kind = "round" /\ logs[i] \notin consumed}
       IN  \/ isHibernating' = IsFlagRaised /\ Subscribes(lacking, {}) /\ UNCHANGED left
           \/ isHibernating' = FALSE /\ Subscribes(lacking, {Raised}) /\ Fault
    /\ UNCHANGED <<rounds, flags, backlog, stats, runs, consumed, lost>>

\* The log broadcaster subscribes again, while the checker goes on: the logs
\* that it had not delivered may be left out too.
Resubscribed ==
    /\ doing.step # "down" /\ logs # <<>> /\ Fault
    /\ Subscribes({i \in DOMAIN logs : i > at}, {})
    /\ UNCHANGED <<rounds, flags, backlog, doing, isHibernating, stats, runs, consumed, lost>>

-----------------------------------------------------------------------------
CheckerStep ==
    \/ TakeLog \/ MarkConsumed \/ UpdateStats \/ CreateRun \/ NoDeviation \/ Start

Next ==
    \/ OtherStartsRound \/ ChangeFlag \/ Reorg \/ Resubscribed \/ Crash \/ LogFails \/ FetchFails
    \/ \E r \in 1 .. Len(rounds) : OthersSubmit(r)
    \/ \E i \in 1 .. Len(runs) : MineTx(i) \/ RunCompletes(i) \/ RunFails(i)
    \/ HandleLog \/ Tick \/ CheckerStep

\* The goroutine goes on, and its select takes logs time and again; the log
\* broadcaster delivers, and the process is started again.
Fairness == WF_vars(HandleLog) /\ SF_vars(TakeLog) /\ WF_vars(CheckerStep)

Spec == Init /\ [][Next]_vars /\ Fairness

-----------------------------------------------------------------------------
(* Properties *)

\* Type invariant: the queues keep to their capacities, and a row of the table
\* refers to a run for its round.
TypeOK ==
    /\ \A r \in DOMAIN rounds : rounds[r].by \in {"us", "other"}
                              /\ rounds[r].status \in {"open", "answered", "closed"}
    /\ flags \in 0 .. 2 /\ isHibernating \in BOOLEAN
    /\ at \in 0 .. Len(logs)
    /\ Len(backlog.flag) <= FlagCap /\ Len(backlog.round) <= NewRoundCap
    /\ doing.step \in {"down", "idle", "fetch", "update", "mark"}
    /\ doing.step = "mark" => doing.log # NULL
    /\ \A i \in DOMAIN runs : runs[i].tx \in {"none", "sent", "mined", "reverted"}
    /\ \A r \in DOMAIN stats :
          IF stats[r].submissions = 0 THEN stats[r].run = NULL
          ELSE runs[stats[r].run].round = r

\* No second run is created for a round while one is open, although its
\* transaction is not mined and the contract asks for it again, by a tick, a
\* log or both: unless the submission is not in the table any more.
OneOpenRun ==
    [][Len(runs') > Len(runs) =>
          LET r == Last(runs').round
          IN  r \in lost \/ \A i \in DOMAIN runs : runs[i].round = r => runs[i].status # "open"]_vars

\* The same without the exception.
NeverTwoOpenRuns ==
    [][Len(runs') > Len(runs) =>
          \A i \in DOMAIN runs :
             runs[i].round = Last(runs').round => runs[i].status # "open"]_vars

\* The bound on the runs keeps the checker from answering.
OutOfRuns == doing.step = "fetch" /\ doing.log # NULL /\ Len(runs) = left.runs

Answered(r) == \E i \in DOMAIN runs : runs[i].round = r

\* Time and again, every round that another oracle has started and that still
\* accepts submissions has got a run: across restarts and reorganisations, and
\* however the ticks come; unless its log was dropped, by the full queue or by a
\* backfill, or not marked, or the response to it failed, or a reorganisation has
\* opened the round again.
RoundsGetAnswered ==
    []<>(\/ OutOfRuns
         \/ \A r \in DOMAIN rounds :
               \/ rounds[r].by = "us" \/ ~accepting(r) \/ Answered(r)
               \/ LogOf(r) \in missed)

\* Time and again the checker hibernates exactly if both flags are raised,
\* although the full queue drops logs of flags; unless the flags could not be
\* read, or a log of a flag was dropped by a failure or a backfill, or not
\* marked, or came again after a later one.
HibernationFollowsFlags ==
    []<>(\/ OutOfRuns
         \/ isHibernating = IsFlagRaised
         \/ \E log \in missed : log.kind # "round")

=============================================================================

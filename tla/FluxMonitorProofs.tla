--------------------------- MODULE FluxMonitorProofs ---------------------------
(***************************************************************************)
(* A checker of the flux monitor has one open run for a round at most,     *)
(* unless a submission is not in its table any more: for any rounds, runs, *)
(* changes of flags, capacities of the queue, reorganisations, failures    *)
(* and crashes.  Its queue keeps to its capacity, and its table to runs.   *)
(***************************************************************************)
EXTENDS FluxMonitor, FiniteSetTheorems, SequenceTheorems, WellFoundedInduction, TLAPS

Round  == [by : {"us", "other"}, status : {"open", "answered", "closed"}, fork : Nat]
Run    == [round : Nat, status : {"open", "completed", "errored", "cancelled"},
           tx : {"none", "sent", "mined", "reverted"}]
Row    == [submissions : Nat, run : Nat \cup {NULL}]
Action == [step : {"down", "idle", "fetch", "update", "mark"}, round : Nat, log : Log \cup {NULL}]
Limits == [rounds : Nat, runs : Nat, raised : 0 .. 2, flags : Nat, faults : Nat]

OfContract ==
    /\ rounds \in Seq(Round) /\ flags \in 0 .. 2
    /\ logs \in Seq(Log)
    /\ left \in Limits

OfChecker ==
    /\ at \in 0 .. Len(logs)
    /\ backlog \in [flag : Seq(Log), round : Seq(Log)]
    /\ Len(backlog.flag) <= FlagCap /\ Len(backlog.round) <= NewRoundCap
    /\ doing \in Action
    /\ doing.step = "mark" => doing.log # NULL
    /\ isHibernating \in BOOLEAN

Rows ==
    /\ \E n \in Nat : DOMAIN stats \subseteq 0 .. n
    /\ \A r \in DOMAIN stats : stats[r] \in Row

\* A row refers to a run for its round.
RowsFit ==
    \A r \in DOMAIN stats :
        IF stats[r].submissions = 0 THEN stats[r].run = NULL
        ELSE stats[r].run \in DOMAIN runs /\ runs[stats[r].run].round = r

Open(i, r) == i \in DOMAIN runs /\ runs[i].round = r /\ runs[i].status = "open"

Saved(i, r) == r \in DOMAIN stats /\ stats[r].submissions > 0 /\ stats[r].run = i

Updating(r) == doing.step = "update" /\ doing.round = r

\* An open run is in the table, or about to be saved there, or its submission
\* has been lost.
Known == \A r \in Nat, i \in Nat : Open(i, r) => r \in lost \/ Updating(r) \/ Saved(i, r)

\* While the checker fetches an answer for a round it has no open run for it,
\* and once it has created one that is the last, and the only one for the round.
InHand ==
    /\ doing.step = "fetch" => doing.round \in lost \/ \A i \in Nat : ~Open(i, doing.round)
    /\ doing.step = "update" =>
          /\ runs # <<>> /\ runs[Len(runs)].round = doing.round
          /\ doing.round \in lost \/ \A i \in Nat : Open(i, doing.round) => i = Len(runs)

Tables == runs \in Seq(Run) /\ Rows /\ RowsFit

IInv == OfContract /\ OfChecker /\ Tables /\ Known /\ InHand

-----------------------------------------------------------------------------
(* The table of rounds *)

Bounded(rows) == \E n \in Nat : rows \subseteq 0 .. n

IsTable(table) == Bounded(DOMAIN table) /\ \A r \in DOMAIN table : table[r] \in Row

Fits(table) ==
    \A r \in DOMAIN table :
        IF table[r].submissions = 0 THEN table[r].run = NULL
        ELSE table[r].run \in DOMAIN runs /\ runs[table[r].run].round = r

IsSaved(table, i, r) == r \in DOMAIN table /\ table[r].submissions > 0 /\ table[r].run = i

LEMMA MaxOfSome ==
    ASSUME NEW n \in Nat, NEW S \in SUBSET (0 .. n), S # {}
    PROVE Max(S) \in S
<1> DEFINE Below == {n - x : x \in S}
<1>1. Below \subseteq Nat
  <2> SUFFICES ASSUME NEW x \in S PROVE n - x \in Nat
    OBVIOUS
  <2>1. x \in 0 .. n
    OBVIOUS
  <2> QED
    BY <2>1
<1>2. Below # {}
  OBVIOUS
<1>3. PICK m \in Below : \A k \in Below : ~ (<<k, m>> \in OpToRel(<, Nat))
  BY <1>1, <1>2, NatLessThanWellFounded, WFMin
<1>4. \A k \in Below : ~ (k < m)
  BY <1>1, <1>3 DEF OpToRel
<1>5. PICK x \in S : m = n - x
  OBVIOUS
<1>6. ASSUME NEW y \in S PROVE x >= y
  <2>1. n - y \in Below
    OBVIOUS
  <2>2. ~ (n - y < n - x)
    BY <1>4, <1>5, <2>1
  <2>3. x \in 0 .. n /\ y \in 0 .. n
    OBVIOUS
  <2> QED
    BY <2>2, <2>3
<1> QED
  BY <1>6 DEF Max

LEMMA MostRecentIs ==
    ASSUME Rows
    PROVE MostRecent \in Nat
<1>1. PICK n \in Nat : DOMAIN stats \subseteq 0 .. n
  BY DEF Rows
<1>2. DOMAIN stats \cup {0} \in SUBSET (0 .. n)
  BY <1>1
<1>3. MostRecent \in 0 .. n
  BY <1>2, MaxOfSome DEF MostRecent
<1> QED
  BY <1>3

LEMMA BoundedBy ==
    ASSUME NEW rows, Bounded(rows), NEW r \in Nat
    PROVE Bounded(rows \cup {r})
<1>1. PICK n \in Nat : rows \subseteq 0 .. n
  BY DEF Bounded
<1>2. rows \cup {r} \subseteq 0 .. n + r
  BY <1>1
<1> QED
  BY <1>2 DEF Bounded

\* A round that is looked up has its row, and the other rows are what they were.
LEMMA FindOrCreateIs ==
    ASSUME NEW table, IsTable(table), Fits(table), NEW r \in Nat
    PROVE LET t == FindOrCreate(table, r)
          IN  /\ IsTable(t) /\ Fits(t) /\ r \in DOMAIN t
              /\ \A i, k : IsSaved(table, i, k) => IsSaved(t, i, k)
<1> DEFINE t == FindOrCreate(table, r)
<1>1. /\ DOMAIN t = DOMAIN table \cup {r}
      /\ \A k \in DOMAIN table : t[k] = table[k]
      /\ r \notin DOMAIN table => t[r] = NoStats
  BY DEF FindOrCreate
<1> HIDE DEF t
<1>2. Bounded(DOMAIN t)
  BY <1>1, BoundedBy DEF IsTable
<1>3. NoStats \in Row /\ NoStats.submissions = 0 /\ NoStats.run = NULL
  BY DEF NoStats, Row
<1>4. \A k \in DOMAIN t : t[k] \in Row
  BY <1>1, <1>3 DEF IsTable
<1>5. Fits(t)
  <2> SUFFICES ASSUME NEW k \in DOMAIN t
               PROVE IF t[k].submissions = 0 THEN t[k].run = NULL
                     ELSE t[k].run \in DOMAIN runs /\ runs[t[k].run].round = k
    BY DEF Fits
  <2>1. CASE k \in DOMAIN table
    BY <1>1, <2>1 DEF Fits
  <2>2. CASE k \notin DOMAIN table
    BY <1>1, <1>3, <2>2
  <2> QED
    BY <2>1, <2>2
<1>6. \A i, k : IsSaved(table, i, k) => IsSaved(t, i, k)
  BY <1>1 DEF IsSaved
<1> QED
  BY <1>1, <1>2, <1>4, <1>5, <1>6 DEF IsTable, t

\* The rows that a log leaves: the submissions of the others are lost.
LEMMA KeptIs ==
    ASSUME Tables, NEW r \in Nat
    PROVE /\ IsTable(Kept(r)) /\ Fits(Kept(r))
          /\ lost \subseteq LostWith(r)
          /\ \A i, k : Saved(i, k) => k \in LostWith(r) \/ IsSaved(Kept(r), i, k)
<1> DEFINE keep == {k \in DOMAIN stats : Rewinds(r) => k < r}
           t == [k \in keep |-> stats[k]]
<1>1. Kept(r) = t
  BY DEF Kept
<1>2. DOMAIN t = keep /\ keep \subseteq DOMAIN stats /\ \A k \in keep : t[k] = stats[k]
  OBVIOUS
<1>3. MostRecent \in Nat
  BY MostRecentIs DEF Tables
<1>4. \A k \in DOMAIN stats : k \in Nat
  BY DEF Tables, Rows
<1>5. \A k \in DOMAIN stats \ keep : r < MostRecent /\ k >= r
  BY <1>3, <1>4 DEF Rewinds
<1> HIDE DEF keep, t
<1>6. IsTable(t)
  BY <1>2 DEF IsTable, Bounded, Tables, Rows
<1>7. Fits(t)
  BY <1>2 DEF Fits, Tables, RowsFit
<1>8. lost \subseteq LostWith(r)
  BY DEF LostWith
<1>9. ASSUME NEW i, NEW k, Saved(i, k) PROVE k \in LostWith(r) \/ IsSaved(t, i, k)
  <2>1. CASE k \in keep
    BY <1>2, <1>9, <2>1 DEF Saved, IsSaved
  <2>2. CASE k \notin keep
    <3>1. k \in DOMAIN stats /\ stats[k].submissions > 0
      BY <1>9 DEF Saved
    <3>2. r < MostRecent /\ k >= r
      BY <1>5, <2>2, <3>1
    <3>3. ~ (r >= MostRecent)
      BY <1>3, <3>2
    <3> QED
      BY <3>1, <3>2, <3>3 DEF LostWith
  <2> QED
    BY <2>1, <2>2
<1> QED
  BY <1>1, <1>6, <1>7, <1>8, <1>9

-----------------------------------------------------------------------------
(* Runs, rows, and what the checker is at *)

Accounted == Tables /\ Known /\ InHand

LEMMA Untouched ==
    ASSUME Accounted, UNCHANGED <<stats, runs, doing, lost>>
    PROVE Accounted'
BY DEF Accounted, Tables, Rows, RowsFit, Known, InHand, Open, Saved, Updating

\* Runs proceed without the checker; none is opened again.
LEMMA RunsProceed ==
    ASSUME Accounted, UNCHANGED <<stats, doing, lost>>, runs' \in Seq(Run),
           Len(runs') = Len(runs),
           \A i \in 1 .. Len(runs) :
              /\ runs'[i].round = runs[i].round
              /\ runs'[i].status = "open" => runs[i].status = "open"
    PROVE Accounted'
<1>1. Len(runs) \in Nat /\ DOMAIN runs = 1 .. Len(runs) /\ DOMAIN runs' = 1 .. Len(runs)
  BY DEF Accounted, Tables
<1>2. \A i, r : Open(i, r)' => Open(i, r)
  BY <1>1 DEF Open
<1>3. RowsFit' /\ Rows'
  BY <1>1 DEF Accounted, Tables, Rows, RowsFit
<1>4. Known'
  BY <1>2 DEF Accounted, Known, Updating, Saved
<1>5. runs # <<>> => runs' # <<>> /\ runs'[Len(runs')].round = runs[Len(runs)].round
  BY <1>1 DEF Accounted, Tables
<1>6. InHand'
  BY <1>2, <1>5 DEF Accounted, InHand
<1> QED
  BY <1>3, <1>4, <1>6 DEF Accounted, Tables

\* The checker lets go of a round; a submission that it was about to save is lost.
LEMMA LetGo ==
    ASSUME Accounted, UNCHANGED <<stats, runs>>, lost \subseteq lost',
           doing'.step \notin {"fetch", "update"},
           doing.step = "update" => doing.round \in lost'
    PROVE Accounted'
<1>1. Tables'
  BY DEF Accounted, Tables, Rows, RowsFit
<1>2. Known'
  BY DEF Accounted, Known, Updating, Saved, Open
<1>3. InHand'
  BY DEF InHand
<1> QED
  BY <1>1, <1>2, <1>3 DEF Accounted

\* The checker decides: it fetches only for a round without a row that refers
\* to an open run.
LEMMA Decides ==
    ASSUME Accounted, doing.step = "idle", runs' = runs, lost \subseteq lost',
           NEW t, stats' = t, IsTable(t), Fits(t),
           \A i, r : Saved(i, r) => r \in lost' \/ IsSaved(t, i, r),
           doing'.step # "update",
           doing'.step = "fetch" =>
              /\ doing'.round \in Nat
              /\ \A i : IsSaved(t, i, doing'.round) => ~Open(i, doing'.round)
    PROVE Accounted'
<1>1. Tables'
  BY DEF Accounted, Tables, Rows, RowsFit, IsTable, Bounded, Fits
<1>2. \A i, r : Open(i, r)' <=> Open(i, r)
  BY DEF Open
<1>3. \A i, r : Saved(i, r)' <=> IsSaved(t, i, r)
  BY DEF Saved, IsSaved
<1>4. \A r \in Nat, i \in Nat : Open(i, r) => r \in lost' \/ IsSaved(t, i, r)
  BY DEF Accounted, Known, Updating
<1>5. Known'
  BY <1>2, <1>3, <1>4 DEF Known
<1>6. InHand'
  BY <1>2, <1>4 DEF InHand
<1> QED
  BY <1>1, <1>5, <1>6 DEF Accounted

LEMMA ChainMoves ==
    ASSUME Accounted, OfContract,
           \/ OtherStartsRound \/ ChangeFlag \/ HandleLog \/ Resubscribed
           \/ \E r \in 1 .. Len(rounds) : OthersSubmit(r)
    PROVE Accounted'
BY Untouched DEF OtherStartsRound, ChangeFlag, HandleLog, Resubscribed, OthersSubmit, checker, history

LEMMA ReorgKeeps ==
    ASSUME Accounted, Reorg
    PROVE Accounted'
<1>1. PICK undone \in SUBSET DOMAIN runs :
        runs' = [i \in DOMAIN runs |->
                    IF i \in undone THEN [runs[i] EXCEPT !.tx = "sent"] ELSE runs[i]]
  BY DEF Reorg
<1>2. PICK q : q = runs
  OBVIOUS
<1>3. q \in Seq(Run) /\ DOMAIN q = 1 .. Len(q) /\ Len(q) \in Nat
  BY <1>2 DEF Accounted, Tables
<1>4. \A i \in 1 .. Len(q) :
        /\ runs'[i] \in Run /\ runs'[i].round = q[i].round /\ runs'[i].status = q[i].status
  <2> SUFFICES ASSUME NEW i \in 1 .. Len(q)
               PROVE /\ runs'[i] \in Run /\ runs'[i].round = q[i].round
                     /\ runs'[i].status = q[i].status
    OBVIOUS
  <2>1. q[i] \in Run
    BY <1>3
  <2>2. runs'[i] \in {q[i], [q[i] EXCEPT !.tx = "sent"]}
    BY <1>1, <1>2, <1>3
  <2> QED
    BY <2>1, <2>2 DEF Run
<1>5. runs' \in [1 .. Len(q) -> Run]
  BY <1>1, <1>2, <1>3, <1>4
<1>6. runs' \in Seq(Run) /\ Len(runs') = Len(q)
  BY <1>3, <1>5, SeqDef
<1>7. UNCHANGED <<stats, doing, lost>>
  BY DEF Reorg, checker
<1> QED
  BY <1>2, <1>4, <1>6, <1>7, RunsProceed

\* One run is set to another status or transaction.
Changed(q, i, s, x) == [q EXCEPT ![i] = [q[i] EXCEPT !.status = s, !.tx = x]]

LEMMA RunSet ==
    ASSUME NEW q \in Seq(Run), NEW i \in 1 .. Len(q), NEW s, NEW x,
           s = q[i].status \/ s \in {"completed", "errored", "cancelled"},
           x = q[i].tx \/ x \in {"none", "sent", "mined", "reverted"},
           NEW p, p = Changed(q, i, s, x)
    PROVE /\ p \in Seq(Run) /\ Len(p) = Len(q)
          /\ \A k \in 1 .. Len(q) :
                /\ p[k].round = q[k].round
                /\ p[k].status = "open" => q[k].status = "open"
<1>1. q[i] \in Run
  OBVIOUS
<1>2. PICK e : e = [q[i] EXCEPT !.status = s, !.tx = x]
  OBVIOUS
<1>3. e \in Run /\ e.round = q[i].round /\ (e.status = "open" => q[i].status = "open")
  BY <1>1, <1>2 DEF Run
<1>4. p = [q EXCEPT ![i] = e]
  BY <1>2 DEF Changed
<1>5. p \in Seq(Run) /\ Len(p) = Len(q)
  BY <1>3, <1>4
<1>6. \A k \in 1 .. Len(q) : p[k] = IF k = i THEN e ELSE q[k]
  BY <1>4
<1> QED
  BY <1>3, <1>5, <1>6

LEMMA RunMoves ==
    ASSUME Accounted, NEW i \in 1 .. Len(runs), MineTx(i) \/ RunCompletes(i) \/ RunFails(i)
    PROVE Accounted'
<1>1. PICK q \in Seq(Run) : q = runs
  BY DEF Accounted, Tables
<1>2. q[i] \in Run /\ i \in 1 .. Len(q) /\ i \in DOMAIN q
  BY <1>1
<1>3. UNCHANGED <<stats, doing, lost>>
  BY DEF MineTx, RunCompletes, RunFails, checker, history
<1>4. PICK s, x :
        /\ s = q[i].status \/ s \in {"completed", "errored", "cancelled"}
        /\ x = q[i].tx \/ x \in {"none", "sent", "mined", "reverted"}
        /\ runs' = [q EXCEPT ![i] = [q[i] EXCEPT !.status = s, !.tx = x]]
  <2>1. CASE MineTx(i)
    <3>1. PICK x \in {"mined", "reverted"} : runs' = [q EXCEPT ![i].tx = x]
      BY <1>1, <2>1 DEF MineTx
    <3>2. [q[i] EXCEPT !.tx = x] = [q[i] EXCEPT !.status = q[i].status, !.tx = x]
      BY <1>2 DEF Run
    <3>3. runs' = [q EXCEPT ![i] = [q[i] EXCEPT !.status = q[i].status, !.tx = x]]
      BY <3>1, <3>2
    <3> QED
      BY <3>1, <3>3
  <2>2. CASE RunCompletes(i)
    <3>1. runs' = [q EXCEPT ![i].status = "completed"]
      BY <1>1, <2>2 DEF RunCompletes
    <3>2. [q[i] EXCEPT !.status = "completed"]
             = [q[i] EXCEPT !.status = "completed", !.tx = q[i].tx]
      BY <1>2 DEF Run
    <3>3. runs' = [q EXCEPT ![i] = [q[i] EXCEPT !.status = "completed", !.tx = q[i].tx]]
      BY <3>1, <3>2
    <3> QED
      BY <3>3
  <2>3. CASE RunFails(i)
    <3>1. PICK s \in {"errored", "cancelled"}, x \in {"none", "sent"} :
            runs' = [q EXCEPT ![i].status = s, ![i].tx = x]
      BY <1>1, <2>3 DEF RunFails
    <3>2. runs' = [q EXCEPT ![i] = [q[i] EXCEPT !.status = s, !.tx = x]]
      BY <1>2, <3>1
    <3> QED
      BY <3>1, <3>2
  <2> QED
    BY <2>1, <2>2, <2>3
<1>5. PICK p : p = runs'
  OBVIOUS
<1>6. /\ p \in Seq(Run) /\ Len(p) = Len(q)
      /\ \A k \in 1 .. Len(q) :
            p[k].round = q[k].round /\ (p[k].status = "open" => q[k].status = "open")
  <2>1. p = Changed(q, i, s, x)
    BY <1>4, <1>5 DEF Changed
  <2>2. q \in Seq(Run) /\ i \in 1 .. Len(q)
    BY <1>1, <1>2
  <2>3. /\ s = q[i].status \/ s \in {"completed", "errored", "cancelled"}
        /\ x = q[i].tx \/ x \in {"none", "sent", "mined", "reverted"}
    BY <1>4
  <2> QED
    BY <2>1, <2>2, <2>3, RunSet
<1> QED
  BY <1>1, <1>3, <1>5, <1>6, RunsProceed

LEMMA EndsIs ==
    ASSUME NEW d \in Action
    PROVE /\ Ends(d) \in Action /\ Ends(d).step \in {"idle", "mark"}
          /\ Ends(d).step = "mark" => Ends(d).log # NULL
BY DEF Ends, Idle, Action

LEMMA CheckerEnds ==
    ASSUME Accounted, OfChecker, Crash \/ FetchFails \/ NoDeviation \/ MarkConsumed \/ Start
    PROVE Accounted'
<1>1. UNCHANGED <<stats, runs>> /\ lost \subseteq lost'
  BY DEF Crash, FetchFails, NoDeviation, MarkConsumed, Start, history, chain
<1>2. Ends(doing).step \notin {"fetch", "update"}
  BY EndsIs DEF OfChecker
<1>3. doing'.step \notin {"fetch", "update"}
  BY <1>2 DEF Crash, FetchFails, NoDeviation, MarkConsumed, Start, Idle
<1>4. doing.step = "update" => doing.round \in lost'
  BY DEF Crash, FetchFails, NoDeviation, MarkConsumed, Start
<1> QED
  BY <1>1, <1>3, <1>4, LetGo

LEMMA SuggestedIs ==
    ASSUME OfContract
    PROVE SuggestedRound \in Nat
<1>1. Len(rounds) \in Nat
  BY DEF OfContract
<1> QED
  BY <1>1 DEF SuggestedRound

\* The row of a round that has not got an open run tells so.
LEMMA SavedIsOpen ==
    ASSUME Tables, NEW table, Fits(table), NEW i, NEW r, IsSaved(table, i, r), Open(i, r)
    PROVE table[r].submissions > 0 /\ StatusOf(table[r]) = "open"
<1>1. table[r].run = i /\ i \in Nat /\ i # NULL
  BY CheckerAssumption DEF IsSaved, Open, Tables
<1> QED
  BY <1>1 DEF StatusOf, IsSaved, Open

LEMMA PollsDecides ==
    ASSUME Accounted, OfContract, doing.step = "idle", NEW log, Polls(log),
           UNCHANGED <<runs, lost>>
    PROVE Accounted'
<1>1. PICK r \in Nat : r = SuggestedRound
  BY SuggestedIs
<1>2. PICK t : t = FindOrCreate(stats, r)
  OBVIOUS
<1>3. IsTable(stats) /\ Fits(stats)
  BY DEF Accounted, Tables, Rows, RowsFit, IsTable, Bounded, Fits
<1>4. IsTable(t) /\ Fits(t) /\ r \in DOMAIN t /\ \A i, k : IsSaved(stats, i, k) => IsSaved(t, i, k)
  BY <1>2, <1>3, FindOrCreateIs
<1>5. stats' = t
  BY <1>1, <1>2 DEF Polls
<1>6. \A i, k : Saved(i, k) => IsSaved(t, i, k)
  BY <1>4 DEF Saved, IsSaved
<1>7. doing'.step # "update"
  BY DEF Polls, Idle
<1>8. ASSUME doing'.step = "fetch"
      PROVE doing'.round \in Nat /\ \A i : IsSaved(t, i, doing'.round) => ~Open(i, doing'.round)
  <2>1. ~(t[r].submissions > 0 /\ StatusOf(t[r]) # "errored") /\ doing'.round = r
    BY <1>1, <1>2, <1>8 DEF Polls, Idle
  <2>2. ASSUME NEW i, IsSaved(t, i, r), Open(i, r) PROVE FALSE
    BY <1>4, <2>1, <2>2, SavedIsOpen DEF Accounted
  <2> QED
    BY <2>1, <2>2
<1> QED
  BY <1>4, <1>5, <1>6, <1>7, <1>8, Decides

LEMMA RespondDecides ==
    ASSUME Accounted, doing.step = "idle", NEW log \in Log, RespondToNewRound(log), runs' = runs
    PROVE Accounted'
<1>1. PICK r \in Nat : r = log.round
  BY DEF Log
<1>2. PICK kept : kept = Kept(r)
  OBVIOUS
<1>3. /\ IsTable(kept) /\ Fits(kept) /\ lost \subseteq LostWith(r)
      /\ \A i, k : Saved(i, k) => k \in LostWith(r) \/ IsSaved(kept, i, k)
  BY <1>2, KeptIs DEF Accounted
<1>4. PICK t : t = FindOrCreate(kept, r)
  OBVIOUS
<1>5. IsTable(t) /\ Fits(t) /\ r \in DOMAIN t /\ \A i, k : IsSaved(kept, i, k) => IsSaved(t, i, k)
  BY <1>3, <1>4, FindOrCreateIs
<1>6. stats' = t /\ lost' = LostWith(r)
  BY <1>1, <1>2, <1>4 DEF RespondToNewRound
<1>7. \A i, k : Saved(i, k) => k \in lost' \/ IsSaved(t, i, k)
  BY <1>3, <1>5, <1>6
<1>8. doing'.step # "update"
  BY DEF RespondToNewRound
<1>9. ASSUME doing'.step = "fetch"
      PROVE doing'.round \in Nat /\ \A i : IsSaved(t, i, doing'.round) => ~Open(i, doing'.round)
  <2>1. ~(t[r].submissions > 0 /\ StatusOf(t[r]) = "open") /\ doing'.round = r
    BY <1>1, <1>2, <1>4, <1>9 DEF RespondToNewRound
  <2>2. ASSUME NEW i, IsSaved(t, i, r), Open(i, r) PROVE FALSE
    BY <1>5, <2>1, <2>2, SavedIsOpen DEF Accounted
  <2> QED
    BY <2>1, <2>2
<1> QED
  BY <1>3, <1>5, <1>6, <1>7, <1>8, <1>9, Decides

LEMMA KeepsItsRows ==
    ASSUME Accounted, doing.step = "idle", UNCHANGED <<stats, runs>>, lost \subseteq lost',
           doing'.step \notin {"fetch", "update"}
    PROVE Accounted'
BY LetGo

LEMMA TakeKeeps ==
    ASSUME Accounted, OfContract, OfChecker, TakeLog
    PROVE Accounted'
<1>1. PICK log \in Log : log = Head(backlog[First])
  <2>1. backlog[First] \in Seq(Log) /\ backlog[First] # <<>>
    BY DEF TakeLog, OfChecker, First
  <2>2. Head(backlog[First]) \in Log
    BY <2>1
  <2> QED
    BY <2>2
<1>2. doing.step = "idle" /\ runs' = runs
  BY DEF TakeLog
<1>3. CASE log \in consumed
  BY <1>1, <1>2, <1>3, Untouched DEF TakeLog
<1>4. CASE log \notin consumed /\ log.kind = "round"
  <2>1. RespondToNewRound(log)
    BY <1>1, <1>4 DEF TakeLog
  <2> QED
    BY <1>2, <2>1, RespondDecides
<1>5. CASE log \notin consumed /\ log.kind # "round"
  <2>1. RespondToFlag(log)
    BY <1>1, <1>5 DEF TakeLog
  <2>2. CASE log.kind = "raised"
    <3>1. UNCHANGED <<stats, lost>> /\ doing'.step = "mark"
      BY <2>1, <2>2 DEF RespondToFlag, Idle
    <3> QED
      BY <1>2, <3>1, KeepsItsRows
  <2>3. CASE log.kind # "raised"
    BY <1>2, <2>1, <2>3, PollsDecides DEF RespondToFlag
  <2> QED
    BY <2>2, <2>3
<1> QED
  BY <1>3, <1>4, <1>5

LEMMA LogFailsKeeps ==
    ASSUME Accounted, OfContract, OfChecker, LogFails
    PROVE Accounted'
<1>1. PICK log \in Log : log = Head(backlog[First])
  <2>1. backlog[First] \in Seq(Log) /\ backlog[First] # <<>>
    BY DEF LogFails, OfChecker, First
  <2>2. Head(backlog[First]) \in Log
    BY <2>1
  <2> QED
    BY <2>2
<1>2. doing.step = "idle" /\ runs' = runs
  BY DEF LogFails
<1>3. CASE UNCHANGED <<doing, stats, lost>>
  BY <1>2, <1>3, Untouched
<1>4. CASE doing' = [Idle EXCEPT !.step = "mark", !.log = log] /\ UNCHANGED <<stats, lost>>
  <2>1. doing'.step = "mark"
    BY <1>4 DEF Idle
  <2> QED
    BY <1>2, <1>4, <2>1, KeepsItsRows
<1>5. CASE /\ doing' = [Idle EXCEPT !.step = "mark", !.log = log]
           /\ stats' = Kept(log.round) /\ lost' = LostWith(log.round)
  <2>1. doing'.step = "mark"
    BY <1>5 DEF Idle
  <2>2. PICK r \in Nat : r = log.round
    BY DEF Log
  <2>3. PICK kept : kept = Kept(r)
    OBVIOUS
  <2>4. /\ IsTable(kept) /\ Fits(kept) /\ lost \subseteq LostWith(r)
        /\ \A i, k : Saved(i, k) => k \in LostWith(r) \/ IsSaved(kept, i, k)
    BY <2>3, KeptIs DEF Accounted
  <2> QED
    BY <1>2, <1>5, <2>1, <2>2, <2>3, <2>4, Decides
<1> QED
  BY <1>1, <1>3, <1>4, <1>5 DEF LogFails

LEMMA TickKeeps ==
    ASSUME Accounted, OfContract, Tick
    PROVE Accounted'
BY PollsDecides DEF Tick, history

\* By what it knew when it decided, the new run is the only open one.
LEMMA CreateKeeps ==
    ASSUME Accounted, OfChecker, CreateRun
    PROVE /\ Accounted'
          /\ doing.round \in lost \/ \A i \in DOMAIN runs :
                runs[i].round = doing.round => runs[i].status # "open"
          /\ Len(runs') = Len(runs) + 1 /\ runs'[Len(runs')].round = doing.round
<1>1. PICK q \in Seq(Run) : q = runs
  BY DEF Accounted, Tables
<1>2. PICK r \in Nat : r = doing.round
  BY DEF OfChecker, Action
<1>3. PICK e : e = [round |-> r, status |-> "open", tx |-> "sent"]
  OBVIOUS
<1>4. e \in Run /\ e.round = r
  BY <1>3 DEF Run
<1>5. runs' = Append(q, e) /\ doing' = [doing EXCEPT !.step = "update"]
      /\ UNCHANGED <<stats, lost>> /\ doing.step = "fetch"
  BY <1>1, <1>2, <1>3 DEF CreateRun, history
<1>6. PICK p : p = runs'
  OBVIOUS
<1>7. /\ p \in Seq(Run) /\ Len(p) = Len(q) + 1 /\ Len(q) \in Nat
      /\ \A i \in 1 .. Len(q) : p[i] = q[i]
      /\ p[Len(q) + 1] = e /\ p # <<>>
  BY <1>1, <1>4, <1>5, <1>6, AppendProperties
<1>8. DOMAIN p = 1 .. Len(q) + 1 /\ DOMAIN q = 1 .. Len(q)
  BY <1>1, <1>7
<1>9. doing'.step = "update" /\ doing'.round = r
  BY <1>2, <1>5 DEF OfChecker, Action
<1>10. r \in lost \/ \A i \in Nat : ~Open(i, r)
  BY <1>2, <1>5 DEF Accounted, InHand
<1>11. \A i, k : Open(i, k)' => Open(i, k) \/ (i = Len(q) + 1 /\ k = r)
  <2> SUFFICES ASSUME NEW i, NEW k, Open(i, k)' PROVE Open(i, k) \/ (i = Len(q) + 1 /\ k = r)
    OBVIOUS
  <2>1. i \in 1 .. Len(q) + 1 /\ p[i].round = k /\ p[i].status = "open"
    BY <1>6, <1>8 DEF Open
  <2>2. CASE i \in 1 .. Len(q)
    BY <1>1, <1>7, <1>8, <2>1, <2>2 DEF Open
  <2>3. CASE i = Len(q) + 1
    BY <1>4, <1>7, <2>1, <2>3
  <2> QED
    BY <1>7, <2>1, <2>2, <2>3
<1>12. Tables'
  <2>1. Rows'
    BY <1>5 DEF Accounted, Tables, Rows
  <2>2. RowsFit'
    <3> SUFFICES ASSUME NEW k \in DOMAIN stats
                 PROVE IF stats[k].submissions = 0 THEN stats[k].run = NULL
                       ELSE stats[k].run \in DOMAIN p /\ p[stats[k].run].round = k
      BY <1>5, <1>6 DEF RowsFit
    <3>1. IF stats[k].submissions = 0 THEN stats[k].run = NULL
          ELSE stats[k].run \in DOMAIN q /\ q[stats[k].run].round = k
      BY <1>1 DEF Accounted, Tables, RowsFit
    <3> QED
      BY <3>1, <1>7, <1>8
  <2> QED
    BY <2>1, <2>2, <1>6, <1>7 DEF Tables
<1>13. Known'
  <2> SUFFICES ASSUME NEW k \in Nat, NEW i \in Nat, Open(i, k)'
               PROVE k \in lost' \/ Updating(k)' \/ Saved(i, k)'
    BY DEF Known
  <2>1. CASE Open(i, k)
    BY <1>5, <2>1 DEF Accounted, Known, Updating, Saved
  <2>2. CASE k = r
    BY <1>9, <2>2 DEF Updating
  <2> QED
    BY <1>11, <2>1, <2>2
<1>14. InHand'
  <2>1. doing'.step # "fetch" /\ runs' # <<>> /\ runs'[Len(runs')].round = doing'.round
    BY <1>4, <1>6, <1>7, <1>9
  <2>2. r \in lost' \/ \A i \in Nat : Open(i, r)' => i = Len(runs')
    BY <1>5, <1>6, <1>7, <1>10, <1>11
  <2> QED
    BY <1>9, <2>1, <2>2 DEF InHand
<1>15. Len(runs') = Len(runs) + 1 /\ runs'[Len(runs')].round = r
  BY <1>1, <1>4, <1>6, <1>7
<1>16. r \in lost \/ \A i \in DOMAIN runs : runs[i].round = r => runs[i].status # "open"
  BY <1>1, <1>8, <1>10 DEF Open
<1> QED
  BY <1>2, <1>12, <1>13, <1>14, <1>15, <1>16 DEF Accounted

\* Saving the submission of the only open run of the round.
LEMMA UpdateKeeps ==
    ASSUME Accounted, OfChecker, UpdateStats
    PROVE Accounted'
<1>1. PICK r \in Nat : r = doing.round
  BY DEF OfChecker, Action
<1>2. doing.step = "update" /\ runs' = runs /\ doing' = Ends(doing)
  BY DEF UpdateStats
<1>3. doing'.step \notin {"fetch", "update"}
  BY <1>2, EndsIs DEF OfChecker
<1>4. CASE stats' = stats /\ lost' = lost \cup {r}
  BY <1>1, <1>2, <1>3, <1>4, LetGo
<1>5. CASE /\ stats' = [FindOrCreate(stats, r) EXCEPT ![r] =
                           [submissions |-> FindOrCreate(stats, r)[r].submissions + 1,
                            run |-> Len(runs)]]
           /\ lost' = lost
  <2>1. IsTable(stats) /\ Fits(stats)
    BY DEF Accounted, Tables, Rows, RowsFit, IsTable, Bounded, Fits
  <2>2. PICK t : t = FindOrCreate(stats, r)
    OBVIOUS
  <2>3. /\ IsTable(t) /\ Fits(t) /\ r \in DOMAIN t
        /\ \A i, k : IsSaved(stats, i, k) => IsSaved(t, i, k)
    BY <2>1, <2>2, FindOrCreateIs
  <2>4. PICK row : row = [submissions |-> t[r].submissions + 1, run |-> Len(runs)]
    OBVIOUS
  <2>5. /\ runs # <<>> /\ runs[Len(runs)].round = r
        /\ r \in lost \/ \A i \in Nat : Open(i, r) => i = Len(runs)
    BY <1>1, <1>2 DEF Accounted, InHand
  <2>6. Len(runs) \in Nat /\ Len(runs) \in DOMAIN runs
    BY <2>5 DEF Accounted, Tables
  <2>7. t[r].submissions \in Nat
    BY <2>3 DEF IsTable, Row
  <2>8. row \in Row /\ row.submissions > 0 /\ row.submissions # 0 /\ row.run = Len(runs)
    BY <2>4, <2>6, <2>7 DEF Row
  <2>9. PICK u : u = stats'
    OBVIOUS
  <2>10. u = [t EXCEPT ![r] = row]
    BY <1>5, <2>2, <2>4, <2>9
  <2>11. DOMAIN u = DOMAIN t /\ u[r] = row /\ \A k \in DOMAIN t \ {r} : u[k] = t[k]
    BY <2>3, <2>10
  <2>12. IsTable(u)
    BY <2>3, <2>8, <2>11 DEF IsTable
  <2>13. Fits(u)
    <3> SUFFICES ASSUME NEW k \in DOMAIN u
                 PROVE IF u[k].submissions = 0 THEN u[k].run = NULL
                       ELSE u[k].run \in DOMAIN runs /\ runs[u[k].run].round = k
      BY DEF Fits
    <3>1. CASE k = r
      BY <2>5, <2>6, <2>8, <2>11, <3>1
    <3>2. CASE k # r
      BY <2>3, <2>11, <3>2 DEF Fits
    <3> QED
      BY <3>1, <3>2
  <2>14. Tables'
    BY <1>2, <2>9, <2>12, <2>13
    DEF Accounted, Tables, Rows, RowsFit, IsTable, Bounded, Fits
  <2>15. Known'
    <3> SUFFICES ASSUME NEW k \in Nat, NEW i \in Nat, Open(i, k)
                 PROVE k \in lost \/ IsSaved(u, i, k)
      BY <1>2, <1>5, <2>9 DEF Known, Open, Saved, IsSaved
    <3>1. CASE k = r
      BY <2>3, <2>5, <2>8, <2>11, <3>1 DEF IsSaved
    <3>2. CASE k # r
      <4>1. k \in lost \/ Saved(i, k)
        BY <1>1, <3>2 DEF Accounted, Known, Updating
      <4>2. Saved(i, k) => IsSaved(t, i, k)
        BY <2>3 DEF Saved, IsSaved
      <4>3. IsSaved(t, i, k) => IsSaved(u, i, k)
        BY <2>11, <3>2 DEF IsSaved
      <4> QED
        BY <4>1, <4>2, <4>3
    <3> QED
      BY <3>1, <3>2
  <2>16. InHand'
    BY <1>3 DEF InHand
  <2> QED
    BY <2>14, <2>15, <2>16 DEF Accounted
<1> QED
  BY <1>1, <1>4, <1>5 DEF UpdateStats

LEMMA AccountedStep ==
    ASSUME OfContract, OfChecker, Accounted, [Next]_vars
    PROVE Accounted'
<1>1. CASE UNCHANGED vars
  BY <1>1, Untouched DEF vars, checker, history
<1>2. ASSUME CheckerStep PROVE Accounted'
  BY <1>2, TakeKeeps, CheckerEnds, UpdateKeeps, CreateKeeps DEF CheckerStep
<1> QED
  BY <1>1, <1>2, ChainMoves, ReorgKeeps, RunMoves, CheckerEnds, TickKeeps, LogFailsKeeps DEF Next

-----------------------------------------------------------------------------
(* Types *)

LEMMA FaultKeepsLimits ==
    ASSUME left \in Limits, Fault
    PROVE left' \in Limits
BY DEF Limits, Fault

LEMMA CountIs ==
    ASSUME NEW n \in Nat, NEW S, S \subseteq 1 .. n
    PROVE Cardinality(S) \in Nat
<1>1. IsFiniteSet(1 .. n)
  BY FS_Interval
<1>2. IsFiniteSet(S)
  BY <1>1, FS_Subset
<1> QED
  BY <1>2, FS_CardinalityType

\* Raised is a log of the contract of flags.
LEMMA RaisedIs ==
    ASSUME logs \in Seq(Log)
    PROVE Raised \in Log /\ [Raised EXCEPT !.kind = "lowered"] \in Log
<1> DEFINE flagLogs == {i \in DOMAIN logs : logs[i].kind # "round"}
<1>1. flagLogs \subseteq 1 .. Len(logs) /\ Len(logs) \in Nat
  OBVIOUS
<1>2. Cardinality(flagLogs) \in Nat
  BY <1>1, CountIs
<1> HIDE DEF flagLogs
<1>3. Raised = [kind |-> "raised", round |-> Cardinality(flagLogs), by |-> NULL, fork |-> 0]
  BY DEF Raised, flagLogs
<1> QED
  BY <1>2, <1>3 DEF Log

LEMMA StartsRoundTyped ==
    ASSUME OfContract, NEW who \in {"us", "other"}, StartsRound(who)
    PROVE /\ rounds' \in Seq(Round)
          /\ logs' \in Seq(Log) /\ Len(logs') = Len(logs) + 1
<1>1. PICK r : r = [by |-> who, status |-> "open", fork |-> left.faults]
  OBVIOUS
<1>2. PICK log : log = NewRoundLog(Len(rounds) + 1, who)
  OBVIOUS
<1>3. r \in Round
  BY <1>1 DEF Round, OfContract, Limits
<1>4. log \in Log
  <2>1. Len(rounds) + 1 \in Nat
    BY DEF OfContract
  <2> QED
    BY <1>2, <2>1 DEF NewRoundLog, Log, OfContract, Limits
<1>5. rounds' = Append(rounds, r) /\ logs' = Append(logs, log)
  BY <1>1, <1>2 DEF StartsRound
<1> QED
  BY <1>3, <1>4, <1>5, AppendProperties DEF OfContract

Types == OfContract /\ OfChecker

LEMMA CheckerSame ==
    ASSUME Types, UNCHANGED checker, OfContract', Len(logs') \in {Len(logs), Len(logs) + 1}
    PROVE Types'
<1>1. Len(logs) \in Nat
  BY DEF Types, OfContract
<1>2. at' \in 0 .. Len(logs')
  BY <1>1 DEF Types, OfChecker, checker
<1> QED
  BY <1>2 DEF Types, OfChecker, checker

LEMMA RoundSet ==
    ASSUME NEW q \in Seq(Round), NEW r \in 1 .. Len(q), NEW s \in {"open", "answered", "closed"}
    PROVE [q EXCEPT ![r].status = s] \in Seq(Round)
<1>1. q[r] \in Round
  OBVIOUS
<1>2. PICK e : e = [q[r] EXCEPT !.status = s]
  OBVIOUS
<1>3. e \in Round
  BY <1>1, <1>2 DEF Round
<1>4. [q EXCEPT ![r].status = s] = [q EXCEPT ![r] = e]
  BY <1>2
<1>5. [q EXCEPT ![r] = e] \in Seq(Round)
  BY <1>3
<1> QED
  BY <1>4, <1>5

LEMMA ContractTypes ==
    ASSUME Types, Tables,
           \/ OtherStartsRound \/ ChangeFlag \/ Reorg
           \/ \E r \in 1 .. Len(rounds) : OthersSubmit(r)
           \/ \E i \in 1 .. Len(runs) : MineTx(i) \/ RunCompletes(i) \/ RunFails(i)
    PROVE Types'
<1>1. OfContract /\ left \in Limits /\ Len(logs) \in Nat
  BY DEF Types, OfContract
<1>2. CASE OtherStartsRound
  <2>1. /\ rounds' \in Seq(Round) /\ logs' \in Seq(Log) /\ Len(logs') = Len(logs) + 1
    BY <1>1, <1>2, StartsRoundTyped DEF OtherStartsRound
  <2>2. UNCHANGED <<flags, left, checker>>
    BY <1>2 DEF OtherStartsRound
  <2> QED
    BY <1>1, <2>1, <2>2, CheckerSame DEF OfContract
<1>3. CASE ChangeFlag
  <2>1. /\ flags' \in 0 .. 2
        /\ logs' \in {Append(logs, Raised), Append(logs, [Raised EXCEPT !.kind = "lowered"])}
        /\ UNCHANGED <<rounds, left, checker>>
    BY <1>1, <1>3 DEF ChangeFlag, OfContract
  <2>2. logs' \in Seq(Log) /\ Len(logs') = Len(logs) + 1
    BY <1>1, <2>1, RaisedIs, AppendProperties DEF OfContract
  <2> QED
    BY <1>1, <2>1, <2>2, CheckerSame DEF OfContract
<1>4. CASE Reorg
  <2>1. PICK n \in 0 .. Len(rounds), s \in {"open", "answered", "closed"} :
          rounds' = [r \in 1 .. n |->
                        IF r = n THEN [rounds[r] EXCEPT !.status = s] ELSE rounds[r]]
    BY <1>4 DEF Reorg
  <2>2. rounds' \in Seq(Round)
    <3>1. Len(rounds) \in Nat /\ rounds \in Seq(Round)
      BY <1>1 DEF OfContract
    <3>2. \A r \in 1 .. n : rounds[r] \in Round
      BY <3>1, ElementOfSeq
    <3>3. \A r \in 1 .. n : [rounds[r] EXCEPT !.status = s] \in Round
      BY <3>2 DEF Round
    <3>4. rounds' \in [1 .. n -> Round]
      BY <2>1, <3>2, <3>3
    <3>5. n \in Nat
      BY <3>1
    <3> QED
      BY <3>4, <3>5, SeqDef
  <2>3. left' \in Limits
    BY <1>1, <1>4, FaultKeepsLimits DEF Reorg
  <2>4. UNCHANGED <<flags, logs, checker>>
    BY <1>4 DEF Reorg
  <2> QED
    BY <1>1, <2>2, <2>3, <2>4, CheckerSame DEF OfContract
<1>5. ASSUME NEW r \in 1 .. Len(rounds), OthersSubmit(r) PROVE Types'
  <2>1. PICK s \in {"answered", "closed"} : rounds' = [rounds EXCEPT ![r].status = s]
    BY <1>5 DEF OthersSubmit
  <2>2. rounds' \in Seq(Round)
    BY <1>1, <2>1, RoundSet DEF OfContract
  <2>3. UNCHANGED <<flags, logs, left, checker>>
    BY <1>5 DEF OthersSubmit
  <2> QED
    BY <1>1, <2>2, <2>3, CheckerSame DEF OfContract
<1>6. ASSUME NEW i \in 1 .. Len(runs), MineTx(i) PROVE Types'
  <2>1. UNCHANGED <<flags, left, checker>>
    BY <1>6 DEF MineTx
  <2>2. StartsRound("us") \/ UNCHANGED <<rounds, logs>>
    BY <1>6 DEF MineTx
  <2>3. /\ rounds' \in Seq(Round) /\ logs' \in Seq(Log)
        /\ Len(logs') \in {Len(logs), Len(logs) + 1}
    BY <1>1, <2>2, StartsRoundTyped DEF OfContract
  <2> QED
    BY <1>1, <2>1, <2>3, CheckerSame DEF OfContract
<1>7. ASSUME NEW i \in 1 .. Len(runs), RunCompletes(i) \/ RunFails(i) PROVE Types'
  <2>1. UNCHANGED <<rounds, flags, logs, checker>>
    BY <1>7 DEF RunCompletes, RunFails, chain
  <2>2. left' \in Limits
    BY <1>1, <1>7, FaultKeepsLimits DEF RunCompletes, RunFails
  <2> QED
    BY <1>1, <2>1, <2>2, CheckerSame DEF OfContract
<1> QED
  BY <1>2, <1>3, <1>4, <1>5, <1>6, <1>7

LEMMA AddIs ==
    ASSUME NEW q \in Seq(Log), NEW log \in Log, Len(q) <= Cap(log)
    PROVE Add(q, log) \in Seq(Log) /\ Len(Add(q, log)) <= Cap(log)
<1>1. Cap(log) \in Nat \ {0}
  BY CheckerAssumption DEF Cap
<1>2. CASE Len(q) < Cap(log)
  <2>1. Add(q, log) = Append(q, log)
    BY <1>2 DEF Add
  <2>2. Append(q, log) \in Seq(Log) /\ Len(Append(q, log)) = Len(q) + 1 /\ Len(q) \in Nat
    OBVIOUS
  <2> QED
    BY <1>1, <1>2, <2>1, <2>2
<1>3. CASE ~(Len(q) < Cap(log))
  <2>1. Add(q, log) = Append(Tail(q), log)
    BY <1>3 DEF Add
  <2>2. Len(q) \in Nat /\ q # <<>>
    BY <1>1, <1>3
  <2>3. PICK p : p = Tail(q)
    OBVIOUS
  <2>4. p \in Seq(Log) /\ Len(p) = Len(q) - 1
    BY <2>2, <2>3
  <2>5. Append(p, log) \in Seq(Log) /\ Len(Append(p, log)) = Len(p) + 1
    BY <2>4, AppendProperties
  <2> QED
    BY <1>1, <2>1, <2>2, <2>3, <2>4, <2>5
<1> QED
  BY <1>2, <1>3

LEMMA HandleTypes ==
    ASSUME Types, HandleLog
    PROVE Types'
<1>1. /\ at < Len(logs) /\ at' = at + 1
      /\ UNCHANGED <<rounds, flags, logs, left, doing, isHibernating>>
  BY DEF HandleLog, chain
<1>2. logs \in Seq(Log) /\ Len(logs) \in Nat /\ at \in 0 .. Len(logs)
  BY DEF Types, OfContract, OfChecker
<1>3. PICK log \in Log : log = logs[at + 1]
  BY <1>1, <1>2, ElementOfSeq
<1>4. PICK key \in {"flag", "round"} : key = Queue(log)
  BY DEF Queue
<1>5. PICK b \in [flag : Seq(Log), round : Seq(Log)] : b = backlog
  BY DEF Types, OfChecker
<1>6. Len(b.flag) <= FlagCap /\ Len(b.round) <= NewRoundCap
  BY <1>5 DEF Types, OfChecker
<1>7. b[key] \in Seq(Log) /\ Len(b[key]) <= Cap(log)
  BY <1>4, <1>5, <1>6 DEF Queue, Cap
<1>8. PICK q : q = Add(b[key], log)
  OBVIOUS
<1>9. q \in Seq(Log) /\ Len(q) <= Cap(log)
  BY <1>7, <1>8, AddIs
<1>10. backlog' = [b EXCEPT ![key] = q]
  BY <1>3, <1>4, <1>5, <1>8 DEF HandleLog
<1>11. /\ backlog' \in [flag : Seq(Log), round : Seq(Log)]
       /\ Len(backlog'.flag) <= FlagCap /\ Len(backlog'.round) <= NewRoundCap
  <2>1. CASE key = "flag"
    <3>1. Cap(log) = FlagCap
      BY <1>4, <2>1 DEF Queue, Cap
    <3>2. /\ backlog' \in [flag : Seq(Log), round : Seq(Log)]
          /\ backlog'.flag = q /\ backlog'.round = b.round
      BY <1>5, <1>9, <1>10, <2>1
    <3> QED
      BY <1>6, <1>9, <3>1, <3>2
  <2>2. CASE key = "round"
    <3>1. Cap(log) = NewRoundCap
      BY <1>4, <2>2 DEF Queue, Cap
    <3>2. /\ backlog' \in [flag : Seq(Log), round : Seq(Log)]
          /\ backlog'.round = q /\ backlog'.flag = b.flag
      BY <1>5, <1>9, <1>10, <2>2
    <3> QED
      BY <1>6, <1>9, <3>1, <3>2
  <2> QED
    BY <2>1, <2>2
<1>12. at' \in 0 .. Len(logs)
  BY <1>1, <1>2
<1> QED
  BY <1>1, <1>11, <1>12 DEF Types, OfContract, OfChecker

\* The contract and what has been delivered stay; the checker goes on.
LEMMA CheckerMoves ==
    ASSUME Types, UNCHANGED <<rounds, flags, logs, at, backlog>>, left' \in Limits,
           doing' \in Action, doing'.step = "mark" => doing'.log # NULL,
           isHibernating' \in BOOLEAN
    PROVE Types'
BY DEF Types, OfContract, OfChecker

LEMMA IdleIs ==
    /\ Idle \in Action /\ Idle.step = "idle"
    /\ [Idle EXCEPT !.step = "down"] \in Action /\ [Idle EXCEPT !.step = "down"].step = "down"
    /\ \A log \in Log :
          /\ [Idle EXCEPT !.step = "mark", !.log = log] \in Action
          /\ [Idle EXCEPT !.step = "mark", !.log = log].log = log
BY DEF Idle, Action

LEMMA PollsTyped ==
    ASSUME Types, NEW log \in Log \cup {NULL}, Polls(log)
    PROVE doing' \in Action /\ (doing'.step = "mark" => doing'.log # NULL)
<1>1. PICK r \in Nat : r = SuggestedRound
  BY SuggestedIs DEF Types
<1>2. doing' \in {[step |-> "fetch", round |-> r, log |-> log],
                  [Idle EXCEPT !.step = IF log = NULL THEN "idle" ELSE "mark", !.log = log]}
  BY <1>1 DEF Polls
<1>3. CASE doing' = [step |-> "fetch", round |-> r, log |-> log]
  BY <1>3 DEF Action
<1>4. CASE doing' = [Idle EXCEPT !.step = IF log = NULL THEN "idle" ELSE "mark", !.log = log]
  <2>1. doing' = [step |-> IF log = NULL THEN "idle" ELSE "mark", round |-> 0, log |-> log]
    BY <1>4 DEF Idle
  <2> QED
    BY <2>1 DEF Action
<1> QED
  BY <1>2, <1>3, <1>4

\* Either way of taking a log leaves a shorter queue.
LEMMA TakesOne ==
    ASSUME Types, backlog[First] # <<>>, backlog' = [backlog EXCEPT ![First] = Tail(@)]
    PROVE /\ Head(backlog[First]) \in Log
          /\ backlog' \in [flag : Seq(Log), round : Seq(Log)]
          /\ Len(backlog'.flag) <= FlagCap /\ Len(backlog'.round) <= NewRoundCap
<1>1. PICK b \in [flag : Seq(Log), round : Seq(Log)] : b = backlog
  BY DEF Types, OfChecker
<1>2. Len(b.flag) <= FlagCap /\ Len(b.round) <= NewRoundCap
  BY <1>1 DEF Types, OfChecker
<1>3. PICK key \in {"flag", "round"} : key = First
  BY DEF First
<1>4. PICK q \in Seq(Log) : q = b[key]
  BY <1>1, <1>3
<1>5. q # <<>>
  BY <1>1, <1>3, <1>4
<1>6. PICK p : p = Tail(q)
  OBVIOUS
<1>7. Head(q) \in Log /\ p \in Seq(Log) /\ Len(p) = Len(q) - 1 /\ Len(q) \in Nat
  BY <1>4, <1>5, <1>6
<1>8. backlog' = [b EXCEPT ![key] = p]
  BY <1>1, <1>3, <1>4, <1>6
<1>9. FlagCap \in Nat /\ NewRoundCap \in Nat
  BY CheckerAssumption
<1>10. CASE key = "flag"
  <2>1. /\ backlog' \in [flag : Seq(Log), round : Seq(Log)]
        /\ backlog'.flag = p /\ backlog'.round = b.round /\ q = b.flag
    BY <1>1, <1>4, <1>7, <1>8, <1>10
  <2> QED
    BY <1>1, <1>2, <1>3, <1>4, <1>7, <1>9, <2>1
<1>11. CASE key = "round"
  <2>1. /\ backlog' \in [flag : Seq(Log), round : Seq(Log)]
        /\ backlog'.round = p /\ backlog'.flag = b.flag /\ q = b.round
    BY <1>1, <1>4, <1>7, <1>8, <1>11
  <2> QED
    BY <1>1, <1>2, <1>3, <1>4, <1>7, <1>9, <2>1
<1> QED
  BY <1>10, <1>11

LEMMA TakeTypes ==
    ASSUME Types, TakeLog
    PROVE Types'
<1>1. PICK log \in Log : log = Head(backlog[First])
  BY TakesOne DEF TakeLog
<1>2. log # NULL
  BY CheckerAssumption
<1>3. /\ backlog' \in [flag : Seq(Log), round : Seq(Log)]
      /\ Len(backlog'.flag) <= FlagCap /\ Len(backlog'.round) <= NewRoundCap
  BY TakesOne DEF TakeLog
<1>4. UNCHANGED <<rounds, flags, logs, at, left>>
  BY DEF TakeLog, chain
<1>5. /\ doing' \in Action
      /\ doing'.step = "mark" => doing'.log # NULL
      /\ isHibernating' \in BOOLEAN
  <2>1. CASE UNCHANGED <<doing, isHibernating>>
    BY <2>1 DEF Types, OfChecker
  <2>2. CASE RespondToNewRound(log)
    <3>1. PICK r \in Nat : r = log.round
      BY DEF Log
    <3>2. doing' \in {[step |-> "mark", round |-> r, log |-> log],
                      [step |-> "fetch", round |-> r, log |-> log]}
      BY <2>2, <3>1 DEF RespondToNewRound
    <3>3. isHibernating' = isHibernating
      BY <2>2 DEF RespondToNewRound
    <3> QED
      BY <1>2, <3>2, <3>3 DEF Action, Types, OfChecker
  <2>3. CASE RespondToFlag(log) /\ log.kind = "raised"
    <3>1. /\ doing' = [Idle EXCEPT !.step = "mark", !.log = log]
          /\ isHibernating' = (isHibernating \/ IsFlagRaised)
      BY <2>3 DEF RespondToFlag
    <3> QED
      BY <1>2, <3>1, IdleIs
  <2>4. CASE RespondToFlag(log) /\ log.kind # "raised"
    <3>1. isHibernating' = FALSE /\ Polls(log)
      BY <2>4 DEF RespondToFlag
    <3> QED
      BY <3>1, PollsTyped
  <2> QED
    BY <1>1, <2>1, <2>2, <2>3, <2>4 DEF TakeLog
<1>6. OfContract'
  BY <1>4 DEF Types, OfContract
<1>7. at' \in 0 .. Len(logs')
  BY <1>4 DEF Types, OfChecker
<1>8. OfChecker'
  BY <1>3, <1>5, <1>7 DEF OfChecker
<1> QED
  BY <1>6, <1>8 DEF Types

LEMMA LogFailsTypes ==
    ASSUME Types, LogFails
    PROVE Types'
<1>1. PICK log \in Log : log = Head(backlog[First])
  BY TakesOne DEF LogFails
<1>2. log # NULL
  BY CheckerAssumption
<1>3. /\ backlog' \in [flag : Seq(Log), round : Seq(Log)]
      /\ Len(backlog'.flag) <= FlagCap /\ Len(backlog'.round) <= NewRoundCap
  BY TakesOne DEF LogFails
<1>4. UNCHANGED <<rounds, flags, logs, at>> /\ left' \in Limits
  BY FaultKeepsLimits DEF LogFails, chain, Types, OfContract
<1>5. /\ doing' \in {doing, [Idle EXCEPT !.step = "mark", !.log = log]}
      /\ isHibernating' \in {isHibernating, (isHibernating /\ log.kind # "lowered")}
  BY <1>1 DEF LogFails
<1>6. doing' \in Action /\ (doing'.step = "mark" => doing'.log # NULL) /\ isHibernating' \in BOOLEAN
  BY <1>2, <1>5, IdleIs DEF Types, OfChecker
<1> QED
  BY <1>3, <1>4, <1>6 DEF Types, OfContract, OfChecker

LEMMA CheckerTypes ==
    ASSUME Types,
           Tick \/ CreateRun \/ NoDeviation \/ FetchFails \/ UpdateStats \/ MarkConsumed
    PROVE Types'
<1>1. UNCHANGED <<rounds, flags, logs, at, backlog, isHibernating>>
  BY DEF Tick, CreateRun, NoDeviation, FetchFails, UpdateStats, MarkConsumed, chain
<1>2. left' \in Limits
  BY FaultKeepsLimits
  DEF Tick, CreateRun, NoDeviation, FetchFails, UpdateStats, MarkConsumed, Types, OfContract
<1>3. doing' \in Action /\ (doing'.step = "mark" => doing'.log # NULL)
  <2>1. CASE Tick
    BY <2>1, PollsTyped DEF Tick
  <2>2. CASE CreateRun
    BY <2>2 DEF CreateRun, Action, Types, OfChecker
  <2>3. CASE NoDeviation \/ FetchFails \/ UpdateStats
    <3>1. doing' = Ends(doing)
      BY <2>3 DEF NoDeviation, FetchFails, UpdateStats
    <3> QED
      BY <3>1, EndsIs DEF Types, OfChecker
  <2>4. CASE MarkConsumed
    BY <2>4, IdleIs DEF MarkConsumed
  <2> QED
    BY <2>1, <2>2, <2>3, <2>4
<1> QED
  BY <1>1, <1>2, <1>3, CheckerMoves DEF Types, OfChecker

LEMMA CrashTypes ==
    ASSUME Types, Crash
    PROVE Types'
<1>1. UNCHANGED <<rounds, flags, logs, at, isHibernating>> /\ backlog' = Empty /\ left' \in Limits
  BY FaultKeepsLimits DEF Crash, chain, Types, OfContract
<1>2. doing' \in Action /\ doing'.step = "down"
  BY IdleIs DEF Crash
<1>3. /\ backlog' \in [flag : Seq(Log), round : Seq(Log)]
      /\ Len(backlog'.flag) = 0 /\ Len(backlog'.round) = 0
  BY <1>1 DEF Empty
<1> QED
  BY <1>1, <1>2, <1>3, CheckerAssumption DEF Types, OfContract, OfChecker

\* What comes again of the logs is a sequence of logs.
LEMMA SubscribesTyped ==
    ASSUME Types, NEW lacking, NEW unread, Subscribes(lacking, unread)
    PROVE logs' \in Seq(Log) /\ at' \in 0 .. Len(logs')
<1>1. PICK stay : stay = {i \in DOMAIN logs : OnChain(logs[i])}
  OBVIOUS
<1>2. PICK s \in InOrder(stay) : logs' = [i \in DOMAIN s |-> logs[s[i]]] /\ at' \in 0 .. Len(s)
  BY <1>1 DEF Subscribes
<1>3. logs \in Seq(Log) /\ stay \subseteq 1 .. Len(logs) /\ Len(logs) \in Nat
  BY <1>1 DEF Types, OfContract
<1>4. PICK n \in Nat : n = Cardinality(stay)
  BY <1>3, CountIs
<1>5. s \in [1 .. n -> stay]
  BY <1>2, <1>4 DEF InOrder
<1>6. \A i \in 1 .. n : logs[s[i]] \in Log
  <2> SUFFICES ASSUME NEW i \in 1 .. n PROVE logs[s[i]] \in Log
    OBVIOUS
  <2>1. s[i] \in 1 .. Len(logs)
    BY <1>3, <1>5
  <2> QED
    BY <1>3, <2>1, ElementOfSeq
<1>7. logs' \in [1 .. n -> Log]
  BY <1>2, <1>5, <1>6
<1>8. logs' \in Seq(Log) /\ Len(logs') = n
  BY <1>4, <1>7, SeqDef
<1>9. Len(s) = n
  <2>1. s \in Seq(stay)
    BY <1>4, <1>5, SeqDef
  <2> QED
    BY <1>4, <1>5, <2>1
<1> QED
  BY <1>2, <1>8, <1>9

LEMMA StartTypes ==
    ASSUME Types, Start \/ Resubscribed
    PROVE Types'
<1>1. UNCHANGED <<rounds, flags, backlog>> /\ doing' \in {Idle, doing} /\ isHibernating' \in BOOLEAN
  BY DEF Start, Resubscribed, IsFlagRaised, Types, OfChecker
<1>2. left' \in Limits
  BY FaultKeepsLimits DEF Start, Resubscribed, Types, OfContract
<1>3. logs' \in Seq(Log) /\ at' \in 0 .. Len(logs')
  BY SubscribesTyped DEF Start, Resubscribed
<1>4. OfContract'
  BY <1>1, <1>2, <1>3 DEF Types, OfContract
<1>5. doing' \in Action /\ (doing'.step = "mark" => doing'.log # NULL)
  BY <1>1, IdleIs DEF Types, OfChecker
<1>6. /\ backlog' \in [flag : Seq(Log), round : Seq(Log)]
      /\ Len(backlog'.flag) <= FlagCap /\ Len(backlog'.round) <= NewRoundCap
  BY <1>1 DEF Types, OfChecker
<1>7. OfChecker'
  BY <1>1, <1>3, <1>5, <1>6 DEF OfChecker
<1> QED
  BY <1>4, <1>7 DEF Types

LEMMA TypesStep ==
    ASSUME Types, Tables, [Next]_vars
    PROVE Types'
<1>1. CASE UNCHANGED vars
  BY <1>1 DEF vars, chain, checker, Types, OfContract, OfChecker
<1> QED
  BY <1>1, ContractTypes, HandleTypes, TakeTypes, LogFailsTypes, CheckerTypes, CrashTypes,
     StartTypes
  DEF Next, CheckerStep

-----------------------------------------------------------------------------
(* Theorems *)

LEMMA InvInit == Init => IInv
<1> SUFFICES ASSUME Init PROVE IInv
  OBVIOUS
<1>1. left \in Limits
  BY CheckerAssumption DEF Init, Limits
<1>2. OfContract
  BY <1>1 DEF Init, OfContract, Limits
<1>3. OfChecker
  <2>1. doing \in Action /\ doing.step = "down"
    BY IdleIs DEF Init
  <2>2. /\ backlog \in [flag : Seq(Log), round : Seq(Log)]
        /\ Len(backlog.flag) = 0 /\ Len(backlog.round) = 0
    BY DEF Init, Empty
  <2>3. 0 <= FlagCap /\ 0 <= NewRoundCap
    BY CheckerAssumption
  <2>4. at \in 0 .. Len(logs)
    <3>1. at = 0
      BY DEF Init
    <3>2. Len(logs) = 0
      BY DEF Init
    <3> QED
      BY <3>1, <3>2
  <2>5. isHibernating \in BOOLEAN
    BY DEF Init
  <2> QED
    BY <2>1, <2>2, <2>3, <2>4, <2>5 DEF OfChecker
<1>4. Tables /\ Known /\ InHand
  BY <1>3 DEF Init, Tables, Rows, RowsFit, Known, InHand, Open, Idle
<1> QED
  BY <1>2, <1>3, <1>4 DEF IInv

\* The inductive invariant holds of every state that a checker reaches: an
\* open run is in its table of rounds, about to be saved there, or lost.
THEOREM CheckerInvariant == Spec => []IInv
<1>1. IInv /\ [Next]_vars => IInv'
  BY TypesStep, AccountedStep DEF IInv, Types, Accounted
<1> QED
  BY <1>1, InvInit, PTL DEF Spec

\* The queues keep to their capacities, and a row of the table refers to a run
\* for its round.
THEOREM FluxTypes == Spec => []TypeOK
<1>1. IInv => TypeOK
  <2> SUFFICES ASSUME IInv PROVE TypeOK
    OBVIOUS
  <2>1. \A r \in DOMAIN rounds : rounds[r].by \in {"us", "other"}
                               /\ rounds[r].status \in {"open", "answered", "closed"}
    <3>1. \A r \in DOMAIN rounds : rounds[r] \in Round
      BY DEF IInv, OfContract
    <3> QED
      BY <3>1 DEF Round
  <2>2. \A i \in DOMAIN runs : runs[i].tx \in {"none", "sent", "mined", "reverted"}
    <3>1. \A i \in DOMAIN runs : runs[i] \in Run
      BY DEF IInv, Tables
    <3> QED
      BY <3>1 DEF Run
  <2>3. \A r \in DOMAIN stats :
           IF stats[r].submissions = 0 THEN stats[r].run = NULL
           ELSE runs[stats[r].run].round = r
    BY DEF IInv, Tables, RowsFit
  <2>4. doing.step \in {"down", "idle", "fetch", "update", "mark"}
    BY DEF IInv, OfChecker, Action
  <2> QED
    BY <2>1, <2>2, <2>3, <2>4 DEF TypeOK, IInv, OfContract, OfChecker
<1> QED
  BY <1>1, CheckerInvariant, PTL

\* No second run is created for a round while one is open, unless the
\* submission is not in the table any more: however the ticks and the logs come.
THEOREM NeverASecondOpenRun == Spec => OneOpenRun
<1>1. IInv /\ [Next]_vars =>
        (Len(runs') > Len(runs) =>
            LET r == Last(runs').round
            IN  r \in lost \/ \A i \in DOMAIN runs : runs[i].round = r => runs[i].status # "open")
  <2> SUFFICES ASSUME IInv, [Next]_vars, Len(runs') > Len(runs)
               PROVE LET r == Last(runs').round
                     IN  r \in lost \/ \A i \in DOMAIN runs :
                                           runs[i].round = r => runs[i].status # "open"
    OBVIOUS
  <2>1. Len(runs) \in Nat /\ ~(Len(runs) > Len(runs))
    BY DEF IInv, Tables
  <2>2. CreateRun
    <3>1. runs' # runs
      BY <2>1
    <3>2. ASSUME NEW i \in 1 .. Len(runs), MineTx(i) \/ RunCompletes(i) \/ RunFails(i)
          PROVE FALSE
      <4>1. PICK e : runs' = [runs EXCEPT ![i] = e]
        BY <3>2 DEF MineTx, RunCompletes, RunFails
      <4>2. Len(runs') = Len(runs)
        BY <4>1 DEF IInv, Tables
      <4> QED
        BY <2>1, <4>2
    <3>3. ASSUME Reorg PROVE FALSE
      <4>1. runs \in Seq(Run) /\ DOMAIN runs' = DOMAIN runs
        BY <3>3 DEF Reorg, IInv, Tables
      <4>2. Len(runs') = Len(runs)
        BY <4>1
      <4> QED
        BY <2>1, <4>2
    <3> QED
      BY <3>1, <3>2, <3>3
      DEF Next, vars, OtherStartsRound, ChangeFlag, OthersSubmit, HandleLog, Tick, LogFails,
          FetchFails, Resubscribed, Crash, CheckerStep, TakeLog, MarkConsumed, UpdateStats,
          NoDeviation, Start
  <2>3. /\ Last(runs').round = doing.round
        /\ doing.round \in lost \/ \A i \in DOMAIN runs :
              runs[i].round = doing.round => runs[i].status # "open"
    BY <2>2, CreateKeeps DEF IInv, Accounted, Last
  <2> QED
    BY <2>3
<1> QED
  BY <1>1, CheckerInvariant, PTL DEF Spec, OneOpenRun
=============================================================================

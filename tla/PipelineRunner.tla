---------------------------- MODULE PipelineRunner ----------------------------
(***************************************************************************)
(* The runner of core/services/pipeline and its ORM.                       *)
(*                                                                         *)
(* A run of a pipeline is a row, with a row for each task.  Workers (the   *)
(* goroutines of every process) take the oldest unfinished run whose row   *)
(* nobody has locked, execute its tasks inside of the transaction that     *)
(* holds the lock, and commit all results at once.  Within a run, one      *)
(* goroutine starts at each task that has no predecessor; where chains     *)
(* meet, the last to arrive goes on.                                       *)
(*                                                                         *)
(* AwaitRun waits for a run, with a poll and a subscription at once.       *)
(***************************************************************************)
EXTENDS Naturals, FiniteSets

CONSTANTS
    Tasks,        \* tasks of a pipeline
    Successor,    \* the task that takes the result of a task, or NULL
    Workers,
    NULL,
    MaxRuns,      \* bound on the number of runs
    MaxTimeouts,  \* bound on the transactions that take too long
    MaxCrashes    \* bound on the crashes

RunId == 1 .. MaxRuns

ASSUME PipelineAssumption ==
    /\ IsFiniteSet(Tasks)
    /\ NULL \notin Tasks \cup RunId
    /\ Successor \in [Tasks -> Tasks \cup {NULL}]
    /\ {MaxRuns, MaxTimeouts, MaxCrashes} \subseteq Nat

VARIABLES
    row,       \* table pipeline_runs: the state of each run
    stored,    \* table pipeline_task_runs: the tasks with a result
    commits,   \* how often a run was marked as finished
    worker,    \* what each worker is doing
    awaiting,  \* AwaitRun, at most one call for each run
    timeouts, crashes

tables == <<row, stored, commits>>
counts == <<timeouts, crashes>>
vars   == <<tables, worker, awaiting, counts>>

Predecessors(t) == {p \in Tasks : Successor[p] = t}
Firsts == {t \in Tasks : Predecessors(t) = {}}

\* CreateJob of core/services/job refuses a graph with cycles.
ASSUME AcyclicAssumption ==
    \A U \in SUBSET Tasks : U # {} => \E t \in U : Predecessors(t) \cap U = {}

\* A slip: nobody counts the predecessors.
MemoryUncounted ==
    [preds    |-> [t \in Tasks |-> 0],
     finished |-> {},
     inputs   |-> [t \in Tasks |-> {}],
     used     |-> [t \in Tasks |-> {}],
     results  |-> [t \in Tasks |-> 0],
     at       |-> [g \in Firsts |-> g],
     step     |-> [g \in Firsts |-> "check"]]

\* The memory of executeRun, with a goroutine for each first task.
Memory ==
    [preds    |-> [t \in Tasks |-> Cardinality(Predecessors(t))],
     finished |-> {},                              \* tasks some goroutine has
     inputs   |-> [t \in Tasks |-> {}],            \* results that have arrived
     used     |-> [t \in Tasks |-> {}],            \* results it was executed with
     results  |-> [t \in Tasks |-> 0],
     at       |-> [g \in Firsts |-> g],            \* NULL when the goroutine is done
     step     |-> [g \in Firsts |-> "check"]]

Idle == [pc |-> "idle", run |-> NULL, tx |-> FALSE, mem |-> Memory]

Init ==
    /\ row = [r \in RunId |-> "none"]
    /\ stored = [r \in RunId |-> {}]
    /\ commits = [r \in RunId |-> 0]
    /\ worker = [w \in Workers |-> Idle]
    /\ awaiting = [r \in RunId |-> "no"]
    /\ timeouts = 0 /\ crashes = 0

-----------------------------------------------------------------------------
(* The goroutines of executeRun *)

\* Goroutine g of worker w is about to take this step, and leaves the memory
\* as given, itself at a task with its next step.
Step(w, g, step) ==
    /\ worker[w].pc = "tasks"
    /\ worker[w].mem.at[g] # NULL
    /\ worker[w].mem.step[g] = step

Goes(w, g, mem, t, step) ==
    /\ worker' = [worker EXCEPT ![w].mem =
                    [mem EXCEPT !.at[g] = t, !.step[g] = step]]
    /\ UNCHANGED <<tables, awaiting, counts>>

Ends(w, g) == Goes(w, g, worker[w].mem, NULL, "check")

\* A slip: a task does not wait for its other predecessors.
CheckNothing(w, g) ==
    /\ Step(w, g, "check")
    /\ Goes(w, g, worker[w].mem, worker[w].mem.at[g], "claim")

\* A goroutine that still misses a predecessor leaves the task to another.
CheckPredecessors(w, g) ==
    LET mem == worker[w].mem
    IN  /\ Step(w, g, "check")
        /\ IF mem.preds[mem.at[g]] > 0 THEN Ends(w, g)
           ELSE Goes(w, g, mem, mem.at[g], "claim")

\* A slip: the task is not marked as taken.
ClaimWithoutMark(w, g) ==
    LET mem == worker[w].mem
    IN  /\ Step(w, g, "claim")
        /\ Goes(w, g, mem, mem.at[g], "execute")

\* Of the goroutines that find no predecessor missing, one finishes the task.
ClaimTask(w, g) ==
    LET mem == worker[w].mem
    IN  /\ Step(w, g, "claim")
        /\ IF mem.at[g] \in mem.finished THEN Ends(w, g)
           ELSE Goes(w, g, [mem EXCEPT !.finished = @ \cup {mem.at[g]}],
                     mem.at[g], "execute")

\* The task runs with the results that have arrived, and its own, an error
\* perhaps, goes to the list.
ExecuteTask(w, g) ==
    LET mem == worker[w].mem
        t   == mem.at[g]
    IN  /\ Step(w, g, "execute")
        /\ Goes(w, g, [mem EXCEPT !.used[t] = mem.inputs[t], !.results[t] = @ + 1],
                t, "pass")

PassResult(w, g) ==
    LET mem  == worker[w].mem
        next == Successor[mem.at[g]]
    IN  /\ Step(w, g, "pass")
        /\ IF next = NULL THEN Ends(w, g)
           ELSE Goes(w, g, [mem EXCEPT !.inputs[next] = @ \cup {mem.at[g]},
                                       !.preds[next] = @ - 1],
                     next, "check")

GoroutineStep(w, g) ==
    \/ CheckPredecessors(w, g) \/ ClaimTask(w, g)
    \/ ExecuteTask(w, g) \/ PassResult(w, g)

-----------------------------------------------------------------------------
(* The transactions of a worker *)

Unfinished == {r \in RunId : row[r] = "unfinished"}

Locked == {worker[w].run : w \in {v \in Workers : worker[v].tx}}

\* A slip: SELECT without FOR UPDATE SKIP LOCKED.
AnyUnfinished == Unfinished

Available == Unfinished \ Locked

\* processNextUnfinishedRun begins: the oldest run that is not locked.  After
\* an error RetryWithBackoff begins it again.
TakeRun(w) ==
    /\ worker[w].pc = "idle" /\ Available # {}
    /\ \E r \in Available :
          /\ \A s \in Available : r <= s
          /\ worker' = [worker EXCEPT ![w] = [Idle EXCEPT !.pc = "tasks", !.run = r, !.tx = TRUE]]
    /\ UNCHANGED <<tables, awaiting, counts>>

\* ExecuteAndInsertNewRun: no row yet, and no transaction.
ExecuteNew(w) ==
    /\ worker[w].pc = "idle"
    /\ \E r \in RunId : row[r] = "none"
    /\ worker' = [worker EXCEPT ![w] = [Idle EXCEPT !.pc = "tasks"]]
    /\ UNCHANGED <<tables, awaiting, counts>>

\* The context of the transaction, not that of the tasks, runs out: Postgres
\* rolls back and frees the row while the tasks go on.
TxTimesOut(w) ==
    /\ worker[w].tx /\ timeouts < MaxTimeouts
    /\ worker' = [worker EXCEPT ![w].tx = FALSE]
    /\ timeouts' = timeouts + 1
    /\ UNCHANGED <<tables, awaiting, crashes>>

\* A slip: wg.Add(len(all)), which waits for more goroutines than there are.
DoneForEachTask(w) ==
    /\ worker[w].pc = "tasks"
    /\ Firsts = Tasks
    /\ \A g \in Firsts : worker[w].mem.at[g] = NULL

AllDone(w) ==
    /\ worker[w].pc = "tasks"
    /\ \A g \in Firsts : worker[w].mem.at[g] = NULL

\* The run is finished, with the results in the list.
Finish(w, r) ==
    /\ row' = [row EXCEPT ![r] = "finished"]
    /\ stored' = [stored EXCEPT ![r] =
                    {t \in Tasks : worker[w].mem.results[t] > 0}]
    /\ commits' = [commits EXCEPT ![r] = @ + 1]

\* The notification is part of the transaction.  A subscriber may miss it.
Notify(r) ==
    \/ awaiting[r] = "subscribed" /\ awaiting' = [awaiting EXCEPT ![r] = "event"]
    \/ UNCHANGED awaiting

\* updateTaskRuns, UpdatePipelineRun, notify, commit.  In a transaction that
\* is over, the first of these fails.
CommitRun(w) ==
    /\ AllDone(w) /\ worker[w].run # NULL
    /\ IF worker[w].tx THEN Finish(w, worker[w].run) /\ Notify(worker[w].run)
       ELSE UNCHANGED <<tables, awaiting>>
    /\ worker' = [worker EXCEPT ![w] = Idle]
    /\ UNCHANGED counts

\* InsertFinishedRunWithResults, which may fail and is not tried again.
InsertFinishedRun(w) ==
    /\ AllDone(w) /\ worker[w].run = NULL
    /\ \/ \E r \in RunId :
             /\ row[r] = "none"
             /\ \A s \in RunId : row[s] = "none" => r <= s
             /\ Finish(w, r)
       \/ UNCHANGED tables
    /\ worker' = [worker EXCEPT ![w] = Idle]
    /\ UNCHANGED <<awaiting, counts>>

-----------------------------------------------------------------------------
(* Requests *)

\* CreateRun: the run and its task runs in one transaction.
CreateRun ==
    /\ \E r \in RunId :
          /\ row[r] = "none" /\ \A s \in RunId : row[s] = "none" => r <= s
          /\ row' = [row EXCEPT ![r] = "unfinished"]
    /\ UNCHANGED <<stored, commits, worker, awaiting, counts>>

Moves(r, from, to) ==
    /\ awaiting[r] = from
    /\ awaiting' = [awaiting EXCEPT ![r] = to]
    /\ UNCHANGED <<tables, worker, counts>>

\* AwaitRun starts to poll, ...
AwaitRun(r) == row[r] # "none" /\ Moves(r, "no", "polling")

\* ... subscribes, ...
Subscribe(r) == Moves(r, "polling", "subscribed")

\* RunFinished: true of a finished run, an error if the reaper was there.
RunFinished(r) == row[r] \in {"finished", "reaped"}

\* A slip: only the notification ends the wait.
NeverPolled(r) == FALSE /\ Moves(r, "subscribed", "returned")

\* ... and returns after either.
AwaitPolled(r) == RunFinished(r) /\ Moves(r, "subscribed", "returned")
AwaitNotified(r) == Moves(r, "event", "returned")

\* Its context ends, the poll or the subscription fails: it returns an error.
AwaitFails(r) == \E from \in {"polling", "subscribed", "event"} : Moves(r, from, "failed")

\* runReaper: DeleteRunsOlderThan.
Reap(r) ==
    /\ row[r] = "finished"
    /\ row' = [row EXCEPT ![r] = "reaped"]
    /\ UNCHANGED <<stored, commits, worker, awaiting, counts>>

\* Every worker, and every call of AwaitRun, is gone.
Crash ==
    /\ crashes < MaxCrashes
    /\ worker' = [w \in Workers |-> Idle]
    /\ awaiting' = [r \in RunId |-> "no"]
    /\ crashes' = crashes + 1
    /\ UNCHANGED <<tables, timeouts>>

-----------------------------------------------------------------------------
Next ==
    \/ \E w \in Workers :
          \/ TakeRun(w) \/ ExecuteNew(w) \/ TxTimesOut(w)
          \/ CommitRun(w) \/ InsertFinishedRun(w)
          \/ \E g \in Firsts : GoroutineStep(w, g)
    \/ \E r \in RunId :
          \/ AwaitRun(r) \/ Subscribe(r) \/ AwaitPolled(r) \/ AwaitNotified(r) \/ AwaitFails(r)
          \/ Reap(r)
    \/ CreateRun \/ Crash

\* Goroutines run, tasks have a timeout, and the poll takes a run again and
\* again: a worker comes to a run however often it does something else.
Fairness ==
    /\ \A w \in Workers :
          /\ SF_vars(TakeRun(w))
          /\ WF_vars(CommitRun(w)) /\ WF_vars(InsertFinishedRun(w))
          /\ \A g \in Firsts : WF_vars(GoroutineStep(w, g))
    /\ \A r \in RunId :
          WF_vars(Subscribe(r)) /\ WF_vars(AwaitPolled(r)) /\ WF_vars(AwaitNotified(r))

Spec == Init /\ [][Next]_vars /\ Fairness

-----------------------------------------------------------------------------
(* Properties *)

MemoryType ==
    [preds    : [Tasks -> 0 .. Cardinality(Tasks)],
     finished : SUBSET Tasks,
     inputs   : [Tasks -> SUBSET Tasks],
     used     : [Tasks -> SUBSET Tasks],
     results  : [Tasks -> Nat],
     at       : [Firsts -> Tasks \cup {NULL}],
     step     : [Firsts -> {"check", "claim", "execute", "pass"}]]

\* Type invariant: the values of the rows, and the memory of a worker.  No
\* count of predecessors falls below zero.
TypeOK ==
    /\ row \in [RunId -> {"none", "unfinished", "finished", "reaped"}]
    /\ stored \in [RunId -> SUBSET Tasks]
    /\ commits \in [RunId -> Nat]
    /\ \A w \in Workers :
          /\ worker[w].pc \in {"idle", "tasks"}
          /\ worker[w].run \in RunId \cup {NULL}
          /\ worker[w].tx \in BOOLEAN
          /\ worker[w].mem \in MemoryType
    /\ awaiting \in [RunId -> {"no", "polling", "subscribed", "event", "returned", "failed"}]
    /\ timeouts \in 0 .. MaxTimeouts /\ crashes \in 0 .. MaxCrashes

\* Where chains of tasks meet, exactly one goroutine goes on: no task is
\* executed twice within one execution of its run, and none before the result
\* of each of its predecessors has arrived, in whatever order the goroutines
\* read the counter, take the task and pass their results.  So a finished run
\* has a result of every task, and a run that is not finished of none.
FanIn ==
    /\ \A w \in Workers, t \in Tasks :
          worker[w].mem.results[t] > 0 =>
              /\ worker[w].mem.results[t] = 1
              /\ worker[w].mem.used[t] = Predecessors(t)
    /\ \A r \in RunId :
          stored[r] = IF row[r] \in {"finished", "reaped"} THEN Tasks ELSE {}

\* A run is finished once, by one of the workers that may have executed it,
\* although transactions time out and processes crash in the middle, and
\* AwaitRun, by its poll or by the notification, does not return without an
\* error before that.
FinishedOnce ==
    \A r \in RunId :
        /\ commits[r] = IF RunFinished(r) THEN 1 ELSE 0
        /\ awaiting[r] \in {"event", "returned"} => RunFinished(r)

\* Every run that is created is finished in the end.
RunsGetFinished == \A r \in RunId : row[r] = "unfinished" ~> RunFinished(r)

\* AwaitRun returns once its run is finished, also when the notification is
\* lost, or sent before the subscription is there, unless it returns an error or
\* its process crashes.
AwaitReturns ==
    \A r \in RunId : awaiting[r] = "polling" ~> awaiting[r] \in {"returned", "failed", "no"}

=============================================================================

------------------------- MODULE PipelineRunnerProofs -------------------------
(***************************************************************************)
(* Proofs about PipelineRunner, for every pipeline, and any number of      *)
(* workers, of runs, of transactions that time out and of crashes.         *)
(*                                                                         *)
(* A run is finished once because the transaction that finishes it is the  *)
(* only one that is alive and has its row, and its row is unfinished.      *)
(***************************************************************************)
EXTENDS PipelineRunner, FiniteSetTheorems, TLAPS

\* The types that the argument needs: a count of predecessors is an integer.
LooseMemory ==
    [preds    : [Tasks -> Int],
     finished : SUBSET Tasks,
     inputs   : [Tasks -> SUBSET Tasks],
     used     : [Tasks -> SUBSET Tasks],
     results  : [Tasks -> Nat],
     at       : [Firsts -> Tasks \cup {NULL}],
     step     : [Firsts -> {"check", "claim", "execute", "pass"}]]

Shape ==
    /\ row \in [RunId -> {"none", "unfinished", "finished", "reaped"}]
    /\ commits \in [RunId -> Nat]
    /\ awaiting \in [RunId -> {"no", "polling", "subscribed", "event", "returned", "failed"}]
    /\ worker \in [Workers -> [pc : {"idle", "tasks"}, run : RunId \cup {NULL},
                               tx : BOOLEAN, mem : LooseMemory]]

\* A transaction that is alive has the row of an unfinished run ...
HasRow ==
    \A w \in Workers : worker[w].tx => worker[w].run \in Unfinished

\* ... to itself.
Alone ==
    \A v, w \in Workers :
        worker[v].tx /\ worker[w].tx /\ worker[v].run = worker[w].run => v = w

IInv == Shape /\ HasRow /\ Alone /\ FinishedOnce

-----------------------------------------------------------------------------
\* Nothing is counted at the beginning but the predecessors.
LEMMA MemoryIsTyped == IsFiniteSet(Tasks) => Memory \in LooseMemory /\ Idle \in
    [pc : {"idle", "tasks"}, run : RunId \cup {NULL}, tx : BOOLEAN, mem : LooseMemory]
<1> SUFFICES ASSUME IsFiniteSet(Tasks)
             PROVE  /\ Memory \in LooseMemory
                    /\ Idle \in [pc : {"idle", "tasks"}, run : RunId \cup {NULL},
                                 tx : BOOLEAN, mem : LooseMemory]
  OBVIOUS
<1>1. \A t \in Tasks : Cardinality(Predecessors(t)) \in Int
  BY FS_Subset, FS_CardinalityType DEF Predecessors
<1>2. Firsts \subseteq Tasks
  BY DEF Firsts
<1>3. Memory \in LooseMemory
  BY <1>1, <1>2 DEF Memory, LooseMemory
<1> QED
  BY <1>3 DEF Idle

\* A goroutine moves only the memory of its worker.
LEMMA MovesMemory ==
    ASSUME Shape, NEW w \in Workers, NEW g \in Firsts, GoroutineStep(w, g)
    PROVE  /\ UNCHANGED <<row, commits, awaiting>>
           /\ \E mem \in LooseMemory : worker' = [worker EXCEPT ![w].mem = mem]
<1> USE PipelineAssumption
<1>1. UNCHANGED <<row, commits, awaiting>>
  BY DEF GoroutineStep, CheckPredecessors, ClaimTask, ExecuteTask, PassResult, Ends, Goes, tables
<1> DEFINE m == worker[w].mem
<1>2. m \in LooseMemory
  BY DEF Shape
<1>3. m.at[g] \in Tasks
  <2>1. m.at[g] # NULL
    BY DEF GoroutineStep, CheckPredecessors, ClaimTask, ExecuteTask, PassResult, Step
  <2> QED
    BY <1>2, <2>1 DEF LooseMemory
<1> DEFINE Goal == \E new \in LooseMemory : worker' = [worker EXCEPT ![w].mem = new]
           Steps == {"check", "claim", "execute", "pass"}
\* Wherever the goroutine goes, with memory of the type.
<1>4. ASSUME NEW mem \in LooseMemory, NEW t \in Tasks \cup {NULL}, NEW step \in Steps,
             Goes(w, g, mem, t, step)
      PROVE  Goal
  <2>1. [mem EXCEPT !.at[g] = t, !.step[g] = step] \in LooseMemory
    BY <1>4 DEF LooseMemory
  <2> QED
    BY <1>4, <2>1 DEF Goes
<1>5. ASSUME Ends(w, g) PROVE Goal
  BY <1>2, <1>4, <1>5 DEF Ends
<1>6. ASSUME CheckPredecessors(w, g) PROVE Goal
  <2>1. Ends(w, g) \/ Goes(w, g, m, m.at[g], "claim")
    BY <1>6 DEF CheckPredecessors
  <2> HIDE DEF m, Goal
  <2> QED
    BY <1>2, <1>3, <1>4, <1>5, <2>1
<1>7. ASSUME ClaimTask(w, g) PROVE Goal
  <2>1. [m EXCEPT !.finished = @ \cup {m.at[g]}] \in LooseMemory
    BY <1>2, <1>3 DEF LooseMemory
  <2>2. Ends(w, g) \/ Goes(w, g, [m EXCEPT !.finished = @ \cup {m.at[g]}], m.at[g], "execute")
    BY <1>7 DEF ClaimTask
  <2> HIDE DEF m, Goal
  <2> QED
    BY <1>3, <1>4, <1>5, <2>1, <2>2
<1>8. ASSUME ExecuteTask(w, g) PROVE Goal
  <2> DEFINE t   == m.at[g]
             new == [m EXCEPT !.used[t] = m.inputs[t], !.results[t] = @ + 1]
  <2>1. /\ [m.used EXCEPT ![t] = m.inputs[t]] \in [Tasks -> SUBSET Tasks]
        /\ [m.results EXCEPT ![t] = @ + 1] \in [Tasks -> Nat]
    BY <1>2, <1>3 DEF LooseMemory
  <2>2. new \in LooseMemory
    BY <1>2, <1>3, <2>1 DEF LooseMemory
  <2>3. Goes(w, g, new, t, "pass")
    BY <1>8 DEF ExecuteTask
  <2> HIDE DEF m, new, Goal
  <2> QED
    BY <1>3, <1>4, <2>2, <2>3
<1>9. ASSUME PassResult(w, g) PROVE Goal
  <2> DEFINE next == Successor[m.at[g]]
             new == [m EXCEPT !.inputs[next] = @ \cup {m.at[g]}, !.preds[next] = @ - 1]
  <2>1. Ends(w, g) \/ (next # NULL /\ Goes(w, g, new, next, "check"))
    BY <1>9 DEF PassResult
  <2>2. CASE next # NULL
    <3>1. next \in Tasks
      BY <1>3, <2>2
    <3>2. /\ [m.inputs EXCEPT ![next] = @ \cup {m.at[g]}] \in [Tasks -> SUBSET Tasks]
          /\ [m.preds EXCEPT ![next] = @ - 1] \in [Tasks -> Int]
      BY <1>2, <1>3, <3>1 DEF LooseMemory
    <3>3. new \in LooseMemory
      BY <1>2, <3>1, <3>2 DEF LooseMemory
    <3> HIDE DEF m, next, new, Goal
    <3> QED
      BY <1>4, <1>5, <2>1, <3>1, <3>3
  <2> HIDE DEF m, next, new, Goal
  <2> QED
    BY <1>5, <2>1, <2>2
<1> QED
  BY <1>1, <1>6, <1>7, <1>8, <1>9 DEF GoroutineStep

\* A new memory changes nothing of what the transactions hold.
LEMMA MemoryIsNotHeld ==
    ASSUME IInv, NEW w \in Workers, NEW mem \in LooseMemory, worker' = [worker EXCEPT ![w].mem = mem],
           UNCHANGED <<row, commits, awaiting>>
    PROVE  IInv'
<1>1. \A v \in Workers : worker'[v].run = worker[v].run /\ worker'[v].tx = worker[v].tx
  BY DEF IInv, Shape
<1>2. Shape'
  BY DEF IInv, Shape
<1> QED
  BY <1>1, <1>2 DEF IInv, HasRow, Alone, FinishedOnce, RunFinished, Unfinished

\* A worker that is idle holds nothing.
LEMMA IdleHoldsNothing ==
    ASSUME IInv, NEW w \in Workers, worker' = [worker EXCEPT ![w] = Idle]
    PROVE  /\ worker' \in [Workers -> [pc : {"idle", "tasks"}, run : RunId \cup {NULL},
                                      tx : BOOLEAN, mem : LooseMemory]]
           /\ worker'[w].tx = FALSE
           /\ \A v \in Workers : v # w => worker'[v] = worker[v]
  BY MemoryIsTyped, PipelineAssumption DEF IInv, Shape, Idle

\* Every step keeps the invariant.
LEMMA Step1 ==
    ASSUME IInv, [Next]_vars
    PROVE  IInv'
<1> USE PipelineAssumption
<1>1. CASE UNCHANGED vars
  BY <1>1 DEF vars, tables, IInv, Shape, HasRow, Alone, FinishedOnce, RunFinished, Unfinished
<1>2. ASSUME NEW w \in Workers, NEW g \in Firsts, GoroutineStep(w, g)
      PROVE  IInv'
  <2>1. PICK mem \in LooseMemory : worker' = [worker EXCEPT ![w].mem = mem]
    BY <1>2, MovesMemory DEF IInv
  <2> QED
    BY <1>2, <2>1, MovesMemory, MemoryIsNotHeld DEF IInv
\* The row that is taken is one that nobody has locked.
<1>3. ASSUME NEW w \in Workers, TakeRun(w)
      PROVE  IInv'
  <2>1. PICK r \in Available :
           worker' = [worker EXCEPT ![w] = [Idle EXCEPT !.pc = "tasks", !.run = r, !.tx = TRUE]]
    BY <1>3 DEF TakeRun
  <2>2. /\ r \in RunId /\ r \in Unfinished
        /\ \A v \in Workers : worker[v].tx => worker[v].run # r
    BY <2>1 DEF Available, Unfinished, Locked
  <2>3. worker'[w] = [pc |-> "tasks", run |-> r, tx |-> TRUE, mem |-> Memory]
    BY <2>1 DEF Idle, IInv, Shape
  <2>4. \A v \in Workers \ {w} : worker'[v] = worker[v]
    BY <2>1 DEF IInv, Shape
  <2>5. UNCHANGED <<row, commits, awaiting>>
    BY <1>3 DEF TakeRun, tables
  <2>6. Shape'
    BY <2>1, <2>2, <2>3, <2>5, MemoryIsTyped DEF IInv, Shape
  <2>7. HasRow'
    BY <2>2, <2>3, <2>4, <2>5 DEF IInv, HasRow, Unfinished
  <2>8. Alone'
    BY <2>2, <2>3, <2>4 DEF IInv, Alone
  <2> QED
    BY <2>5, <2>6, <2>7, <2>8 DEF IInv, FinishedOnce, RunFinished
<1>4. ASSUME NEW w \in Workers, ExecuteNew(w)
      PROVE  IInv'
  <2>1. worker' = [worker EXCEPT ![w] = [Idle EXCEPT !.pc = "tasks"]]
        /\ UNCHANGED <<row, commits, awaiting>>
    BY <1>4 DEF ExecuteNew, tables
  <2>2. worker'[w] = [pc |-> "tasks", run |-> NULL, tx |-> FALSE, mem |-> Memory]
    BY <2>1 DEF Idle, IInv, Shape
  <2>3. \A v \in Workers \ {w} : worker'[v] = worker[v]
    BY <2>1 DEF IInv, Shape
  <2>4. Shape'
    BY <2>1, <2>2, <2>3, MemoryIsTyped DEF IInv, Shape
  <2> QED
    BY <2>1, <2>2, <2>3, <2>4 DEF IInv, HasRow, Alone, FinishedOnce, RunFinished, Unfinished
<1>5. ASSUME NEW w \in Workers, TxTimesOut(w)
      PROVE  IInv'
  <2>1. worker' = [worker EXCEPT ![w].tx = FALSE] /\ UNCHANGED <<row, commits, awaiting>>
    BY <1>5 DEF TxTimesOut, tables
  <2>2. \A v \in Workers : /\ worker'[v].run = worker[v].run
                           /\ worker'[v].tx => worker[v].tx
    BY <2>1 DEF IInv, Shape
  <2>3. Shape'
    BY <2>1 DEF IInv, Shape
  <2> QED
    BY <2>1, <2>2, <2>3 DEF IInv, HasRow, Alone, FinishedOnce, RunFinished, Unfinished
\* The commit finishes a run that no other live transaction has.
<1>6. ASSUME NEW w \in Workers, CommitRun(w)
      PROVE  IInv'
  <2>1. worker' = [worker EXCEPT ![w] = Idle]
    BY <1>6 DEF CommitRun
  <2>2. CASE ~worker[w].tx
    <3>1. UNCHANGED <<row, commits, awaiting>>
      BY <1>6, <2>2 DEF CommitRun, tables
    <3>2. Shape'
      BY <2>1, <3>1, IdleHoldsNothing DEF IInv, Shape
    <3> QED
      BY <2>1, <3>1, <3>2, IdleHoldsNothing
      DEF IInv, HasRow, Alone, FinishedOnce, RunFinished, Unfinished
  <2>3. CASE worker[w].tx
    <3> DEFINE r == worker[w].run
    <3>1. Finish(w, r) /\ Notify(r)
      BY <1>6, <2>3 DEF CommitRun
    <3>2. r \in RunId /\ row[r] = "unfinished" /\ commits[r] = 0
      BY <2>3 DEF IInv, HasRow, Unfinished, FinishedOnce, RunFinished
    <3>3. /\ row' = [row EXCEPT ![r] = "finished"]
          /\ commits' = [commits EXCEPT ![r] = 1]
      BY <3>1, <3>2 DEF Finish
    <3>4. \A s \in RunId \ {r} : awaiting'[s] = awaiting[s]
      BY <3>1, <3>2 DEF Notify, IInv, Shape
    <3>5. awaiting' \in [RunId -> {"no", "polling", "subscribed", "event", "returned", "failed"}]
      BY <3>1, <3>2 DEF Notify, IInv, Shape
    <3>6. Shape'
      BY <2>1, <3>2, <3>3, <3>5, IdleHoldsNothing DEF IInv, Shape
    <3>7. \A v \in Workers : worker'[v].tx => v # w /\ worker[v].tx /\ worker'[v] = worker[v]
      BY <2>1, IdleHoldsNothing
    <3>8. HasRow' /\ Alone'
      BY <2>3, <3>2, <3>3, <3>7 DEF IInv, Shape, HasRow, Alone, Unfinished
    <3>9. FinishedOnce'
      BY <3>2, <3>3, <3>4 DEF IInv, Shape, FinishedOnce, RunFinished
    <3> QED
      BY <3>6, <3>8, <3>9 DEF IInv
  <2> QED
    BY <2>2, <2>3
<1>7. ASSUME NEW w \in Workers, InsertFinishedRun(w)
      PROVE  IInv'
  <2>1. worker' = [worker EXCEPT ![w] = Idle] /\ awaiting' = awaiting
    BY <1>7 DEF InsertFinishedRun
  <2>2. \A v \in Workers : worker'[v].tx => v # w /\ worker[v].tx /\ worker'[v] = worker[v]
    BY <2>1, IdleHoldsNothing
  <2>3. CASE UNCHANGED tables
    <3>1. Shape'
      BY <2>1, <2>3, IdleHoldsNothing DEF IInv, Shape, tables
    <3> QED
      BY <2>1, <2>2, <2>3, <3>1 DEF IInv, HasRow, Alone, FinishedOnce, RunFinished, Unfinished, tables
  <2>4. ASSUME NEW r \in RunId, row[r] = "none", Finish(w, r)
        PROVE  IInv'
    <3>1. commits[r] = 0
      BY <2>4 DEF IInv, FinishedOnce, RunFinished
    <3>2. /\ row' = [row EXCEPT ![r] = "finished"]
          /\ commits' = [commits EXCEPT ![r] = 1]
      BY <2>4, <3>1 DEF Finish
    <3>3. Shape'
      BY <2>1, <3>2, IdleHoldsNothing DEF IInv, Shape
    <3>4. HasRow' /\ Alone'
      BY <2>2, <2>4, <3>2 DEF IInv, Shape, HasRow, Alone, Unfinished
    <3>5. FinishedOnce'
      BY <2>1, <3>2 DEF IInv, Shape, FinishedOnce, RunFinished
    <3> QED
      BY <3>3, <3>4, <3>5 DEF IInv
  <2> QED
    BY <1>7, <2>3, <2>4 DEF InsertFinishedRun
<1>8. ASSUME NEW r \in RunId, AwaitRun(r) \/ Subscribe(r) \/ AwaitPolled(r) \/ AwaitNotified(r)
                \/ AwaitFails(r)
      PROVE  IInv'
  <2>1. UNCHANGED <<row, commits, worker>>
    BY <1>8 DEF AwaitRun, Subscribe, AwaitPolled, AwaitNotified, AwaitFails, Moves, tables
  <2>2. /\ awaiting' \in [RunId -> {"no", "polling", "subscribed", "event", "returned", "failed"}]
        /\ \A s \in RunId : awaiting'[s] \in {"event", "returned"} => RunFinished(s)
    BY <1>8 DEF AwaitRun, Subscribe, AwaitPolled, AwaitNotified, AwaitFails, Moves, IInv, Shape, FinishedOnce
  <2> QED
    BY <2>1, <2>2 DEF IInv, Shape, HasRow, Alone, FinishedOnce, RunFinished, Unfinished
<1>9. ASSUME NEW r \in RunId, Reap(r)
      PROVE  IInv'
  BY <1>9 DEF Reap, IInv, Shape, HasRow, Alone, FinishedOnce, RunFinished, Unfinished
<1>10. CASE CreateRun
  <2>1. PICK r \in RunId : row[r] = "none" /\ row' = [row EXCEPT ![r] = "unfinished"]
    BY <1>10 DEF CreateRun
  <2>2. UNCHANGED <<commits, worker, awaiting>>
    BY <1>10 DEF CreateRun
  <2> QED
    BY <2>1, <2>2 DEF IInv, Shape, HasRow, Alone, FinishedOnce, RunFinished, Unfinished
<1>11. CASE Crash
  <2>1. /\ worker' = [w \in Workers |-> Idle]
        /\ awaiting' = [r \in RunId |-> "no"]
        /\ UNCHANGED <<row, commits>>
    BY <1>11 DEF Crash, tables
  <2> QED
    BY <2>1, MemoryIsTyped DEF Idle, IInv, Shape, HasRow, Alone, FinishedOnce, RunFinished, Unfinished
<1> QED
  BY <1>1, <1>2, <1>3, <1>4, <1>5, <1>6, <1>7, <1>8, <1>9, <1>10, <1>11 DEF Next

-----------------------------------------------------------------------------
(* The fan-in, within one execution: m is the memory of a worker *)

Missing(m, t) == Predecessors(t) \ m.inputs[t]

\* Goroutine g has claimed task t, and not passed its result on yet.
Holds(m, g, t) == m.at[g] = t /\ m.step[g] \in {"execute", "pass"}

PassedOn(m, t) == Successor[t] # NULL => t \in m.inputs[Successor[t]]

\* The counter of a task says how many of its inputs are missing, and nobody
\* claims the task before it is zero.
Counted(m) ==
    /\ \A t \in Tasks :
          /\ m.inputs[t] \subseteq Predecessors(t) \cap m.finished
          /\ m.preds[t] = Cardinality(Missing(m, t))
          /\ t \in m.finished => Missing(m, t) = {}
    /\ \A t \in Tasks, g \in Firsts : m.at[g] = t /\ m.step[g] = "claim" => Missing(m, t) = {}

\* One goroutine has a task, from its claim until it passes the result on.
Held(m) ==
    \A t \in Tasks, g \in Firsts : Holds(m, g, t) =>
        /\ t \in m.finished
        /\ Successor[t] # NULL => t \notin m.inputs[Successor[t]]
        /\ m.results[t] = IF m.step[g] = "execute" THEN 0 ELSE 1
        /\ \A h \in Firsts : Holds(m, h, t) => h = g

\* What was claimed is held, or was executed with all inputs and passed on.
Resulted(m) ==
    \A t \in Tasks :
        /\ m.results[t] \in {0, 1}
        /\ m.results[t] = 1 => m.used[t] = Predecessors(t) /\ t \in m.finished
        /\ t \in m.finished =>
              (\E g \in Firsts : Holds(m, g, t)) \/ (m.results[t] = 1 /\ PassedOn(m, t))

\* A task with all its inputs has been claimed, or somebody is about to.
Awaited(m) ==
    \A t \in Tasks : t \notin m.finished /\ Missing(m, t) = {} =>
        \E g \in Firsts : m.at[g] = t /\ m.step[g] \in {"check", "claim"}

MemoryInv(m) == m \in LooseMemory /\ Counted(m) /\ Held(m) /\ Resulted(m) /\ Awaited(m)

LEMMA MissingIsFinite ==
    ASSUME NEW m, NEW t \in Tasks
    PROVE  /\ IsFiniteSet(Missing(m, t)) /\ Cardinality(Missing(m, t)) \in Nat
           /\ Cardinality(Missing(m, t)) = 0 <=> Missing(m, t) = {}
<1>1. IsFiniteSet(Missing(m, t))
  <2>1. Missing(m, t) \subseteq Tasks
    BY DEF Missing, Predecessors
  <2> QED
    BY <2>1, FS_Subset, PipelineAssumption
<1> QED
  BY <1>1, FS_CardinalityType, FS_EmptySet

LEMMA MemoryBegins == MemoryInv(Memory)
<1> USE PipelineAssumption
<1>1. Memory \in LooseMemory
  BY MemoryIsTyped
<1>2. /\ \A t \in Tasks : /\ Memory.inputs[t] = {} /\ Memory.results[t] = 0
                          /\ Memory.preds[t] = Cardinality(Predecessors(t))
      /\ Memory.finished = {} /\ \A g \in Firsts : Memory.at[g] = g /\ Memory.step[g] = "check"
  BY DEF Memory
<1> HIDE DEF Memory
<1>3. \A t \in Tasks : Missing(Memory, t) = Predecessors(t)
  BY <1>2 DEF Missing
<1>4. Counted(Memory)
  BY <1>2, <1>3 DEF Counted
<1>5. Held(Memory) /\ Resulted(Memory)
  BY <1>2 DEF Held, Holds, Resulted
<1>6. Awaited(Memory)
  <2>1. \A t \in Tasks : Predecessors(t) = {} => t \in Firsts
    BY DEF Firsts
  <2> QED
    BY <1>2, <1>3, <2>1 DEF Awaited
<1> QED
  BY <1>1, <1>4, <1>5, <1>6 DEF MemoryInv

\* Memory n is m, but for goroutine g, which is at t with a new step.
Moved(m, n, g, t, step) ==
    /\ n \in LooseMemory
    /\ n.at[g] = t /\ n.step[g] = step
    /\ \A h \in Firsts \ {g} : n.at[h] = m.at[h] /\ n.step[h] = m.step[h]

\* CheckPredecessors, and ClaimTask of a task that is taken.
LEMMA CheckKeeps ==
    ASSUME NEW m, MemoryInv(m), NEW n, NEW g \in Firsts, m.at[g] \in Tasks,
           n.preds = m.preds, n.finished = m.finished, n.inputs = m.inputs,
           n.used = m.used, n.results = m.results,
           \/ m.step[g] = "check" /\ m.preds[m.at[g]] > 0 /\ Moved(m, n, g, NULL, "check")
           \/ m.step[g] = "claim" /\ m.at[g] \in m.finished /\ Moved(m, n, g, NULL, "check")
           \/ m.step[g] = "check" /\ m.preds[m.at[g]] = 0 /\ Moved(m, n, g, m.at[g], "claim")
    PROVE  MemoryInv(n)
<1> USE PipelineAssumption DEF Moved
<1>1. \A t \in Tasks : Missing(n, t) = Missing(m, t)
  BY DEF Missing
<1>2. \A t \in Tasks, h \in Firsts : Holds(n, h, t) <=> Holds(m, h, t) /\ h # g
  BY DEF Holds
<1>3. \A t \in Tasks : ~Holds(m, g, t)
  BY DEF Holds
<1>4. \A t \in Tasks, h \in Firsts : Holds(m, h, t) => n.step[h] = m.step[h]
  BY <1>3 DEF Holds
<1>5. m.preds[m.at[g]] = 0 <=> Missing(m, m.at[g]) = {}
  BY MissingIsFinite DEF MemoryInv, Counted
<1>6. Counted(n)
  BY <1>1, <1>5 DEF MemoryInv, Counted
<1>7. Held(n) /\ Resulted(n)
  BY <1>2, <1>3, <1>4 DEF MemoryInv, Held, Resulted, PassedOn
<1>8. Awaited(n)
  BY <1>1, <1>5 DEF MemoryInv, Awaited, LooseMemory
<1> QED
  BY <1>6, <1>7, <1>8 DEF MemoryInv

\* ClaimTask of a task that is not taken.
LEMMA ClaimKeeps ==
    ASSUME NEW m, MemoryInv(m), NEW n, NEW g \in Firsts, m.at[g] \in Tasks,
           m.step[g] = "claim", m.at[g] \notin m.finished, Moved(m, n, g, m.at[g], "execute"),
           n.preds = m.preds, n.finished = m.finished \cup {m.at[g]}, n.inputs = m.inputs,
           n.used = m.used, n.results = m.results
    PROVE  MemoryInv(n)
<1> USE PipelineAssumption DEF Moved
<1> DEFINE c == m.at[g]
<1>1. \A t \in Tasks : Missing(n, t) = Missing(m, t)
  BY DEF Missing
<1>2. \A t \in Tasks, h \in Firsts : Holds(n, h, t) <=> Holds(m, h, t) \/ (h = g /\ t = c)
  BY DEF Holds
<1>3. \A h \in Firsts : ~Holds(m, h, c)
  BY DEF MemoryInv, Held
<1>4. \A t \in Tasks : ~Holds(m, g, t)
  BY DEF Holds
<1>5. Missing(m, c) = {}
  BY DEF MemoryInv, Counted
<1>6. m.results[c] = 0 /\ \A t \in Tasks : c \notin m.inputs[t]
  BY DEF MemoryInv, Resulted, Counted
<1>7. Counted(n)
  BY <1>1, <1>5 DEF MemoryInv, Counted
<1>8. Held(n)
  <2> SUFFICES ASSUME NEW t \in Tasks, NEW h \in Firsts, Holds(n, h, t)
               PROVE  /\ t \in n.finished
                      /\ Successor[t] # NULL => t \notin n.inputs[Successor[t]]
                      /\ n.results[t] = IF n.step[h] = "execute" THEN 0 ELSE 1
                      /\ \A i \in Firsts : Holds(n, i, t) => i = h
    BY DEF Held
  <2>1. CASE h = g
    BY <1>2, <1>3, <1>4, <1>6, <2>1 DEF Holds
  <2>2. CASE h # g
    BY <1>2, <1>3, <2>2 DEF MemoryInv, Held
  <2> QED
    BY <2>1, <2>2
<1>9. Resulted(n)
  BY <1>2, <1>6 DEF MemoryInv, Resulted, PassedOn
<1>10. Awaited(n)
  BY <1>1 DEF MemoryInv, Awaited
<1> QED
  BY <1>7, <1>8, <1>9, <1>10 DEF MemoryInv

LEMMA ExecuteKeeps ==
    ASSUME NEW m, MemoryInv(m), NEW n, NEW g \in Firsts, m.at[g] \in Tasks,
           m.step[g] = "execute", Moved(m, n, g, m.at[g], "pass"),
           n.preds = m.preds, n.finished = m.finished, n.inputs = m.inputs,
           n.used = [m.used EXCEPT ![m.at[g]] = m.inputs[m.at[g]]],
           n.results = [m.results EXCEPT ![m.at[g]] = @ + 1]
    PROVE  MemoryInv(n)
<1> USE PipelineAssumption DEF Moved
<1> DEFINE c == m.at[g]
<1>1. \A t \in Tasks : Missing(n, t) = Missing(m, t)
  BY DEF Missing
<1>2. \A t \in Tasks, h \in Firsts : Holds(n, h, t) <=> Holds(m, h, t)
  BY DEF Holds
<1>3. Holds(m, g, c) /\ \A h \in Firsts : Holds(m, h, c) => h = g
  BY DEF Holds, MemoryInv, Held
<1>4. c \in m.finished /\ m.results[c] = 0
  BY <1>3 DEF MemoryInv, Held
<1>5. m.inputs[c] = Predecessors(c)
  BY <1>4 DEF MemoryInv, Counted, Missing
<1>6. /\ n.results[c] = 1 /\ n.used[c] = Predecessors(c)
      /\ \A t \in Tasks \ {c} : n.results[t] = m.results[t] /\ n.used[t] = m.used[t]
  BY <1>4, <1>5 DEF MemoryInv, LooseMemory
<1>7. Counted(n)
  BY <1>1 DEF MemoryInv, Counted
<1>8. Held(n)
  <2> SUFFICES ASSUME NEW t \in Tasks, NEW h \in Firsts, Holds(n, h, t)
               PROVE  /\ t \in n.finished
                      /\ Successor[t] # NULL => t \notin n.inputs[Successor[t]]
                      /\ n.results[t] = IF n.step[h] = "execute" THEN 0 ELSE 1
                      /\ \A i \in Firsts : Holds(n, i, t) => i = h
    BY DEF Held
  <2>1. CASE t = c
    BY <1>2, <1>3, <1>6, <2>1 DEF MemoryInv, Held
  <2>2. CASE t # c
    <3>1. h # g
      BY <1>2, <2>2 DEF Holds
    <3> QED
      BY <1>2, <1>6, <2>2, <3>1 DEF MemoryInv, Held
  <2> QED
    BY <2>1, <2>2
<1>9. Resulted(n)
  BY <1>2, <1>3, <1>4, <1>6 DEF MemoryInv, Resulted, PassedOn
<1>10. Awaited(n)
  BY <1>1 DEF MemoryInv, Awaited
<1> QED
  BY <1>7, <1>8, <1>9, <1>10 DEF MemoryInv

\* PassResult of a last task.
LEMMA LastKeeps ==
    ASSUME NEW m, MemoryInv(m), NEW n, NEW g \in Firsts, m.at[g] \in Tasks,
           m.step[g] = "pass", Successor[m.at[g]] = NULL, Moved(m, n, g, NULL, "check"),
           n.preds = m.preds, n.finished = m.finished, n.inputs = m.inputs,
           n.used = m.used, n.results = m.results
    PROVE  MemoryInv(n)
<1> USE PipelineAssumption DEF Moved
<1> DEFINE c == m.at[g]
<1>1. \A t \in Tasks : Missing(n, t) = Missing(m, t)
  BY DEF Missing
<1>2. \A t \in Tasks, h \in Firsts : Holds(n, h, t) <=> Holds(m, h, t) /\ h # g
  BY DEF Holds
<1>3. Holds(m, g, c) /\ m.results[c] = 1
  BY DEF Holds, MemoryInv, Held
<1>4. Counted(n)
  BY <1>1 DEF MemoryInv, Counted
<1>5. Held(n)
  BY <1>2 DEF MemoryInv, Held
<1>6. Resulted(n)
  <2> SUFFICES ASSUME NEW t \in Tasks, t \in m.finished
               PROVE  (\E h \in Firsts : Holds(n, h, t)) \/ (m.results[t] = 1 /\ PassedOn(n, t))
    BY DEF MemoryInv, Resulted
  <2>1. CASE t = c
    BY <1>3, <2>1 DEF PassedOn
  <2>2. CASE t # c
    <3>1. ~Holds(m, g, t)
      BY <2>2 DEF Holds
    <3> QED
      BY <1>2, <3>1 DEF MemoryInv, Resulted, PassedOn
  <2> QED
    BY <2>1, <2>2
<1>7. Awaited(n)
  BY <1>1 DEF MemoryInv, Awaited
<1> QED
  BY <1>4, <1>5, <1>6, <1>7 DEF MemoryInv

\* PassResult of any other: one input less is missing at the successor.
LEMMA PassKeeps ==
    ASSUME NEW m, MemoryInv(m), NEW n, NEW g \in Firsts, m.at[g] \in Tasks,
           m.step[g] = "pass", NEW next \in Tasks, next = Successor[m.at[g]],
           Moved(m, n, g, next, "check"), n.finished = m.finished,
           n.inputs = [m.inputs EXCEPT ![next] = @ \cup {m.at[g]}],
           n.preds = [m.preds EXCEPT ![next] = @ - 1],
           n.used = m.used, n.results = m.results
    PROVE  MemoryInv(n)
<1> USE PipelineAssumption DEF Moved
<1> DEFINE c == m.at[g]
<1>1. Holds(m, g, c) /\ c \in m.finished /\ c \notin m.inputs[next] /\ m.results[c] = 1
  BY DEF Holds, MemoryInv, Held
<1>2. \A h \in Firsts : Holds(m, h, c) => h = g
  BY <1>1 DEF MemoryInv, Held
<1>3. c \in Predecessors(next)
  BY DEF Predecessors
<1>4. /\ n.inputs[next] = m.inputs[next] \cup {c} /\ n.preds[next] = m.preds[next] - 1
      /\ \A t \in Tasks \ {next} : n.inputs[t] = m.inputs[t] /\ n.preds[t] = m.preds[t]
  BY DEF MemoryInv, LooseMemory
<1>5. /\ Missing(n, next) = Missing(m, next) \ {c} /\ c \in Missing(m, next)
      /\ \A t \in Tasks \ {next} : Missing(n, t) = Missing(m, t)
  BY <1>1, <1>3, <1>4 DEF Missing
<1>6. Cardinality(Missing(n, next)) = Cardinality(Missing(m, next)) - 1
  BY <1>5, MissingIsFinite, FS_RemoveElement
<1>7. next \notin m.finished
  BY <1>5 DEF MemoryInv, Counted
<1>8. \A t \in Tasks, h \in Firsts : Holds(n, h, t) <=> Holds(m, h, t) /\ h # g
  BY DEF Holds
<1>9. Counted(n)
  <2>1. ASSUME NEW t \in Tasks
        PROVE  /\ n.inputs[t] \subseteq Predecessors(t) \cap n.finished
               /\ n.preds[t] = Cardinality(Missing(n, t))
               /\ t \in n.finished => Missing(n, t) = {}
    <3>1. CASE t = next
      BY <1>1, <1>3, <1>4, <1>6, <1>7, <3>1 DEF MemoryInv, Counted
    <3>2. CASE t # next
      BY <1>4, <1>5, <3>2 DEF MemoryInv, Counted
    <3> QED
      BY <3>1, <3>2
  <2>2. ASSUME NEW t \in Tasks, NEW h \in Firsts, n.at[h] = t, n.step[h] = "claim"
        PROVE  Missing(n, t) = {}
    <3>1. h # g /\ m.at[h] = t /\ m.step[h] = "claim"
      BY <2>2
    <3>2. Missing(m, t) = {}
      BY <3>1 DEF MemoryInv, Counted
    <3> QED
      BY <1>5, <3>1, <3>2
  <2> QED
    BY <2>1, <2>2 DEF Counted
<1>10. Held(n)
  <2> SUFFICES ASSUME NEW t \in Tasks, NEW h \in Firsts, Holds(n, h, t)
               PROVE  /\ t \in n.finished
                      /\ Successor[t] # NULL => t \notin n.inputs[Successor[t]]
                      /\ n.results[t] = IF n.step[h] = "execute" THEN 0 ELSE 1
                      /\ \A i \in Firsts : Holds(n, i, t) => i = h
    BY DEF Held
  <2>1. Holds(m, h, t) /\ h # g /\ t # c /\ n.step[h] = m.step[h]
    BY <1>2, <1>8
  <2>2. Successor[t] # NULL => t \notin m.inputs[Successor[t]]
    BY <2>1 DEF MemoryInv, Held
  <2>3. Successor[t] # NULL => t \notin n.inputs[Successor[t]]
    BY <1>4, <2>1, <2>2
  <2> QED
    BY <1>8, <2>1, <2>3 DEF MemoryInv, Held
<1>11. Resulted(n)
  <2> SUFFICES ASSUME NEW t \in Tasks, t \in m.finished
               PROVE  (\E h \in Firsts : Holds(n, h, t)) \/ (m.results[t] = 1 /\ PassedOn(n, t))
    BY DEF MemoryInv, Resulted
  <2>1. CASE t = c
    BY <1>1, <1>4, <2>1 DEF PassedOn
  <2>2. CASE t # c
    <3>1. ~Holds(m, g, t)
      BY <2>2 DEF Holds
    <3>2. PassedOn(m, t) => PassedOn(n, t)
      BY <1>4 DEF PassedOn
    <3> QED
      BY <1>8, <3>1, <3>2 DEF MemoryInv, Resulted
  <2> QED
    BY <2>1, <2>2
<1>12. Awaited(n)
  <2> SUFFICES ASSUME NEW t \in Tasks, t \notin m.finished, Missing(n, t) = {}
               PROVE  \E h \in Firsts : n.at[h] = t /\ n.step[h] \in {"check", "claim"}
    BY DEF Awaited
  <2>1. CASE t = next
    BY <2>1
  <2>2. CASE t # next
    <3>1. PICK h \in Firsts : m.at[h] = t /\ m.step[h] \in {"check", "claim"}
      BY <1>5, <2>2 DEF MemoryInv, Awaited
    <3> QED
      BY <3>1
  <2> QED
    BY <2>1, <2>2
<1> QED
  BY <1>9, <1>10, <1>11, <1>12 DEF MemoryInv

\* When all goroutines are done, there is a result of every task: of those
\* without one, one would have all its inputs.
LEMMA AllHaveResults ==
    ASSUME NEW m, MemoryInv(m), \A g \in Firsts : m.at[g] = NULL
    PROVE  \A t \in Tasks : m.results[t] = 1
<1> USE PipelineAssumption
<1>1. \A t \in Tasks, g \in Firsts : ~Holds(m, g, t)
  BY DEF Holds
<1>2. \A t \in m.finished : t \in Tasks /\ m.results[t] = 1 /\ PassedOn(m, t)
  BY <1>1 DEF MemoryInv, LooseMemory, Resulted
<1> DEFINE U == Tasks \ m.finished
<1>3. ASSUME U # {} PROVE FALSE
  <2>1. PICK t \in U : Predecessors(t) \cap U = {}
    BY <1>3, AcyclicAssumption
  <2>2. Predecessors(t) \subseteq m.inputs[t]
    BY <1>2, <2>1 DEF Predecessors, PassedOn
  <2>3. Missing(m, t) = {}
    BY <2>2 DEF Missing
  <2> QED
    BY <2>1, <2>3 DEF MemoryInv, Awaited
<1> QED
  BY <1>2, <1>3

-----------------------------------------------------------------------------
(* The fan-in, as the workers go on *)

Memories == \A w \in Workers : MemoryInv(worker[w].mem)

\* The results of a run are stored when it is finished.
StoredAtFinish ==
    /\ stored \in [RunId -> SUBSET Tasks]
    /\ \A r \in RunId : stored[r] = IF row[r] \in {"finished", "reaped"} THEN Tasks ELSE {}

Counts == timeouts \in 0 .. MaxTimeouts /\ crashes \in 0 .. MaxCrashes

FanInInv == IInv /\ Memories /\ StoredAtFinish /\ Counts

LEMMA GoesMoves ==
    ASSUME Shape, NEW w \in Workers, NEW g \in Firsts, NEW mem \in LooseMemory,
           NEW t \in Tasks \cup {NULL}, NEW step \in {"check", "claim", "execute", "pass"},
           Goes(w, g, mem, t, step)
    PROVE  LET n == worker'[w].mem
           IN  /\ Moved(mem, n, g, t, step)
               /\ n.preds = mem.preds /\ n.finished = mem.finished /\ n.inputs = mem.inputs
               /\ n.used = mem.used /\ n.results = mem.results
               /\ \A v \in Workers \ {w} : worker'[v] = worker[v]
<1> DEFINE new == [mem EXCEPT !.at[g] = t, !.step[g] = step]
<1>1. worker' = [worker EXCEPT ![w].mem = new]
  BY DEF Goes
<1>2. new \in LooseMemory
  BY DEF LooseMemory
<1>3. /\ new.preds = mem.preds /\ new.finished = mem.finished /\ new.inputs = mem.inputs
      /\ new.used = mem.used /\ new.results = mem.results
  BY DEF LooseMemory
<1>4. /\ new.at[g] = t /\ new.step[g] = step
      /\ \A h \in Firsts \ {g} : new.at[h] = mem.at[h] /\ new.step[h] = mem.step[h]
  BY DEF LooseMemory
<1> HIDE DEF new
<1>5. worker'[w].mem = new /\ \A v \in Workers \ {w} : worker'[v] = worker[v]
  BY <1>1 DEF Shape
<1> QED
  BY <1>2, <1>3, <1>4, <1>5 DEF Moved

\* Each step of a goroutine keeps the memory of its worker in order.
LEMMA GoroutineKeeps ==
    ASSUME Shape, Memories, NEW w \in Workers, NEW g \in Firsts, GoroutineStep(w, g)
    PROVE  Memories'
<1> USE PipelineAssumption
<1> DEFINE m == worker[w].mem
           n == worker'[w].mem
           c == m.at[g]
<1>1. MemoryInv(m) /\ m \in LooseMemory
  BY DEF Memories, MemoryInv
<1>2. c \in Tasks
  <2>1. c # NULL
    BY DEF GoroutineStep, CheckPredecessors, ClaimTask, ExecuteTask, PassResult, Step
  <2> QED
    BY <1>1, <2>1 DEF LooseMemory
<1>3. ASSUME MemoryInv(n), \A v \in Workers \ {w} : worker'[v] = worker[v]
      PROVE  Memories'
  BY <1>3 DEF Memories
<1>4. ASSUME CheckPredecessors(w, g) PROVE Memories'
  <2>1. m.step[g] = "check" /\ m.preds[c] \in Nat
    BY <1>1, <1>2, <1>4, MissingIsFinite DEF CheckPredecessors, Step, MemoryInv, Counted
  <2>2. CASE m.preds[c] > 0
    <3>1. Goes(w, g, m, NULL, "check")
      BY <1>4, <2>2 DEF CheckPredecessors, Ends
    <3> HIDE DEF m, n
    <3>2. /\ Moved(m, n, g, NULL, "check")
          /\ n.preds = m.preds /\ n.finished = m.finished /\ n.inputs = m.inputs
          /\ n.used = m.used /\ n.results = m.results
          /\ \A v \in Workers \ {w} : worker'[v] = worker[v]
      BY <1>1, <3>1, GoesMoves DEF n
    <3> QED
      BY <1>1, <1>2, <1>3, <2>1, <2>2, <3>2, CheckKeeps
  <2>3. CASE m.preds[c] = 0
    <3>1. Goes(w, g, m, c, "claim")
      BY <1>4, <2>3 DEF CheckPredecessors
    <3> HIDE DEF m, n
    <3>2. /\ Moved(m, n, g, c, "claim")
          /\ n.preds = m.preds /\ n.finished = m.finished /\ n.inputs = m.inputs
          /\ n.used = m.used /\ n.results = m.results
          /\ \A v \in Workers \ {w} : worker'[v] = worker[v]
      BY <1>1, <1>2, <3>1, GoesMoves DEF n
    <3> QED
      BY <1>1, <1>2, <1>3, <2>1, <2>3, <3>2, CheckKeeps
  <2> HIDE DEF m, c
  <2> QED
    BY <2>1, <2>2, <2>3
<1>5. ASSUME ClaimTask(w, g) PROVE Memories'
  <2>1. m.step[g] = "claim"
    BY <1>5 DEF ClaimTask, Step
  <2>2. CASE c \in m.finished
    <3>1. Goes(w, g, m, NULL, "check")
      BY <1>5, <2>2 DEF ClaimTask, Ends
    <3> HIDE DEF m, n
    <3>2. /\ Moved(m, n, g, NULL, "check")
          /\ n.preds = m.preds /\ n.finished = m.finished /\ n.inputs = m.inputs
          /\ n.used = m.used /\ n.results = m.results
          /\ \A v \in Workers \ {w} : worker'[v] = worker[v]
      BY <1>1, <3>1, GoesMoves DEF n
    <3> QED
      BY <1>1, <1>2, <1>3, <2>1, <2>2, <3>2, CheckKeeps
  <2>3. CASE c \notin m.finished
    <3> DEFINE mem == [m EXCEPT !.finished = @ \cup {c}]
    <3>1. Goes(w, g, mem, c, "execute")
      BY <1>5, <2>3 DEF ClaimTask
    <3>2. /\ mem \in LooseMemory /\ mem.preds = m.preds /\ mem.inputs = m.inputs
          /\ mem.used = m.used /\ mem.results = m.results /\ mem.at = m.at /\ mem.step = m.step
          /\ mem.finished = m.finished \cup {c}
      BY <1>1, <1>2 DEF LooseMemory
    <3> HIDE DEF m, n, mem
    <3>3. /\ Moved(mem, n, g, c, "execute")
          /\ n.preds = mem.preds /\ n.finished = mem.finished /\ n.inputs = mem.inputs
          /\ n.used = mem.used /\ n.results = mem.results
          /\ \A v \in Workers \ {w} : worker'[v] = worker[v]
      BY <1>2, <3>1, <3>2, GoesMoves DEF n
    <3>4. Moved(m, n, g, c, "execute")
      BY <3>2, <3>3 DEF Moved
    <3> QED
      BY <1>1, <1>2, <1>3, <2>1, <2>3, <3>2, <3>3, <3>4, ClaimKeeps
  <2> QED
    BY <2>2, <2>3
<1>6. ASSUME ExecuteTask(w, g) PROVE Memories'
  <2> DEFINE mem == [m EXCEPT !.used[c] = m.inputs[c], !.results[c] = @ + 1]
  <2>1. m.step[g] = "execute" /\ Goes(w, g, mem, c, "pass")
    BY <1>6 DEF ExecuteTask, Step
  <2>2. /\ mem.preds = m.preds /\ mem.finished = m.finished /\ mem.inputs = m.inputs
        /\ mem.used = [m.used EXCEPT ![c] = m.inputs[c]]
        /\ mem.results = [m.results EXCEPT ![c] = @ + 1]
        /\ mem.at = m.at /\ mem.step = m.step
    BY <1>1 DEF LooseMemory
  <2>3. /\ [m.used EXCEPT ![c] = m.inputs[c]] \in [Tasks -> SUBSET Tasks]
        /\ [m.results EXCEPT ![c] = @ + 1] \in [Tasks -> Nat]
    BY <1>1, <1>2 DEF LooseMemory
  <2>4. mem \in LooseMemory
    BY <1>1, <1>2, <2>3 DEF LooseMemory
  <2> HIDE DEF m, n, mem
  <2>5. /\ Moved(mem, n, g, c, "pass")
        /\ n.preds = mem.preds /\ n.finished = mem.finished /\ n.inputs = mem.inputs
        /\ n.used = mem.used /\ n.results = mem.results
        /\ \A v \in Workers \ {w} : worker'[v] = worker[v]
    BY <1>2, <2>1, <2>4, GoesMoves DEF n
  <2>6. Moved(m, n, g, c, "pass")
    BY <2>2, <2>5 DEF Moved
  <2> QED
    BY <1>1, <1>2, <1>3, <2>1, <2>2, <2>5, <2>6, ExecuteKeeps
<1>7. ASSUME PassResult(w, g) PROVE Memories'
  <2> DEFINE next == Successor[c]
  <2>1. m.step[g] = "pass"
    BY <1>7 DEF PassResult, Step
  <2>2. CASE next = NULL
    <3>1. Goes(w, g, m, NULL, "check")
      BY <1>7, <2>2 DEF PassResult, Ends
    <3> HIDE DEF m, n
    <3>2. /\ Moved(m, n, g, NULL, "check")
          /\ n.preds = m.preds /\ n.finished = m.finished /\ n.inputs = m.inputs
          /\ n.used = m.used /\ n.results = m.results
          /\ \A v \in Workers \ {w} : worker'[v] = worker[v]
      BY <1>1, <3>1, GoesMoves DEF n
    <3> QED
      BY <1>1, <1>2, <1>3, <2>1, <2>2, <3>2, LastKeeps
  <2>3. CASE next # NULL
    <3> DEFINE mem == [m EXCEPT !.inputs[next] = @ \cup {c}, !.preds[next] = @ - 1]
    <3>1. next \in Tasks
      BY <1>2, <2>3
    <3>2. Goes(w, g, mem, next, "check")
      BY <1>7, <2>3 DEF PassResult
    <3>3. /\ mem.preds = [m.preds EXCEPT ![next] = @ - 1] /\ mem.finished = m.finished
          /\ mem.inputs = [m.inputs EXCEPT ![next] = @ \cup {c}]
          /\ mem.used = m.used /\ mem.results = m.results /\ mem.at = m.at /\ mem.step = m.step
      BY <1>1 DEF LooseMemory
    <3>4. /\ [m.inputs EXCEPT ![next] = @ \cup {c}] \in [Tasks -> SUBSET Tasks]
          /\ [m.preds EXCEPT ![next] = @ - 1] \in [Tasks -> Int]
      BY <1>1, <1>2, <3>1 DEF LooseMemory
    <3>5. mem \in LooseMemory
      BY <1>1, <3>1, <3>4 DEF LooseMemory
    <3> HIDE DEF m, n, mem, next
    <3>6. /\ Moved(mem, n, g, next, "check")
          /\ n.preds = mem.preds /\ n.finished = mem.finished /\ n.inputs = mem.inputs
          /\ n.used = mem.used /\ n.results = mem.results
          /\ \A v \in Workers \ {w} : worker'[v] = worker[v]
      BY <3>1, <3>2, <3>5, GoesMoves DEF n
    <3>7. Moved(m, n, g, next, "check")
      BY <3>3, <3>6 DEF Moved
    <3>8. next = Successor[m.at[g]]
      BY DEF next
    <3> QED
      BY <1>1, <1>2, <1>3, <2>1, <3>1, <3>3, <3>6, <3>7, <3>8, PassKeeps
  <2> QED
    BY <2>2, <2>3
<1> QED
  BY <1>4, <1>5, <1>6, <1>7 DEF GoroutineStep

\* A worker whose memory is as at the beginning.
LEMMA FreshMemory ==
    ASSUME Memories, NEW w \in Workers, worker'[w].mem = Memory,
           \A v \in Workers \ {w} : worker'[v].mem = worker[v].mem
    PROVE  Memories'
  BY MemoryBegins DEF Memories

\* What is stored is a result of every task.
LEMMA FinishStoresAll ==
    ASSUME Shape, StoredAtFinish, NEW w \in Workers, MemoryInv(worker[w].mem), AllDone(w),
           NEW r \in RunId, Finish(w, r)
    PROVE  StoredAtFinish'
<1> DEFINE m == worker[w].mem
<1>1. \A g \in Firsts : m.at[g] = NULL
  BY DEF AllDone
<1> HIDE DEF m
<1>2. \A t \in Tasks : m.results[t] = 1
  BY <1>1, AllHaveResults DEF m
<1>3. {t \in Tasks : m.results[t] > 0} = Tasks
  BY <1>2
<1>4. row' = [row EXCEPT ![r] = "finished"] /\ stored' = [stored EXCEPT ![r] = Tasks]
  BY <1>3 DEF Finish, m
<1> QED
  BY <1>4 DEF Shape, StoredAtFinish

LEMMA FanInStep ==
    ASSUME FanInInv, [Next]_vars
    PROVE  FanInInv'
<1> USE PipelineAssumption
<1>0. IInv' /\ Shape /\ Memories /\ StoredAtFinish
  BY Step1 DEF FanInInv, IInv
<1>1. Counts'
  <2>1. timeouts \in 0 .. MaxTimeouts /\ crashes \in 0 .. MaxCrashes
    BY DEF FanInInv, Counts
  <2>2. CASE UNCHANGED <<timeouts, crashes>>
    BY <2>1, <2>2 DEF Counts
  <2>3. CASE \E w \in Workers : TxTimesOut(w)
    BY <2>1, <2>3 DEF TxTimesOut, Counts
  <2>4. CASE Crash
    BY <2>1, <2>4 DEF Crash, Counts
  <2>5. ASSUME NEW w \in Workers, TakeRun(w) \/ ExecuteNew(w) \/ CommitRun(w) \/ InsertFinishedRun(w)
        PROVE  UNCHANGED <<timeouts, crashes>>
    BY <2>5 DEF TakeRun, ExecuteNew, CommitRun, InsertFinishedRun, counts
  <2>6. ASSUME NEW w \in Workers, NEW g \in Firsts, GoroutineStep(w, g)
        PROVE  UNCHANGED <<timeouts, crashes>>
    BY <2>6 DEF GoroutineStep, CheckPredecessors, ClaimTask, ExecuteTask, PassResult, Ends, Goes, counts
  <2>7. ASSUME NEW r \in RunId,
               AwaitRun(r) \/ Subscribe(r) \/ AwaitPolled(r) \/ AwaitNotified(r) \/ AwaitFails(r)
                  \/ Reap(r)
        PROVE  UNCHANGED <<timeouts, crashes>>
    BY <2>7 DEF AwaitRun, Subscribe, AwaitPolled, AwaitNotified, AwaitFails, Reap, Moves, counts
  <2>8. ASSUME CreateRun \/ UNCHANGED vars
        PROVE  UNCHANGED <<timeouts, crashes>>
    BY <2>8 DEF CreateRun, vars, counts
  <2> QED
    BY <2>2, <2>3, <2>4, <2>5, <2>6, <2>7, <2>8 DEF Next
<1>2. ASSUME NEW w \in Workers, NEW g \in Firsts, GoroutineStep(w, g)
      PROVE  Memories' /\ StoredAtFinish'
  <2>1. UNCHANGED <<row, stored>>
    BY <1>2 DEF GoroutineStep, CheckPredecessors, ClaimTask, ExecuteTask, PassResult, Ends, Goes, tables
  <2> QED
    BY <1>0, <1>2, <2>1, GoroutineKeeps DEF StoredAtFinish
<1>3. ASSUME NEW w \in Workers, TakeRun(w) \/ ExecuteNew(w)
      PROVE  Memories' /\ StoredAtFinish'
  <2>1. UNCHANGED <<row, stored>>
    BY <1>3 DEF TakeRun, ExecuteNew, tables
  <2>2. ASSUME TakeRun(w)
        PROVE  worker'[w].mem = Memory /\ \A v \in Workers \ {w} : worker'[v].mem = worker[v].mem
    <3>1. PICK r \in Available :
             worker' = [worker EXCEPT ![w] = [Idle EXCEPT !.pc = "tasks", !.run = r, !.tx = TRUE]]
      BY <2>2 DEF TakeRun
    <3>2. worker'[w] = [pc |-> "tasks", run |-> r, tx |-> TRUE, mem |-> Memory]
      BY <1>0, <3>1 DEF Idle, Shape
    <3> QED
      BY <1>0, <3>1, <3>2 DEF Shape
  <2>3. ASSUME ExecuteNew(w)
        PROVE  worker'[w].mem = Memory /\ \A v \in Workers \ {w} : worker'[v].mem = worker[v].mem
    <3>1. worker' = [worker EXCEPT ![w] = [Idle EXCEPT !.pc = "tasks"]]
      BY <2>3 DEF ExecuteNew
    <3>2. worker'[w] = [pc |-> "tasks", run |-> NULL, tx |-> FALSE, mem |-> Memory]
      BY <1>0, <3>1 DEF Idle, Shape
    <3> QED
      BY <1>0, <3>1, <3>2 DEF Shape
  <2>4. worker'[w].mem = Memory /\ \A v \in Workers \ {w} : worker'[v].mem = worker[v].mem
    BY <1>3, <2>2, <2>3
  <2> QED
    BY <1>0, <2>1, <2>4, FreshMemory DEF StoredAtFinish
<1>4. ASSUME NEW w \in Workers, TxTimesOut(w)
      PROVE  Memories' /\ StoredAtFinish'
  <2>1. UNCHANGED <<row, stored>> /\ \A v \in Workers : worker'[v].mem = worker[v].mem
    BY <1>0, <1>4 DEF TxTimesOut, tables, Shape
  <2> QED
    BY <1>0, <2>1 DEF Memories, StoredAtFinish
<1>5. ASSUME NEW w \in Workers, CommitRun(w) \/ InsertFinishedRun(w)
      PROVE  Memories' /\ StoredAtFinish'
  <2>1. worker'[w].mem = Memory /\ \A v \in Workers \ {w} : worker'[v].mem = worker[v].mem
    BY <1>0, <1>5 DEF CommitRun, InsertFinishedRun, Idle, Shape
  <2>2. \/ UNCHANGED tables
        \/ \E r \in RunId : AllDone(w) /\ Finish(w, r)
    BY <1>0, <1>5 DEF CommitRun, InsertFinishedRun, Shape
  <2>3. StoredAtFinish'
    BY <1>0, <2>2, FinishStoresAll DEF tables, StoredAtFinish, Memories
  <2> QED
    BY <1>0, <2>1, <2>3, FreshMemory
<1>6. ASSUME CreateRun \/ \E r \in RunId : Reap(r)
      PROVE  Memories' /\ StoredAtFinish'
  BY <1>0, <1>6 DEF CreateRun, Reap, Memories, StoredAtFinish, Shape
<1>7. ASSUME NEW r \in RunId, AwaitRun(r) \/ Subscribe(r) \/ AwaitPolled(r) \/ AwaitNotified(r)
                \/ AwaitFails(r)
      PROVE  Memories' /\ StoredAtFinish'
  BY <1>0, <1>7 DEF AwaitRun, Subscribe, AwaitPolled, AwaitNotified, AwaitFails, Moves, tables, Memories, StoredAtFinish
<1>8. ASSUME Crash
      PROVE  Memories' /\ StoredAtFinish'
  <2>1. UNCHANGED <<row, stored>> /\ \A v \in Workers : worker'[v].mem = Memory
    BY <1>8 DEF Crash, tables, Idle
  <2> QED
    BY <1>0, <2>1, MemoryBegins DEF Memories, StoredAtFinish
<1>9. ASSUME UNCHANGED vars
      PROVE  Memories' /\ StoredAtFinish'
  BY <1>0, <1>9 DEF vars, tables, Memories, StoredAtFinish
<1>10. Memories' /\ StoredAtFinish'
  BY <1>2, <1>3, <1>4, <1>5, <1>6, <1>7, <1>8, <1>9 DEF Next
<1> QED
  BY <1>0, <1>1, <1>10 DEF FanInInv

-----------------------------------------------------------------------------
\* A live transaction has its row to itself, and no run is finished twice.
THEOREM Transactions == Spec => []IInv
<1>1. Init => IInv
  BY PipelineAssumption, MemoryIsTyped
  DEF Init, IInv, Shape, HasRow, Alone, FinishedOnce, RunFinished, Unfinished, Idle
<1>2. IInv /\ [Next]_vars => IInv'
  BY Step1
<1> QED
  BY <1>1, <1>2, PTL DEF Spec

\* A run is finished once, and AwaitRun does not return without an error
\* before that.
THEOREM EachRunOnce == Spec => []FinishedOnce
<1>1. IInv => FinishedOnce
  BY DEF IInv
<1> QED
  BY <1>1, Transactions, PTL

\* A counter of predecessors says how many are missing, and what was claimed
\* is in one goroutine's hand or was executed and passed on.
THEOREM Executions == Spec => []FanInInv
<1>1. Init => IInv
  BY PipelineAssumption, MemoryIsTyped
  DEF Init, IInv, Shape, HasRow, Alone, FinishedOnce, RunFinished, Unfinished, Idle
<1>2. Init => Memories /\ StoredAtFinish /\ Counts
  BY PipelineAssumption, MemoryBegins DEF Init, Memories, StoredAtFinish, Counts, Idle
<1>3. FanInInv /\ [Next]_vars => FanInInv'
  BY FanInStep
<1>4. Init => FanInInv
  BY <1>1, <1>2 DEF FanInInv
<1> QED
  BY <1>3, <1>4, PTL DEF Spec

\* Where chains meet exactly one goroutine goes on (the counter and the mutex
\* of executeRun), so that a finished run has one result of every task.
THEOREM EachTaskOnce == Spec => []FanIn
<1>1. ASSUME FanInInv PROVE FanIn
  <2>1. ASSUME NEW w \in Workers, NEW t \in Tasks, worker[w].mem.results[t] > 0
        PROVE  worker[w].mem.results[t] = 1 /\ worker[w].mem.used[t] = Predecessors(t)
    BY <1>1, <2>1 DEF FanInInv, Memories, MemoryInv, Resulted
  <2> QED
    BY <1>1, <2>1 DEF FanInInv, StoredAtFinish, FanIn
<1> QED
  BY <1>1, Executions, PTL

\* The rows and the memories of the workers keep their types; in particular no
\* counter of predecessors falls below zero.
THEOREM RunnerTypeCorrect == Spec => []TypeOK
<1>1. ASSUME FanInInv PROVE TypeOK
  <2>1. ASSUME NEW w \in Workers
        PROVE  /\ worker[w].pc \in {"idle", "tasks"} /\ worker[w].run \in RunId \cup {NULL}
               /\ worker[w].tx \in BOOLEAN /\ worker[w].mem \in MemoryType
    <3> DEFINE m == worker[w].mem
    <3>1. m \in LooseMemory /\ MemoryInv(m)
      BY <1>1 DEF FanInInv, Memories, MemoryInv
    <3> HIDE DEF m
    <3>2. \A t \in Tasks : m.preds[t] \in 0 .. Cardinality(Tasks)
      <4> SUFFICES ASSUME NEW t \in Tasks PROVE m.preds[t] \in 0 .. Cardinality(Tasks)
        OBVIOUS
      <4>1. Missing(m, t) \subseteq Tasks
        BY DEF Missing, Predecessors
      <4>2. Cardinality(Missing(m, t)) <= Cardinality(Tasks) /\ Cardinality(Tasks) \in Nat
        BY <4>1, PipelineAssumption, FS_Subset, FS_CardinalityType
      <4> QED
        BY <3>1, <4>2, MissingIsFinite DEF MemoryInv, Counted
    <3>3. m.preds \in [Tasks -> 0 .. Cardinality(Tasks)]
      BY <3>1, <3>2 DEF LooseMemory
    <3>4. m \in MemoryType
      BY <3>1, <3>3 DEF LooseMemory, MemoryType
    <3> QED
      BY <1>1, <3>4 DEF m, FanInInv, IInv, Shape
  <2> QED
    BY <1>1, <2>1 DEF FanInInv, IInv, Shape, StoredAtFinish, Counts, TypeOK
<1> QED
  BY <1>1, Executions, PTL

=============================================================================

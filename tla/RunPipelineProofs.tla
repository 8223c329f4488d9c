--------------------------- MODULE RunPipelineProofs ---------------------------
(***************************************************************************)
(* Proofs about RunPipeline, for any jobs, runs, goroutines, heights,      *)
(* connections and crashes.                                                *)
(*                                                                         *)
(* Every row and every copy of it has its tasks in order: completed up to  *)
(* the one it is at, and untouched after it.  What changes a copy keeps    *)
(* this, and a save that is not refused replaces a row that has not ended. *)
(***************************************************************************)
EXTENDS RunPipeline, SequenceTheorems, WellFoundedInduction, TLAPS

Unfinished == {"unstarted", "in_progress"} \cup PendingStatus

\* Of run, the tasks before k are completed, those with a transaction of the
\* tasks in done, which have one that is confirmed.
CompletedTo(run, k, done) ==
    \A i \in DOMAIN run.tasks : i < k =>
        /\ run.tasks[i].status = "completed"
        /\ run.tasks[i].kind = "ethtx" => i \in done

\* Task k is the one that the run is at: those after it were not started.
At(run, k, done) ==
    /\ CompletedTo(run, k, done)
    /\ \A i \in DOMAIN run.tasks : i > k => run.tasks[i].status \in {"unstarted", "in_progress"}
    /\ k \in DOMAIN run.tasks =>
          /\ run.status # "completed" /\ run.tasks[k].status # "completed"
          /\ run.status \notin {"errored", "cancelled"} => run.tasks[k].status \in Unfinished
          /\ run.status # "errored" /\ run.tasks[k].status = "pending_bridge" =>
                run.status = "pending_bridge"
    /\ run.status = "pending_bridge" => k \in DOMAIN run.tasks /\ run.tasks[k].kind = "bridge"

\* The tasks of a run are worked off one after the other.
InOrder(run, done) == \E k \in 1 .. Len(run.tasks) + 1 : At(run, k, done)

-----------------------------------------------------------------------------
(* The methods of a run *)

LEMMA StatusesAreSome ==
    /\ Unfinished \subseteq RunStatus /\ FinishedStatus \subseteq RunStatus
    /\ PendingStatus \subseteq RunStatus /\ ResumableStatus \subseteq PendingStatus
    /\ "completed" \notin Unfinished /\ "errored" \notin Unfinished
    /\ "cancelled" \notin Unfinished
  BY DEF Unfinished, FinishedStatus, PendingStatus, RunStatus, ResumableStatus

LEMMA RunFields ==
    ASSUME NEW run \in JobRun
    PROVE  /\ run.status \in RunStatus /\ run.tasks \in Seq(TaskRun)
           /\ DOMAIN run.tasks = 1 .. Len(run.tasks) /\ Len(run.tasks) \in Nat
           /\ \A i \in DOMAIN run.tasks :
                 /\ run.tasks[i] \in TaskRun /\ run.tasks[i].status \in RunStatus
                 /\ run.tasks[i].kind \in TaskKind
<1>1. run.tasks \in Seq(TaskRun) /\ run.status \in RunStatus
  BY DEF JobRun
<1>2. \A i \in 1 .. Len(run.tasks) : run.tasks[i] \in TaskRun
  BY <1>1, ElementOfSeq
<1> QED
  BY <1>1, <1>2 DEF TaskRun

LEMMA SeqFromTo ==
    ASSUME NEW S, NEW n \in Nat, NEW s, s = [i \in 1 .. n |-> s[i]], \A i \in 1 .. n : s[i] \in S
    PROVE  s \in Seq(S) /\ DOMAIN s = 1 .. n /\ Len(s) = n
<1>1. s \in [1 .. n -> S]
  OBVIOUS
<1> QED
  BY <1>1, LenProperties, SeqDef

LEMMA AppendGrows ==
    ASSUME NEW S, NEW s \in Seq(S), NEW e \in S, NEW t, t = Append(s, e)
    PROVE  /\ t \in Seq(S) /\ Len(t) = Len(s) + 1 /\ DOMAIN t = 1 .. Len(t)
           /\ \A m \in DOMAIN s : m \in DOMAIN t /\ t[m] = s[m]
           /\ t[Len(t)] = e
<1>1. Len(s) \in Nat /\ DOMAIN s = 1 .. Len(s)
  OBVIOUS
<1>2. t \in Seq(S) /\ Len(t) = Len(s) + 1 /\ t[Len(s) + 1] = e
      /\ \A m \in 1 .. Len(s) : t[m] = s[m]
  BY AppendProperties
<1>3. DOMAIN t = 1 .. Len(t)
  BY <1>2
<1> QED
  BY <1>1, <1>2, <1>3

\* The status of one task changes.
WithTask(run, i, s) == [run EXCEPT !.tasks[i].status = s]

LEMMA TaskChanges ==
    ASSUME NEW run \in JobRun, NEW i, NEW s \in RunStatus
    PROVE  LET new == WithTask(run, i, s)
           IN  /\ new \in JobRun /\ new.status = run.status
               /\ DOMAIN new.tasks = DOMAIN run.tasks /\ Len(new.tasks) = Len(run.tasks)
               /\ \A j \in DOMAIN run.tasks :
                     /\ new.tasks[j].kind = run.tasks[j].kind
                     /\ j # i => new.tasks[j] = run.tasks[j]
                     /\ j = i => new.tasks[j].status = s
<1> DEFINE new == WithTask(run, i, s)
           t == [run.tasks EXCEPT ![i] = [run.tasks[i] EXCEPT !.status = s]]
<1>1. /\ run.tasks \in Seq(TaskRun) /\ DOMAIN run.tasks = 1 .. Len(run.tasks)
      /\ Len(run.tasks) \in Nat
      /\ \A j \in DOMAIN run.tasks : run.tasks[j] \in TaskRun
  BY RunFields
<1>2. CASE i \in DOMAIN run.tasks
  <2>1. PICK e : e = [run.tasks[i] EXCEPT !.status = s]
    OBVIOUS
  <2>2. e \in TaskRun /\ e.status = s /\ e.kind = run.tasks[i].kind
    BY <1>1, <1>2, <2>1 DEF TaskRun
  <2>3. /\ t \in Seq(TaskRun) /\ Len(t) = Len(run.tasks)
        /\ \A j \in 1 .. Len(run.tasks) : t[j] = IF j = i THEN e ELSE run.tasks[j]
    BY <1>1, <1>2, <2>1, <2>2, ExceptSeq
  <2>4. DOMAIN t = DOMAIN run.tasks
    OBVIOUS
  <2>5. new = [run EXCEPT !.tasks = t]
    BY DEF WithTask
  <2> HIDE DEF t, new
  <2>6. new \in JobRun /\ new.status = run.status /\ new.tasks = t
    BY <2>3, <2>5 DEF JobRun
  <2> QED
    BY <1>1, <1>2, <2>2, <2>3, <2>4, <2>6 DEF new
<1>3. CASE i \notin DOMAIN run.tasks
  <2>1. t = run.tasks
    BY <1>1, <1>3
  <2>2. new = [run EXCEPT !.tasks = t]
    BY DEF WithTask
  <2> HIDE DEF t, new
  <2>3. new \in JobRun /\ new.status = run.status /\ new.tasks = run.tasks
    BY <1>1, <2>1, <2>2 DEF JobRun
  <2> QED
    BY <1>1, <1>3, <2>3 DEF new
<1> QED
  BY <1>2, <1>3

LEMMA StatusChanges ==
    ASSUME NEW run \in JobRun, NEW s \in RunStatus
    PROVE  /\ SetStatus(run, s) \in JobRun /\ SetStatus(run, s).tasks = run.tasks
           /\ SetStatus(run, s).status =
                 IF s = "completed" /\ TasksRemain(run) THEN "in_progress" ELSE s
<1>1. "in_progress" \in RunStatus
  BY DEF RunStatus
<1> QED
  BY <1>1 DEF SetStatus, JobRun

LEMMA MoreDone ==
    ASSUME NEW run, NEW k, NEW done, NEW more, done \subseteq more
    PROVE  /\ CompletedTo(run, k, done) => CompletedTo(run, k, more)
           /\ InOrder(run, done) => InOrder(run, more)
  BY DEF InOrder, At, CompletedTo

\* A new run is at its first task.
LEMMA MakeJobRunInOrder ==
    ASSUME NEW job \in Seq(TaskKind), NEW s \in {"unstarted", "in_progress", "errored"},
           NEW h \in Nat \cup {NULL}, NEW done
    PROVE  LET run == MakeJobRun(job, s, h)
           IN  run \in JobRun /\ run.status = s /\ InOrder(run, done)
<1> DEFINE run == MakeJobRun(job, s, h)
<1>1. DOMAIN job = 1 .. Len(job) /\ Len(job) \in Nat /\ \A i \in 1 .. Len(job) : job[i] \in TaskKind
  BY ElementOfSeq
<1>2. "unstarted" \in RunStatus /\ s \in RunStatus
  BY DEF RunStatus, FinishedStatus
<1>3. \A i \in 1 .. Len(job) : [kind |-> job[i], status |-> "unstarted"] \in TaskRun
  BY <1>1, <1>2 DEF TaskRun
<1>4. /\ run.status = s /\ run.created = h /\ run.observed = h
      /\ run.tasks = [i \in 1 .. Len(job) |-> [kind |-> job[i], status |-> "unstarted"]]
      /\ run = [status |-> s, tasks |-> run.tasks, created |-> h, observed |-> h]
  BY <1>1 DEF MakeJobRun
<1>5. run.tasks \in Seq(TaskRun) /\ DOMAIN run.tasks = 1 .. Len(job) /\ Len(run.tasks) = Len(job)
  BY <1>1, <1>3, <1>4
<1>6. \A i \in DOMAIN run.tasks : run.tasks[i].status = "unstarted"
  BY <1>4, <1>5
<1> HIDE DEF run
<1>7. run \in JobRun
  BY <1>2, <1>4, <1>5 DEF JobRun
<1>8. At(run, 1, done)
  BY <1>1, <1>4, <1>5, <1>6 DEF At, CompletedTo, Unfinished
<1> QED
  BY <1>1, <1>4, <1>5, <1>7, <1>8 DEF InOrder, run

\* The next task of a run that was not cut short is the one that it is at.
LEMMA NextIsAt ==
    ASSUME NEW run \in JobRun, NEW done, NEW k \in 1 .. Len(run.tasks) + 1, At(run, k, done),
           run.status \notin {"errored", "cancelled"}
    PROVE  /\ TasksRemain(run) <=> k \in DOMAIN run.tasks
           /\ TasksRemain(run) => NextTaskRun(run) = k
<1>1. DOMAIN run.tasks = 1 .. Len(run.tasks) /\ Len(run.tasks) \in Nat
  BY RunFields
<1>2. \A i \in UnfinishedTasks(run) : i \in DOMAIN run.tasks /\ run.tasks[i].status # "completed"
  BY StatusesAreSome DEF UnfinishedTasks, Unfinished
<1>3. \A i \in UnfinishedTasks(run) : i >= k
  BY <1>1, <1>2 DEF At, CompletedTo
<1>4. k \in DOMAIN run.tasks => k \in UnfinishedTasks(run)
  BY DEF At, UnfinishedTasks, Unfinished
<1>5. TasksRemain(run) => k \in DOMAIN run.tasks
  BY <1>1, <1>2, <1>3 DEF TasksRemain
<1>6. ASSUME k \in UnfinishedTasks(run) PROVE NextTaskRun(run) = k
  <2>1. \E i \in UnfinishedTasks(run) : \A j \in UnfinishedTasks(run) : i <= j
    BY <1>1, <1>3, <1>6
  <2>2. /\ NextTaskRun(run) \in UnfinishedTasks(run)
        /\ \A j \in UnfinishedTasks(run) : NextTaskRun(run) <= j
    BY <2>1 DEF NextTaskRun
  <2>3. NextTaskRun(run) <= k /\ NextTaskRun(run) >= k /\ NextTaskRun(run) \in 1 .. Len(run.tasks)
    BY <1>1, <1>2, <1>3, <1>6, <2>2
  <2> QED
    BY <2>3
<1> QED
  BY <1>4, <1>5, <1>6 DEF TasksRemain

\* The task that the run is at ends.
LEMMA ApplyInOrder ==
    ASSUME NEW run \in JobRun, NEW done, NEW k \in DOMAIN run.tasks, At(run, k, done),
           NEW s \in {"completed", "errored"} \cup PendingStatus,
           s = "completed" /\ run.tasks[k].kind = "ethtx" => k \in done,
           s = "pending_bridge" => run.tasks[k].kind = "bridge"
    PROVE  LET new == ApplyOutput(run, k, s)
           IN  /\ InOrder(new, done) /\ CompletedTo(new, k, done)
               /\ Runnable(new.status) => CompletedTo(new, k + 1, done)
<1> DEFINE mid == WithTask(run, k, s)
           new == SetStatus(mid, s)
<1>0. s \in RunStatus
  BY DEF RunStatus, FinishedStatus
<1>1. DOMAIN run.tasks = 1 .. Len(run.tasks) /\ Len(run.tasks) \in Nat
  BY RunFields
<1>2. /\ mid \in JobRun
      /\ DOMAIN mid.tasks = DOMAIN run.tasks /\ Len(mid.tasks) = Len(run.tasks)
      /\ \A j \in DOMAIN run.tasks :
            /\ mid.tasks[j].kind = run.tasks[j].kind
            /\ j # k => mid.tasks[j] = run.tasks[j]
            /\ j = k => mid.tasks[j].status = s
  BY <1>0, TaskChanges
<1> HIDE DEF mid
<1>3. /\ new \in JobRun /\ new.tasks = mid.tasks
      /\ new.status = IF s = "completed" /\ TasksRemain(mid) THEN "in_progress" ELSE s
  BY <1>0, <1>2, StatusChanges
<1> HIDE DEF new
<1>4. CompletedTo(new, k, done)
  BY <1>1, <1>2, <1>3 DEF At, CompletedTo
<1>5. \A i \in DOMAIN run.tasks : i > k => new.tasks[i].status \in {"unstarted", "in_progress"}
  BY <1>1, <1>2, <1>3 DEF At
<1>6. CASE s = "completed"
  <2>1. CompletedTo(new, k + 1, done)
    BY <1>1, <1>2, <1>3, <1>4, <1>6 DEF CompletedTo
  <2>2. CASE k + 1 \in DOMAIN run.tasks
    <3>1. k + 1 > k /\ new.tasks[k + 1].status \in {"unstarted", "in_progress"}
      BY <1>1, <1>5, <2>2
    <3>2. TasksRemain(mid)
      BY <1>2, <1>3, <2>2, <3>1 DEF TasksRemain, UnfinishedTasks
    <3>3. new.status = "in_progress"
      BY <1>3, <1>6, <3>2
    <3>4. At(new, k + 1, done)
      BY <1>1, <1>2, <1>3, <1>5, <2>1, <3>1, <3>3 DEF At, Unfinished
    <3> QED
      BY <1>1, <1>2, <1>3, <1>4, <2>1, <2>2, <3>4 DEF InOrder, ApplyOutput, WithTask, new, mid
  <2>3. CASE k + 1 \notin DOMAIN run.tasks
    <3>1. k = Len(run.tasks)
      BY <1>1, <2>3
    <3>2. new.status \in {"in_progress", "completed"}
      BY <1>3, <1>6
    <3>3. At(new, k + 1, done)
      BY <1>1, <1>2, <1>3, <2>1, <3>1, <3>2 DEF At
    <3> QED
      BY <1>1, <1>2, <1>3, <1>4, <2>1, <3>1, <3>3 DEF InOrder, ApplyOutput, WithTask, new, mid
  <2> QED
    BY <2>2, <2>3
<1>7. CASE s # "completed"
  <2>1. new.status = s /\ new.tasks[k].status = s /\ new.tasks[k].kind = run.tasks[k].kind
    BY <1>2, <1>3, <1>7
  <2>2. ~Runnable(s)
    BY <1>7 DEF Runnable
  <2>3. At(new, k, done)
    BY <1>1, <1>2, <1>3, <1>4, <1>5, <1>7, <2>1 DEF At, Unfinished
  <2> QED
    BY <1>1, <1>2, <1>3, <1>4, <2>1, <2>2, <2>3 DEF InOrder, ApplyOutput, WithTask, new, mid
<1> QED
  BY <1>6, <1>7

LEMMA ApplyType ==
    ASSUME NEW run \in JobRun, NEW i, NEW s \in RunStatus
    PROVE  /\ ApplyOutput(run, i, s) \in JobRun
           /\ Len(ApplyOutput(run, i, s).tasks) = Len(run.tasks)
           /\ ApplyOutput(run, i, s).status = s \/ s = "completed"
<1> DEFINE mid == WithTask(run, i, s)
<1>1. mid \in JobRun /\ Len(mid.tasks) = Len(run.tasks)
  BY TaskChanges
<1>2. ApplyOutput(run, i, s) = SetStatus(mid, s)
  BY DEF ApplyOutput, WithTask
<1> HIDE DEF mid
<1> QED
  BY <1>1, <1>2, StatusChanges

LEMMA CancelledType ==
    ASSUME NEW run \in JobRun
    PROVE  Cancelled(run) \in JobRun /\ Cancelled(run).status = "cancelled"
<1>1. "cancelled" \in RunStatus
  BY DEF RunStatus, FinishedStatus
<1> DEFINE mid == WithTask(run, NextTaskRun(run), "cancelled")
<1>2. mid \in JobRun
  BY <1>1, TaskChanges
<1>3. Cancelled(run) = SetStatus(IF TasksRemain(run) THEN mid ELSE run, "cancelled")
  BY DEF Cancelled, WithTask
<1> HIDE DEF mid
<1> QED
  BY <1>1, <1>2, <1>3, StatusChanges

LEMMA CancelledInOrder ==
    ASSUME NEW run \in JobRun, NEW done, InOrder(run, done), run.status \notin FinishedStatus
    PROVE  InOrder(Cancelled(run), done)
<1>1. PICK k \in 1 .. Len(run.tasks) + 1 : At(run, k, done)
  BY DEF InOrder
<1>2. "cancelled" \in RunStatus /\ run.status \notin {"errored", "cancelled"}
  BY DEF RunStatus, FinishedStatus
<1>3. DOMAIN run.tasks = 1 .. Len(run.tasks) /\ Len(run.tasks) \in Nat
  BY RunFields
<1> DEFINE new == Cancelled(run)
<1>4. CASE k \in DOMAIN run.tasks
  <2> DEFINE mid == WithTask(run, k, "cancelled")
  <2>1. new = SetStatus(mid, "cancelled")
    BY <1>1, <1>2, <1>4, NextIsAt DEF Cancelled, WithTask
  <2>2. /\ mid \in JobRun
        /\ DOMAIN mid.tasks = DOMAIN run.tasks /\ Len(mid.tasks) = Len(run.tasks)
        /\ \A j \in DOMAIN run.tasks :
              /\ mid.tasks[j].kind = run.tasks[j].kind
              /\ j # k => mid.tasks[j] = run.tasks[j]
              /\ j = k => mid.tasks[j].status = "cancelled"
    BY <1>2, TaskChanges
  <2> HIDE DEF mid, new
  <2>3. new.tasks = mid.tasks /\ new.status = "cancelled"
    BY <1>2, <2>1, <2>2, StatusChanges
  <2>4. At(new, k, done)
    BY <1>1, <1>3, <1>4, <2>2, <2>3 DEF At, CompletedTo
  <2> QED
    BY <2>2, <2>3, <2>4 DEF InOrder, new
<1>5. CASE k \notin DOMAIN run.tasks
  <2>1. new = SetStatus(run, "cancelled")
    BY <1>1, <1>2, <1>5, NextIsAt DEF Cancelled
  <2> HIDE DEF new
  <2>2. new.tasks = run.tasks /\ new.status = "cancelled"
    BY <1>2, <2>1, StatusChanges
  <2>3. At(new, k, done)
    BY <1>1, <1>5, <2>2 DEF At, CompletedTo
  <2> QED
    BY <2>2, <2>3 DEF InOrder, new
<1> QED
  BY <1>4, <1>5

LEMMA ReconnectedType ==
    ASSUME NEW run \in JobRun
    PROVE  Reconnected(run) \in JobRun /\ Reconnected(run).status \in {"in_progress", "errored"}
<1>1. "in_progress" \in RunStatus /\ "errored" \in RunStatus
  BY DEF RunStatus, FinishedStatus
<1> QED
  BY <1>1, StatusChanges DEF Reconnected

LEMMA ReconnectedInOrder ==
    ASSUME NEW run \in JobRun, NEW done, InOrder(run, done),
           run.status \notin FinishedStatus \cup {"pending_bridge"}
    PROVE  InOrder(Reconnected(run), done)
<1>1. PICK k \in 1 .. Len(run.tasks) + 1 : At(run, k, done)
  BY DEF InOrder
<1>2. "in_progress" \in RunStatus /\ "errored" \in RunStatus /\ run.status \notin {"errored", "cancelled"}
  BY DEF RunStatus, FinishedStatus
<1> DEFINE new == Reconnected(run)
<1>3. /\ new.tasks = run.tasks
      /\ new.status = IF TasksRemain(run) THEN "in_progress" ELSE "errored"
  BY <1>2, StatusChanges DEF Reconnected
<1> HIDE DEF new
<1>4. TasksRemain(run) <=> k \in DOMAIN run.tasks
  BY <1>1, <1>2, NextIsAt
<1>5. At(new, k, done)
  BY <1>1, <1>2, <1>3, <1>4 DEF At, CompletedTo
<1> QED
  BY <1>3, <1>5 DEF InOrder, new

\* A run that a head resumes is at the same task.
LEMMA ResumedInOrder ==
    ASSUME NEW run \in JobRun, NEW h \in Nat, run.status \in ResumableStatus
    PROVE  /\ ResumedAt(run, h) \in JobRun /\ ResumedAt(run, h).status = "in_progress"
           /\ \A done : InOrder(run, done) => InOrder(ResumedAt(run, h), done)
<1>1. /\ run.tasks \in Seq(TaskRun) /\ DOMAIN run.tasks = 1 .. Len(run.tasks)
      /\ Len(run.tasks) \in Nat /\ \A i \in DOMAIN run.tasks : run.tasks[i] \in TaskRun
  BY RunFields
<1> DEFINE t == [i \in DOMAIN run.tasks |->
                    IF run.tasks[i].status \in {"unstarted"} \cup ResumableStatus
                    THEN [run.tasks[i] EXCEPT !.status = "in_progress"] ELSE run.tasks[i]]
           new == ResumedAt(run, h)
<1>2. "in_progress" \in RunStatus
  BY DEF RunStatus
<1>3. \A i \in DOMAIN run.tasks :
         /\ t[i] \in TaskRun /\ t[i].kind = run.tasks[i].kind
         /\ t[i].status = IF run.tasks[i].status \in {"unstarted"} \cup ResumableStatus
                          THEN "in_progress" ELSE run.tasks[i].status
  BY <1>1, <1>2 DEF TaskRun
<1>4. t \in Seq(TaskRun) /\ DOMAIN t = DOMAIN run.tasks /\ Len(t) = Len(run.tasks)
  <2>1. t = [i \in 1 .. Len(run.tasks) |-> t[i]]
    BY <1>1
  <2> HIDE DEF t
  <2> QED
    BY <1>1, <1>3, <2>1, SeqFromTo
<1>5. new = [run EXCEPT !.status = "in_progress", !.observed = h, !.tasks = t]
  BY DEF ResumedAt
<1> HIDE DEF t, new
<1>6. new \in JobRun /\ new.status = "in_progress" /\ new.tasks = t
  BY <1>2, <1>4, <1>5 DEF JobRun
<1>7. ASSUME NEW done, InOrder(run, done) PROVE InOrder(new, done)
  <2>1. PICK k \in 1 .. Len(run.tasks) + 1 : At(run, k, done)
    BY <1>7 DEF InOrder
  <2>2. run.status \notin {"errored", "cancelled", "pending_bridge", "completed"}
    BY DEF ResumableStatus
  <2>3. At(new, k, done)
    BY <1>3, <1>4, <1>6, <2>1, <2>2 DEF At, CompletedTo, Unfinished, ResumableStatus
  <2> QED
    BY <1>4, <1>6, <2>1, <2>3 DEF InOrder
<1> QED
  BY <1>6, <1>7 DEF new

-----------------------------------------------------------------------------
(* The invariant *)

Final == {"completed", "errored"}

\* The tasks of run r with a transaction that is confirmed.
DoneOf(r) ==
    {txs[n].task : n \in {m \in DOMAIN txs : txs[m].run = r /\ txs[m].state = "confirmed"}}

WorkerType ==
    [pc : {"none", "find", "task", "save"}, run : JobRun, next : Nat \ {0}, validated : BOOLEAN]
EthTaskRunTx ==
    [run : RunId, task : Nat \ {0}, state : {"unconfirmed", "confirmed", "fatal_error"}]
ConnectType(copies) ==
    [pc : {"idle", "find", "save", "run"}, ids : SUBSET RunId, copies : {copies}]
CallType == [pc : {"idle", "save", "run"}, id : Nat, run : JobRun]

\* The worker has a run with its tasks in order, and is at the task after the
\* completed ones.  If nobody has saved the run since, and it has ended, then
\* the worker knows, and does not save it.
WorkerOK(r) ==
    /\ worker[r].pc # "none" => r \in DOMAIN runs
    /\ worker[r].pc = "find" => worker[r].next = 1
    /\ ~overtaken =>
          /\ worker[r].pc \in {"task", "save"} => InOrder(worker[r].run, DoneOf(r))
          /\ worker[r].pc = "task" /\ Runnable(worker[r].run.status) /\ TasksLeft(worker[r]) # {} =>
                CompletedTo(worker[r].run, worker[r].next, DoneOf(r))
          /\ worker[r].pc = "save" /\ Runnable(worker[r].run.status) =>
                CompletedTo(worker[r].run, worker[r].next + 1, DoneOf(r))
          /\ <<"worker", r>> \in current /\ worker[r].pc = "save" => runs[r].status \notin Final
    /\ <<"worker", r>> \in current /\ worker[r].pc = "task" /\ runs[r].status \in Final =>
          worker[r].run.status = runs[r].status

\* A connection changes copies of runs that wait for no bridge, and have not ended.
CopyOK(r) ==
    /\ <<"connect", r>> \in current => r \in DOMAIN runs
    /\ ~overtaken /\ <<"connect", r>> \in current => runs[r].status \notin Final
    /\ connect.pc # "idle" /\ r \in connect.ids => r \in DOMAIN runs
    /\ connect.pc \in {"save", "run"} /\ r \in connect.ids =>
          /\ connect.copies[r] \in JobRun
          /\ ~overtaken =>
                /\ connect.copies[r].status \notin FinishedStatus \cup {"pending_bridge"}
                /\ InOrder(connect.copies[r], DoneOf(r))

\* So do a cancel and the answer of a bridge.
CallOK(c) ==
    /\ calls[c].pc # "idle" => calls[c].id \in DOMAIN runs
    /\ calls[c].pc = "save" =>
          /\ ~overtaken => InOrder(calls[c].run, DoneOf(calls[c].id))
          /\ <<"call", c>> \in current => runs[calls[c].id].status \notin Final

RowOK(r) == ~overtaken => InOrder(runs[r], DoneOf(r))

Others ==
    /\ heads \subseteq DOMAIN runs
    /\ connect \in ConnectType(connect.copies)
    /\ connect.pc # "idle" => connect.ids # {}

IInv ==
    /\ TypeOK
    /\ Others
    /\ \A r \in RunId : WorkerOK(r) /\ CopyOK(r)
    /\ \A c \in Calls : CallOK(c)
    /\ \A r \in DOMAIN runs : RowOK(r)

-----------------------------------------------------------------------------
(* What the helpers of the actions do *)

LEMMA LeastExists ==
    ASSUME NEW S \in SUBSET Nat, S # {}
    PROVE  \E x \in S : \A y \in S : x <= y
<1>1. PICK x \in S : \A y \in S : ~ (<<y, x>> \in OpToRel(<, Nat))
  BY NatLessThanWellFounded, WFMin
<1>2. \A y \in S : ~ (y < x)
  BY <1>1 DEF OpToRel
<1> QED
  BY <1>2

LEMMA RunIds ==
    ASSUME TypeOK
    PROVE  /\ runs \in Seq(JobRun) /\ DOMAIN runs = 1 .. Len(runs) /\ Len(runs) \in Nat
           /\ DOMAIN runs \subseteq RunId /\ MaxRuns \in Nat /\ RunId \subseteq Nat \ {0}
           /\ \A r \in DOMAIN runs : runs[r] \in JobRun
<1>1. runs \in Seq(JobRun) /\ Len(runs) \in Nat /\ Len(runs) <= MaxRuns /\ MaxRuns \in Nat
  BY RunAssumption DEF TypeOK
<1>2. \A r \in 1 .. Len(runs) : runs[r] \in JobRun
  BY <1>1, ElementOfSeq
<1> QED
  BY <1>1, <1>2 DEF RunId

\* A call that is about to queue run r.
Running(r) == [NoCall EXCEPT !.pc = "run", !.id = r]

LEMMA IdleValues ==
    /\ NoRun \in JobRun
    /\ NoWorker \in WorkerType /\ NoWorker.pc = "none"
    /\ Waking \in WorkerType /\ Waking.pc = "find" /\ Waking.next = 1
    /\ NoCall \in CallType /\ NoCall.pc = "idle"
    /\ \A r \in Nat : Running(r) \in CallType /\ Running(r).pc = "run" /\ Running(r).id = r
    /\ Offline.pc = "idle" /\ Offline.ids = {}
    /\ Offline \in ConnectType(Offline.copies)
<1>1. NoRun \in JobRun
  <2>1. <<>> \in Seq(TaskKind)
    OBVIOUS
  <2> QED
    BY <2>1, MakeJobRunInOrder DEF NoRun
<1> HIDE DEF NoRun
<1>2. NoWorker \in WorkerType /\ NoWorker.pc = "none" /\ NoWorker.next = 1
  BY <1>1 DEF NoWorker, WorkerType
<1>3. NoCall \in CallType /\ NoCall.pc = "idle"
  BY <1>1 DEF NoCall, CallType
<1> HIDE DEF NoWorker, NoCall
<1>4. Waking \in WorkerType /\ Waking.pc = "find" /\ Waking.next = 1
  BY <1>2 DEF Waking, WorkerType
<1>5. \A r \in Nat : Running(r) \in CallType /\ Running(r).pc = "run" /\ Running(r).id = r
  BY <1>3 DEF Running, CallType
<1>6. Offline.pc = "idle" /\ Offline.ids = {}
      /\ Offline \in ConnectType(Offline.copies)
  <2>1. Offline.pc = "idle" /\ Offline.ids = {} /\ Offline.copies = <<>>
    BY DEF Offline
  <2>2. {} \in SUBSET RunId /\ "idle" \in {"idle", "find", "save", "run"}
    OBVIOUS
  <2>3. \A c : [pc |-> "idle", ids |-> {}, copies |-> c] \in ConnectType(c)
    BY <2>2 DEF ConnectType
  <2>4. Offline \in ConnectType(<<>>)
    BY <2>3, Zenon DEF Offline
  <2> HIDE DEF Offline
  <2> QED
    BY <2>1, <2>4
<1> QED
  BY <1>1, <1>2, <1>3, <1>4, <1>5, <1>6

LEMMA OldestIsOne ==
    ASSUME TypeOK, Others, connect.pc # "idle"
    PROVE  Oldest \in connect.ids
<1>1. connect.ids \in SUBSET Nat /\ connect.ids # {}
  BY RunIds DEF TypeOK, Others
<1>2. \E x \in connect.ids : \A y \in connect.ids : x <= y
  BY <1>1, LeastExists
<1> QED
  BY <1>2 DEF Oldest

LEMMA TaskAtIsLeft ==
    ASSUME NEW w \in WorkerType, TasksLeft(w) # {}
    PROVE  /\ TaskAt(w) \in TasksLeft(w) /\ TaskAt(w) \in Nat \ {0}
           /\ TaskAt(w) \in DOMAIN w.run.tasks /\ TaskAt(w) >= w.next
           /\ w.run.tasks[TaskAt(w)].status # "completed"
           /\ \A j \in TasksLeft(w) : TaskAt(w) <= j
<1>1. w.run \in JobRun /\ w.next \in Nat \ {0}
  BY DEF WorkerType
<1>2. Len(w.run.tasks) \in Nat /\ DOMAIN w.run.tasks = 1 .. Len(w.run.tasks)
  BY <1>1, RunFields
<1>3. TasksLeft(w) \in SUBSET Nat
  BY <1>1, <1>2 DEF TasksLeft
<1>4. \E x \in TasksLeft(w) : \A y \in TasksLeft(w) : x <= y
  BY <1>3, LeastExists
<1>5. TaskAt(w) \in TasksLeft(w) /\ \A j \in TasksLeft(w) : TaskAt(w) <= j
  BY <1>4 DEF TaskAt
<1> QED
  BY <1>1, <1>2, <1>5 DEF TasksLeft

\* The worker goes on at the task that its run is at.
LEMMA TaskAtIsNext ==
    ASSUME NEW w \in WorkerType, NEW done, InOrder(w.run, done), TasksLeft(w) # {},
           CompletedTo(w.run, w.next, done)
    PROVE  TaskAt(w) \in DOMAIN w.run.tasks /\ At(w.run, TaskAt(w), done)
<1>1. PICK k \in 1 .. Len(w.run.tasks) + 1 : At(w.run, k, done)
  BY DEF InOrder
<1>2. w.run \in JobRun /\ w.next \in Nat \ {0}
  BY DEF WorkerType
<1>3. Len(w.run.tasks) \in Nat /\ DOMAIN w.run.tasks = 1 .. Len(w.run.tasks)
  BY <1>2, RunFields
<1>4. PICK t : t = TaskAt(w)
  OBVIOUS
<1>5. /\ t \in DOMAIN w.run.tasks /\ w.run.tasks[t].status # "completed"
      /\ \A j \in TasksLeft(w) : t <= j
  BY <1>4, TaskAtIsLeft
<1>6. t >= k
  BY <1>1, <1>3, <1>5 DEF At, CompletedTo
<1>7. k \in DOMAIN w.run.tasks
  BY <1>3, <1>5, <1>6
<1>8. w.run.tasks[k].status # "completed"
  BY <1>1, <1>7 DEF At
<1>9. w.next <= k
  BY <1>2, <1>3, <1>7, <1>8 DEF CompletedTo
<1>10. k \in TasksLeft(w)
  BY <1>2, <1>3, <1>7, <1>8, <1>9 DEF TasksLeft
<1>11. t = k
  BY <1>3, <1>5, <1>6, <1>10
<1> QED
  BY <1>1, <1>4, <1>7, <1>11

\* Run starts a worker that there was not, or counts.
LEMMA RunStarts ==
    ASSUME TypeOK, NEW r \in RunId, Run(r)
    PROVE  /\ queue' \in [RunId -> Nat] /\ worker' \in [RunId -> WorkerType]
           /\ \A s \in RunId : queue'[s] = 0 <=> worker'[s].pc = "none"
           /\ \A s \in RunId : worker'[s] = worker[s] \/ (s = r /\ worker'[s] = Waking)
<1>1. /\ queue \in [RunId -> Nat] /\ worker \in [RunId -> WorkerType]
      /\ \A s \in RunId : queue[s] = 0 <=> worker[s].pc = "none"
  BY DEF TypeOK, WorkerType
<1>2. /\ queue' = [queue EXCEPT ![r] = queue[r] + 1]
      /\ worker' = [worker EXCEPT ![r] = IF queue[r] = 0 THEN Waking ELSE worker[r]]
  BY DEF Run
<1>3. Waking \in WorkerType /\ Waking.pc = "find"
  BY IdleValues
<1> HIDE DEF Waking
<1> QED
  BY <1>1, <1>2, <1>3

LEMMA SaveSaves ==
    ASSUME TypeOK, NEW r \in DOMAIN runs, NEW run \in JobRun, NEW goesOn \in SUBSET HoldersOf(r),
           SaveJobRun(r, run, goesOn), goesOn \subseteq current
    PROVE  /\ runs' \in Seq(JobRun) /\ Len(runs') = Len(runs) /\ DOMAIN runs' = DOMAIN runs
           /\ runs'[r] = run /\ \A s \in DOMAIN runs : s # r => runs'[s] = runs[s]
           /\ current' \subseteq current
           /\ \A h \in current' : h \notin HoldersOf(r) \/ h \in goesOn
<1>1. /\ runs \in Seq(JobRun) /\ DOMAIN runs = 1 .. Len(runs)
  BY RunIds
<1>2. runs' = [runs EXCEPT ![r] = run] /\ current' = (current \ HoldersOf(r)) \cup goesOn
  BY DEF SaveJobRun
<1>3. /\ runs' \in Seq(JobRun) /\ Len(runs') = Len(runs)
      /\ \A s \in 1 .. Len(runs) : runs'[s] = IF s = r THEN run ELSE runs[s]
  BY <1>1, <1>2, ExceptSeq
<1> QED
  BY <1>1, <1>2, <1>3

\* Transactions are confirmed for good.
LEMMA DoneStays ==
    ASSUME TypeOK, \/ UNCHANGED txs
                   \/ \E tx \in EthTaskRunTx : txs' = Append(txs, tx)
                   \/ \E n \in DOMAIN txs : /\ txs[n].state = "unconfirmed"
                                            /\ \E s : txs' = [txs EXCEPT ![n].state = s]
    PROVE  \A r : DoneOf(r) \subseteq DoneOf(r)'
<1>1. txs \in Seq(EthTaskRunTx) /\ DOMAIN txs = 1 .. Len(txs) /\ Len(txs) \in Nat
  BY DEF TypeOK, EthTaskRunTx
<1>2. ASSUME \A m \in DOMAIN txs : txs[m].state = "confirmed" =>
                m \in DOMAIN txs' /\ txs'[m] = txs[m]
      PROVE  \A r : DoneOf(r) \subseteq DoneOf(r)'
  BY <1>2 DEF DoneOf
<1>3. CASE UNCHANGED txs
  BY <1>2, <1>3
<1>4. ASSUME NEW tx \in EthTaskRunTx, txs' = Append(txs, tx)
      PROVE  \A m \in DOMAIN txs : m \in DOMAIN txs' /\ txs'[m] = txs[m]
  <2>1. PICK s, t : s = txs /\ t = txs'
    OBVIOUS
  <2>2. s \in Seq(EthTaskRunTx) /\ t = Append(s, tx)
    BY <1>1, <1>4, <2>1
  <2>3. \A m \in DOMAIN s : m \in DOMAIN t /\ t[m] = s[m]
    BY <2>2, AppendGrows
  <2> QED
    BY <2>1, <2>3
<1>5. ASSUME NEW n \in DOMAIN txs, NEW s, txs[n].state = "unconfirmed",
             txs' = [txs EXCEPT ![n].state = s]
      PROVE  \A m \in DOMAIN txs : txs[m].state = "confirmed" =>
                m \in DOMAIN txs' /\ txs'[m] = txs[m]
  BY <1>1, <1>5
<1> QED
  BY <1>2, <1>3, <1>4, <1>5

-----------------------------------------------------------------------------
(* What is not touched stays in order *)

\* No step makes the database smaller, or a found run not found.
Grows ==
    /\ overtaken => overtaken'
    /\ DOMAIN runs \subseteq DOMAIN runs'
    /\ \A r : DoneOf(r) \subseteq DoneOf(r)'

\* A copy of run r that may still be saved could be before, and a run that has
\* ended had ended before.
HolderStays(h, r) ==
    h \in current' =>
        /\ h \in current
        /\ r \in DOMAIN runs /\ runs'[r].status \in Final => runs[r].status = runs'[r].status

LEMMA WorkerStays ==
    ASSUME Grows, NEW r \in RunId, WorkerOK(r), worker'[r] = worker[r],
           HolderStays(<<"worker", r>>, r)
    PROVE  WorkerOK(r)'
<1>1. PICK done, more : done = DoneOf(r) /\ more = DoneOf(r)' /\ done \subseteq more
  BY DEF Grows
<1>2. PICK w : w = worker[r] /\ w = worker'[r]
  OBVIOUS
<1>3. /\ InOrder(w.run, done) => InOrder(w.run, more)
      /\ CompletedTo(w.run, w.next, done) => CompletedTo(w.run, w.next, more)
      /\ CompletedTo(w.run, w.next + 1, done) => CompletedTo(w.run, w.next + 1, more)
  BY <1>1, MoreDone
<1> QED
  BY <1>1, <1>2, <1>3 DEF WorkerOK, Grows, HolderStays

LEMMA CopyStays ==
    ASSUME Grows, NEW r \in RunId, CopyOK(r), HolderStays(<<"connect", r>>, r),
           connect'.pc # "idle" /\ r \in connect'.ids => connect.pc # "idle" /\ r \in connect.ids,
           connect'.pc \in {"save", "run"} /\ r \in connect'.ids =>
               connect.pc \in {"save", "run"} /\ connect'.copies = connect.copies
    PROVE  CopyOK(r)'
<1>1. PICK done, more : done = DoneOf(r) /\ more = DoneOf(r)' /\ done \subseteq more
  BY DEF Grows
<1>2. InOrder(connect.copies[r], done) => InOrder(connect.copies[r], more)
  BY <1>1, MoreDone
<1> QED
  BY <1>1, <1>2 DEF CopyOK, Grows, HolderStays

LEMMA CallStays ==
    ASSUME Grows, NEW c \in Calls, CallOK(c), calls'[c] = calls[c],
           HolderStays(<<"call", c>>, calls[c].id)
    PROVE  CallOK(c)'
<1>1. PICK call : call = calls[c] /\ call = calls'[c]
  OBVIOUS
<1>2. PICK done, more : done = DoneOf(call.id) /\ more = DoneOf(call.id)' /\ done \subseteq more
  BY DEF Grows
<1>3. InOrder(call.run, done) => InOrder(call.run, more)
  BY <1>2, MoreDone
<1> QED
  BY <1>1, <1>2, <1>3 DEF CallOK, Grows, HolderStays

LEMMA RowStays ==
    ASSUME Grows, NEW r \in DOMAIN runs, RowOK(r), runs'[r] = runs[r]
    PROVE  RowOK(r)'
<1>1. PICK done, more : done = DoneOf(r) /\ more = DoneOf(r)' /\ done \subseteq more
  BY DEF Grows
<1>2. PICK run : run = runs[r] /\ run = runs'[r]
  OBVIOUS
<1>3. InOrder(run, done) => InOrder(run, more)
  BY <1>1, MoreDone
<1> QED
  BY <1>1, <1>2, <1>3 DEF RowOK, Grows

\* A step that leaves the tables alone.
LEMMA SameTables ==
    ASSUME TypeOK, UNCHANGED <<db, overtaken>>
    PROVE  Grows /\ \A h, r : HolderStays(h, r) \/ (h \in current' /\ h \notin current)
  BY DoneStays DEF Grows, HolderStays, db

-----------------------------------------------------------------------------
(* The types *)

\* What the types say of the workers, of the calls and of the rest.
WorkerTypes(queueds, workers) ==
    /\ queueds \in [RunId -> Nat] /\ workers \in [RunId -> WorkerType]
    /\ \A r \in RunId : queueds[r] = 0 <=> workers[r].pc = "none"

LEMMA TypeParts ==
    ASSUME TypeOK
    PROVE  /\ runs \in Seq(JobRun) /\ Len(runs) <= MaxRuns
           /\ txs \in Seq(EthTaskRunTx)
           /\ height \in 0 .. MaxHeight /\ height \in Nat
           /\ WorkerTypes(queue, worker)
           /\ calls \in [Calls -> CallType]
           /\ connect.ids \subseteq RunId
           /\ current \subseteq Holders
  BY RunAssumption DEF TypeOK, WorkerTypes, WorkerType, CallType, EthTaskRunTx

LEMMA TypeTogether ==
    ASSUME TypeOK,
           (runs \in Seq(JobRun) /\ Len(runs) <= MaxRuns)',
           (txs \in Seq(EthTaskRunTx))',
           (height \in 0 .. MaxHeight)',
           WorkerTypes(queue', worker'),
           (calls \in [Calls -> CallType])',
           (heads \subseteq RunId)',
           (connect.ids \subseteq RunId /\ connect.pc \in {"idle", "find", "save", "run"})',
           (current \subseteq Holders)',
           (up \in BOOLEAN /\ overtaken \in BOOLEAN)',
           (connects \in 0 .. MaxConnects /\ crashes \in 0 .. MaxCrashes)'
    PROVE  TypeOK'
  BY DEF TypeOK, WorkerTypes, WorkerType, CallType, EthTaskRunTx

LEMMA OneWorker ==
    ASSUME TypeOK, NEW r \in RunId, NEW w \in WorkerType, w.pc # "none",
           worker[r].pc # "none", UNCHANGED queue, worker' = [worker EXCEPT ![r] = w]
    PROVE  WorkerTypes(queue', worker')
  BY TypeParts DEF WorkerTypes

LEMMA OneCall ==
    ASSUME TypeOK, NEW c \in Calls, NEW call \in CallType, calls' = [calls EXCEPT ![c] = call]
    PROVE  (calls \in [Calls -> CallType])'
  BY TypeParts

LEMMA FindJobRunType ==
    ASSUME TypeOK, NEW r \in RunId, WorkerOK(r), FindJobRun(r)
    PROVE  TypeOK'
<1>1. runs[r] \in JobRun
  BY RunIds DEF WorkerOK, FindJobRun
<1> DEFINE w == [worker[r] EXCEPT !.pc = "task", !.run = runs[r]]
<1>2. w \in WorkerType /\ w.pc = "task"
  BY <1>1, TypeParts DEF WorkerTypes, WorkerType
<1>3. worker' = [worker EXCEPT ![r] = w]
  BY DEF FindJobRun
<1> HIDE DEF w
<1>4. WorkerTypes(queue', worker')
  BY <1>2, <1>3, OneWorker DEF FindJobRun
<1>5. current' \subseteq Holders
  BY TypeParts DEF FindJobRun, Load, Holders
<1> QED
  BY <1>4, <1>5, TypeTogether, TypeParts DEF FindJobRun, TypeOK, db, counts

\* The turn of a task: another status for it, and perhaps a transaction.
Turn(r, s) ==
    /\ ToExecute(r) /\ TaskEnds(r, s)
    /\ UNCHANGED <<runs, height, up, queue, heads, connect, calls, current, counts>>
    /\ LET task == worker[r].run.tasks[TaskAt(worker[r])]
       IN  /\ \/ s \in {"completed", "errored"} \cup PendingStatus
              \/ s = "in_progress" /\ task.status = "pending_bridge"
           /\ s = "completed" /\ task.kind = "ethtx" => TaskAt(worker[r]) \in DoneOf(r)'
           /\ s = "pending_bridge" => task.kind = "bridge"
    /\ \/ UNCHANGED txs
       \/ txs' = Append(txs, [run |-> r, task |-> TaskAt(worker[r]), state |-> "unconfirmed"])

LEMMA AwaitConfirmationsIsTurn ==
    ASSUME NEW r, AwaitConfirmations(r) \/ NotOnMainChain(r)
    PROVE  \E s : Turn(r, s)
  BY DEF AwaitConfirmations, NotOnMainChain, Turn, PendingStatus, db

LEMMA ExecuteTaskIsTurn ==
    ASSUME TypeOK, NEW r \in RunId, ExecuteTask(r)
    PROVE  \E s : Turn(r, s)
<1>1. PICK s \in RunStatus : Perform(r, TaskAt(worker[r]), s) /\ TaskEnds(r, s)
  BY DEF ExecuteTask
<1>2. PICK i, task : i = TaskAt(worker[r]) /\ task = worker[r].run.tasks[i]
  OBVIOUS
<1>3. ToExecute(r) /\ UNCHANGED <<runs, height, up, queue, heads, connect, calls, current, counts>>
  BY DEF ExecuteTask
<1>4. /\ \/ s \in {"completed", "errored"} \cup PendingStatus
         \/ s = "in_progress" /\ task.status = "pending_bridge"
      /\ s = "completed" /\ task.kind = "ethtx" =>
            UNCHANGED txs /\ \E n \in TxsOf(r, i) : txs[n].state = "confirmed"
      /\ s = "pending_bridge" => task.kind = "bridge"
      /\ UNCHANGED txs \/ txs' = Append(txs, [run |-> r, task |-> i, state |-> "unconfirmed"])
  <2>1. CASE task.kind = "pure" /\ s \in {"completed", "errored"} /\ UNCHANGED txs
    BY <2>1
  <2>2. CASE /\ task.kind = "bridge"
             /\ IF task.status = "pending_bridge" THEN s = "in_progress"
                ELSE s \in {"completed", "errored", "pending_bridge"}
             /\ UNCHANGED txs
    BY <2>2 DEF PendingStatus
  <2>3. CASE task.kind = "ethtx" /\ InsertEthTx(r, i, s)
    BY <2>3 DEF InsertEthTx, PendingStatus
  <2>4. CASE task.kind = "ethtx" /\ CheckForConfirmation(r, i, s)
    <3>1. PICK n \in TxsOf(r, i) :
             s = CASE txs[n].state = "unconfirmed" -> "pending_outgoing_confirmations"
                   [] txs[n].state = "confirmed"   -> "completed"
                   [] txs[n].state = "fatal_error" -> "errored"
      BY <2>4 DEF CheckForConfirmation
    <3>2. txs[n].state \in {"unconfirmed", "confirmed", "fatal_error"}
      <4>1. txs \in Seq(EthTaskRunTx) /\ n \in 1 .. Len(txs)
        BY TypeParts DEF TxsOf
      <4>2. txs[n] \in EthTaskRunTx
        BY <4>1, ElementOfSeq
      <4> QED
        BY <4>2 DEF EthTaskRunTx
    <3> QED
      BY <2>4, <3>1, <3>2 DEF CheckForConfirmation, PendingStatus
  <2> QED
    BY <1>1, <1>2, <2>1, <2>2, <2>3, <2>4 DEF Perform
<1>5. s = "completed" /\ task.kind = "ethtx" => i \in DoneOf(r)'
  BY <1>4 DEF DoneOf, TxsOf
<1> QED
  BY <1>1, <1>2, <1>3, <1>4, <1>5 DEF Turn

LEMMA TurnType ==
    ASSUME TypeOK, NEW r \in RunId, NEW s, Turn(r, s)
    PROVE  /\ TypeOK' /\ worker'[r] \in WorkerType
           /\ worker'[r].pc = "save" /\ worker'[r].next = TaskAt(worker[r])
           /\ worker'[r].run = ApplyOutput(worker[r].run, TaskAt(worker[r]), s)
           /\ \A q \in RunId : q # r => worker'[q] = worker[q]
<1>1. PICK i, run : i = TaskAt(worker[r]) /\ run = ApplyOutput(worker[r].run, i, s)
  OBVIOUS
<1>2. worker[r] \in WorkerType /\ worker[r].run \in JobRun /\ TasksLeft(worker[r]) # {}
      /\ worker[r].pc = "task"
  BY TypeParts DEF WorkerTypes, WorkerType, Turn, ToExecute
<1>3. i \in Nat \ {0}
  BY <1>1, <1>2, TaskAtIsLeft
<1>4. s \in RunStatus
  BY StatusesAreSome DEF Turn, RunStatus, FinishedStatus
<1>5. run \in JobRun
  BY <1>1, <1>2, <1>4, ApplyType
<1> DEFINE w == [pc |-> "save", run |-> run, next |-> i, validated |-> TRUE]
<1>6. w \in WorkerType /\ w.pc = "save" /\ w.next = i /\ w.run = run
  BY <1>3, <1>5 DEF WorkerType
<1>7. worker' = [worker EXCEPT ![r] = w]
  BY <1>1 DEF Turn, TaskEnds
<1> HIDE DEF w
<1>8. WorkerTypes(queue', worker')
  BY <1>2, <1>6, <1>7, OneWorker DEF Turn
<1>9. worker'[r] = w /\ \A q \in RunId : q # r => worker'[q] = worker[q]
  BY <1>7, TypeParts DEF WorkerTypes
<1>10. (txs \in Seq(EthTaskRunTx))'
  <2>1. PICK tx : tx = [run |-> r, task |-> i, state |-> "unconfirmed"]
    OBVIOUS
  <2>2. tx \in EthTaskRunTx
    BY <1>3, <2>1 DEF EthTaskRunTx
  <2>3. UNCHANGED txs \/ txs' = Append(txs, tx)
    BY <1>1, <2>1 DEF Turn
  <2> QED
    BY <2>2, <2>3, TypeParts, AppendGrows
<1>11. TypeOK'
  BY <1>8, <1>10, TypeTogether, TypeParts DEF Turn, TypeOK, counts
<1> QED
  BY <1>1, <1>6, <1>9, <1>11

-----------------------------------------------------------------------------
(* The steps of a worker *)

LEMMA Together ==
    ASSUME TypeOK', Others',
           \A r \in RunId : WorkerOK(r)', \A r \in RunId : CopyOK(r)',
           \A c \in Calls : CallOK(c)', \A r \in DOMAIN runs' : RowOK(r)'
    PROVE  IInv'
  BY DEF IInv

\* A worker, a copy and a call that the step does not concern.
LEMMA AllStay ==
    ASSUME IInv, Grows
    PROVE  /\ \A r \in RunId :
                 worker'[r] = worker[r] /\ HolderStays(<<"worker", r>>, r) => WorkerOK(r)'
           /\ \A r \in RunId :
                 connect' = connect /\ HolderStays(<<"connect", r>>, r) => CopyOK(r)'
           /\ \A c \in Calls :
                 calls'[c] = calls[c] /\ HolderStays(<<"call", c>>, calls[c].id) => CallOK(c)'
           /\ \A r \in DOMAIN runs : runs'[r] = runs[r] => RowOK(r)'
  BY WorkerStays, CopyStays, CallStays, RowStays DEF IInv

LEMMA FindJobRunStep ==
    ASSUME IInv, NEW q \in RunId, FindJobRun(q)
    PROVE  IInv'
<1>1. TypeOK'
  BY FindJobRunType DEF IInv
<1>2. Grows
  BY SameTables DEF IInv, FindJobRun, db, counts
<1>3. UNCHANGED <<runs, txs, heads, connect, calls, overtaken>> /\ runs' = runs
  BY DEF FindJobRun, db, counts
<1>4. /\ worker[q] \in WorkerType /\ worker[q].pc = "find" /\ worker[q].next = 1
      /\ q \in DOMAIN runs /\ worker \in [RunId -> WorkerType]
  BY TypeParts DEF IInv, WorkerTypes, WorkerOK, FindJobRun
<1>5. /\ \A r \in RunId : r # q => worker'[r] = worker[r]
      /\ worker'[q].pc = "task" /\ worker'[q].run = runs[q] /\ worker'[q].next = 1
  <2> DEFINE w == [worker[q] EXCEPT !.pc = "task", !.run = runs[q]]
  <2>1. w.pc = "task" /\ w.run = runs[q] /\ w.next = 1
    BY <1>4 DEF WorkerType
  <2>2. worker' = [worker EXCEPT ![q] = w]
    BY DEF FindJobRun
  <2> HIDE DEF w
  <2> QED
    BY <1>4, <2>1, <2>2
<1>6. current' = current \cup {<<"worker", q>>}
  BY DEF FindJobRun, Load
<1>7. /\ \A r \in RunId : r # q => HolderStays(<<"worker", r>>, r)
      /\ \A r \in RunId : HolderStays(<<"connect", r>>, r)
      /\ \A c \in Calls : HolderStays(<<"call", c>>, calls[c].id)
  BY <1>3, <1>6 DEF HolderStays
<1>8. WorkerOK(q)'
  <2>1. PICK run, done, more :
           run = runs[q] /\ done = DoneOf(q) /\ more = DoneOf(q)' /\ done \subseteq more
    BY <1>2 DEF Grows
  <2>2. /\ ~overtaken => InOrder(run, done)
        /\ run \in JobRun
    BY <1>4, <2>1, RunIds DEF IInv, RowOK
  <2>3. CompletedTo(run, 1, more)
    BY <2>2, RunFields DEF CompletedTo
  <2> QED
    BY <1>3, <1>4, <1>5, <2>1, <2>2, <2>3, MoreDone DEF WorkerOK
<1>9. \A r \in RunId : WorkerOK(r)'
  BY <1>2, <1>5, <1>7, <1>8, AllStay
<1>10. \A r \in RunId : CopyOK(r)'
  BY <1>2, <1>3, <1>7, AllStay
<1>11. \A c \in Calls : CallOK(c)'
  BY <1>2, <1>3, <1>7, AllStay
<1>12. \A r \in DOMAIN runs' : RowOK(r)'
  BY <1>2, <1>3, AllStay
<1> QED
  BY <1>1, <1>3, <1>9, <1>10, <1>11, <1>12, Together DEF IInv, Others

LEMMA TurnStep ==
    ASSUME IInv, NEW q \in RunId, NEW s, Turn(q, s)
    PROVE  IInv'
<1>1. /\ TypeOK /\ TypeOK' /\ worker'[q] \in WorkerType
      /\ worker'[q].pc = "save" /\ worker'[q].next = TaskAt(worker[q])
      /\ worker'[q].run = ApplyOutput(worker[q].run, TaskAt(worker[q]), s)
      /\ \A r \in RunId : r # q => worker'[r] = worker[r]
  BY TurnType DEF IInv
<1>2. UNCHANGED <<runs, heads, connect, calls, current, overtaken>>
  BY DEF Turn, counts
<1>3. /\ worker[q] \in WorkerType /\ worker[q].pc = "task" /\ q \in DOMAIN runs
      /\ worker[q].run \in JobRun /\ TasksLeft(worker[q]) # {}
      /\ Runnable(worker[q].run.status)
  BY TypeParts DEF IInv, WorkerTypes, WorkerType, WorkerOK, Turn, ToExecute
<1>4. Grows
  <2>1. PICK i : i = TaskAt(worker[q]) /\ i \in Nat \ {0}
    BY <1>3, TaskAtIsLeft
  <2>2. PICK tx : tx = [run |-> q, task |-> i, state |-> "unconfirmed"]
    OBVIOUS
  <2>3. tx \in EthTaskRunTx
    BY <2>1, <2>2 DEF EthTaskRunTx
  <2>4. UNCHANGED txs \/ txs' = Append(txs, tx)
    BY <2>1, <2>2 DEF Turn
  <2>5. \A r : DoneOf(r) \subseteq DoneOf(r)'
    BY <1>1, <2>3, <2>4, DoneStays
  <2> QED
    BY <1>2, <2>5 DEF Grows
<1>5. \A h, r : HolderStays(h, r)
  BY <1>2 DEF HolderStays
<1>6. WorkerOK(q)'
  <2>1. PICK w, run, i, done, more :
           /\ w = worker[q] /\ i = TaskAt(w) /\ run = ApplyOutput(w.run, i, s)
           /\ done = DoneOf(q) /\ more = DoneOf(q)' /\ done \subseteq more
    BY <1>4 DEF Grows
  <2>2. CASE overtaken
    BY <1>1, <1>2, <1>3, <2>2 DEF WorkerOK
  <2>3. CASE ~overtaken
    <3>1. InOrder(w.run, done) /\ CompletedTo(w.run, w.next, done)
      BY <1>3, <2>1, <2>3 DEF IInv, WorkerOK
    <3>2. i \in DOMAIN w.run.tasks /\ At(w.run, i, done)
      BY <1>3, <2>1, <3>1, TaskAtIsNext
    <3>3. w.run.status \notin {"errored", "completed"}
      BY <1>3, <2>1, <3>2 DEF At, Runnable
    <3>4. At(w.run, i, more)
      BY <2>1, <3>2, MoreDone DEF At
    <3>5. /\ s \in {"completed", "errored"} \cup PendingStatus
          /\ s = "completed" /\ w.run.tasks[i].kind = "ethtx" => i \in more
          /\ s = "pending_bridge" => w.run.tasks[i].kind = "bridge"
      <4>1. ~(s = "in_progress" /\ w.run.tasks[i].status = "pending_bridge")
        BY <1>3, <2>1, <3>2, <3>3 DEF At, Runnable, PendingStatus
      <4> QED
        BY <2>1, <4>1 DEF Turn
    <3>6. InOrder(run, more) /\ (Runnable(run.status) => CompletedTo(run, i + 1, more))
      BY <1>3, <2>1, <3>2, <3>4, <3>5, ApplyInOrder
    <3>7. <<"worker", q>> \in current => runs[q].status \notin Final
      BY <1>3, <2>1, <3>3 DEF IInv, WorkerOK, Final
    <3> QED
      BY <1>1, <1>2, <1>3, <2>1, <2>3, <3>6, <3>7 DEF WorkerOK
  <2> QED
    BY <2>2, <2>3
<1>7. \A r \in RunId : WorkerOK(r)'
  BY <1>1, <1>4, <1>5, <1>6, AllStay
<1>8. /\ \A r \in RunId : CopyOK(r)'
      /\ \A c \in Calls : CallOK(c)'
      /\ \A r \in DOMAIN runs' : RowOK(r)'
  BY <1>2, <1>4, <1>5, AllStay
<1> QED
  BY <1>1, <1>2, <1>7, <1>8, Together DEF IInv, Others

\* What a save of run q changes, but for the one who saves.
LEMMA SaveKeeps ==
    ASSUME IInv, NEW q \in DOMAIN runs, NEW run \in JobRun, NEW goesOn \in SUBSET HoldersOf(q),
           SaveJobRun(q, run, goesOn), goesOn \subseteq current,
           UNCHANGED <<txs, overtaken>>
    PROVE  /\ runs' \in Seq(JobRun) /\ Len(runs') = Len(runs) /\ DOMAIN runs' = DOMAIN runs
           /\ runs'[q] = run /\ \A r \in DOMAIN runs : r # q => runs'[r] = runs[r]
           /\ current' \subseteq Holders /\ current' \subseteq current
           /\ Grows
           /\ \A r \in RunId : <<"worker", r>> \notin goesOn => HolderStays(<<"worker", r>>, r)
           /\ \A r \in RunId : <<"connect", r>> \notin goesOn => HolderStays(<<"connect", r>>, r)
           /\ \A c \in Calls : <<"call", c>> \notin goesOn => HolderStays(<<"call", c>>, calls[c].id)
<1>1. /\ runs' \in Seq(JobRun) /\ Len(runs') = Len(runs) /\ DOMAIN runs' = DOMAIN runs
      /\ runs'[q] = run /\ \A r \in DOMAIN runs : r # q => runs'[r] = runs[r]
      /\ current' \subseteq current
      /\ \A h \in current' : h \notin HoldersOf(q) \/ h \in goesOn
  BY SaveSaves DEF IInv
<1>2. Grows
  BY <1>1, DoneStays DEF IInv, Grows
<1>3. current' \subseteq Holders
  BY <1>1, TypeParts DEF IInv
<1>4. \A r \in RunId : <<"worker", r>> \notin goesOn => HolderStays(<<"worker", r>>, r)
  BY <1>1 DEF HolderStays, HoldersOf
<1>5. \A r \in RunId : <<"connect", r>> \notin goesOn => HolderStays(<<"connect", r>>, r)
  BY <1>1 DEF HolderStays, HoldersOf
<1>6. \A c \in Calls : <<"call", c>> \notin goesOn => HolderStays(<<"call", c>>, calls[c].id)
  BY <1>1 DEF HolderStays, HoldersOf
<1> QED
  BY <1>1, <1>2, <1>3, <1>4, <1>5, <1>6

LEMMA WorkerSavesStep ==
    ASSUME IInv, NEW q \in RunId, WorkerSaves(q)
    PROVE  IInv'
<1>1. /\ worker[q] \in WorkerType /\ worker[q].run \in JobRun /\ worker[q].pc = "save"
      /\ worker[q].next \in Nat \ {0} /\ Len(worker[q].run.tasks) \in Nat
      /\ q \in DOMAIN runs /\ worker \in [RunId -> WorkerType] /\ TypeOK
      /\ DOMAIN worker[q].run.tasks = 1 .. Len(worker[q].run.tasks)
  BY TypeParts, RunFields DEF IInv, WorkerTypes, WorkerType, WorkerOK, WorkerSaves
<1>2. UNCHANGED <<txs, height, up, queue, heads, connect, calls, counts>> /\ UNCHANGED overtaken
  BY DEF WorkerSaves, counts
<1>3. PICK w, n : w = worker[q] /\ n \in Nat \ {0}
         /\ n = IF <<"worker", q>> \in current THEN w.next + 1 ELSE Len(w.run.tasks) + 1
  BY <1>1
<1> DEFINE new == [w EXCEPT !.pc = "task", !.next = n]
<1>4. new \in WorkerType /\ new.pc = "task" /\ new.next = n /\ new.run = w.run
  BY <1>1, <1>3 DEF WorkerType
<1>5. worker' = [worker EXCEPT ![q] = new]
  <2>1. n = IF MaySave(<<"worker", q>>) THEN worker[q].next + 1 ELSE Len(worker[q].run.tasks) + 1
    BY <1>3 DEF MaySave
  <2>2. worker' = [worker EXCEPT ![q] =
           [worker[q] EXCEPT !.pc = "task",
                             !.next = IF MaySave(<<"worker", q>>) THEN worker[q].next + 1
                                      ELSE Len(worker[q].run.tasks) + 1]]
    BY DEF WorkerSaves
  <2> QED
    BY <1>3, <2>1, <2>2, Zenon
<1> HIDE DEF new
<1>6. WorkerTypes(queue', worker')
  BY <1>1, <1>2, <1>4, <1>5, OneWorker
<1>7. worker'[q] = new /\ \A r \in RunId : r # q => worker'[r] = worker[r]
  BY <1>1, <1>5
<1>8. CASE MaySave(<<"worker", q>>)
  <2>1. SaveJobRun(q, w.run, {<<"worker", q>>})
    BY <1>3, <1>8 DEF WorkerSaves
  <2>2. {<<"worker", q>>} \in SUBSET HoldersOf(q) /\ {<<"worker", q>>} \subseteq current
    BY <1>8 DEF HoldersOf, MaySave
  <2>3. /\ runs' \in Seq(JobRun) /\ Len(runs') = Len(runs) /\ DOMAIN runs' = DOMAIN runs
        /\ runs'[q] = w.run /\ \A r \in DOMAIN runs : r # q => runs'[r] = runs[r]
        /\ current' \subseteq Holders
        /\ Grows
        /\ \A r \in RunId : r # q => HolderStays(<<"worker", r>>, r)
        /\ \A r \in RunId : HolderStays(<<"connect", r>>, r)
        /\ \A c \in Calls : HolderStays(<<"call", c>>, calls[c].id)
    BY <1>1, <1>2, <1>3, <2>1, <2>2, SaveKeeps
  <2>4. TypeOK'
    BY <1>1, <1>2, <1>6, <2>3, TypeTogether, TypeParts DEF TypeOK, counts
  <2>5. PICK done, more : done = DoneOf(q) /\ more = DoneOf(q)' /\ done \subseteq more
    BY <2>3 DEF Grows
  <2>6. ~overtaken => InOrder(w.run, more)
    BY <1>1, <1>3, <2>5, MoreDone DEF IInv, WorkerOK
  <2>7. ~overtaken /\ Runnable(w.run.status) => CompletedTo(w.run, n, more)
    BY <1>1, <1>3, <1>8, <2>5, MoreDone DEF IInv, WorkerOK, MaySave
  <2>8. WorkerOK(q)'
    BY <1>1, <1>2, <1>4, <1>7, <2>3, <2>5, <2>6, <2>7 DEF WorkerOK
  <2>9. RowOK(q)'
    BY <1>2, <2>3, <2>5, <2>6 DEF RowOK
  <2>10. \A r \in RunId : WorkerOK(r)'
    BY <1>7, <2>3, <2>8, AllStay
  <2>11. /\ \A r \in RunId : CopyOK(r)'
         /\ \A c \in Calls : CallOK(c)'
         /\ \A r \in DOMAIN runs' : RowOK(r)'
    BY <1>2, <2>3, <2>9, AllStay
  <2> QED
    BY <1>2, <2>3, <2>4, <2>10, <2>11, Together DEF IInv, Others
<1>9. CASE ~MaySave(<<"worker", q>>)
  <2>1. UNCHANGED <<runs, current>>
    BY <1>9 DEF WorkerSaves
  <2>2. TypeOK'
    BY <1>1, <1>2, <1>6, <2>1, TypeTogether, TypeParts DEF TypeOK, counts
  <2>3. Grows
    BY <1>1, <1>2, <2>1, SameTables DEF db
  <2>4. \A h, r : HolderStays(h, r)
    BY <2>1 DEF HolderStays
  <2>5. PICK done, more : done = DoneOf(q) /\ more = DoneOf(q)' /\ done \subseteq more
    BY <2>3 DEF Grows
  <2>6. ~overtaken => InOrder(w.run, more)
    BY <1>1, <1>3, <2>5, MoreDone DEF IInv, WorkerOK
  <2>7. TasksLeft(new) = {}
    BY <1>1, <1>3, <1>4, <1>9 DEF TasksLeft, MaySave
  <2>8. WorkerOK(q)'
    BY <1>1, <1>2, <1>4, <1>7, <1>9, <2>1, <2>5, <2>6, <2>7 DEF WorkerOK, MaySave
  <2>9. \A r \in RunId : WorkerOK(r)'
    BY <1>7, <2>3, <2>4, <2>8, AllStay
  <2>10. /\ \A r \in RunId : CopyOK(r)'
         /\ \A c \in Calls : CallOK(c)'
         /\ \A r \in DOMAIN runs' : RowOK(r)'
    BY <1>2, <2>1, <2>3, <2>4, AllStay
  <2> QED
    BY <1>2, <2>1, <2>2, <2>9, <2>10, Together DEF IInv, Others
<1> QED
  BY <1>8, <1>9

LEMMA EndExecuteStep ==
    ASSUME IInv, NEW q \in RunId, EndExecute(q)
    PROVE  IInv'
<1>1. /\ worker \in [RunId -> WorkerType] /\ queue \in [RunId -> Nat] /\ TypeOK
      /\ worker[q].pc = "task" /\ q \in DOMAIN runs /\ queue[q] \in Nat \ {0}
      /\ \A r \in RunId : queue[r] = 0 <=> worker[r].pc = "none"
  BY TypeParts DEF IInv, WorkerTypes, WorkerOK, EndExecute
<1>2. /\ UNCHANGED <<txs, height, up, heads, connect, calls, counts, runs, db, overtaken>>
      /\ current' \subseteq current
      /\ queue' = [queue EXCEPT ![q] = queue[q] - 1]
  BY DEF EndExecute, counts, db
<1>3. PICK w : w = IF queue[q] > 1 THEN Waking ELSE NoWorker
  OBVIOUS
<1>4. worker' = [worker EXCEPT ![q] = w]
  BY <1>3 DEF EndExecute
<1>5. /\ w \in WorkerType /\ w.pc \in {"none", "find"}
      /\ w.pc = "find" => w.next = 1
      /\ w.pc = "none" <=> queue[q] - 1 = 0
  BY <1>1, <1>3, IdleValues
<1>6. WorkerTypes(queue', worker')
  BY <1>1, <1>2, <1>4, <1>5 DEF WorkerTypes
<1>7. worker'[q] = w /\ \A r \in RunId : r # q => worker'[r] = worker[r]
  BY <1>1, <1>4
<1>8. TypeOK'
  BY <1>1, <1>2, <1>6, TypeTogether, TypeParts DEF TypeOK, counts
<1>9. Grows /\ \A h, r : HolderStays(h, r)
  BY <1>1, <1>2, SameTables DEF HolderStays
<1>10. WorkerOK(q)'
  BY <1>1, <1>2, <1>5, <1>7 DEF WorkerOK
<1>11. \A r \in RunId : WorkerOK(r)'
  BY <1>7, <1>9, <1>10, AllStay
<1>12. /\ \A r \in RunId : CopyOK(r)'
       /\ \A c \in Calls : CallOK(c)'
       /\ \A r \in DOMAIN runs' : RowOK(r)'
  BY <1>2, <1>9, AllStay
<1> QED
  BY <1>2, <1>8, <1>11, <1>12, Together DEF IInv, Others

\* A run that is queued gets a worker, if it has none.
LEMMA RunStep ==
    ASSUME IInv, NEW q \in DOMAIN runs, Run(q), UNCHANGED <<db, overtaken>>,
           current' \subseteq current
    PROVE  /\ WorkerTypes(queue', worker')
           /\ Grows /\ \A h, r : HolderStays(h, r)
           /\ \A r \in RunId : WorkerOK(r)'
<1>1. TypeOK /\ q \in RunId
  BY RunIds DEF IInv
<1>2. /\ WorkerTypes(queue', worker')
      /\ \A s \in RunId : worker'[s] = worker[s] \/ (s = q /\ worker'[s] = Waking)
  BY <1>1, RunStarts DEF WorkerTypes
<1>3. Grows /\ \A h, r : HolderStays(h, r)
  BY <1>1, SameTables DEF HolderStays, db
<1>4. Waking.pc = "find" /\ Waking.next = 1
  BY IdleValues
<1>5. ASSUME worker'[q] = Waking PROVE WorkerOK(q)'
  BY <1>4, <1>5 DEF WorkerOK, db
<1> QED
  BY <1>2, <1>3, <1>5, AllStay

-----------------------------------------------------------------------------
(* New heads *)

LEMMA ResumeAllStep ==
    ASSUME IInv, ResumeAllPendingNextBlock
    PROVE  IInv'
<1>1. PICK h \in {height, height + 1} :
         /\ h <= MaxHeight
         /\ height' = h
         /\ runs' = [r \in DOMAIN runs |->
                       IF r \in Resumable THEN ResumedAt(runs[r], h) ELSE runs[r]]
  BY DEF ResumeAllPendingNextBlock
<1>2. UNCHANGED <<txs, up, queue, worker, connect, calls, current, counts, overtaken>>
      /\ heads' = Resumable
  BY DEF ResumeAllPendingNextBlock, queues, counts
<1>3. TypeOK /\ h \in Nat /\ h \in 0 .. MaxHeight
  BY <1>1, TypeParts, RunAssumption DEF IInv
<1>4. /\ runs \in Seq(JobRun) /\ DOMAIN runs = 1 .. Len(runs) /\ Len(runs) \in Nat
      /\ DOMAIN runs \subseteq RunId /\ \A r \in DOMAIN runs : runs[r] \in JobRun
  BY <1>3, RunIds
<1>5. ASSUME NEW r \in DOMAIN runs
      PROVE  /\ runs'[r] \in JobRun
             /\ runs'[r] = runs[r] \/ runs'[r].status = "in_progress"
             /\ \A done : InOrder(runs[r], done) => InOrder(runs'[r], done)
  <2>1. CASE r \in Resumable
    <3>1. runs[r] \in JobRun /\ runs[r].status \in ResumableStatus
      BY <1>4, <2>1 DEF Resumable
    <3>2. runs'[r] = ResumedAt(runs[r], h)
      BY <1>1, <2>1
    <3> QED
      BY <1>3, <3>1, <3>2, ResumedInOrder
  <2>2. CASE r \notin Resumable
    BY <1>1, <1>4, <2>2
  <2> QED
    BY <2>1, <2>2
<1>6. runs' \in Seq(JobRun) /\ Len(runs') = Len(runs) /\ DOMAIN runs' = DOMAIN runs
  <2>1. PICK new : new = runs'
    OBVIOUS
  <2>2. new = [i \in 1 .. Len(runs) |-> new[i]] /\ \A i \in 1 .. Len(runs) : new[i] \in JobRun
    BY <1>1, <1>4, <1>5, <2>1
  <2> QED
    BY <1>4, <2>1, <2>2, SeqFromTo
<1>7. heads' \subseteq DOMAIN runs
  BY <1>2 DEF Resumable
<1>8. TypeOK'
  BY <1>1, <1>2, <1>3, <1>4, <1>6, <1>7, TypeTogether, TypeParts DEF TypeOK, counts
<1>9. Grows
  BY <1>2, <1>3, <1>6, DoneStays DEF Grows
<1>10. \A hd, r : HolderStays(hd, r)
  BY <1>2, <1>5 DEF HolderStays, Final
<1>11. /\ \A r \in RunId : WorkerOK(r)'
       /\ \A r \in RunId : CopyOK(r)'
       /\ \A c \in Calls : CallOK(c)'
  BY <1>2, <1>9, <1>10, AllStay
<1>12. ASSUME NEW r \in DOMAIN runs PROVE RowOK(r)'
  <2>1. PICK done, more : done = DoneOf(r) /\ more = DoneOf(r)' /\ done \subseteq more
    BY <1>9 DEF Grows
  <2>2. PICK run : run = runs'[r]
    OBVIOUS
  <2>3. ~overtaken => InOrder(run, done)
    BY <1>5, <2>1, <2>2 DEF IInv, RowOK
  <2>4. ~overtaken => InOrder(run, more)
    BY <2>1, <2>3, MoreDone
  <2> QED
    BY <1>2, <2>1, <2>2, <2>4 DEF RowOK
<1> QED
  BY <1>2, <1>6, <1>7, <1>8, <1>11, <1>12, Together DEF IInv, Others

LEMMA QueueResumedStep ==
    ASSUME IInv, QueueResumed
    PROVE  IInv'
<1>1. PICK q \in heads : Run(q) /\ heads' = heads \ {q}
  BY DEF QueueResumed
<1>2. q \in DOMAIN runs /\ TypeOK /\ heads' \subseteq DOMAIN runs /\ heads' \subseteq RunId
  BY <1>1, RunIds DEF IInv, Others
<1>3. UNCHANGED <<db, runs, txs, height, up, connect, calls, current, counts, overtaken>>
  BY DEF QueueResumed, counts, db
<1>4. /\ WorkerTypes(queue', worker')
      /\ Grows /\ \A h, r : HolderStays(h, r)
      /\ \A r \in RunId : WorkerOK(r)'
  BY <1>1, <1>2, <1>3, RunStep
<1>5. TypeOK'
  BY <1>2, <1>3, <1>4, TypeTogether, TypeParts DEF TypeOK, counts
<1>6. /\ \A r \in RunId : CopyOK(r)'
      /\ \A c \in Calls : CallOK(c)'
      /\ \A r \in DOMAIN runs' : RowOK(r)'
  BY <1>3, <1>4, AllStay
<1> QED
  BY <1>2, <1>3, <1>4, <1>5, <1>6, Together DEF IInv, Others

-----------------------------------------------------------------------------
(* A new connection *)

\* A step of the connection leaves the workers, the calls and the rows alone.
LEMMA ConnectTogether ==
    ASSUME IInv, TypeOK', UNCHANGED <<db, overtaken, worker, heads, calls>>, current' \subseteq current,
           (connect \in ConnectType(connect.copies))', (connect.pc # "idle" => connect.ids # {})',
           \A r \in RunId : CopyOK(r)'
    PROVE  IInv'
<1>1. Grows /\ \A h, r : HolderStays(h, r)
  BY SameTables DEF HolderStays, db, IInv
<1>2. /\ \A r \in RunId : WorkerOK(r)'
      /\ \A c \in Calls : CallOK(c)'
      /\ \A r \in DOMAIN runs' : RowOK(r)'
  BY <1>1, AllStay DEF db
<1> QED
  BY <1>2, Together DEF IInv, Others, db

LEMMA PluckIDsStep ==
    ASSUME IInv, PluckIDs
    PROVE  IInv'
<1>1. PICK ids : /\ ids = {r \in DOMAIN runs : runs[r].status \in
                             {"pending_connection", "pending_outgoing_confirmations"}}
                 /\ connect' = IF ids = {} THEN Offline
                               ELSE [Offline EXCEPT !.pc = "find", !.ids = ids]
  BY DEF PluckIDs
<1>2. ids \subseteq DOMAIN runs /\ ids \subseteq RunId /\ TypeOK
  BY <1>1, RunIds DEF IInv
<1>3. /\ (connect \in ConnectType(connect.copies))' /\ (connect.pc # "idle" => connect.ids # {})'
      /\ connect'.pc \in {"idle", "find"} /\ (connect'.pc = "find" => connect'.ids = ids)
  <2>1. Offline \in ConnectType(Offline.copies) /\ Offline.pc = "idle"
    BY IdleValues
  <2> HIDE DEF Offline
  <2> QED
    BY <1>1, <1>2, <2>1 DEF ConnectType
<1>4. connects' = connects + 1 /\ connects < MaxConnects
      /\ UNCHANGED <<runs, txs, db, height, up, queue, worker, heads, calls, current, overtaken, crashes>>
  BY DEF PluckIDs, db, queues
<1>5. TypeOK'
  <2>1. connects' \in 0 .. MaxConnects /\ crashes' \in 0 .. MaxCrashes
    BY <1>2, <1>4, RunAssumption DEF TypeOK
  <2>2. connect'.ids \subseteq RunId /\ connect'.pc \in {"idle", "find", "save", "run"}
    BY <1>3 DEF ConnectType
  <2> QED
    BY <1>2, <1>4, <2>1, <2>2, TypeTogether, TypeParts DEF TypeOK
<1>6. ASSUME NEW r \in RunId PROVE CopyOK(r)'
  BY <1>2, <1>3, <1>4 DEF CopyOK, IInv
<1> QED
  BY <1>3, <1>4, <1>5, <1>6, ConnectTogether

LEMMA FindBatchStep ==
    ASSUME IInv, FindBatch
    PROVE  IInv'
<1>1. /\ connect' = [connect EXCEPT !.pc = "save", !.copies = [r \in connect.ids |-> runs[r]]]
      /\ current' = current \cup {<<"connect", r>> : r \in connect.ids}
      /\ overtaken' = (overtaken \/ \E r \in connect.ids :
                          runs[r].status \in FinishedStatus \cup {"pending_bridge"})
      /\ UNCHANGED <<runs, txs, db, height, up, queue, worker, heads, calls, connects, crashes>>
      /\ connect.pc = "find"
  BY DEF FindBatch, db, queues
<1>2. TypeOK /\ connect.ids \subseteq RunId /\ connect.ids # {}
      /\ \A r \in connect.ids : r \in DOMAIN runs /\ runs[r] \in JobRun
  BY <1>1, TypeParts, RunIds DEF IInv, Others, CopyOK
<1>3. /\ (connect \in ConnectType(connect.copies))'
      /\ connect'.pc = "save" /\ connect'.ids = connect.ids
      /\ connect'.copies = [r \in connect.ids |-> runs[r]]
  BY <1>1, <1>2 DEF IInv, Others, ConnectType
<1>4. overtaken' \in BOOLEAN /\ (overtaken => overtaken') /\ current' \subseteq Holders
  BY <1>1, <1>2, TypeParts DEF TypeOK, Holders
<1>5. TypeOK'
  BY <1>1, <1>2, <1>3, <1>4, TypeTogether, TypeParts DEF TypeOK
<1>6. Grows
  BY <1>1, <1>2, <1>4, DoneStays DEF Grows
<1>7. /\ \A r \in RunId : HolderStays(<<"worker", r>>, r)
      /\ \A c \in Calls : HolderStays(<<"call", c>>, calls[c].id)
  BY <1>1 DEF HolderStays
<1>8. ASSUME NEW r \in RunId PROVE CopyOK(r)'
  <2>1. CASE r \in connect.ids
    <3>1. ~overtaken' => ~overtaken /\ runs[r].status \notin FinishedStatus \cup {"pending_bridge"}
      BY <1>1, <2>1
    <3>2. PICK done, more, run :
             done = DoneOf(r) /\ more = DoneOf(r)' /\ done \subseteq more /\ run = runs[r]
      BY <1>6 DEF Grows
    <3>3. ~overtaken' => InOrder(run, more)
      BY <1>2, <2>1, <3>1, <3>2, MoreDone DEF IInv, RowOK
    <3>4. run \in JobRun /\ (~overtaken' => run.status \notin Final) /\ connect'.copies[r] = run
      BY <1>2, <1>3, <2>1, <3>1, <3>2 DEF Final, FinishedStatus
    <3> QED
      BY <1>1, <1>2, <1>3, <2>1, <3>1, <3>2, <3>3, <3>4 DEF CopyOK
  <2>2. CASE r \notin connect.ids
    <3>1. <<"connect", r>> \in current' => <<"connect", r>> \in current
      BY <1>1, <2>2
    <3> QED
      BY <1>1, <1>3, <1>4, <2>2, <3>1 DEF CopyOK, IInv
  <2> QED
    BY <2>1, <2>2
<1>9. /\ \A r \in RunId : WorkerOK(r)'
      /\ \A c \in Calls : CallOK(c)'
      /\ \A r \in DOMAIN runs' : RowOK(r)'
  BY <1>1, <1>6, <1>7, AllStay
<1> QED
  BY <1>1, <1>2, <1>3, <1>5, <1>8, <1>9, Together DEF IInv, Others

\* The connection goes on with the next copy.
LEMMA DoneWithOldestKeeps ==
    ASSUME IInv, connect.pc \in {"save", "run"}, DoneWithOldest
    PROVE  /\ (connect \in ConnectType(connect.copies))' /\ (connect.pc # "idle" => connect.ids # {})'
           /\ connect'.pc \in {"idle", "save"} /\ connect'.ids \subseteq connect.ids
           /\ connect'.pc = "save" => connect'.copies = connect.copies
<1>1. Oldest \in connect.ids /\ connect \in ConnectType(connect.copies)
  BY OldestIsOne DEF IInv, Others
<1>2. CASE connect.ids = {Oldest}
  BY <1>2, IdleValues DEF DoneWithOldest
<1>3. CASE connect.ids # {Oldest}
  <2>1. PICK ids : ids = connect.ids \ {Oldest} /\ ids # {} /\ ids \subseteq connect.ids
    BY <1>1, <1>3
  <2>2. connect' = [connect EXCEPT !.pc = "save", !.ids = ids]
    BY <1>3, <2>1 DEF DoneWithOldest
  <2> QED
    BY <1>1, <2>1, <2>2 DEF ConnectType
<1> QED
  BY <1>2, <1>3

LEMMA ConnectRunsStep ==
    ASSUME IInv, ConnectRuns
    PROVE  IInv'
<1>1. TypeOK /\ connect.pc = "run" /\ Run(Oldest) /\ DoneWithOldest
  BY DEF IInv, ConnectRuns
<1>2. Oldest \in connect.ids /\ Oldest \in DOMAIN runs /\ connect.ids \subseteq RunId
  BY <1>1, OldestIsOne, TypeParts DEF IInv, CopyOK
<1>3. UNCHANGED <<db, runs, txs, height, up, heads, calls, current, counts, overtaken>>
  BY DEF ConnectRuns, counts, db
<1>4. /\ WorkerTypes(queue', worker')
      /\ Grows /\ \A h, r : HolderStays(h, r)
      /\ \A r \in RunId : WorkerOK(r)'
  BY <1>1, <1>2, <1>3, RunStep
<1>5. /\ (connect \in ConnectType(connect.copies))' /\ (connect.pc # "idle" => connect.ids # {})'
      /\ connect'.pc \in {"idle", "save"} /\ connect'.ids \subseteq connect.ids
      /\ connect'.pc = "save" => connect'.copies = connect.copies
  BY <1>1, DoneWithOldestKeeps
<1>6. TypeOK'
  BY <1>1, <1>2, <1>3, <1>4, <1>5, TypeTogether, TypeParts DEF TypeOK, counts
<1>7. \A r \in RunId : CopyOK(r)'
  BY <1>1, <1>4, <1>5, CopyStays DEF IInv
<1>8. /\ \A c \in Calls : CallOK(c)'
      /\ \A r \in DOMAIN runs' : RowOK(r)'
  BY <1>3, <1>4, AllStay
<1> QED
  BY <1>3, <1>4, <1>5, <1>6, <1>7, <1>8, Together DEF IInv, Others

LEMMA ConnectSavesStep ==
    ASSUME IInv, ConnectSaves
    PROVE  IInv'
<1>1. PICK q, run : q = Oldest /\ run = Reconnected(connect.copies[q])
  OBVIOUS
<1>2. /\ TypeOK /\ connect.pc = "save" /\ q \in connect.ids /\ q \in DOMAIN runs /\ q \in RunId
      /\ connect.copies[q] \in JobRun /\ connect \in ConnectType(connect.copies)
      /\ connect.ids \subseteq RunId /\ connect.ids # {}
  BY <1>1, OldestIsOne, TypeParts DEF IInv, Others, CopyOK, ConnectSaves
<1>3. run \in JobRun
  BY <1>1, <1>2, ReconnectedType
<1>4. UNCHANGED <<txs, height, up, queue, worker, heads, calls, counts, overtaken>>
  BY DEF ConnectSaves, queues, counts
<1>5. CASE <<"connect", q>> \in current
  <2>1. SaveJobRun(q, run, {})
    BY <1>1, <1>5 DEF ConnectSaves, MaySave
  <2>2. /\ runs' \in Seq(JobRun) /\ Len(runs') = Len(runs) /\ DOMAIN runs' = DOMAIN runs
        /\ runs'[q] = run /\ \A r \in DOMAIN runs : r # q => runs'[r] = runs[r]
        /\ current' \subseteq Holders
        /\ Grows
        /\ \A r \in RunId : HolderStays(<<"worker", r>>, r)
        /\ \A r \in RunId : HolderStays(<<"connect", r>>, r)
        /\ \A c \in Calls : HolderStays(<<"call", c>>, calls[c].id)
    BY <1>2, <1>3, <1>4, <2>1, SaveKeeps
  <2>3. /\ (connect \in ConnectType(connect.copies))' /\ (connect.pc # "idle" => connect.ids # {})'
        /\ connect'.pc \in {"idle", "save", "run"} /\ connect'.ids \subseteq connect.ids
        /\ connect'.pc # "idle" => connect'.copies = connect.copies
    <3>1. connect' = [connect EXCEPT !.pc = "run"] \/ DoneWithOldest
      BY <1>1, <1>5 DEF ConnectSaves, MaySave
    <3>2. CASE connect' = [connect EXCEPT !.pc = "run"]
      BY <1>2, <3>2 DEF ConnectType
    <3>3. CASE DoneWithOldest
      BY <1>2, <3>3, DoneWithOldestKeeps
    <3> QED
      BY <3>1, <3>2, <3>3
  <2>4. TypeOK'
    BY <1>2, <1>4, <2>2, <2>3, TypeTogether, TypeParts DEF TypeOK, counts
  <2>5. \A r \in RunId : CopyOK(r)'
    BY <1>2, <2>2, <2>3, CopyStays DEF IInv
  <2>6. RowOK(q)'
    <3>1. PICK done, more, copy : /\ done = DoneOf(q) /\ more = DoneOf(q)' /\ done \subseteq more
                                  /\ copy = connect.copies[q]
      BY <2>2 DEF Grows
    <3>2. ~overtaken => copy.status \notin FinishedStatus \cup {"pending_bridge"} /\ InOrder(copy, done)
      BY <1>2, <3>1 DEF IInv, CopyOK
    <3>3. ~overtaken => InOrder(run, more)
      BY <1>1, <1>2, <3>1, <3>2, ReconnectedInOrder, MoreDone
    <3> QED
      BY <1>4, <2>2, <3>1, <3>3 DEF RowOK
  <2>7. /\ \A r \in RunId : WorkerOK(r)'
        /\ \A c \in Calls : CallOK(c)'
        /\ \A r \in DOMAIN runs' : RowOK(r)'
    BY <1>4, <2>2, <2>6, AllStay
  <2> QED
    BY <1>4, <2>2, <2>3, <2>4, <2>5, <2>7, Together DEF IInv, Others
<1>6. CASE <<"connect", q>> \notin current
  <2>1. DoneWithOldest /\ UNCHANGED <<runs, current, db>>
    BY <1>1, <1>4, <1>6 DEF ConnectSaves, MaySave, db
  <2>2. /\ (connect \in ConnectType(connect.copies))' /\ (connect.pc # "idle" => connect.ids # {})'
        /\ connect'.pc \in {"idle", "save"} /\ connect'.ids \subseteq connect.ids
        /\ connect'.pc = "save" => connect'.copies = connect.copies
    BY <1>2, <2>1, DoneWithOldestKeeps
  <2>3. Grows /\ \A h, r : HolderStays(h, r)
    BY <1>2, <1>4, <2>1, SameTables DEF HolderStays
  <2>4. TypeOK'
    BY <1>2, <1>4, <2>1, <2>2, TypeTogether, TypeParts DEF TypeOK, counts
  <2>5. \A r \in RunId : CopyOK(r)'
    BY <1>2, <2>2, <2>3, CopyStays DEF IInv
  <2> QED
    BY <1>4, <2>1, <2>2, <2>4, <2>5, ConnectTogether
<1> QED
  BY <1>5, <1>6

-----------------------------------------------------------------------------
(* Requests *)

LEMMA CreateStep ==
    ASSUME IInv, NEW c \in Calls, Create(c)
    PROVE  IInv'
<1>1. PICK job \in Jobs, status \in {"in_progress", "errored"}, h \in Creation :
         runs' = Append(runs, MakeJobRun(job, status, h))
  BY DEF Create
<1>2. PICK run, n : run = MakeJobRun(job, status, h) /\ n = Len(runs')
  OBVIOUS
<1>3. /\ TypeOK /\ runs \in Seq(JobRun) /\ Len(runs) < MaxRuns /\ MaxRuns \in Nat
      /\ Len(runs) \in Nat /\ DOMAIN runs = 1 .. Len(runs)
      /\ UNCHANGED <<txs, height, up, queue, worker, heads, connect, current, counts, overtaken>>
  BY RunIds DEF IInv, Create, queues, counts
<1>4. run \in JobRun /\ \A done : InOrder(run, done)
  <2>1. job \in Seq(TaskKind) /\ h \in Nat \cup {NULL}
    BY <1>3, RunAssumption, TypeParts DEF Creation
  <2> QED
    BY <1>2, <2>1, MakeJobRunInOrder
<1>5. /\ runs' \in Seq(JobRun) /\ n = Len(runs) + 1 /\ DOMAIN runs' = 1 .. n
      /\ \A r \in DOMAIN runs : r \in DOMAIN runs' /\ runs'[r] = runs[r]
      /\ runs'[n] = run
  <2>1. PICK s, t : s = runs /\ t = runs'
    OBVIOUS
  <2>2. s \in Seq(JobRun) /\ t = Append(s, run)
    BY <1>1, <1>2, <1>3, <2>1
  <2>3. /\ t \in Seq(JobRun) /\ Len(t) = Len(s) + 1 /\ DOMAIN t = 1 .. Len(t)
        /\ \A m \in DOMAIN s : m \in DOMAIN t /\ t[m] = s[m]
        /\ t[Len(t)] = run
    BY <1>4, <2>2, AppendGrows
  <2> QED
    BY <1>2, <2>1, <2>3
<1>6. PICK call : call = IF Runnable(run.status) THEN Running(n) ELSE NoCall
  OBVIOUS
<1>7. calls' = [calls EXCEPT ![c] = call]
  BY <1>2, <1>5, <1>6 DEF Create, Running
<1>8. call \in CallType /\ call.pc # "save" /\ (call.pc # "idle" => call.id = n)
  BY <1>3, <1>5, <1>6, IdleValues
<1>9. calls' \in [Calls -> CallType] /\ calls'[c] = call
      /\ \A d \in Calls : d # c => calls'[d] = calls[d]
  BY <1>3, <1>7, <1>8, TypeParts
<1>10. TypeOK'
  BY <1>2, <1>3, <1>5, <1>9, TypeTogether, TypeParts DEF TypeOK, counts
<1>11. Grows
  BY <1>3, <1>5, DoneStays DEF Grows
<1>12. \A hd, r : HolderStays(hd, r)
  BY <1>3, <1>5 DEF HolderStays
<1>13. CallOK(c)'
  BY <1>2, <1>3, <1>5, <1>8, <1>9 DEF CallOK
<1>14. RowOK(n)'
  BY <1>4, <1>5 DEF RowOK
<1>15. /\ \A r \in RunId : WorkerOK(r)'
       /\ \A r \in RunId : CopyOK(r)'
       /\ \A d \in Calls : CallOK(d)'
  BY <1>3, <1>9, <1>11, <1>12, <1>13, AllStay
<1>16. \A r \in DOMAIN runs' : RowOK(r)'
  BY <1>3, <1>5, <1>11, <1>14, AllStay
<1> QED
  BY <1>3, <1>5, <1>10, <1>15, <1>16, Together DEF IInv, Others

LEMMA ChangeStep ==
    ASSUME IInv, NEW c \in Calls, NEW r \in DOMAIN runs, NEW run \in JobRun, Change(c, r, run),
           runs[r].status \notin Final, ~overtaken => InOrder(run, DoneOf(r))
    PROVE  IInv'
<1>1. /\ TypeOK /\ r \in RunId /\ r \in Nat
      /\ UNCHANGED <<db, runs, txs, height, up, queue, worker, heads, connect, counts, overtaken>>
      /\ current' = current \cup {<<"call", c>>}
  BY RunIds DEF IInv, Change, Load, db, queues, counts
<1> DEFINE call == [pc |-> "save", id |-> r, run |-> run]
<1>2. call \in CallType /\ call.pc = "save" /\ call.id = r /\ call.run = run
  BY <1>1 DEF CallType
<1>3. calls' = [calls EXCEPT ![c] = call]
  BY DEF Change
<1> HIDE DEF call
<1>4. calls' \in [Calls -> CallType] /\ calls'[c] = call
      /\ \A d \in Calls : d # c => calls'[d] = calls[d]
  BY <1>1, <1>2, <1>3, TypeParts
<1>5. current' \subseteq Holders
  BY <1>1, TypeParts DEF Holders
<1>6. TypeOK'
  BY <1>1, <1>4, <1>5, TypeTogether, TypeParts DEF TypeOK, counts
<1>7. Grows
  BY <1>1, SameTables
<1>8. /\ \A q \in RunId : HolderStays(<<"worker", q>>, q)
      /\ \A q \in RunId : HolderStays(<<"connect", q>>, q)
      /\ \A d \in Calls : d # c => HolderStays(<<"call", d>>, calls[d].id)
  BY <1>1 DEF HolderStays
<1>9. CallOK(c)'
  <2>1. PICK done, more : done = DoneOf(r) /\ more = DoneOf(r)' /\ done \subseteq more
    BY <1>7 DEF Grows
  <2>2. ~overtaken => InOrder(run, more)
    BY <2>1, MoreDone
  <2> QED
    BY <1>1, <1>2, <1>4, <2>1, <2>2 DEF CallOK
<1>10. /\ \A q \in RunId : WorkerOK(q)'
       /\ \A q \in RunId : CopyOK(q)'
       /\ \A d \in Calls : CallOK(d)'
       /\ \A q \in DOMAIN runs' : RowOK(q)'
  BY <1>1, <1>4, <1>7, <1>8, <1>9, AllStay
<1> QED
  BY <1>1, <1>6, <1>10, Together DEF IInv, Others

LEMMA CancelStep ==
    ASSUME IInv, NEW c \in Calls, NEW r \in DOMAIN runs, Cancel(c, r)
    PROVE  IInv'
<1>1. PICK run, done : run = runs[r] /\ done = DoneOf(r)
  OBVIOUS
<1>2. run \in JobRun /\ run.status \notin FinishedStatus /\ (~overtaken => InOrder(run, done))
  BY <1>1, RunIds DEF IInv, RowOK, Cancel
<1>3. Cancelled(run) \in JobRun /\ (~overtaken => InOrder(Cancelled(run), done))
  BY <1>2, CancelledType, CancelledInOrder
<1>4. run.status \notin Final
  BY <1>2 DEF Final, FinishedStatus
<1> QED
  BY <1>1, <1>3, <1>4, ChangeStep DEF Cancel

LEMMA ResumePendingBridgeStep ==
    ASSUME IInv, NEW c \in Calls, NEW r \in DOMAIN runs, NEW answer \in Answers,
           ResumePendingBridge(c, r, answer)
    PROVE  IInv'
<1>1. PICK run, done, new :
         /\ run = runs[r] /\ done = DoneOf(r)
         /\ new = IF TasksRemain(run) THEN ApplyOutput(run, NextTaskRun(run), answer)
                  ELSE SetStatus(run, "errored")
  OBVIOUS
<1>2. run \in JobRun /\ run.status = "pending_bridge" /\ (~overtaken => InOrder(run, done))
  BY <1>1, RunIds DEF IInv, RowOK, ResumePendingBridge
<1>3. answer \in {"completed", "errored"} \cup PendingStatus /\ answer \in RunStatus
      /\ "errored" \in RunStatus
  BY DEF Answers, PendingStatus, RunStatus, FinishedStatus
<1>4. new \in JobRun
  BY <1>1, <1>2, <1>3, ApplyType, StatusChanges
<1>5. ASSUME ~overtaken PROVE InOrder(new, done)
  <2>1. PICK k \in 1 .. Len(run.tasks) + 1 : At(run, k, done)
    BY <1>2, <1>5 DEF InOrder
  <2>2. k \in DOMAIN run.tasks /\ run.tasks[k].kind = "bridge"
    BY <1>2, <2>1 DEF At
  <2>3. new = ApplyOutput(run, k, answer)
    BY <1>1, <1>2, <2>1, <2>2, NextIsAt
  <2> QED
    BY <1>2, <1>3, <2>1, <2>2, <2>3, ApplyInOrder
<1>6. Change(c, r, new) /\ runs[r].status \notin Final
  BY <1>1, <1>2 DEF ResumePendingBridge, Final
<1> QED
  BY <1>1, <1>4, <1>5, <1>6, ChangeStep

LEMMA CallSavesStep ==
    ASSUME IInv, NEW c \in Calls, CallSaves(c)
    PROVE  IInv'
<1>1. PICK old : old = calls[c]
  OBVIOUS
<1>2. /\ TypeOK /\ old \in CallType /\ old.pc = "save" /\ old.id \in DOMAIN runs
      /\ old.run \in JobRun /\ old.id \in Nat /\ old.id \in RunId
      /\ UNCHANGED <<txs, height, up, queue, worker, heads, connect, counts, overtaken>>
  BY <1>1, TypeParts, RunIds DEF IInv, CallOK, CallSaves, CallType, queues, counts
<1>3. PICK call : call = IF MaySave(<<"call", c>>) /\ old.run.status = "in_progress"
                         THEN Running(old.id) ELSE NoCall
  OBVIOUS
<1>4. calls' = [calls EXCEPT ![c] = call]
  BY <1>1, <1>3 DEF CallSaves, Running
<1>5. call \in CallType /\ call.pc # "save" /\ (call.pc # "idle" => call.id = old.id)
  BY <1>2, <1>3, IdleValues
<1>6. calls' \in [Calls -> CallType] /\ calls'[c] = call
      /\ \A d \in Calls : d # c => calls'[d] = calls[d]
  BY <1>2, <1>4, <1>5, TypeParts
<1>7. CASE MaySave(<<"call", c>>)
  <2>1. SaveJobRun(old.id, old.run, {})
    BY <1>1, <1>7 DEF CallSaves
  <2>2. /\ runs' \in Seq(JobRun) /\ Len(runs') = Len(runs) /\ DOMAIN runs' = DOMAIN runs
        /\ runs'[old.id] = old.run /\ \A r \in DOMAIN runs : r # old.id => runs'[r] = runs[r]
        /\ current' \subseteq Holders
        /\ Grows
        /\ \A r \in RunId : HolderStays(<<"worker", r>>, r)
        /\ \A r \in RunId : HolderStays(<<"connect", r>>, r)
        /\ \A d \in Calls : HolderStays(<<"call", d>>, calls[d].id)
    BY <1>2, <2>1, SaveKeeps
  <2>3. TypeOK'
    BY <1>2, <1>6, <2>2, TypeTogether, TypeParts DEF TypeOK, counts
  <2>4. CallOK(c)'
    BY <1>2, <1>5, <1>6, <2>2 DEF CallOK
  <2>5. RowOK(old.id)'
    <3>1. PICK done, more : done = DoneOf(old.id) /\ more = DoneOf(old.id)' /\ done \subseteq more
      BY <2>2 DEF Grows
    <3>2. ~overtaken => InOrder(old.run, more)
      BY <1>1, <1>2, <3>1, MoreDone DEF IInv, CallOK
    <3> QED
      BY <1>2, <2>2, <3>1, <3>2 DEF RowOK
  <2>6. /\ \A r \in RunId : WorkerOK(r)'
        /\ \A r \in RunId : CopyOK(r)'
        /\ \A d \in Calls : CallOK(d)'
        /\ \A r \in DOMAIN runs' : RowOK(r)'
    BY <1>2, <1>6, <2>2, <2>4, <2>5, AllStay
  <2> QED
    BY <1>2, <2>2, <2>3, <2>6, Together DEF IInv, Others
<1>8. CASE ~MaySave(<<"call", c>>)
  <2>1. UNCHANGED <<db, runs, current>>
    BY <1>2, <1>8 DEF CallSaves, db
  <2>2. TypeOK'
    BY <1>2, <1>6, <2>1, TypeTogether, TypeParts DEF TypeOK, counts
  <2>3. Grows /\ \A h, r : HolderStays(h, r)
    BY <1>2, <2>1, SameTables DEF HolderStays
  <2>4. CallOK(c)'
    BY <1>2, <1>5, <1>6, <2>1 DEF CallOK
  <2>5. /\ \A r \in RunId : WorkerOK(r)'
        /\ \A r \in RunId : CopyOK(r)'
        /\ \A d \in Calls : CallOK(d)'
        /\ \A r \in DOMAIN runs' : RowOK(r)'
    BY <1>2, <1>6, <2>1, <2>3, <2>4, AllStay
  <2> QED
    BY <1>2, <2>1, <2>2, <2>5, Together DEF IInv, Others
<1> QED
  BY <1>7, <1>8

LEMMA CallRunsStep ==
    ASSUME IInv, NEW c \in Calls, CallRuns(c)
    PROVE  IInv'
<1>1. PICK q : q = calls[c].id
  OBVIOUS
<1>2. /\ TypeOK /\ q \in DOMAIN runs /\ Run(q)
      /\ UNCHANGED <<db, runs, txs, height, up, heads, connect, current, counts, overtaken>>
      /\ calls' = [calls EXCEPT ![c] = NoCall]
  BY <1>1 DEF IInv, CallOK, CallRuns, db, counts
<1>3. NoCall \in CallType /\ NoCall.pc = "idle"
  BY IdleValues
<1>4. calls' \in [Calls -> CallType] /\ calls'[c] = NoCall
      /\ \A d \in Calls : d # c => calls'[d] = calls[d]
  BY <1>2, <1>3, TypeParts
<1>5. /\ WorkerTypes(queue', worker')
      /\ Grows /\ \A h, r : HolderStays(h, r)
      /\ \A r \in RunId : WorkerOK(r)'
  BY <1>2, RunStep
<1>6. TypeOK'
  BY <1>2, <1>4, <1>5, TypeTogether, TypeParts DEF TypeOK, counts
<1>7. CallOK(c)'
  BY <1>3, <1>4 DEF CallOK
<1>8. /\ \A r \in RunId : CopyOK(r)'
      /\ \A d \in Calls : CallOK(d)'
      /\ \A r \in DOMAIN runs' : RowOK(r)'
  BY <1>2, <1>4, <1>5, <1>7, AllStay
<1> QED
  BY <1>2, <1>5, <1>6, <1>8, Together DEF IInv, Others

-----------------------------------------------------------------------------
(* The transaction manager, and the process *)

LEMMA TxDecidedStep ==
    ASSUME IInv, NEW n \in DOMAIN txs, TxDecided(n)
    PROVE  IInv'
<1>1. PICK s \in {"confirmed", "fatal_error"} : txs' = [txs EXCEPT ![n].state = s]
  BY DEF TxDecided
<1>2. /\ TypeOK /\ txs[n].state = "unconfirmed" /\ txs \in Seq(EthTaskRunTx)
      /\ UNCHANGED <<runs, height, up, queue, worker, heads, connect, calls, current, counts, overtaken>>
  BY TypeParts DEF IInv, TxDecided, queues, counts
<1>3. txs' \in Seq(EthTaskRunTx)
  <2>1. PICK tx : tx = [txs[n] EXCEPT !.state = s]
    OBVIOUS
  <2>2. n \in 1 .. Len(txs) /\ txs[n] \in EthTaskRunTx
    BY <1>2, ElementOfSeq
  <2>3. tx \in EthTaskRunTx
    BY <2>1, <2>2 DEF EthTaskRunTx
  <2>4. txs' = [txs EXCEPT ![n] = tx]
    BY <1>1, <2>1
  <2> QED
    BY <1>2, <2>2, <2>3, <2>4, ExceptSeq
<1>4. TypeOK'
  BY <1>2, <1>3, TypeTogether, TypeParts DEF TypeOK, counts
<1>5. \A r : DoneOf(r) \subseteq DoneOf(r)'
  BY <1>1, <1>2, DoneStays
<1>6. Grows /\ \A h, r : HolderStays(h, r)
  BY <1>2, <1>5 DEF Grows, HolderStays
<1>7. /\ \A r \in RunId : WorkerOK(r)'
      /\ \A r \in RunId : CopyOK(r)'
      /\ \A c \in Calls : CallOK(c)'
      /\ \A r \in DOMAIN runs' : RowOK(r)'
  BY <1>2, <1>6, AllStay
<1> QED
  BY <1>2, <1>4, <1>7, Together DEF IInv, Others

LEMMA AtRestTypes ==
    /\ WorkerTypes(Empty, AtRest) /\ \A r \in RunId : AtRest[r].pc = "none"
    /\ AllIdle \in [Calls -> CallType] /\ \A c \in Calls : AllIdle[c].pc = "idle"
  BY IdleValues DEF WorkerTypes, Empty, AtRest, AllIdle

LEMMA CrashStep ==
    ASSUME IInv, Crash
    PROVE  IInv'
<1>1. /\ TypeOK /\ crashes < MaxCrashes /\ crashes' = crashes + 1 /\ up' = FALSE
      /\ queue' = Empty /\ worker' = AtRest /\ heads' = {} /\ connect' = Offline
      /\ calls' = AllIdle /\ current' = {}
      /\ UNCHANGED <<db, runs, txs, height, overtaken, connects>>
  BY DEF IInv, Crash, db
<1>2. Offline.pc = "idle" /\ Offline.ids = {} /\ Offline \in ConnectType(Offline.copies)
  BY IdleValues
<1>3. TypeOK'
  <2>1. connects' \in 0 .. MaxConnects /\ crashes' \in 0 .. MaxCrashes
    BY <1>1, RunAssumption DEF TypeOK
  <2> QED
    BY <1>1, <1>2, <2>1, AtRestTypes, TypeTogether, TypeParts DEF TypeOK
<1>4. Grows /\ \A h, r : HolderStays(h, r)
  BY <1>1, SameTables DEF HolderStays
<1>5. \A r \in RunId : WorkerOK(r)'
  BY <1>1, AtRestTypes DEF WorkerOK
<1>6. \A r \in RunId : CopyOK(r)'
  BY <1>1, <1>2 DEF CopyOK
<1>7. \A c \in Calls : CallOK(c)'
  BY <1>1, AtRestTypes DEF CallOK
<1>8. \A r \in DOMAIN runs' : RowOK(r)'
  BY <1>1, <1>4, AllStay
<1> QED
  BY <1>1, <1>2, <1>3, <1>5, <1>6, <1>7, <1>8, Together DEF Others

LEMMA RestartStep ==
    ASSUME IInv, Restart
    PROVE  IInv'
<1>1. PICK left :
         /\ left = {r \in DOMAIN runs : runs[r].status \in {"in_progress", "pending_sleep"}}
         /\ queue' = [r \in RunId |-> IF r \in left THEN 1 ELSE 0]
         /\ worker' = [r \in RunId |-> IF r \in left THEN Waking ELSE NoWorker]
  BY DEF Restart
<1>2. /\ TypeOK /\ up' = TRUE
      /\ UNCHANGED <<db, runs, txs, height, heads, connect, calls, current, counts, overtaken>>
  BY DEF IInv, Restart, db, counts
<1>3. /\ Waking \in WorkerType /\ Waking.pc = "find" /\ Waking.next = 1
      /\ NoWorker \in WorkerType /\ NoWorker.pc = "none"
  BY IdleValues
<1>4. WorkerTypes(queue', worker')
  BY <1>1, <1>3 DEF WorkerTypes
<1>5. TypeOK'
  BY <1>2, <1>4, TypeTogether, TypeParts DEF TypeOK, counts
<1>6. Grows /\ \A h, r : HolderStays(h, r)
  BY <1>2, SameTables DEF HolderStays
<1>7. ASSUME NEW r \in RunId PROVE WorkerOK(r)'
  <2>1. CASE r \in left
    <3>1. worker'[r] = Waking /\ r \in DOMAIN runs
      BY <1>1, <2>1
    <3> QED
      BY <1>2, <1>3, <3>1 DEF WorkerOK
  <2>2. CASE r \notin left
    <3>1. worker'[r] = NoWorker
      BY <1>1, <2>2
    <3> QED
      BY <1>3, <3>1 DEF WorkerOK
  <2> QED
    BY <2>1, <2>2
<1>8. /\ \A r \in RunId : CopyOK(r)'
      /\ \A c \in Calls : CallOK(c)'
      /\ \A r \in DOMAIN runs' : RowOK(r)'
  BY <1>2, <1>6, AllStay
<1> QED
  BY <1>2, <1>5, <1>7, <1>8, Together DEF IInv, Others

-----------------------------------------------------------------------------
(* The theorems *)

LEMMA InitIsFine == Init => IInv
<1> SUFFICES ASSUME Init PROVE IInv
  OBVIOUS
<1>1. /\ runs = <<>> /\ txs = <<>> /\ height = 0 /\ up = TRUE
      /\ queue = Empty /\ worker = AtRest /\ heads = {} /\ connect = Offline
      /\ calls = AllIdle /\ current = {} /\ overtaken = FALSE /\ connects = 0 /\ crashes = 0
  BY DEF Init
<1>2. Offline.pc = "idle" /\ Offline.ids = {} /\ Offline \in ConnectType(Offline.copies)
  BY IdleValues
<1>3. /\ runs \in Seq(JobRun) /\ Len(runs) = 0 /\ DOMAIN runs = {}
      /\ txs \in Seq(EthTaskRunTx)
  BY <1>1
<1>4. TypeOK
  <2>1. Len(runs) <= MaxRuns /\ height \in 0 .. MaxHeight
        /\ connects \in 0 .. MaxConnects /\ crashes \in 0 .. MaxCrashes
    BY <1>1, <1>3, RunAssumption
  <2>2. WorkerTypes(queue, worker) /\ calls \in [Calls -> CallType]
    BY <1>1, AtRestTypes
  <2>3. heads = {} /\ current = {} /\ connect.ids = {} /\ connect.pc = "idle"
    BY <1>1, <1>2
  <2> QED
    BY <1>1, <1>3, <2>1, <2>2, <2>3
       DEF TypeOK, WorkerTypes, WorkerType, CallType, EthTaskRunTx
<1>5. \A r \in RunId : WorkerOK(r) /\ CopyOK(r)
  BY <1>1, <1>2, AtRestTypes DEF WorkerOK, CopyOK
<1>6. \A c \in Calls : CallOK(c)
  BY <1>1, AtRestTypes DEF CallOK
<1> QED
  BY <1>1, <1>2, <1>3, <1>4, <1>5, <1>6 DEF IInv, Others

LEMMA StutterStep ==
    ASSUME IInv, UNCHANGED vars
    PROVE  IInv'
<1>1. UNCHANGED <<runs, txs, height, up, queue, worker, heads, connect, calls, current,
                  overtaken, connects, crashes>>
  BY DEF vars, db, queues, counts
<1>2. TypeOK'
  BY <1>1, TypeTogether, TypeParts DEF IInv, TypeOK
<1>3. Grows /\ \A h, r : HolderStays(h, r)
  BY <1>1, SameTables DEF HolderStays, IInv, db
<1>4. /\ \A r \in RunId : WorkerOK(r)'
      /\ \A r \in RunId : CopyOK(r)'
      /\ \A c \in Calls : CallOK(c)'
      /\ \A r \in DOMAIN runs' : RowOK(r)'
  BY <1>1, <1>3, AllStay
<1> QED
  BY <1>1, <1>2, <1>4, Together DEF IInv, Others

LEMMA WorkerStepKeeps ==
    ASSUME IInv, NEW r \in RunId, WorkerStep(r)
    PROVE  IInv'
<1>1. CASE FindJobRun(r)
  BY <1>1, FindJobRunStep
<1>2. CASE AwaitConfirmations(r) \/ NotOnMainChain(r)
  BY <1>2, AwaitConfirmationsIsTurn, TurnStep
<1>3. CASE ExecuteTask(r)
  BY <1>3, ExecuteTaskIsTurn, TurnStep DEF IInv
<1>4. CASE WorkerSaves(r)
  BY <1>4, WorkerSavesStep
<1>5. CASE EndExecute(r)
  BY <1>5, EndExecuteStep
<1> QED
  BY <1>1, <1>2, <1>3, <1>4, <1>5 DEF WorkerStep

LEMMA NextIsFine == IInv /\ [Next]_vars => IInv'
<1> SUFFICES ASSUME IInv, [Next]_vars PROVE IInv'
  OBVIOUS
<1>1. CASE UNCHANGED vars
  BY <1>1, StutterStep
<1>2. ASSUME NEW r \in RunId, WorkerStep(r) PROVE IInv'
  BY <1>2, WorkerStepKeeps
<1>3. CASE ResumeAllPendingNextBlock
  BY <1>3, ResumeAllStep
<1>4. CASE QueueResumed
  BY <1>4, QueueResumedStep
<1>5. CASE PluckIDs
  BY <1>5, PluckIDsStep
<1>6. CASE ConnectStep
  BY <1>6, FindBatchStep, ConnectSavesStep, ConnectRunsStep DEF ConnectStep
<1>7. ASSUME NEW c \in Calls, Create(c) PROVE IInv'
  BY <1>7, CreateStep
<1>8. ASSUME NEW c \in Calls, CallStep(c) PROVE IInv'
  BY <1>8, CallSavesStep, CallRunsStep DEF CallStep
<1>9. ASSUME NEW c \in Calls, NEW r \in DOMAIN runs, Cancel(c, r) PROVE IInv'
  BY <1>9, CancelStep
<1>10. ASSUME NEW c \in Calls, NEW r \in DOMAIN runs, NEW answer \in Answers,
              ResumePendingBridge(c, r, answer)
       PROVE  IInv'
  BY <1>10, ResumePendingBridgeStep
<1>11. ASSUME NEW n \in DOMAIN txs, TxDecided(n) PROVE IInv'
  BY <1>11, TxDecidedStep
<1>12. CASE Crash
  BY <1>12, CrashStep
<1>13. CASE Restart
  BY <1>13, RestartStep
<1> QED
  BY <1>1, <1>2, <1>3, <1>4, <1>5, <1>6, <1>7, <1>8, <1>9, <1>10, <1>11, <1>12, <1>13 DEF Next

\* Rows, copies and counters keep their types, and a run has a worker exactly
\* while the queue counts it.
THEOREM RunTypeCorrect == Spec => []TypeOK
<1>1. IInv => TypeOK
  BY DEF IInv
<1> QED
  BY <1>1, InitIsFine, NextIsFine, PTL DEF Spec

\* A run is completed only with all its tasks, in their order, and with a
\* confirmed transaction for each of its ethtx tasks.
THEOREM CompletedRunsAreDone == Spec => []CompletedMeansAll
<1>1. IInv => CompletedMeansAll
  <2> SUFFICES ASSUME IInv, ~overtaken, NEW r \in DOMAIN runs, runs[r].status = "completed",
                      NEW i \in DOMAIN runs[r].tasks
               PROVE  /\ runs[r].tasks[i].status = "completed"
                      /\ runs[r].tasks[i].kind = "ethtx" =>
                            \E n \in TxsOf(r, i) : txs[n].state = "confirmed"
    BY DEF CompletedMeansAll
  <2>1. PICK run, done : run = runs[r] /\ done = DoneOf(r)
    OBVIOUS
  <2>2. run \in JobRun /\ InOrder(run, done)
    BY <2>1, RunIds DEF IInv, RowOK
  <2>3. PICK k \in 1 .. Len(run.tasks) + 1 : At(run, k, done)
    BY <2>2 DEF InOrder
  <2>4. DOMAIN run.tasks = 1 .. Len(run.tasks) /\ Len(run.tasks) \in Nat
    BY <2>2, RunFields
  <2>5. k \notin DOMAIN run.tasks
    BY <2>1, <2>3 DEF At
  <2>6. i < k
    BY <2>1, <2>3, <2>4, <2>5
  <2>7. run.tasks[i].status = "completed" /\ (run.tasks[i].kind = "ethtx" => i \in done)
    BY <2>1, <2>3, <2>6 DEF At, CompletedTo
  <2> QED
    BY <2>1, <2>7 DEF DoneOf, TxsOf
<1> QED
  BY <1>1, InitIsFine, NextIsFine, PTL DEF Spec

\* Of a run, nothing that has ended is saved over.
LEMMA EndsStay ==
    ASSUME IInv, [Next]_vars, ~overtaken, NEW r \in DOMAIN runs, runs[r].status \in Final
    PROVE  runs'[r].status = runs[r].status
<1>1. ASSUME UNCHANGED runs PROVE runs'[r].status = runs[r].status
  BY <1>1
<1>2. ASSUME NEW q \in DOMAIN runs, NEW run, NEW goesOn, SaveJobRun(q, run, goesOn),
             runs[q].status \notin Final
      PROVE  runs'[r].status = runs[r].status
  <2>1. runs' = [runs EXCEPT ![q] = run] /\ q # r
    BY <1>2 DEF SaveJobRun
  <2> QED
    BY <2>1
<1>3. ASSUME NEW q \in RunId, WorkerStep(q) PROVE runs'[r].status = runs[r].status
  <2>1. CASE WorkerSaves(q)
    <3>1. q \in DOMAIN runs
      BY <2>1 DEF IInv, WorkerOK, WorkerSaves
    <3>2. CASE MaySave(<<"worker", q>>)
      BY <1>2, <2>1, <3>1, <3>2 DEF IInv, WorkerOK, WorkerSaves, MaySave
    <3>3. CASE ~MaySave(<<"worker", q>>)
      BY <1>1, <2>1, <3>3 DEF WorkerSaves
    <3> QED
      BY <3>2, <3>3
  <2>2. CASE FindJobRun(q) \/ AwaitConfirmations(q) \/ NotOnMainChain(q) \/ ExecuteTask(q)
             \/ EndExecute(q)
    BY <1>1, <2>2 DEF FindJobRun, AwaitConfirmations, NotOnMainChain, ExecuteTask, EndExecute, db
  <2> QED
    BY <1>3, <2>1, <2>2 DEF WorkerStep
<1>4. CASE ResumeAllPendingNextBlock
  BY <1>4 DEF ResumeAllPendingNextBlock, Resumable, ResumableStatus, Final
<1>5. CASE ConnectStep
  <2>1. CASE ConnectSaves
    <3>1. Oldest \in DOMAIN runs /\ Oldest \in RunId
      BY <2>1, OldestIsOne, TypeParts DEF IInv, CopyOK, ConnectSaves
    <3>2. CASE MaySave(<<"connect", Oldest>>)
      BY <1>2, <2>1, <3>1, <3>2 DEF IInv, CopyOK, ConnectSaves, MaySave
    <3>3. CASE ~MaySave(<<"connect", Oldest>>)
      BY <1>1, <2>1, <3>3 DEF ConnectSaves
    <3> QED
      BY <3>2, <3>3
  <2>2. CASE FindBatch \/ ConnectRuns
    BY <1>1, <2>2 DEF FindBatch, ConnectRuns, db
  <2> QED
    BY <1>5, <2>1, <2>2 DEF ConnectStep
<1>6. ASSUME NEW c \in Calls, Create(c) PROVE runs'[r].status = runs[r].status
  <2>1. PICK run : runs' = Append(runs, run)
    BY <1>6 DEF Create
  <2>2. runs \in Seq(JobRun) /\ r \in 1 .. Len(runs)
    BY RunIds DEF IInv
  <2> QED
    BY <2>1, <2>2
<1>7. ASSUME NEW c \in Calls, CallStep(c) PROVE runs'[r].status = runs[r].status
  <2>1. CASE CallSaves(c)
    <3>1. CASE MaySave(<<"call", c>>)
      BY <1>2, <2>1, <3>1 DEF IInv, CallOK, CallSaves, MaySave
    <3>2. CASE ~MaySave(<<"call", c>>)
      BY <1>1, <2>1, <3>2 DEF CallSaves
    <3> QED
      BY <3>1, <3>2
  <2>2. CASE CallRuns(c)
    BY <1>1, <2>2 DEF CallRuns, db
  <2> QED
    BY <1>7, <2>1, <2>2 DEF CallStep
<1>8. ASSUME NEW c \in Calls, NEW q, NEW answer, Cancel(c, q) \/ ResumePendingBridge(c, q, answer)
      PROVE  UNCHANGED runs
  BY <1>8 DEF Cancel, ResumePendingBridge, Change, db
<1>9. QueueResumed \/ PluckIDs \/ Crash \/ Restart \/ UNCHANGED vars => UNCHANGED runs
  BY DEF QueueResumed, PluckIDs, Crash, Restart, vars, db
<1>10. ASSUME NEW n, TxDecided(n) PROVE UNCHANGED runs
  BY <1>10 DEF TxDecided
<1> QED
  BY <1>1, <1>3, <1>4, <1>5, <1>6, <1>7, <1>8, <1>9, <1>10 DEF Next

\* A run that has completed or errored stays so: whoever holds a copy of it
\* has loaded it later, or his save is refused.
THEOREM EndsAreFinal == Spec => EndedIsFinal
<1>1. IInv /\ [Next]_vars =>
         [~overtaken => \A r \in DOMAIN runs : runs[r].status \in {"completed", "errored"} =>
                           runs'[r].status = runs[r].status]_vars
  BY EndsStay DEF Final
<1> QED
  BY <1>1, InitIsFine, NextIsFine, PTL DEF Spec, EndedIsFinal

LEMMA TurnInserts ==
    ASSUME TypeOK, OneTransactionPerTask, NEW r \in RunId, ExecuteTask(r)
    PROVE  OneTransactionPerTask'
<1>1. PICK i : i = TaskAt(worker[r])
  OBVIOUS
<1>2. UNCHANGED txs \/ (TxsOf(r, i) = {}
         /\ txs' = Append(txs, [run |-> r, task |-> i, state |-> "unconfirmed"]))
  BY <1>1 DEF ExecuteTask, Perform, InsertEthTx, CheckForConfirmation
<1>3. CASE UNCHANGED txs
  BY <1>3 DEF OneTransactionPerTask
<1>4. ASSUME TxsOf(r, i) = {}, txs' = Append(txs, [run |-> r, task |-> i, state |-> "unconfirmed"])
      PROVE  OneTransactionPerTask'
  <2>0. PICK tx : tx = [run |-> r, task |-> i, state |-> "unconfirmed"]
    OBVIOUS
  <2>1. tx.run = r /\ tx.task = i
    BY <2>0
  <2>2. txs \in Seq(EthTaskRunTx)
    BY TypeParts
  <2>3. /\ txs' = Append(txs, tx) /\ Len(txs) \in Nat /\ DOMAIN txs = 1 .. Len(txs)
        /\ DOMAIN txs' = 1 .. Len(txs) + 1
        /\ \A n \in 1 .. Len(txs) : txs'[n] = txs[n]
        /\ txs'[Len(txs) + 1] = tx
    BY <1>4, <2>0, <2>2
  <2>4. \A n \in DOMAIN txs : ~(txs[n].run = r /\ txs[n].task = i)
    BY <1>4 DEF TxsOf
  <2> QED
    BY <2>1, <2>3, <2>4 DEF OneTransactionPerTask
<1> QED
  BY <1>2, <1>3, <1>4

\* However often an ethtx task is executed, it has one transaction.
THEOREM TasksHaveOneTransaction == Spec => []OneTransactionPerTask
<1>1. Init => OneTransactionPerTask
  BY DEF Init, OneTransactionPerTask
<1>2. ASSUME TypeOK, OneTransactionPerTask, [Next]_vars PROVE OneTransactionPerTask'
  <2>1. ASSUME UNCHANGED txs PROVE OneTransactionPerTask'
    BY <1>2, <2>1 DEF OneTransactionPerTask
  <2>2. ASSUME NEW r \in RunId, WorkerStep(r) PROVE OneTransactionPerTask'
    <3>1. CASE ExecuteTask(r)
      BY <1>2, <3>1, TurnInserts
    <3>2. CASE FindJobRun(r) \/ AwaitConfirmations(r) \/ NotOnMainChain(r) \/ WorkerSaves(r)
               \/ EndExecute(r)
      BY <2>1, <3>2 DEF FindJobRun, AwaitConfirmations, NotOnMainChain, WorkerSaves, EndExecute, db
    <3> QED
      BY <2>2, <3>1, <3>2 DEF WorkerStep
  <2>3. ASSUME NEW n \in DOMAIN txs, TxDecided(n) PROVE OneTransactionPerTask'
    <3>1. PICK s : txs' = [txs EXCEPT ![n].state = s]
      BY <2>3 DEF TxDecided
    <3>2. DOMAIN txs' = DOMAIN txs
          /\ \A m \in DOMAIN txs : txs'[m].run = txs[m].run /\ txs'[m].task = txs[m].task
      BY <3>1
    <3> QED
      BY <1>2, <3>2 DEF OneTransactionPerTask
  <2>4. \/ ResumeAllPendingNextBlock \/ QueueResumed \/ PluckIDs \/ ConnectStep \/ Crash \/ Restart
        \/ UNCHANGED vars
        => UNCHANGED txs
    BY DEF ResumeAllPendingNextBlock, QueueResumed, PluckIDs, ConnectStep, FindBatch,
           ConnectSaves, ConnectRuns, Crash, Restart, vars, db
  <2>5. ASSUME NEW c \in Calls, NEW q, NEW answer,
               \/ Create(c) \/ CallStep(c) \/ Cancel(c, q) \/ ResumePendingBridge(c, q, answer)
        PROVE  UNCHANGED txs
    BY <2>5 DEF Create, CallStep, CallSaves, CallRuns, Cancel, ResumePendingBridge, Change, db
  <2> QED
    BY <1>2, <2>1, <2>2, <2>3, <2>4, <2>5 DEF Next
<1> QED
  BY <1>1, <1>2, RunTypeCorrect, PTL DEF Spec
=============================================================================

----------------------------- MODULE RunPipeline -----------------------------
(***************************************************************************)
(* Job runs: the RunManager, the RunQueue and the RunExecutor of           *)
(* core/services.  A run is a row with a list of tasks.  A worker of the   *)
(* queue executes its tasks one after the other until one has to wait: for *)
(* confirmations, for a bridge, or for a transaction.  A new head, a new   *)
(* connection, the answer of a bridge, or a restart resumes it.            *)
(*                                                                         *)
(* All of these load the row, change their copy and save it, at the same   *)
(* time.  A save is refused when the row has been saved since the copy was *)
(* loaded (its updated_at has changed); the raw UPDATE of a new head does  *)
(* not change updated_at.                                                  *)
(***************************************************************************)
EXTENDS RunModels, FiniteSets

CONSTANTS
    Jobs,         \* lists of task kinds
    Calls,        \* goroutines of web requests and initiators
    MinConfs,     \* incoming confirmations that a task asks for
    MaxRuns,      \* bound on the number of runs
    MaxHeight,    \* bound on the height; later heads look like the last
    MaxConnects,  \* bound on the connections to the node
    MaxCrashes    \* bound on the crashes of the process

ASSUME RunAssumption ==
    /\ Jobs \subseteq Seq(TaskKind)
    /\ MinConfs \in Nat
    /\ MaxRuns \in Nat /\ MaxHeight \in Nat
    /\ MaxConnects \in Nat /\ MaxCrashes \in Nat

VARIABLES
    runs,      \* table job_runs with task_runs
    txs,       \* table eth_task_run_txes with eth_txes
    height,    \* the height of the chain
    up,        \* is the process running?
    queue,     \* runQueue.workers: how often a run is to be executed
    worker,    \* the worker of a run, with its copy of it
    heads,     \* runs a new head has resumed and not yet queued
    connect,   \* ResumeAllPendingConnection, with its copies of runs
    calls,     \* the other goroutines, each with its copy of a run
    current,   \* the holders of a copy that nobody has overwritten since
    overtaken, \* has a connection found a run that needed no resuming any more?
    connects,  \* number of connections so far
    crashes    \* number of crashes so far

db      == <<runs, txs>>
queues  == <<queue, worker>>
counts  == <<overtaken, connects, crashes>>
vars    == <<db, height, up, queues, heads, connect, calls, current, counts>>

RunId   == 1 .. MaxRuns
Holders == {"worker", "connect"} \X RunId \cup {"call"} \X Calls

NoRun    == MakeJobRun(<<>>, "unstarted", NULL)
NoWorker == [pc |-> "none", run |-> NoRun, next |-> 1, validated |-> FALSE]
Waking   == [NoWorker EXCEPT !.pc = "find"]
NoCall   == [pc |-> "idle", id |-> 0, run |-> NoRun]
Offline  == [pc |-> "idle", ids |-> {}, copies |-> <<>>]

AtRest   == [r \in RunId |-> NoWorker]
AllIdle  == [c \in Calls |-> NoCall]
Empty    == [r \in RunId |-> 0]

Init ==
    /\ runs = <<>> /\ txs = <<>>
    /\ height = 0
    /\ up = TRUE
    /\ queue = Empty /\ worker = AtRest
    /\ heads = {} /\ connect = Offline /\ calls = AllIdle /\ current = {}
    /\ overtaken = FALSE /\ connects = 0 /\ crashes = 0

-----------------------------------------------------------------------------
(* The optimistic lock and the queue *)

\* Those that may hold a copy of run r.
HoldersOf(r) ==
    {<<"worker", r>>, <<"connect", r>>}
        \cup {<<"call", c>> : c \in {d \in Calls : calls[d].id = r}}

Load(holder) == current' = current \cup {holder}

\* A slip: updated_at is not compared.
MaySaveAlways(holder) == TRUE

MaySave(holder) == holder \in current

\* SaveJobRun by a holder that may.  Every other copy is outdated then, and
\* only a worker goes on with its own.
SaveJobRun(r, run, goesOn) ==
    /\ runs' = [runs EXCEPT ![r] = run]
    /\ current' = (current \ HoldersOf(r)) \cup goesOn

\* runQueue.Run: only the first call starts a worker.
Run(r) ==
    /\ queue' = [queue EXCEPT ![r] = @ + 1]
    /\ worker' = [worker EXCEPT ![r] = IF queue[r] = 0 THEN Waking ELSE @]

-----------------------------------------------------------------------------
(* The worker of a run *)

\* Execute begins with FindJobRun.
FindJobRun(r) ==
    /\ up /\ worker[r].pc = "find"
    /\ worker' = [worker EXCEPT ![r] = [@ EXCEPT !.pc = "task", !.run = runs[r]]]
    /\ Load(<<"worker", r>>)
    /\ UNCHANGED <<db, height, up, queue, heads, connect, calls, counts>>

\* The tasks that are left for the loop.
TasksLeft(w) ==
    {i \in w.next .. Len(w.run.tasks) : w.run.tasks[i].status # "completed"}

TaskAt(w) == CHOOSE i \in TasksLeft(w) : \A j \in TasksLeft(w) : i <= j

ToExecute(r) ==
    /\ up /\ worker[r].pc = "task"
    /\ Runnable(worker[r].run.status)
    /\ TasksLeft(worker[r]) # {}

\* The status of the next task after its turn, and so that of the run.
TaskEnds(r, status) ==
    LET w == worker[r]
    IN  worker' = [worker EXCEPT ![r] =
            [pc |-> "save", run |-> ApplyOutput(w.run, TaskAt(w), status),
             next |-> TaskAt(w), validated |-> TRUE]]

MeetsMinRequiredIncomingConfirmations(run) ==
    \/ run.created = NULL
    \/ run.observed - run.created + 1 >= MinConfs

AwaitConfirmations(r) ==
    /\ ToExecute(r)
    /\ ~MeetsMinRequiredIncomingConfirmations(worker[r].run)
    /\ TaskEnds(r, "pending_incoming_confirmations")
    /\ UNCHANGED <<db, height, up, queue, heads, connect, calls, current, counts>>

\* validateOnMainChain: the transaction that triggered the run is in another
\* block now, or the node does not answer.
NotOnMainChain(r) ==
    /\ ToExecute(r)
    /\ MeetsMinRequiredIncomingConfirmations(worker[r].run)
    /\ ~worker[r].validated
    /\ worker[r].run.created # NULL /\ MinConfs > 0
    /\ TaskEnds(r, "errored")
    /\ UNCHANGED <<db, height, up, queue, heads, connect, calls, current, counts>>

TxsOf(r, i) == {n \in DOMAIN txs : txs[n].run = r /\ txs[n].task = i}

\* A slip: nothing keeps a second transaction out of the table.
InsertAlways(r, i, output) ==
    /\ output = "pending_outgoing_confirmations"
    /\ txs' = Append(txs, [run |-> r, task |-> i, state |-> "unconfirmed"])

\* IdempotentInsertEthTaskRunTx: one transaction for a task.  The parameters
\* of the task may be unfit for one.
InsertEthTx(r, i, output) ==
    /\ TxsOf(r, i) = {}
    /\ \/ /\ output = "pending_outgoing_confirmations"
          /\ txs' = Append(txs, [run |-> r, task |-> i, state |-> "unconfirmed"])
       \/ output = "errored" /\ UNCHANGED txs

\* checkForConfirmation
CheckForConfirmation(r, i, output) ==
    /\ \E n \in TxsOf(r, i) :
          output = CASE txs[n].state = "unconfirmed" -> "pending_outgoing_confirmations"
                     [] txs[n].state = "confirmed"   -> "completed"
                     [] txs[n].state = "fatal_error" -> "errored"
    /\ UNCHANGED txs

\* Perform of the adapter of task i.  A bridge that was pending takes the
\* answer to be there.
Perform(r, i, output) ==
    LET task == worker[r].run.tasks[i]
    IN  \/ /\ task.kind = "pure"
           /\ output \in {"completed", "errored"}
           /\ UNCHANGED txs
        \/ /\ task.kind = "bridge"
           /\ IF task.status = "pending_bridge" THEN output = "in_progress"
              ELSE output \in {"completed", "errored", "pending_bridge"}
           /\ UNCHANGED txs
        \/ task.kind = "ethtx" /\ InsertEthTx(r, i, output)
        \/ task.kind = "ethtx" /\ CheckForConfirmation(r, i, output)

ExecuteTask(r) ==
    /\ ToExecute(r)
    /\ MeetsMinRequiredIncomingConfirmations(worker[r].run)
    /\ \E output \in RunStatus :
          Perform(r, TaskAt(worker[r]), output) /\ TaskEnds(r, output)
    /\ UNCHANGED <<runs, height, up, queue, heads, connect, calls, current, counts>>

\* After a conflict nothing is left for the loop.
WorkerSaves(r) ==
    /\ up /\ worker[r].pc = "save"
    /\ IF MaySave(<<"worker", r>>)
       THEN SaveJobRun(r, worker[r].run, {<<"worker", r>>})
       ELSE UNCHANGED <<runs, current>>
    /\ worker' = [worker EXCEPT ![r] =
                    [@ EXCEPT !.pc = "task",
                              !.next = IF MaySave(<<"worker", r>>) THEN worker[r].next + 1
                                       ELSE Len(worker[r].run.tasks) + 1]]
    /\ UNCHANGED <<txs, height, up, queue, heads, connect, calls, counts>>

\* A slip: the counter is deleted although the worker goes on.
EndExecuteAndForget(r) ==
    /\ up /\ worker[r].pc = "task"
    /\ ~ToExecute(r)
    /\ queue' = [queue EXCEPT ![r] = 0]
    /\ worker' = [worker EXCEPT ![r] = IF queue[r] > 1 THEN Waking ELSE NoWorker]
    /\ current' = current \ {<<"worker", r>>}
    /\ UNCHANGED <<db, height, up, heads, connect, calls, counts>>

\* Execute returns: decrementQueue, and once more from the start if the run
\* was queued again.
EndExecute(r) ==
    /\ up /\ worker[r].pc = "task"
    /\ ~ToExecute(r)
    /\ queue' = [queue EXCEPT ![r] = @ - 1]
    /\ worker' = [worker EXCEPT ![r] = IF queue[r] > 1 THEN Waking ELSE NoWorker]
    /\ current' = current \ {<<"worker", r>>}
    /\ UNCHANGED <<db, height, up, heads, connect, calls, counts>>

WorkerStep(r) ==
    \/ FindJobRun(r) \/ AwaitConfirmations(r) \/ NotOnMainChain(r)
    \/ ExecuteTask(r) \/ WorkerSaves(r) \/ EndExecute(r)

-----------------------------------------------------------------------------
(* New heads *)

\* A slip: a confirmed transaction is not a reason to resume.
StatusAwaitingHead == {"pending_connection", "pending_incoming_confirmations"}

ResumableStatus ==
    {"pending_connection", "pending_outgoing_confirmations",
     "pending_incoming_confirmations"}

Resumable == {r \in DOMAIN runs : runs[r].status \in ResumableStatus}

\* The two UPDATEs of ResumeAllPendingNextBlock.
ResumedAt(run, h) ==
    [run EXCEPT !.status = "in_progress", !.observed = h,
                !.tasks = [i \in DOMAIN run.tasks |->
                    IF run.tasks[i].status \in {"unstarted"} \cup ResumableStatus
                    THEN [run.tasks[i] EXCEPT !.status = "in_progress"]
                    ELSE run.tasks[i]]]

\* One head at a time: its SleeperTask has one worker.
ResumeAllPendingNextBlock ==
    /\ up /\ heads = {}
    /\ \E h \in {height, height + 1} :
          /\ h <= MaxHeight /\ (h = height => h = MaxHeight)
          /\ height' = h
          /\ runs' = [r \in DOMAIN runs |->
                        IF r \in Resumable THEN ResumedAt(runs[r], h) ELSE runs[r]]
    /\ heads' = Resumable
    /\ UNCHANGED <<txs, up, queues, connect, calls, current, counts>>

QueueResumed ==
    /\ up
    /\ \E r \in heads : Run(r) /\ heads' = heads \ {r}
    /\ UNCHANGED <<db, height, up, connect, calls, current, counts>>

-----------------------------------------------------------------------------
(* A new connection to the node *)

\* ResumeAllPendingConnection: first the ids of the runs, ...
PluckIDs ==
    /\ up /\ connect.pc = "idle"
    /\ connects < MaxConnects
    /\ connects' = connects + 1
    /\ LET ids == {r \in DOMAIN runs : runs[r].status \in
                     {"pending_connection", "pending_outgoing_confirmations"}}
       IN  connect' = IF ids = {} THEN Offline
                      ELSE [Offline EXCEPT !.pc = "find", !.ids = ids]
    /\ UNCHANGED <<db, height, up, queues, heads, calls, current, overtaken, crashes>>

\* ... then their rows, whatever has become of them, ...
FindBatch ==
    /\ up /\ connect.pc = "find"
    /\ connect' = [connect EXCEPT !.pc = "save",
                                  !.copies = [r \in connect.ids |-> runs[r]]]
    /\ current' = current \cup {<<"connect", r>> : r \in connect.ids}
    /\ overtaken' = (overtaken \/ \E r \in connect.ids :
                        runs[r].status \in FinishedStatus \cup {"pending_bridge"})
    /\ UNCHANGED <<db, height, up, queues, heads, calls, connects, crashes>>

\* ... and for each, from the oldest to the newest, a save and a Run.
Oldest == CHOOSE r \in connect.ids : \A s \in connect.ids : r <= s

DoneWithOldest ==
    connect' = IF connect.ids = {Oldest} THEN Offline
               ELSE [connect EXCEPT !.pc = "save", !.ids = @ \ {Oldest}]

Reconnected(run) ==
    IF TasksRemain(run) THEN SetStatus(run, "in_progress") ELSE SetStatus(run, "errored")

ConnectSaves ==
    /\ up /\ connect.pc = "save"
    /\ LET run == Reconnected(connect.copies[Oldest])
       IN  IF MaySave(<<"connect", Oldest>>)
           THEN /\ SaveJobRun(Oldest, run, {})
                /\ IF run.status = "in_progress"
                   THEN connect' = [connect EXCEPT !.pc = "run"] ELSE DoneWithOldest
           ELSE DoneWithOldest /\ UNCHANGED <<runs, current>>
    /\ UNCHANGED <<txs, height, up, queues, heads, calls, counts>>

ConnectRuns ==
    /\ up /\ connect.pc = "run"
    /\ Run(Oldest)
    /\ DoneWithOldest
    /\ UNCHANGED <<db, height, up, heads, calls, current, counts>>

ConnectStep == FindBatch \/ ConnectSaves \/ ConnectRuns

-----------------------------------------------------------------------------
(* Requests *)

\* The bound on the height leaves room for the confirmations.
Creation == {NULL} \cup {h \in {height} : h + MinConfs <= MaxHeight + 1}

\* Create, or CreateErrored, and ValidateRun, which may reject the run.
Create(c) ==
    /\ up /\ calls[c].pc = "idle"
    /\ Len(runs) < MaxRuns
    /\ \E job \in Jobs, status \in {"in_progress", "errored"}, h \in Creation :
          runs' = Append(runs, MakeJobRun(job, status, h))
    /\ calls' = [calls EXCEPT ![c] =
                    IF Runnable(runs'[Len(runs')].status)
                    THEN [NoCall EXCEPT !.pc = "run", !.id = Len(runs')] ELSE NoCall]
    /\ UNCHANGED <<txs, height, up, queues, heads, connect, current, counts>>

\* Load run r, and have changed a copy of it.
Change(c, r, run) ==
    /\ up /\ calls[c].pc = "idle"
    /\ calls' = [calls EXCEPT ![c] = [pc |-> "save", id |-> r, run |-> run]]
    /\ Load(<<"call", c>>)
    /\ UNCHANGED <<db, height, up, queues, heads, connect, counts>>

\* The external adapter answers: only a run that is pending takes the answer.
ResumePendingBridge(c, r, answer) ==
    /\ runs[r].status = "pending_bridge"
    /\ Change(c, r, IF TasksRemain(runs[r])
                    THEN ApplyOutput(runs[r], NextTaskRun(runs[r]), answer)
                    ELSE SetStatus(runs[r], "errored"))

Cancel(c, r) ==
    /\ runs[r].status \notin FinishedStatus
    /\ Change(c, r, Cancelled(runs[r]))

CallSaves(c) ==
    /\ up /\ calls[c].pc = "save"
    /\ IF MaySave(<<"call", c>>)
       THEN /\ SaveJobRun(calls[c].id, calls[c].run, {})
            /\ calls' = [calls EXCEPT ![c] =
                            IF @.run.status = "in_progress"
                            THEN [NoCall EXCEPT !.pc = "run", !.id = calls[c].id]
                            ELSE NoCall]
       ELSE calls' = [calls EXCEPT ![c] = NoCall] /\ UNCHANGED <<runs, current>>
    /\ UNCHANGED <<txs, height, up, queues, heads, connect, counts>>

CallRuns(c) ==
    /\ up /\ calls[c].pc = "run"
    /\ Run(calls[c].id)
    /\ calls' = [calls EXCEPT ![c] = NoCall]
    /\ UNCHANGED <<db, height, up, heads, connect, current, counts>>

Answers == {"completed", "errored", "pending_bridge"}

CallStep(c) == CallSaves(c) \/ CallRuns(c)

-----------------------------------------------------------------------------
(* The transaction manager, and the process *)

TxDecided(n) ==
    /\ txs[n].state = "unconfirmed"
    /\ \E s \in {"confirmed", "fatal_error"} : txs' = [txs EXCEPT ![n].state = s]
    /\ UNCHANGED <<runs, height, up, queues, heads, connect, calls, current, counts>>

\* All but the database is lost.
Crash ==
    /\ up /\ crashes < MaxCrashes
    /\ crashes' = crashes + 1
    /\ up' = FALSE
    /\ queue' = Empty /\ worker' = AtRest
    /\ heads' = {} /\ connect' = Offline /\ calls' = AllIdle /\ current' = {}
    /\ UNCHANGED <<db, height, overtaken, connects>>

\* ResumeAllInProgress, before anything else writes to the tables.
Restart ==
    /\ ~up
    /\ up' = TRUE
    /\ LET left == {r \in DOMAIN runs : runs[r].status \in {"in_progress", "pending_sleep"}}
       IN  /\ queue' = [r \in RunId |-> IF r \in left THEN 1 ELSE 0]
           /\ worker' = [r \in RunId |-> IF r \in left THEN Waking ELSE NoWorker]
    /\ UNCHANGED <<db, height, heads, connect, calls, current, counts>>

Next ==
    \/ \E r \in RunId : WorkerStep(r)
    \/ ResumeAllPendingNextBlock \/ QueueResumed
    \/ PluckIDs \/ ConnectStep
    \/ \E c \in Calls :
          \/ Create(c) \/ CallStep(c)
          \/ \E r \in DOMAIN runs :
                \/ Cancel(c, r)
                \/ \E answer \in Answers : ResumePendingBridge(c, r, answer)
    \/ \E n \in DOMAIN txs : TxDecided(n)
    \/ Crash \/ Restart

Spec == Init /\ [][Next]_vars

(***************************************************************************)
(* Goroutines are scheduled and calls return; heads keep coming; the       *)
(* transaction manager decides on every transaction; somebody starts the   *)
(* process again; and an external adapter that is asked once more answers  *)
(* in the end, since a single answer may come too early and is refused.    *)
(***************************************************************************)
Fairness ==
    /\ WF_vars(Restart)
    /\ WF_vars(ResumeAllPendingNextBlock) /\ WF_vars(QueueResumed)
    /\ WF_vars(ConnectStep)
    /\ \A c \in Calls : WF_vars(CallStep(c))
    /\ \A n \in 1 .. MaxRuns : WF_vars(n \in DOMAIN txs /\ TxDecided(n))
    /\ \A r \in RunId :
        /\ WF_vars(WorkerStep(r))
        /\ SF_vars(r \in DOMAIN runs /\ \E c \in Calls, answer \in {"completed", "errored"} :
                      ResumePendingBridge(c, r, answer))
        /\ SF_vars(\E c \in Calls : /\ calls[c].id = r
                                   /\ calls[c].run.status # "pending_bridge"
                                   /\ MaySave(<<"call", c>>)
                                   /\ CallSaves(c))

FairSpec == Spec /\ Fairness

-----------------------------------------------------------------------------
(* Properties *)

TypeOK ==
    /\ runs \in Seq(JobRun) /\ Len(runs) <= MaxRuns
    /\ txs \in Seq([run : RunId, task : Nat \ {0},
                    state : {"unconfirmed", "confirmed", "fatal_error"}])
    /\ height \in 0 .. MaxHeight
    /\ up \in BOOLEAN
    /\ queue \in [RunId -> Nat]
    /\ worker \in [RunId -> [pc : {"none", "find", "task", "save"}, run : JobRun,
                             next : Nat \ {0}, validated : BOOLEAN]]
    /\ \A r \in RunId : queue[r] = 0 <=> worker[r].pc = "none"
    /\ heads \subseteq RunId
    /\ connect.pc \in {"idle", "find", "save", "run"}
    /\ connect.ids \subseteq RunId
    /\ calls \in [Calls -> [pc : {"idle", "save", "run"}, id : Nat, run : JobRun]]
    /\ current \subseteq Holders
    /\ overtaken \in BOOLEAN
    /\ connects \in 0 .. MaxConnects /\ crashes \in 0 .. MaxCrashes

\* An ethtx task has one transaction however often it is executed: the task is
\* executed again after a crash, and when another save has made the worker's
\* copy outdated, and every time IdempotentInsertEthTaskRunTx has to find the
\* transaction of the first time.
OneTransactionPerTask ==
    \A n, m \in DOMAIN txs :
        txs[n].run = txs[m].run /\ txs[n].task = txs[m].task => n = m

\* A run is completed only when all its tasks are, and the transactions of its
\* ethtx tasks are confirmed, whichever of the worker, a head, a connection and
\* an answer was the last to save it.
CompletedMeansAll ==
    ~overtaken =>
    \A r \in DOMAIN runs : runs[r].status = "completed" =>
        \A i \in DOMAIN runs[r].tasks :
            /\ runs[r].tasks[i].status = "completed"
            /\ runs[r].tasks[i].kind = "ethtx" =>
                  \E n \in TxsOf(r, i) : txs[n].state = "confirmed"

\* A run that is completed or errored stays so: a cancel or an answer that read
\* the run before does not save over it.
EndedIsFinal ==
    [][~overtaken =>
         \A r \in DOMAIN runs : runs[r].status \in {"completed", "errored"} =>
             runs'[r].status = runs[r].status]_vars

\* Every run ends, with whatever it waits for: a crash, a lost save or an
\* answer that came too early only delays it.
RunsEnd ==
    []~overtaken =>
        \A r \in RunId :
            r \in DOMAIN runs ~>
                (r \in DOMAIN runs /\ runs[r].status \in FinishedStatus)
=============================================================================

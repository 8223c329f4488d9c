------------------------------ MODULE RunModels ------------------------------
(***************************************************************************)
(* The rows of job_runs and task_runs and the methods that change their    *)
(* statuses: core/store/models/job_run.go and common.go.                   *)
(*                                                                         *)
(* A run is one record with its tasks.  Of a task's adapter only the kind  *)
(* matters: a bridge asks an external adapter, which may answer later; an  *)
(* ethtx sends a transaction and waits for it; all others are pure.        *)
(***************************************************************************)
EXTENDS Integers, Sequences

NULL == -1

PendingStatus ==
    {"pending_incoming_confirmations", "pending_outgoing_confirmations",
     "pending_connection", "pending_bridge", "pending_sleep"}

FinishedStatus == {"completed", "errored", "cancelled"}

RunStatus == {"unstarted", "in_progress"} \cup PendingStatus \cup FinishedStatus

Runnable(status) == status \notin {"errored"} \cup PendingStatus

TaskKind == {"pure", "bridge", "ethtx"}
TaskRun  == [kind : TaskKind, status : RunStatus]

\* created and observed are block heights.
JobRun == [status : RunStatus, tasks : Seq(TaskRun),
           created : Nat \cup {NULL}, observed : Nat \cup {NULL}]

\* A run of the tasks of a job.  Only a run that a log or a flux monitor
\* triggers has a height.
MakeJobRun(job, status, height) ==
    [status |-> status,
     tasks |-> [i \in DOMAIN job |-> [kind |-> job[i], status |-> "unstarted"]],
     created |-> height, observed |-> height]

UnfinishedTasks(run) ==
    {i \in DOMAIN run.tasks :
        run.tasks[i].status \in {"unstarted", "in_progress"} \cup PendingStatus}

TasksRemain(run) == UnfinishedTasks(run) # {}
NextTaskRun(run) ==
    CHOOSE i \in UnfinishedTasks(run) : \A j \in UnfinishedTasks(run) : i <= j

\* A slip: a run is as completed as its last task.
SetStatusAsIs(run, status) == [run EXCEPT !.status = status]

\* A run with tasks left is not completed.
SetStatus(run, status) ==
    [run EXCEPT !.status = IF status = "completed" /\ TasksRemain(run)
                           THEN "in_progress" ELSE status]

\* ApplyOutput, or ApplyBridgeRunResult: first of the task, then of the run.
ApplyOutput(run, i, status) ==
    SetStatus([run EXCEPT !.tasks[i].status = status], status)

Cancelled(run) ==
    SetStatus(IF TasksRemain(run)
              THEN [run EXCEPT !.tasks[NextTaskRun(run)].status = "cancelled"]
              ELSE run, "cancelled")
=============================================================================

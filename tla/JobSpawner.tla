------------------------------ MODULE JobSpawner ------------------------------
(***************************************************************************)
(* The job spawner of core/services/job and its ORM: every process claims  *)
(* the jobs that no other process has claimed and runs their services.     *)
(*                                                                         *)
(* In a process, a SleeperTask (the worker) claims jobs and starts their   *)
(* services, and a loop stops the services of the jobs that are deleted,   *)
(* here or in another process.  Both use the map of services without a     *)
(* common lock.  A claim is an advisory lock of Postgres, which lasts as   *)
(* long as the session, and an entry of a map in memory.                   *)
(***************************************************************************)
EXTENDS Naturals, FiniteSets

CONSTANTS
    Nodes,      \* processes that use the database
    Jobs,       \* ids of jobs, each used once
    NULL,
    MaxStarts   \* bound on the starts of processes

ASSUME SpawnerAssumption == NULL \notin Nodes /\ MaxStarts \in Nat

VARIABLES
    job,        \* table jobs: "none", "stored" or "deleted"
    lock,       \* the process whose session holds the advisory lock of a job
    state,      \* of a process and its run loop
    claimed,    \* orm.claimedJobs
    services,   \* spawner.services, all of them running
    woken,      \* is there a token in the queue of the worker?
    working,    \* is the worker at work?
    starting,   \* jobs the worker has claimed and not come to yet
    stopping,   \* calls of DeleteJob that wait for the run loop
    events,     \* delete events that wait for the run loop
    raced,      \* jobs unclaimed while the worker was about to start them
    busy,       \* was the worker busy when the run loop ended?
    starts      \* number of starts so far

tables  == <<job, lock>>
memory  == <<claimed, services>>
worker  == <<woken, working, starting>>
inbox   == <<stopping, events>>
history == <<raced, busy, starts>>
vars    == <<tables, state, memory, worker, inbox, history>>

Stored == {j \in Jobs : job[j] = "stored"}

Of(n, f, v) == [f EXCEPT ![n] = v]

Nothing == [n \in Nodes |-> {}]
Nowhere == [n \in Nodes |-> FALSE]

Init ==
    /\ job = [j \in Jobs |-> "none"] /\ lock = [j \in Jobs |-> NULL]
    /\ state = [n \in Nodes |-> "down"]
    /\ claimed = Nothing /\ services = Nothing
    /\ woken = Nowhere /\ working = Nowhere /\ starting = Nothing
    /\ stopping = Nothing /\ events = Nothing
    /\ raced = Nothing /\ busy = Nowhere /\ starts = 0

-----------------------------------------------------------------------------
(* The worker *)

\* The run loop wakes the worker when it starts, ...
Start(n) ==
    /\ state[n] = "down" /\ starts < MaxStarts
    /\ state' = Of(n, state, "running")
    /\ woken' = Of(n, woken, TRUE)
    /\ starts' = starts + 1
    /\ UNCHANGED <<tables, memory, working, starting, inbox, raced, busy>>

Looping(n) == state[n] \in {"running", "closing"}

\* ... at every poll of the database, and when it hears of a new job, which
\* is no more than an early poll.
WakeUp(n) ==
    /\ Looping(n) /\ ~woken[n]
    /\ woken' = Of(n, woken, TRUE)
    /\ UNCHANGED <<tables, state, memory, working, starting, inbox, history>>

\* A slip: the lock is not looked at.
ClaimAll(n) == Stored \ claimed[n]

Claimable(n) == {j \in Stored \ claimed[n] : lock[j] \in {NULL, n}}

\* ClaimUnclaimedJobs, the first thing that the worker does.  The select of
\* the SleeperTask may prefer the token to the order to stop.
ClaimUnclaimedJobs(n) ==
    /\ state[n] \in {"running", "closing", "ending"}
    /\ woken[n] /\ ~working[n]
    /\ LET jobs == Claimable(n)
       IN  /\ lock' = [j \in Jobs |-> IF j \in jobs THEN n ELSE lock[j]]
           /\ claimed' = Of(n, claimed, claimed[n] \cup jobs)
           /\ starting' = Of(n, starting, jobs)
    /\ woken' = Of(n, woken, FALSE)
    /\ working' = Of(n, working, TRUE)
    /\ UNCHANGED <<job, state, services, inbox, history>>

\* The services of one job: started, or their creation or start fails, which
\* is not tried again as long as the job is claimed.
StartServices(n, j) ==
    /\ j \in starting[n]
    /\ \/ services' = Of(n, services, services[n] \cup {j})
       \/ UNCHANGED services
    /\ starting' = Of(n, starting, starting[n] \ {j})
    /\ UNCHANGED <<tables, state, claimed, woken, working, inbox, history>>

EndWork(n) ==
    /\ working[n] /\ starting[n] = {}
    /\ working' = Of(n, working, FALSE)
    /\ UNCHANGED <<tables, state, memory, woken, starting, inbox, history>>

-----------------------------------------------------------------------------
(* The run loop *)

\* unclaimJob.  The advisory lock belongs to another session than the one
\* that Unlock would use, and stays.
UnclaimJob(n, j) ==
    /\ claimed' = Of(n, claimed, claimed[n] \ {j})
    /\ raced' = Of(n, raced, raced[n] \cup (starting[n] \cap claimed[n] \cap {j}))

stopService(n, j) == services' = Of(n, services, services[n] \ {j})

unloadDeletedJob(n, j) == stopService(n, j) /\ UnclaimJob(n, j)

StopJob(n, j) ==
    /\ Looping(n) /\ j \in stopping[n]
    /\ stopService(n, j)
    /\ stopping' = Of(n, stopping, stopping[n] \ {j})
    /\ UNCHANGED <<tables, state, claimed, worker, events, history>>

handlePGDeleteEvent(n, j) ==
    /\ Looping(n) /\ j \in events[n]
    /\ unloadDeletedJob(n, j)
    /\ events' = Of(n, events, events[n] \ {j})
    /\ UNCHANGED <<tables, state, worker, stopping, busy, starts>>

\* A slip: the jobs of this process are not looked up.
NoneAreDeleted(n) == {}

CheckForDeletedJobs(n) == claimed[n] \ Stored

\* The poll: claimed jobs without a row, one after the other.
PollDeleted(n, j) ==
    /\ Looping(n) /\ j \in CheckForDeletedJobs(n)
    /\ unloadDeletedJob(n, j)
    /\ UNCHANGED <<tables, state, worker, inbox, busy, starts>>

-----------------------------------------------------------------------------
(* Requests *)

CreateJob(j) ==
    /\ job[j] = "none"
    /\ \E n \in Nodes : state[n] = "running"
    /\ job' = [job EXCEPT ![j] = "stored"]
    /\ UNCHANGED <<lock, state, memory, worker, inbox, history>>

\* DeleteJob deletes the row and unclaims the job, and then waits for the run
\* loop.  Every run loop may hear of it, or miss it.
DeleteJob(n, j) ==
    /\ Looping(n) /\ j \in Stored
    /\ job' = [job EXCEPT ![j] = "deleted"]
    /\ UnclaimJob(n, j)
    /\ stopping' = Of(n, stopping, stopping[n] \cup {j})
    /\ \E hear \in SUBSET {m \in Nodes : Looping(m)} :
          events' = [m \in Nodes |-> IF m \in hear THEN events[m] \cup {j} ELSE events[m]]
    /\ UNCHANGED <<lock, state, services, worker, busy, starts>>

-----------------------------------------------------------------------------
(* The end *)

Close(n) ==
    /\ state[n] = "running"
    /\ state' = Of(n, state, "closing")
    /\ UNCHANGED <<tables, memory, worker, inbox, history>>

\* A slip: the services are left to the end of the process.
stopNoServices(n) == UNCHANGED services

stopAllServices(n) == services' = Of(n, services, {})

\* The run loop sees that chStop is closed and leaves to destroy: it stops all
\* services, and only then the worker.
RunLoopEnds(n) ==
    /\ state[n] = "closing"
    /\ state' = Of(n, state, "ending")
    /\ stopAllServices(n)
    /\ stopping' = Of(n, stopping, {}) /\ events' = Of(n, events, {})
    /\ busy' = Of(n, busy, woken[n] \/ working[n])
    /\ UNCHANGED <<tables, claimed, worker, raced, starts>>

WorkerStops(n) ==
    /\ state[n] = "ending" /\ ~working[n]
    /\ state' = Of(n, state, "closed")
    /\ UNCHANGED <<tables, memory, worker, inbox, history>>

\* A slip: a lock outlives the process that took it.
LocksStay(n) == UNCHANGED lock

SessionsEnd(n) == lock' = [j \in Jobs |-> IF lock[j] = n THEN NULL ELSE lock[j]]

\* The process ends, by itself after Close or at any point: its sessions end
\* with it, and with them its locks.
ProcessEnds(n) ==
    /\ state' = Of(n, state, "down")
    /\ SessionsEnd(n)
    /\ claimed' = Of(n, claimed, {}) /\ services' = Of(n, services, {})
    /\ woken' = Of(n, woken, FALSE) /\ working' = Of(n, working, FALSE)
    /\ starting' = Of(n, starting, {})
    /\ stopping' = Of(n, stopping, {}) /\ events' = Of(n, events, {})
    /\ raced' = Of(n, raced, {}) /\ busy' = Of(n, busy, FALSE)
    /\ UNCHANGED <<job, starts>>

Exit(n)  == state[n] = "closed" /\ ProcessEnds(n)
Crash(n) == state[n] \notin {"down", "closed"} /\ ProcessEnds(n)

-----------------------------------------------------------------------------
Next ==
    \/ \E n \in Nodes :
          \/ Start(n) \/ WakeUp(n) \/ ClaimUnclaimedJobs(n) \/ EndWork(n)
          \/ Close(n) \/ RunLoopEnds(n) \/ WorkerStops(n) \/ Exit(n) \/ Crash(n)
          \/ \E j \in Jobs :
                \/ StartServices(n, j) \/ StopJob(n, j)
                \/ handlePGDeleteEvent(n, j) \/ PollDeleted(n, j) \/ DeleteJob(n, j)
    \/ \E j \in Jobs : CreateJob(j)

\* The worker and the run loop are goroutines that nothing holds up; the polls
\* are timers.  Nobody has to create, delete, close or crash.
Fairness ==
    \A n \in Nodes :
        /\ WF_vars(WakeUp(n)) /\ WF_vars(ClaimUnclaimedJobs(n)) /\ WF_vars(EndWork(n))
        /\ WF_vars(RunLoopEnds(n)) /\ WF_vars(WorkerStops(n)) /\ WF_vars(Exit(n))
        /\ \A j \in Jobs :
              /\ WF_vars(StartServices(n, j)) /\ WF_vars(StopJob(n, j))
              /\ WF_vars(handlePGDeleteEvent(n, j)) /\ WF_vars(PollDeleted(n, j))

Spec == Init /\ [][Next]_vars /\ Fairness

-----------------------------------------------------------------------------
(* Properties *)

\* Type invariant: what each table, map, queue and flag of the spawner holds,
\* and that only a worker at work has jobs left to start.
TypeOK ==
    /\ job \in [Jobs -> {"none", "stored", "deleted"}]
    /\ lock \in [Jobs -> Nodes \cup {NULL}]
    /\ state \in [Nodes -> {"down", "running", "closing", "ending", "closed"}]
    /\ {claimed, services, starting, stopping, events, raced} \subseteq [Nodes -> SUBSET Jobs]
    /\ {woken, working, busy} \subseteq [Nodes -> BOOLEAN]
    /\ starts \in 0 .. MaxStarts
    /\ \A n \in Nodes : starting[n] # {} => working[n]

\* The services of a job run in at most one process, whatever the processes
\* do to each other's claims: ClaimUnclaimedJobs is all that keeps two
\* processes from submitting for the same job.
OneProcessPerJob ==
    \A j \in Jobs, m, n \in Nodes :
        j \in services[m] /\ j \in services[n] => m = n

\* Close leaves a service running only if the worker, which destroy stops
\* last, was busy or woken when the loop ended.
CloseStopsServices ==
    \A n \in Nodes : state[n] = "closed" /\ services[n] # {} => busy[n]

\* A job that stays in the table, while some process stays up, is come to by
\* the worker of a process, although any event of it may be missed.
JobsGetTaken ==
    \A j \in Jobs, n \in Nodes :
        <>[](j \in Stored /\ state[n] = "running")
            => <>(\E m \in Nodes : j \in claimed[m] \ starting[m])

\* The services of a deleted job stop, wherever they run and whether or not
\* its process hears of it, unless the worker was about to start them when
\* the job was unclaimed.
DeletedJobsStop ==
    \A j \in Jobs, n \in Nodes :
        (j \in services[n] /\ job[j] = "deleted")
            ~> (j \notin services[n] \/ j \in raced[n])

=============================================================================

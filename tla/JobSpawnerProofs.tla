--------------------------- MODULE JobSpawnerProofs ---------------------------
(***************************************************************************)
(* Proofs about JobSpawner, for any number of processes and of jobs.       *)
(*                                                                         *)
(* That no two processes run a job rests on the lock being held, by the    *)
(* process that runs it, longer than the claim in memory: a service runs,  *)
(* or is about to be started, only where the lock is.                      *)
(***************************************************************************)
EXTENDS JobSpawner, TLAPS

Locked == \A n \in Nodes : \A j \in claimed[n] \cup services[n] \cup starting[n] : lock[j] = n

IInv == TypeOK /\ Locked

-----------------------------------------------------------------------------
\* Type correctness is preserved by every step.
LEMMA Typing ==
    ASSUME TypeOK, [Next]_vars
    PROVE  TypeOK'
<1> USE SpawnerAssumption
<1>1. CASE UNCHANGED vars
  BY <1>1 DEF TypeOK, vars, tables, memory, worker, inbox, history
<1>2. ASSUME NEW n \in Nodes, Start(n) \/ WakeUp(n) \/ EndWork(n)
      PROVE  TypeOK'
  <2>1. ASSUME Start(n) PROVE TypeOK'
    BY <2>1 DEF TypeOK, Start, Of, tables, memory, inbox
  <2>2. ASSUME WakeUp(n) PROVE TypeOK'
    BY <2>2 DEF TypeOK, WakeUp, Of, tables, memory, inbox, history
  <2>3. ASSUME EndWork(n) PROVE TypeOK'
    BY <2>3 DEF TypeOK, EndWork, Of, tables, memory, inbox, history
  <2> QED
    BY <1>2, <2>1, <2>2, <2>3
<1>3. ASSUME NEW n \in Nodes, ClaimUnclaimedJobs(n)
      PROVE  TypeOK'
  <2>1. Claimable(n) \subseteq Jobs
    BY DEF Claimable, Stored
  <2> QED
    BY <1>3, <2>1 DEF TypeOK, ClaimUnclaimedJobs, Of, inbox, history
<1>4. ASSUME NEW n \in Nodes, Close(n) \/ RunLoopEnds(n) \/ WorkerStops(n)
      PROVE  TypeOK'
  <2>1. ASSUME Close(n) PROVE TypeOK'
    BY <2>1 DEF TypeOK, Close, Of, tables, memory, worker, inbox, history
  <2>2. ASSUME RunLoopEnds(n) PROVE TypeOK'
    BY <2>2 DEF TypeOK, RunLoopEnds, stopAllServices, Of, tables, worker
  <2>3. ASSUME WorkerStops(n) PROVE TypeOK'
    BY <2>3 DEF TypeOK, WorkerStops, Of, tables, memory, worker, inbox, history
  <2> QED
    BY <1>4, <2>1, <2>2, <2>3
<1>5. ASSUME NEW n \in Nodes, Exit(n) \/ Crash(n)
      PROVE  TypeOK'
  <2>1. ProcessEnds(n)
    BY <1>5 DEF Exit, Crash
  <2>2. UNCHANGED <<job, starts>> /\ lock' \in [Jobs -> Nodes \cup {NULL}]
    BY <2>1 DEF TypeOK, ProcessEnds, SessionsEnd
  <2>3. state' \in [Nodes -> {"down", "running", "closing", "ending", "closed"}]
    BY <2>1 DEF TypeOK, ProcessEnds, Of
  <2>4. {claimed, services, starting, stopping, events, raced}' \subseteq [Nodes -> SUBSET Jobs]
    BY <2>1 DEF TypeOK, ProcessEnds, Of
  <2>5. {woken, working, busy}' \subseteq [Nodes -> BOOLEAN]
    BY <2>1 DEF TypeOK, ProcessEnds, Of
  <2>6. \A m \in Nodes : starting'[m] # {} => working'[m]
    BY <2>1 DEF TypeOK, ProcessEnds, Of
  <2> QED
    BY <2>2, <2>3, <2>4, <2>5, <2>6 DEF TypeOK
<1>6. ASSUME NEW n \in Nodes, NEW j \in Jobs, StartServices(n, j) \/ StopJob(n, j)
      PROVE  TypeOK'
  BY <1>6 DEF TypeOK, StartServices, StopJob, stopService, Of, tables, worker, inbox, history
<1>7. ASSUME NEW n \in Nodes, NEW j \in Jobs, handlePGDeleteEvent(n, j) \/ PollDeleted(n, j)
      PROVE  TypeOK'
  BY <1>7 DEF TypeOK, handlePGDeleteEvent, PollDeleted, unloadDeletedJob, stopService,
              UnclaimJob, Of, tables, worker, inbox, history
<1>8. ASSUME NEW n \in Nodes, NEW j \in Jobs, DeleteJob(n, j)
      PROVE  TypeOK'
  BY <1>8 DEF TypeOK, DeleteJob, UnclaimJob, Of, worker
<1>9. ASSUME NEW j \in Jobs, CreateJob(j)
      PROVE  TypeOK'
  BY <1>9 DEF TypeOK, CreateJob, memory, worker, inbox, history
<1> QED
  BY <1>1, <1>2, <1>3, <1>4, <1>5, <1>6, <1>7, <1>8, <1>9 DEF Next

-----------------------------------------------------------------------------
\* The lock outlasts what a process holds of a job.
LEMMA Locking ==
    ASSUME IInv, [Next]_vars
    PROVE  Locked'
<1> USE SpawnerAssumption DEF IInv, TypeOK, Locked
<1>1. CASE UNCHANGED vars
  BY <1>1 DEF vars, tables, memory, worker
<1>2. ASSUME NEW n \in Nodes,
             Start(n) \/ WakeUp(n) \/ EndWork(n) \/ Close(n) \/ WorkerStops(n)
      PROVE  Locked'
  BY <1>2 DEF Start, WakeUp, EndWork, Close, WorkerStops, tables, memory, worker
\* Only a free lock, or one's own, is taken.
<1>3. ASSUME NEW n \in Nodes, ClaimUnclaimedJobs(n)
      PROVE  Locked'
  <2>1. \A j \in Claimable(n) : j \in Jobs /\ lock'[j] = n /\ lock[j] \in {NULL, n}
    BY <1>3 DEF ClaimUnclaimedJobs, Claimable, Stored
  <2>2. \A j \in Jobs \ Claimable(n) : lock'[j] = lock[j]
    BY <1>3 DEF ClaimUnclaimedJobs
  <2>3. ASSUME NEW m \in Nodes, NEW j \in claimed'[m] \cup services'[m] \cup starting'[m]
        PROVE  lock'[j] = m
    <3>1. CASE m = n
      BY <1>3, <2>1, <2>2, <2>3, <3>1 DEF ClaimUnclaimedJobs, Of, Claimable, Stored
    <3>2. CASE m # n
      <4>1. j \in claimed[m] \cup services[m] \cup starting[m]
        BY <1>3, <2>3, <3>2 DEF ClaimUnclaimedJobs, Of
      <4>2. j \in Jobs /\ lock[j] = m
        BY <4>1
      <4> QED
        BY <2>1, <2>2, <3>2, <4>2
    <3> QED
      BY <3>1, <3>2
  <2> QED
    BY <2>3
<1>4. ASSUME NEW n \in Nodes, RunLoopEnds(n)
      PROVE  Locked'
  BY <1>4 DEF RunLoopEnds, stopAllServices, Of, tables, worker
\* What the process held of the jobs goes with its locks.
<1>5. ASSUME NEW n \in Nodes, Exit(n) \/ Crash(n)
      PROVE  Locked'
  <2>1. \A m \in Nodes \ {n} : /\ claimed'[m] = claimed[m] /\ services'[m] = services[m]
                               /\ starting'[m] = starting[m]
    BY <1>5 DEF Exit, Crash, ProcessEnds, Of
  <2>2. claimed'[n] = {} /\ services'[n] = {} /\ starting'[n] = {}
    BY <1>5 DEF Exit, Crash, ProcessEnds, Of
  <2>3. \A j \in Jobs : lock[j] # n => lock'[j] = lock[j]
    BY <1>5 DEF Exit, Crash, ProcessEnds, SessionsEnd
  <2> QED
    BY <2>1, <2>2, <2>3
<1>6. ASSUME NEW n \in Nodes, NEW j \in Jobs, StartServices(n, j) \/ StopJob(n, j)
      PROVE  Locked'
  BY <1>6 DEF StartServices, StopJob, stopService, Of, tables, worker
<1>7. ASSUME NEW n \in Nodes, NEW j \in Jobs,
             handlePGDeleteEvent(n, j) \/ PollDeleted(n, j) \/ DeleteJob(n, j)
      PROVE  Locked'
  BY <1>7 DEF handlePGDeleteEvent, PollDeleted, DeleteJob, unloadDeletedJob, stopService,
              UnclaimJob, Of, tables, worker
<1>8. ASSUME NEW j \in Jobs, CreateJob(j)
      PROVE  Locked'
  BY <1>8 DEF CreateJob, memory, worker
<1> QED
  BY <1>1, <1>2, <1>3, <1>4, <1>5, <1>6, <1>7, <1>8 DEF Next

-----------------------------------------------------------------------------
\* After the run loop nobody wakes the worker: if it was idle then, nothing is
\* started any more.
Ended ==
    \A n \in Nodes : state[n] \in {"ending", "closed"} =>
        busy[n] \/ (services[n] = {} /\ ~woken[n] /\ ~working[n])

LEMMA Ending ==
    ASSUME TypeOK, Ended, [Next]_vars
    PROVE  Ended'
<1> USE DEF TypeOK, Ended
<1>1. CASE UNCHANGED vars
  BY <1>1 DEF vars, memory, worker, history
<1>2. ASSUME NEW n \in Nodes, Start(n) \/ Close(n) \/ EndWork(n) \/ WorkerStops(n)
      PROVE  Ended'
  BY <1>2 DEF Start, Close, EndWork, WorkerStops, Of, memory, worker, history
<1>3. ASSUME NEW n \in Nodes, WakeUp(n)
      PROVE  Ended'
  BY <1>3 DEF WakeUp, Looping, Of, memory, history
<1>4. ASSUME NEW n \in Nodes, ClaimUnclaimedJobs(n)
      PROVE  Ended'
  BY <1>4 DEF ClaimUnclaimedJobs, Of, history
\* destroy stops the services, and sees whether the worker is idle.
<1>5. ASSUME NEW n \in Nodes, RunLoopEnds(n)
      PROVE  Ended'
  BY <1>5 DEF RunLoopEnds, stopAllServices, Of, worker
<1>6. ASSUME NEW n \in Nodes, Exit(n) \/ Crash(n)
      PROVE  Ended'
  <2>1. state'[n] = "down"
    BY <1>6 DEF Exit, Crash, ProcessEnds, Of
  <2>2. \A m \in Nodes \ {n} :
           /\ state'[m] = state[m] /\ services'[m] = services[m] /\ busy'[m] = busy[m]
           /\ woken'[m] = woken[m] /\ working'[m] = working[m]
    BY <1>6 DEF Exit, Crash, ProcessEnds, Of
  <2> QED
    BY <2>1, <2>2
\* Only a worker at work has a job to start.
<1>7. ASSUME NEW n \in Nodes, NEW j \in Jobs, StartServices(n, j)
      PROVE  Ended'
  <2>1. working[n]
    BY <1>7 DEF StartServices
  <2> QED
    BY <1>7, <2>1 DEF StartServices, Of, history
<1>8. ASSUME NEW n \in Nodes, NEW j \in Jobs,
             StopJob(n, j) \/ handlePGDeleteEvent(n, j) \/ PollDeleted(n, j)
      PROVE  Ended'
  BY <1>8 DEF StopJob, handlePGDeleteEvent, PollDeleted, unloadDeletedJob, stopService,
              Looping, Of, worker, history
<1>9. ASSUME NEW n \in Nodes, NEW j \in Jobs, DeleteJob(n, j) \/ CreateJob(j)
      PROVE  Ended'
  BY <1>9 DEF DeleteJob, CreateJob, memory, worker, history
<1> QED
  BY <1>1, <1>2, <1>3, <1>4, <1>5, <1>6, <1>7, <1>8, <1>9 DEF Next

-----------------------------------------------------------------------------
\* The tables and maps keep their types, and a claim its lock.
THEOREM Claims == Spec => []IInv
<1>1. Init => IInv
  BY SpawnerAssumption DEF Init, IInv, TypeOK, Locked, Nothing, Nowhere
<1>2. IInv /\ [Next]_vars => IInv'
  BY Typing, Locking DEF IInv
<1> QED
  BY <1>1, <1>2, PTL DEF Spec

\* The tables, maps, queues and flags of the spawner keep their types.
THEOREM SpawnerTypeCorrect == Spec => []TypeOK
<1>1. IInv => TypeOK
  BY DEF IInv
<1> QED
  BY <1>1, Claims, PTL

\* The services of a job never run in two processes at once.
THEOREM NeverTwoProcesses == Spec => []OneProcessPerJob
<1>1. IInv => OneProcessPerJob
  BY DEF IInv, Locked, OneProcessPerJob
<1> QED
  BY <1>1, Claims, PTL

\* A spawner that was closed (Close, destroy) has no service running, unless
\* its worker was busy or woken when the run loop ended.
THEOREM ClosedHasNoServices == Spec => []CloseStopsServices
<1>1. Init => Ended
  BY DEF Init, Ended
<1>2. TypeOK /\ Ended /\ [Next]_vars => Ended'
  BY Ending
<1>3. Ended => CloseStopsServices
  BY DEF Ended, CloseStopsServices
<1> QED
  BY <1>1, <1>2, <1>3, SpawnerTypeCorrect, PTL DEF Spec

=============================================================================

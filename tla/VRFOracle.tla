------------------------------ MODULE VRFOracle ------------------------------
(***************************************************************************)
(* The VRF oracle process of core/oracles/vrf: a stream of table deltas    *)
(* from the EOSIO chain is turned into request rows (the delta handler's   *)
(* goroutine), handed over a buffered channel to the resolver's goroutine, *)
(* and answered by one SetRand transaction per request.  The process may   *)
(* die at any step and is started again from the cursor in the database.   *)
(*                                                                         *)
(* Steps are cut at what the rest of the system can see: a commit in the   *)
(* database, a channel operation, a transaction pushed to the chain.       *)
(*                                                                         *)
(* One thing is assumed of the chain: a push that returns without an error *)
(* was executed, for good.  The code asks for nothing more; a node that    *)
(* takes a transaction and drops it, or a fork that undoes it, would leave *)
(* a completed request without its answer.                                 *)
(***************************************************************************)
EXTENDS VRFRequestModels, Sequences, FiniteSets

CONSTANTS
    Jobs,        \* the rows of the contract's job table, by (scope, assoc_id)
    BadSeeds,    \* those with a seed that is not a decimal number below 2^256
    Malformed,   \* those whose delta does not unmarshal
    Streams,     \* the delta streams the firehose may deliver
    ChanCap,     \* capacity of the request channel (20 in main)
    MaxRetries,  \* Config.VRFMaxRetries
    MaxCrashes   \* bound on the crashes of the process

Op == {"insert", "update", "remove", "heartbeat"}

\* An element of the stream; block stands for its cursor, which grows with
\* the blocks and is the same for every delta of one block.
Item == [op : Op, job : Jobs, block : Nat \ {0}]

ASSUME ConstantsAssumption ==
    /\ BadSeeds \subseteq Jobs
    /\ Malformed \subseteq Jobs
    /\ ChanCap \in Nat \ {0}
    /\ MaxRetries \in UInt8
    /\ MaxCrashes \in Nat

\* The firehose delivers blocks in order and a heartbeat only at the end of
\* its block.
ASSUME StreamsAssumption ==
    \A s \in Streams :
        /\ s \in Seq(Item)
        /\ \A i, j \in DOMAIN s : i < j => 
              /\ s[i].block <= s[j].block
              /\ s[i].op = "heartbeat" => s[i].block < s[j].block

VARIABLES
    stream,    \* what the firehose has to deliver, chosen once
    \* --- the database
    requests,  \* table vrf_requests
    jobs,      \* table vrf_request_jobs
    runs,      \* table vrf_request_runs
    cursor,    \* the saved cursor, 0 when there is none
    \* --- the process
    up,        \* is it running?
    pos,       \* number of stream items whose callback has returned
    hpc,       \* where the delta handler is
    chan,      \* the channel of requests
    rpc,       \* where the resolver is
    \* --- the chain, and what has happened to it
    inflight,  \* requests whose SetRand was pushed and not decided yet
    ledger,    \* requests whose SetRand the contract has executed, in order
    crashes    \* number of crashes so far

db      == <<requests, jobs, runs, cursor>>
process == <<up, pos, hpc, chan, rpc>>
chain   == <<inflight, ledger>>
vars    == <<stream, requests, jobs, runs, cursor, up, pos, hpc, chan, rpc,
             inflight, ledger, crashes>>

HandlerPC  == {"idle", "saveCursor", "send"}
ResolverPC == {"idle", "start", "prove", "wait"}

IsCreation(item) == item.op \in {"insert", "update"}

IsIgnored(item)  == item.op = "remove"

Next1            == stream[pos + 1]       \* the item being delivered
CurrentJob       == Len(jobs)             \* the job the resolver works on
CurrentRun       == Len(runs)
CurrentRequest   == jobs[CurrentJob].req

Init ==
    /\ stream \in Streams
    /\ requests = <<>> /\ jobs = <<>> /\ runs = <<>>
    /\ cursor = 0
    /\ up = FALSE /\ pos = 0 /\ hpc = "idle" /\ chan = <<>> /\ rpc = "idle"
    /\ inflight = {} /\ ledger = <<>>
    /\ crashes = 0

-----------------------------------------------------------------------------
(* Starting and dying *)

\* A slip: one block too late.
ResumesLate(p) ==
    \A i \in DOMAIN stream : i <= p <=> stream[i].block <= cursor + 1

\* The stream resumes after item p: with what comes after the cursor.
ResumesAt(p) ==
    \A i \in DOMAIN stream : i <= p <=> stream[i].block <= cursor

\* main: read the cursor and ask the firehose for what comes after it.
Start ==
    /\ ~up
    /\ up' = TRUE
    /\ \E p \in 0 .. Len(stream) : ResumesAt(p) /\ pos' = p
    /\ hpc' = "idle" /\ chan' = <<>> /\ rpc' = "idle"
    /\ UNCHANGED <<stream, db, chain, crashes>>

\* The process ends: killed, a Panicf of either goroutine (after a failed
\* database call, or for a delta that does not unmarshal), or DeltaStream
\* returning.  All but the database is lost.
Crash ==
    /\ up
    /\ crashes < MaxCrashes
    /\ crashes' = crashes + 1
    /\ up' = FALSE
    /\ pos' = 0 /\ hpc' = "idle" /\ chan' = <<>> /\ rpc' = "idle"
    /\ UNCHANGED <<stream, db, chain>>

-----------------------------------------------------------------------------
(* The delta handler *)

\* OnDelta up to the INSERT of CreateVRFRequest, which runs on orm.DB and so
\* commits on its own.
CreateVRFRequest ==
    /\ up /\ hpc = "idle" /\ pos < Len(stream)
    /\ IsCreation(Next1)
    /\ Next1.job \notin Malformed
    /\ requests' = Append(requests, VRFRequest(pos + 1))
    /\ hpc' = "saveCursor"
    /\ UNCHANGED <<stream, jobs, runs, cursor, up, pos, chan, rpc, chain, crashes>>

\* The rest of the transaction of CreateVRFRequest.
CommitCursor ==
    /\ up /\ hpc = "saveCursor"
    /\ cursor' = Next1.block
    /\ hpc' = "send"
    /\ UNCHANGED <<stream, requests, jobs, runs, up, pos, chan, rpc, chain, crashes>>

PutAlone(r)        == <<r>>

\* The buffered channel: sends wait for room, elements leave in their order.
HasRoom       == Len(chan) < ChanCap
ChanWith(r)   == Append(chan, r)
ChanAfterTake == Tail(chan)

\* A slip: the delta is delivered again although it was handled.
SendRequestAgain ==
    /\ up /\ hpc = "send"
    /\ HasRoom
    /\ chan' = ChanWith(Len(requests))
    /\ hpc' = "idle"
    /\ UNCHANGED <<stream, db, up, pos, rpc, chain, crashes>>

\* m.Consumer <- request: blocks while the channel is full.
SendRequest ==
    /\ up /\ hpc = "send"
    /\ HasRoom
    /\ chan' = ChanWith(Len(requests))
    /\ pos' = pos + 1
    /\ hpc' = "idle"
    /\ UNCHANGED <<stream, db, up, rpc, chain, crashes>>

\* OnDelta of a removal: nothing is stored, not even the cursor.
IgnoreRemove ==
    /\ up /\ hpc = "idle" /\ pos < Len(stream)
    /\ IsIgnored(Next1)
    /\ pos' = pos + 1
    /\ UNCHANGED <<stream, db, up, hpc, chan, rpc, chain, crashes>>

OnHeartBeat ==
    /\ up /\ hpc = "idle" /\ pos < Len(stream)
    /\ Next1.op = "heartbeat"
    /\ cursor' = Next1.block
    /\ pos' = pos + 1
    /\ UNCHANGED <<stream, requests, jobs, runs, up, hpc, chan, rpc, chain, crashes>>

-----------------------------------------------------------------------------
(* The resolver *)

\* Consume: take a request off the channel and save a job for it.
TakeRequest ==
    /\ up /\ rpc = "idle" /\ chan # <<>>
    /\ jobs' = Append(jobs, NewVRFRequestJob(Head(chan)))
    /\ chan' = ChanAfterTake
    /\ rpc' = "start"
    /\ UNCHANGED <<stream, requests, runs, cursor, up, pos, hpc, chain, crashes>>

\* Process up to the first saveRun, which saves the run and its job.
StartRun ==
    /\ up /\ rpc = "start"
    /\ runs' = Append(runs, NewVRFRequestRun(CurrentJob))
    /\ jobs' = [jobs EXCEPT ![CurrentJob] = JobUpdateStatus(@, "Running", 0)]
    /\ rpc' = "prove"
    /\ UNCHANGED <<stream, requests, cursor, up, pos, hpc, chan, chain, crashes>>

\* The run's UpdateStatus and the second saveRun: one transaction saves the
\* run, its job and its request.
EndRun(status, maxRetries) ==
    LET job == JobUpdateStatus(jobs[CurrentJob], status, maxRetries)
    IN  /\ runs' = [runs EXCEPT ![CurrentRun].status = status]
        /\ jobs' = [jobs EXCEPT ![CurrentJob] = job]
        /\ requests' = [requests EXCEPT ![job.req] =
                            RequestUpdateStatus(@, job.status)]
        /\ rpc' = "idle"
        /\ UNCHANGED <<stream, cursor, up, pos, hpc, chan, chain, crashes>>

HasBadSeed(r) == stream[requests[r].delta].job \in BadSeeds

\* A seed does not parse, or does not fit: the run fails for good.
RejectSeed ==
    /\ up /\ rpc = "prove"
    /\ HasBadSeed(CurrentRequest)
    /\ EndRun("Failed", 0)

\* GenerateEOSProof returns an error.
ProofFails ==
    /\ up /\ rpc = "prove"
    /\ EndRun("Failed", MaxRetries)

\* Every seed has its proof: push the SetRand transaction.
PushSetRand ==
    /\ up /\ rpc = "prove"
    /\ ~HasBadSeed(CurrentRequest)
    /\ inflight' = inflight \cup {CurrentRequest}
    /\ rpc' = "wait"
    /\ UNCHANGED <<stream, db, up, pos, hpc, chan, ledger, crashes>>

\* The contract has executed a SetRand for request r.
Executed(r) == \E k \in DOMAIN ledger : ledger[k] = r

\* A slip: the error of SetRand is not looked at.
SetRandAssumed ==
    /\ up /\ rpc = "wait"
    /\ EndRun("Completed", MaxRetries)

\* SetRand returns no error, which is taken for an execution (see above).
SetRandSucceeds ==
    /\ up /\ rpc = "wait"
    /\ Executed(CurrentRequest)
    /\ EndRun("Completed", MaxRetries)

\* SetRand returns an error: it was refused, or the answer did not arrive,
\* whatever becomes of the transaction.
SetRandFails ==
    /\ up /\ rpc = "wait"
    /\ EndRun("Failed", MaxRetries)

-----------------------------------------------------------------------------
(* The chain: a pushed transaction is executed, or it is refused or expires, *)
(* whether or not the process that pushed it still waits or even lives.     *)

Execute(r) ==
    /\ inflight' = inflight \ {r}
    /\ ledger' = Append(ledger, r)
    /\ UNCHANGED <<stream, db, process, crashes>>

Expire(r) ==
    /\ inflight' = inflight \ {r}
    /\ UNCHANGED <<stream, db, process, ledger, crashes>>

-----------------------------------------------------------------------------

HandlerNext ==
    \/ CreateVRFRequest \/ CommitCursor \/ SendRequest
    \/ IgnoreRemove \/ OnHeartBeat

ResolverNext ==
    \/ TakeRequest \/ StartRun
    \/ RejectSeed \/ ProofFails \/ PushSetRand
    \/ SetRandSucceeds \/ SetRandFails

Next ==
    \/ Start \/ Crash
    \/ HandlerNext
    \/ ResolverNext
    \/ \E r \in inflight : Execute(r) \/ Expire(r)

Spec == Init /\ [][Next]_vars

(***************************************************************************)
(* The two goroutines are scheduled, database calls and SetRand return or  *)
(* end the process, and somebody starts the process again when it is down. *)
(***************************************************************************)
Fairness ==
    /\ WF_vars(Start)
    /\ WF_vars(HandlerNext)
    /\ WF_vars(ResolverNext)

FairSpec == Spec /\ Fairness

-----------------------------------------------------------------------------
(* Properties *)

\* The variables have their types; the channel is never over its capacity.
TypeOK ==
    /\ stream \in Streams
    /\ requests \in Seq(RequestRow)
    /\ jobs \in Seq(JobRow)
    /\ runs \in Seq(RunRow)
    /\ cursor \in Nat
    /\ up \in BOOLEAN
    /\ pos \in Nat /\ pos <= Len(stream)
    /\ hpc \in HandlerPC /\ rpc \in ResolverPC
    /\ chan \in Seq(Nat \ {0}) /\ Len(chan) <= ChanCap
    /\ inflight \subseteq Nat \ {0}
    /\ ledger \in Seq(Nat \ {0})
    /\ crashes \in Nat /\ crashes <= MaxCrashes

Recorded(p) == \E r \in DOMAIN requests : requests[r].delta = p

\* Item p is the first job of its block.
FirstOfBlock(p) ==
    /\ IsCreation(stream[p])
    /\ \A q \in 1 .. p - 1 :
          IsCreation(stream[q]) => stream[q].block < stream[p].block

(***************************************************************************)
(* The saved cursor never passes the first job of a block before that job  *)
(* is a row: after a crash at any step (between the two commits of         *)
(* CreateVRFRequest, during a heartbeat) the firehose delivers it again.   *)
(* Later jobs of the same block have only the cursor of the first one, and *)
(* a crash may skip them: nothing is promised for those.                   *)
(***************************************************************************)
NoFirstJobSkipped ==
    \A p \in DOMAIN stream :
        FirstOfBlock(p) /\ stream[p].block <= cursor => Recorded(p)

\* One delta becomes two requests only because a crash came between: with k
\* crashes there are at most k + 1 rows for it.
DuplicatesNeedCrashes ==
    \A p \in DOMAIN stream :
        Cardinality({r \in DOMAIN requests : requests[r].delta = p}) <= crashes + 1

(***************************************************************************)
(* One row is resolved at most once, whatever was lost: at most one job    *)
(* per request and one run per job, and the contract executes at most one  *)
(* SetRand for it.                                                         *)
(***************************************************************************)
AtMostOncePerRequest ==
    /\ \A i, j \in DOMAIN jobs : jobs[i].req = jobs[j].req => i = j
    /\ \A i, j \in DOMAIN runs : runs[i].job = runs[j].job => i = j
    /\ \A i, j \in DOMAIN ledger : ledger[i] = ledger[j] => i = j

\* The channel and the single resolver keep the order of the stream: jobs are
\* created in the order of their requests.
ResolvedInOrder ==
    \A i, j \in DOMAIN jobs : i < j => jobs[i].req < jobs[j].req

\* A job is reported completed only if the contract has its randomness.
CompletedWasExecuted ==
    \A i \in DOMAIN jobs : jobs[i].status = "Completed" => Executed(jobs[i].req)

(***************************************************************************)
(* The three tables tell one story at every commit, also right after a     *)
(* crash: a request is completed exactly when its job has ended, a job     *)
(* runs, has completed or has failed exactly as its run says, and a failed *)
(* run leaves its job active only with its retry counted.                  *)
(***************************************************************************)
StatusesAgree ==
    /\ \A r \in DOMAIN requests :
          requests[r].status = "Completed" <=>
              \E i \in DOMAIN jobs : /\ jobs[i].req = r
                                     /\ jobs[i].status \in {"Completed", "Failed"}
    /\ \A k \in DOMAIN runs :
          /\ runs[k].status = "Running" => jobs[runs[k].job].status = "Running"
          /\ runs[k].status = "Completed" => jobs[runs[k].job].status = "Completed"
          /\ runs[k].status = "Failed" =>
                /\ jobs[runs[k].job].status \in {"Active", "Failed"}
                /\ jobs[runs[k].job].retries = 1
                /\ jobs[runs[k].job].status = "Active" => MaxRetries >= 1
    /\ \A i \in DOMAIN jobs : jobs[i].status # "Active" =>
          \E k \in DOMAIN runs : runs[k].job = i

\* The cursor only moves forward, and so no start reads further back than an
\* earlier one did.
CursorMovesForward == [][cursor' >= cursor]_vars

-----------------------------------------------------------------------------
(* The inductive invariant behind the safety properties *)

\* Request ids grow along the path of a request: from the jobs through the
\* channel to the handler.
OrderInv ==
    /\ \A i \in DOMAIN jobs : jobs[i].req \in DOMAIN requests
    /\ \A i \in DOMAIN chan : chan[i] \in DOMAIN requests
    /\ \A i, j \in DOMAIN jobs : i < j => jobs[i].req < jobs[j].req
    /\ \A i, j \in DOMAIN chan : i < j => chan[i] < chan[j]
    /\ \A i \in DOMAIN jobs, j \in DOMAIN chan : jobs[i].req < chan[j]
    /\ hpc # "idle" =>
          /\ \A i \in DOMAIN jobs : jobs[i].req < Len(requests)
          /\ \A i \in DOMAIN chan : chan[i] < Len(requests)

\* While the handler is in OnDelta, the last request is the delta's.
HandlerInv ==
    /\ \A r \in DOMAIN requests :
          /\ requests[r].delta \in DOMAIN stream
          /\ requests[r].type = "immediate"
    /\ hpc # "idle" => /\ up
                       /\ pos < Len(stream)
                       /\ IsCreation(stream[pos + 1])
                       /\ requests # <<>>
                       /\ requests[Len(requests)].delta = pos + 1

\* While the resolver is in Process, the last job and run are its own.
ResolverInv ==
    /\ \A k \in DOMAIN runs : runs[k].job \in DOMAIN jobs
    /\ \A k, l \in DOMAIN runs : k < l => runs[k].job < runs[l].job
    /\ rpc # "idle" => /\ up
                       /\ jobs # <<>>
                       /\ jobs[CurrentJob].retries = 0
    /\ rpc = "start" => /\ jobs[CurrentJob].status = "Active"
                        /\ \A k \in DOMAIN runs : runs[k].job < CurrentJob
    /\ rpc \in {"prove", "wait"} => /\ runs # <<>>
                                    /\ runs[CurrentRun].job = CurrentJob
                                    /\ runs[CurrentRun].status = "Running"

\* SetRand was pushed only for requests with a job, and for each at most once.
ChainInv ==
    /\ \A k, l \in DOMAIN ledger : ledger[k] = ledger[l] => k = l
    /\ \A r \in inflight : ~Executed(r)
    /\ \A r \in inflight : \E i \in DOMAIN jobs : jobs[i].req = r
    /\ \A k \in DOMAIN ledger : \E i \in DOMAIN jobs : jobs[i].req = ledger[k]
    /\ rpc \in {"start", "prove"} => /\ CurrentRequest \notin inflight
                                     /\ ~Executed(CurrentRequest)

\* What has been read is recorded, and what has not is not before the cursor.
StreamInv ==
    /\ \A p \in 1 .. pos : FirstOfBlock(p) => Recorded(p)
    /\ up => \A p \in DOMAIN stream : p > pos => cursor <= stream[p].block

IInv ==
    /\ TypeOK
    /\ OrderInv
    /\ HandlerInv
    /\ ResolverInv
    /\ ChainInv
    /\ StreamInv
    /\ NoFirstJobSkipped
    /\ CompletedWasExecuted
    /\ StatusesAgree

-----------------------------------------------------------------------------
(* Liveness and the abstract specification *)

\* Nothing before or at p makes the handler panic.
ReadableUpTo(p) ==
    \A q \in 1 .. p : IsCreation(stream[q]) => stream[q].job \notin Malformed

\* Once the crashes are over, the first job of every block becomes a row: no
\* full channel, crash or heartbeat keeps the handler from it for ever.  (A
\* delta that does not unmarshal does: every new process dies of it.)
FirstJobsGetRecorded ==
    <>[](\A p \in DOMAIN stream :
            FirstOfBlock(p) /\ ReadableUpTo(p) => Recorded(p))

\* While the process lives, every request gets a run and every run ends.
RequestsGetResolved ==
    [](crashes = 0) =>
        <>[](\A r \in DOMAIN requests :
                \E k \in DOMAIN runs : /\ runs[k].status # "Running"
                                       /\ jobs[runs[k].job].req = r)

\* The jobs of a request, and the ended runs of a job.
JobsOf(r)      == {i \in DOMAIN jobs : jobs[i].req = r}
EndedRunsOf(i) == {k \in DOMAIN runs : runs[k].job = i /\ runs[k].status # "Running"}

StateOf(r) ==
    IF JobsOf(r) = {} THEN "accepted"
    ELSE IF \A i \in JobsOf(r) : EndedRunsOf(i) = {} THEN "taken"
    ELSE IF \E i \in JobsOf(r) : jobs[i].status = "Completed" THEN "resolved"
    ELSE "unresolved"

\* The oracle keeps the promise of RandomnessService for its request rows.
Service == INSTANCE RandomnessService WITH
    state <- [r \in DOMAIN requests |-> StateOf(r)],
    given <- {ledger[k] : k \in DOMAIN ledger}

ServiceSpec == Service!Spec

-----------------------------------------------------------------------------
(* What the repository says and the code does not do *)

(***************************************************************************)
(* "return error will rollback, otherwise to commit" (Transaction, orm.go):*)
(* while no transaction is open, the request of CreateVRFRequest is in the *)
(* table only if its cursor is saved as well.                              *)
(***************************************************************************)
RequestAndCursorTogether ==
    hpc # "saveCursor" =>
        \A r \in DOMAIN requests : stream[requests[r].delta].block <= cursor
=============================================================================

# TLA+ models of the VRF oracle and its node

This directory models the program of this repository in TLA+: an oracle that answers
requests for verifiable randomness on an EOSIO chain (`core/oracles/vrf`), built inside the
code of a Chainlink node (`core/`), most of whose services it still contains. The modules are
translated from the source; `PROJECT.json` maps every definition to the lines it models and
lists the runs, the theorems and the hazards they are about.

1. [The system](#1-the-system)
2. [What is modelled, and how it corresponds to the code](#2-what-is-modelled-and-how-it-corresponds-to-the-code)
3. [Runs](#3-runs)
4. [Fairness](#4-fairness)
5. [Proofs](#5-proofs)
6. [Where the code and what it says of itself differ](#6-where-the-code-and-what-it-says-of-itself-differ)
7. [What is not modelled](#7-what-is-not-modelled)
8. [Plan](#8-plan)

To check a run: `tlc -config <run>.cfg MC<Module>.tla`; to check the proofs:
`tlapm <Module>.tla` for each of `VRFOracleProofs`, `TxManagerProofs`, `RunPipelineProofs`,
`JobSpawnerProofs`, `PipelineRunnerProofs`, `LogBroadcasterProofs`, `HeadTrackerProofs` and
`FluxMonitorProofs`.

## 1. The system

### The parts

The **VRF oracle** is a process of its own. The other parts make up the Chainlink node, and
share its Postgres database and one lock on it.

| Part | State it keeps | Operations | Talks to |
|---|---|---|---|
| Delta handler (`streamhandlers`) | cursor in the database, rows of `vrf_requests` | `OnDelta`, `OnHeartBeat`, `OnError`, `OnComplete` | firehose (callbacks), ORM, the request channel |
| Resolver (`services/svrf`) | rows of `vrf_request_jobs`, `vrf_request_runs` | `Consume`, `Process` | request channel, key store, EOS contract client, ORM |
| VRF key store | map of unlocked keys, table of encrypted keys | Unlock, CreateKey, Import, Archive, Delete, GenerateProof | ORM |
| ORM, advisory lock | connection, lock, all tables | queries, `Transaction`, `SaveJobRun`, `MustEnsureAdvisoryLock` | Postgres |
| EthBroadcaster | `eth_txes`, `eth_tx_attempts`, next nonce of every key | a round per key: resume, take next, send, save | Ethereum node, Postgres events |
| EthConfirmer | the same tables and `eth_receipts` | `processHead`: receipts, missing receipts, gas bumps, reorganisations; `ForceRebroadcast` | Ethereum node, head tracker (callback) |
| Run manager, queue and executor | `job_runs`, `task_runs`, the counters of `workers` | Create, Cancel, resume (block, connection, bridge, restart), Execute | adapters, ORM, head tracker, web |
| Adapters | `eth_task_run_txes` | `Perform` | ORM, external adapters |
| Head tracker | ring buffer of heads, highest head, `heads` table | subscribe, receive, backfill, callbacks | Ethereum node, its callbacks |
| Log broadcaster, job subscriber | listeners, subscriptions, log consumptions | register, backfill, resubscribe, dispatch | Ethereum node, head tracker |
| Job spawner, pipeline runner | claimed jobs (session locks), running services; `pipeline_runs` | claim, start, stop, delete; create and execute runs | Postgres, event broadcaster |
| Event broadcaster | subscriptions with bounded queues | Subscribe, Notify, Stop | Postgres LISTEN |
| Flux monitor | rounds, backlog of logs, timers, hibernation | poll, respond to logs, submit | log broadcaster, run manager |
| Scheduler, stats pusher, gas updater, balance monitor, sleeper task | one queue, timer or cache each | | run manager, head tracker, explorer |

### Behaviours that are hard to test, and what makes each part correct

* **VRF oracle.** A stream that repeats itself after a restart, two goroutines with a bounded
  channel between them, two commits for one request, a chain that may execute a transaction
  whose push returned an error. *Correct:* the cursor never passes a job that is no row; a
  request is resolved at most once, in order; a job called completed has its randomness; the
  three tables agree after every commit; without a crash nothing is left behind.
* **EthBroadcaster.** A crash or a lost answer at the worst moment: the node has a
  transaction and the tables do not say so. *Correct:* the nonces of a key have no gap and no
  transaction is sent under two of them; whatever the node has is in the tables; every
  transaction is broadcast or refused in the end.
* **EthConfirmer.** Heads that lag behind the chain, reorganisations, several attempts with
  one nonce, one goroutine per key on one table. *Correct:* receipts and states agree; what a
  reorganisation takes out is sent again; an attempt sent again is the dearest one; what is
  given up stays given up.
* **Job runs.** Workers, heads, new connections, bridge answers and cancels load, change and
  save the same row at the same time, under an optimistic lock that one of them goes round.
  *Correct:* one transaction per task; tasks in order; nobody's save undoes another's; no run
  is left `in_progress` with nobody to execute it; every run ends.
* **Head tracker.** The highest head moves in memory before it is in the database; a ring
  buffer drops heads; callbacks run under a lock; a lost subscription is made again. *Correct:*
  callbacks see heads of growing height with the parents they need, and hear of the latest.
* **Log broadcaster, job subscriber.** Backfill and subscription overlap; listeners come and go
  while the subscription is made again. *Correct:* the subscription covers the contracts of
  the listeners, and a log reaches every one of them at least once.
* **Job spawner.** Several processes take jobs by session locks, which vanish with the session;
  the worker that starts services and the loop that stops them share a map; events are missed.
  *Correct:* one process serves a job; a job is served while a process is up; one that is
  deleted is not.
* **Pipeline runner.** The fan-in of a task; a transaction that ends before the tasks in it; a
  notification that comes too early. *Correct:* a task goes on once, after all its inputs; a
  run is finished once; whoever waits for it hears of it.
* **Flux monitor.** Logs, timers and flags decide about one submission per round, from a table
  that logs and submissions change. *Correct:* no second run for a round while one is open;
  rounds of others are answered; the checker hibernates exactly when the flags say so.
* **Key store.** A map and a table under one lock, changed one after the other. *Correct:*
  a failed operation leaves both as they were.
* **Event broadcaster, sleeper task, run queue.** Wake-ups that are dropped when one is queued;
  Stop at the same time as use. *Correct:* work that was asked for after the last one began
  is done; nothing runs after Stop has returned.

The hazards list in `PROJECT.json` gives the line where each of these bites, and the
properties that would catch it. Eight of them have none: the code behaves that way, nothing says
what it should do instead, or the part is not modelled. Each has a note that says which. Where a
property excepts what a hazard can do, the list says this too.

## 2. What is modelled, and how it corresponds to the code

```
VRFRequestModels <- VRFOracle <- MCVRFOracle
                    |      ^                       EthTxModels <- EthNode <- EthTables
     INSTANCE       v      |                                                    ^
        RandomnessService  VRFOracleProofs               MCEthBroadcaster -> EthBroadcaster <- TxManagerProofs
                                                         MCEthConfirmer   -> EthConfirmer   <-
RunModels <- RunPipeline <- MCRunPipeline
                         <- RunPipelineProofs      HeadTracker    <- MCHeadTracker, HeadTrackerProofs
JobSpawner     <- MCJobSpawner, JobSpawnerProofs   LogBroadcaster <- MCLogBroadcaster, LogBroadcasterProofs
PipelineRunner <- MCPipelineRunner,                FluxMonitor    <- MCFluxMonitor, FluxMonitorProofs
                  PipelineRunnerProofs
```

In every model a step ends at what another party can see: a commit, an operation on a channel
or a queue, a call of a node. What a goroutine computes between two of these is one step. A
few definitions are called *slips*: plausible bugs that no action uses. They are what each
property is tested against.

### The VRF oracle: `VRFRequestModels`, `VRFOracle`

| Model | Code |
|---|---|
| `requests`, `jobs`, `runs`, `cursor` | the tables `vrf_requests`, `vrf_request_jobs`, `vrf_request_runs` and `cursors` |
| `stream`, `pos` | the deltas and heartbeats of the firehose, and how far their callbacks have returned |
| `chan` | `requests := make(chan *models.VRFRequest, 20)` in `main`; capacity `ChanCap` |
| `hpc`, `rpc` | where `OnDelta`/`OnHeartBeat` and `Consume`/`Process` are |
| `inflight`, `ledger` | SetRand transactions that were pushed, and those the contract has executed |
| `CreateVRFRequest`, `CommitCursor`, `SendRequest` | `OnDelta`: the INSERT, which commits on its own, the commit of the cursor, the send to the channel |
| `TakeRequest`, `StartRun`, `RejectSeed`, `ProofFails`, `PushSetRand`, `SetRandSucceeds`, `SetRandFails` | `Consume` and `Process`; `EndRun` is `SaveVRFRequestRun`, which saves run, job and request in one transaction |
| `Start`, `Crash` | `main` up to `DeltaStream`; the process ends by a signal, a `Panicf`, or `log.Fatal` |
| `Execute`, `Expire` | the chain, external: a pushed transaction is executed or never will be, whenever it likes, whether or not SetRand has returned an error |

Every delta of one block has the same cursor, and a heartbeat closes its block; this is
`StreamsAssumption`, which is about the external firehose. The stream resumes after the saved
cursor (`ResumesAt`). Left out: logging, the second that the resolver sleeps before SetRand,
and the field `Cursor` of the handler, which nothing reads. `Retries` is a `uint8` in the
model too. A call of SetRand that returns no error is taken as executed for good
(`vrf_resolver.go:74` looks no further): the chain is assumed to undo no transaction whose push
has succeeded.

`RandomnessService` is what this amounts to for the rows: requests are taken up in order, at
most once; the contract receives randomness at most once for each, and only if it was taken
up; one called resolved has it. It promises neither that a request is taken up nor that one
called unresolved has no randomness. `VRFOracle` implements it by `Service == INSTANCE
RandomnessService WITH state <- ..., given <- ...`.

### The transaction manager: `EthTxModels`, `EthNode`, `EthTables`, `EthBroadcaster`, `EthConfirmer`

`EthTxModels` has the rows, the unique indexes and checks of the tables (`ConstraintsHold`), and the
computation of a bumped gas price. `EthNode` is external: a pool with at most one transaction per
nonce, a chain that is mined and reorganised, a price floor, evictions, other wallets, and the
answers to `SendTransaction` that `eth/errors.go` tells apart. Any call may also be answered by
nothing at all, whether or not the transaction has got through. It is the pool of one node, and the
nonce of a fresh key is 0. The price floor only rises, up to `MaxFloor`: above `MaxGasPrice` in
`broadcaster` and `confirmer_safety`, so that the bumps meet their ceiling
(`eth_broadcaster.go:409-419`) and the broadcaster asks again and again at the price it has.
`EthTables` declares the two tables that both services work on. The specification of the confirmer
is `ConfirmerSpec`, with `Handover` as its initial states: what the broadcaster hands over.

| Model | Code |
|---|---|
| `StartRound` | `ProcessUnstartedEthTxs` for all keys, after a poll, a trigger or an event |
| `ResumeInProgress`, `LoadNonce`, `LoadNonceFails`, `SaveInProgress`, `Send` | `handleAnyInProgressEthTx`, `GetNextNonce` and its error, `saveInProgressTransaction`, `sendTransaction` |
| `SaveUnconfirmed`, `SaveFatallyErrored`, `TryAgain`, `BailOut` | the branches of `handleInProgressEthTx` |
| `OnNewLongestChain`, `FetchReceipt`, `FetchFails`, `ReceiptsFetched` | `SetBroadcastBeforeBlockNum`, `CheckForReceipts` |
| `MarkConfirmedMissingReceipt`, `MarkOldTxesMissingReceiptAsErrored` | the functions of these names |
| `KeyStep(k)` | the goroutine of a key in `BumpGasWhereNecessary`: attempts left in progress first, then bumps; send, and the branches of `handleInProgressAttempt` |
| `MarkForRebroadcast`, `RebroadcastsMarked`, `HeadProcessed` | `EnsureConfirmedTransactionsInLongestChain` |
| `BroadcasterCrash`, `ConfirmerCrash` | the process, or the round, ends between two commits |

The two are checked apart: the confirmer begins with transactions the broadcaster has sent.
Errors of the signing keystore and `ForceRebroadcast`, a command for a node that is stopped,
are left out. `Bump` looks at the attempts as they are now, where the code looks at the list it has
loaded: these differ only with `BumpTxDepth = 0` and two keys (section 6), which no run has.

### Job runs: `RunModels`, `RunPipeline`

| Model | Code |
|---|---|
| `runs`, `txs` | `job_runs` with `task_runs`; `eth_task_run_txes` with the state of their transaction |
| `queue`, `worker` | `runQueue.workers`, and the goroutine of a run with its copy of it |
| `calls`, `connect`, `heads` | the goroutines of web requests and initiators, `ResumeAllPendingConnection`, and `ResumeAllPendingNextBlock` between its commit and the last `Run` |
| `current` | whose copy still has the `updated_at` of its row: the condition in `SaveJobRun` |
| `Run`, `EndExecute` | `runQueue.Run`: `incrementQueue` and `decrementQueue` |
| `FindJobRun`, `AwaitConfirmations`, `NotOnMainChain`, `ExecuteTask`, `WorkerSaves` | `runExecutor.Execute`, task by task |
| `Perform`, `InsertEthTx`, `CheckForConfirmation` | the adapters `Bridge` and `EthTx`; all others succeed or fail |
| `ResumeAllPendingNextBlock`, `QueueResumed` | the two UPDATEs, which leave `updated_at` alone, and the calls of `Run` |
| `PluckIDs`, `FindBatch`, `ConnectSaves`, `ConnectRuns` | `UnscopedJobRunsWithStatus` with the callback of `ResumeAllPendingConnection`; `Restart` has that of `ResumeAllInProgress` |
| `Create`, `ResumePendingBridge`, `Cancel`, `CallSaves`, `CallRuns` | the methods of the run manager, cut between load, save and `Run` |
| `TxDecided` | the transaction manager: the transaction is confirmed, as deep as the adapter asks for, or has a fatal error |

`overtaken` remembers that a new connection has loaded a run that was in need of resuming when
its id was read, and is finished or waits for a bridge now. The code resumes such a run all the
same (section 6), so `CompletedMeansAll`, `EndedIsFinal` and `RunsEnd` are about behaviours
without it.
A batch has at most 100 runs in the code; the models stay below that. All tasks of a run ask
for the same confirmations (`MinConfs`). Left out: `Stop` of the queue, database errors other
than a conflict, the sleep adapter, and amounts, prices and data.

### Jobs: `JobSpawner`

| Model | Code |
|---|---|
| `job`, `lock` | the table `jobs`, and who holds the advisory lock of a job for its session |
| `claimed`, `services` | `orm.claimedJobs` and `spawner.services` of a process |
| `woken`, `working`, `starting` | the `SleeperTask`: its queue of one, and the worker in `startUnclaimedServices` with the jobs it has yet to start |
| `stopping`, `events` | `chStopJob`, and events of Postgres on their way |
| `ClaimUnclaimedJobs`, `StartServices`, `EndWork` | one turn of the worker |
| `StopJob`, `handlePGDeleteEvent`, `PollDeleted` | the cases of `runLoop` |
| `CreateJob`, `DeleteJob` | the API of any process |
| `Close`, `RunLoopEnds`, `WorkerStops`, `Exit`, `Crash` | the end: `destroy` stops all services, then the worker; the sessions end with the process |

Every event may be missed, which the polls make up for. `raced` and `busy` remember that the
worker was about to start a job that was unclaimed, and that it was at work when the loop ended.
`unclaimJob` unlocks on another session than the one that took the lock, which does nothing:
in the model the lock goes when the process ends, which is harmless since the job is deleted.

### Pipelines: `PipelineRunner`

| Model | Code |
|---|---|
| `row`, `stored`, `commits` | `pipeline_runs`, `pipeline_task_runs`, and how often a run was marked as finished |
| `worker[w].mem` | the graph of `memoryTaskRun`s: predecessors, `finished`, inputs; where each goroutine is |
| `TakeRun`, `CommitRun` | `processNextUnfinishedRun`: FOR UPDATE SKIP LOCKED, and what is written at the end |
| `TxTimesOut` | `DatabaseMaximumTxDuration`, which ends the transaction and not the tasks |
| `CheckPredecessors`, `ClaimTask`, `ExecuteTask`, `PassResult` | the loop of a goroutine in `executeRun`, cut at its locks |
| `ExecuteNew`, `InsertFinishedRun` | `ExecuteAndInsertNewRun` |
| `AwaitRun`, `Subscribe`, `AwaitPolled`, `AwaitNotified`, `Notify` | `AwaitRun` with its poll, its subscription and the notification |
| `AwaitFails` | `AwaitRun` returns an error: its context ends, or the poll fails |
| `Reap`, `Crash` | `DeleteRunsOlderThan`; all workers and calls of a process are gone |

A run whose every execution takes longer than the transaction may is executed for ever
(`MaxTimeouts` bounds it); its tasks are then performed again and again.

### Logs: `LogBroadcaster`

| Model | Code |
|---|---|
| `loop`, `sub`, `next`, `pipe` | `startResubscribeLoop` and `process`; the current subscription, the new one, and what the goroutines of `appendLogChannel` still have to bring, one log each (`MaxHeld`) |
| `needs`, `connected` | `needsResubscribe`, `connected` |
| `listener`, `told`, `inbox` | a listener: its registration, what `OnConnect`, `OnDisconnect` or the answer of `Register` told it last, and the logs it was handed |
| `consumed` | `log_consumptions` |
| `DependentsReady`, `createSubscription`, `Resubscribe` | `awaitInitialSubscribers`, `createSubscription`, `backfillLogs` with the switch and `notifyConnect` |
| `onRawLog`, `onAddListener`, `onRemoveListener`, `Debounce`, `SubscriptionErr` | the cases of `process` |
| `Register`, `RegisterReturns`, `NoteAnswer`, `Unregister`, `Consume` | a checker of the flux monitor, which is the listener that is modelled. A direct request (`directrequest/delegate.go:67`) and off-chain reporting (`contract_config_tracker.go:69`) register too, and do nothing when the connection comes or goes |
| `NewBlock`, `Reorg`, `SubscriptionFails` | the node |

What `NoLogIsMissed` excepts is what the code leaves out: a listener that joins a contract another
one has brought in gets no backfill (`broadcaster.go:436`), also after a restart, when all but
the first job of a contract start from the present; a log deeper than the backfill is lost. What
`ListenersKnow` excepts: `Register` reads `connected` after the loop has added the listener, and
the checker stores the answer later still (`flux_monitor.go:562-566`). A connection that fails or
comes in between leaves it with an outdated answer (`raced`) until the connection next comes or fails.
`DependentsReady` may come at any time: the application starts the broadcaster before the flux
monitor (`application.go:297-299`), which counts its jobs only then (`DependentAwaiter`), so that
the first subscription need not wait for any of them.

### Heads: `HeadTracker`

| Model | Code |
|---|---|
| `best` | the node's chain; a block is the sequence of the forks of its ancestors, as a hash commits to these |
| `buffer` | the ring buffer `out` with what waits in `in` |
| `highest`, `heads` | `highestSeenHead`, and the table |
| `doing` | the goroutine of `listenForNewHeads`, with the head it handles |
| `Receive`, `Save` | the two halves of `Save`: memory, then `IdempotentInsertHead` and `TrimOldHeads` |
| `Chain`, `backfill`, `BackfillEnds`, `onNewLongestChain` | `GetChainWithBackfill` head by head, and the callbacks |
| `SubscriptionErr`, `DatabaseFails`, `Crash`, `Start`, `subscribeToHead` | failures, and what comes after them |

`told` is what the callbacks were handed last, and whether a reorganisation or an error had come
between the head and its chain; `due` the heights that they have yet to hear of. A head becomes due
when it is announced and higher than any that was seen. It stays so until the callbacks hear of it
or of a higher one, the buffer drops it, or a failure catches it; a head that `Save` does not hand
on remains due. What a failure of the database catches is lost for the callbacks, as the head is in
memory and not handed on when it is announced again (`head_tracker.go:203`). A closed error channel
without an error, on which `receiveHeaders` spins (`:310`), and the chain-id check, whose failure
leaks the subscription (`:531`), are left out.

### Rounds: `FluxMonitor`

| Model | Code |
|---|---|
| `rounds`, `flags`, `logs`, `at` | the aggregator and the Flags contract, external; what the log broadcaster delivers |
| `backlog` | the `BoundedPriorityQueue`, with the capacity of each priority |
| `stats`, `runs`, `consumed` | `flux_monitor_round_stats`, `job_runs` with the fate of the transaction, `log_consumptions` |
| `HandleLog`, `TakeLog` | `HandleLog`, `processLogs` |
| `RespondToNewRound`, `RespondToFlag` | `respondToNewRoundLog`; `reactivate` and `hibernate` |
| `Tick` | any of the timers: `pollIfEligible`, up to the fetch of a price |
| `MineTx`, `RunCompletes`, `RunFails` | the transaction of a run is mined, reverted or not; its run completes once that has enough confirmations, and no reorganisation takes this back; or the run fails or is cancelled before |
| `CreateRun`, `UpdateStats`, `MarkConsumed`, `NoDeviation`, `FetchFails`, `LogFails` | what follows, and the errors of each |

| `Start`, `Resubscribed`, `Subscribes` | the checker starts, or the log broadcaster subscribes again while it goes on: which logs come again, and in which order |
| `Reorg` | rounds are undone, or submissions to a round that stays, which may be open again; the transactions wait to be mined again |

When a timer fires is left open, so that a tick may come at any time. `lost` has the rounds whose
submission is not in the table: the row was not written, or was deleted with those above a log.

What comes again at a start is up to the log broadcaster. It backfills `backfillDepth` blocks
(`broadcaster.go:304-309`), and nothing at all for a listener whose contract it has already
subscribed to (`:436-447`). `Subscribes` therefore lets any number of the first logs be left out, of
the aggregator and of the Flags contract in any interleaving; how deep a backfill is in blocks
is a matter of `LogBroadcaster`.

`missed` has the logs that the checker will not act upon: those that the full queue, a backfill that
is not deep enough, a failed response or a failed mark has dropped; a log of a flag that comes again
when a later one has been acted upon (a flag log says nothing of the present state, so the checker
then has an old one); and the log of a round that a reorganisation has opened again after it was
closed, which no log tells. `RoundsGetAnswered` excepts the rounds whose log is in `missed`, and no
others; `HibernationFollowsFlags` excepts behaviours in which a log of a flag is. But the queue of
the flags is another matter: `reactivate` does not look at the flags, and `hibernate` does, so what
the full queue drops is made up for by the log that takes its place. That goes well with the two
places that the code has (`flux_monitor.go:418`), and the mutant with one place fails. Only a log
that is dropped while its duplicate is in the queue counts as missed.

## 3. Runs

| Run | Question | Bounds |
|---|---|---|
| `oracle_service` | Is every first job recorded and every request resolved, with a crash anywhere? Does the oracle implement `RandomnessService`? | every stream of up to 3 items over 2 blocks, 3 jobs, one with a seed that is refused and one that does not unmarshal; channel of 2; 1 crash |
| `oracle_transaction` | counterexample, section 6 | 1 item, 2 jobs |
| `broadcaster` | Are nonces without gap, is what was sent saved, and is everything broadcast? | 3 transactions of 1 key with 2 values, 1 of them refused; prices 1 and 2, a floor of up to 3; 1 block, 1 reorganisation, 1 external price, 1 crash |
| `confirmer_safety` | Do attempts, receipts and states agree with each other and with the chain? | 2 transactions of 1 key, the first of them refused by now; prices 1 and 2, a floor of up to 3; 3 blocks, 1 reorganisation, crashes at will, finality 1 |
| `confirmer_other_key` | counterexample, section 6 | 3 transactions of 2 keys, 2 blocks |
| `runs` | One transaction per task, no lost update, every run ends? | 1 run of either `<<bridge, ethtx>>` or `<<ethtx, bridge, pure>>`; 2 goroutines of requests, 2 heights, 2 confirmations, 1 connection, 1 crash |
| `jobs` | One process per job, services stopped, jobs taken and let go? | 2 processes, 3 starts, 1 job |
| `pipeline` | Fan-in, one commit, AwaitRun? | 2 workers, 1 run of 3 tasks where 2 chains meet, 1 transaction that times out, 1 crash |
| `logs` | Coverage, knowledge of the connection, no log missed? | 2 listeners to 1 contract, 1 of them removed; 2 blocks, backfill of the last; 1 failure, reorganisation or crash |
| `heads` | Complete chains, ever higher, and none forgotten? | 5 blocks, finality 3, history 4, buffer of 2, 2 reorganisations, 2 failures or crashes |
| `flux` | One open run per round, rounds answered, hibernation as the flags say? | 1 round with 2 runs and 2 faults, 2 rounds with 1 run and 1 fault or with 2 runs and none, or 4 changes of flags and 1 fault; a fault is a failure, a reorganisation, a new subscription or a crash; queues of 1 log of a round (the code has 2, and the model never 3 rounds) and 2 of flags, as in the code |
| `flux_twice` | counterexample, section 6 | 2 rounds with 2 runs and no fault |

Why these bounds are enough for the cases that matter:

* *Oracle.* Three stream items make two jobs of one block with a heartbeat, or a job before and
  after a block boundary; two crashes do to a row what one does, since a start forgets
  everything but the tables. A delta that does not unmarshal is the last thing that is read,
  so it comes last.
* *Transactions.* A refused transaction between two others is what can make a gap in the
  nonces, and a second value is what can change their order. A price that can be bumped once
  has both a first and a last price, and a floor above the last one is what no bump gets over. Two
  transactions of one key are one that passes the other over. Three blocks are a receipt, a
  finality depth, and a block beyond.
* *Job runs.* Runs do not share state but for the order in which `ConnectStep` takes them, so
  one run with all its goroutines is the interesting case; two requests make a load and a save
  with another's between them.
* *Jobs.* Jobs do not share state: a process takes, starts and stops each by itself. Two
  processes with one more start have a process that comes back while the other holds the lock.
* *Pipelines.* Two chains that meet have the only race there is between goroutines; two workers
  and one timeout have the other.
* *Logs.* Two listeners of one contract are a first and a last one, and one that comes later.
  With a backfill of the last block and two blocks there is a log that is too deep.
* *Heads.* The finality depth is below the history, and the chain grows past both, so rows
  are trimmed while forks are among them; the buffer is smaller than what a callback may miss.
* *Rounds.* Two rounds are one that is answered and one that supersedes it, which is what the
  deletion of rows is about. Two faults with two runs of one round are a run that a fault ends or
  that the table loses, and whatever may befall the second. Four changes of flags fill the
  queue of two and make it drop two more. Two rounds and one place make the other queue drop one.

TLC does not check that larger instances have no other behaviours; where there are proofs, they do.

Deadlock is not checked: all these models may come to rest, when the stream is over, everything
is confirmed, or the bounds are reached.

Every property of a passing run has been seen to fail in a mutant of the model in which one
definition is replaced by one of the slips (`PROJECT.json`, "mutants").

## 4. Fairness

Safety properties need none. The liveness properties assume:

* *Goroutines are scheduled, and calls return* (weak fairness of the handler, the resolver, a
  worker of a key, of a run, of a pipeline or of a spawner, the tracker, a checker, a request
  that has begun). The calls of the node have timeouts, so a round of the broadcaster ends.
* *A select takes every case that stays ready* (strong fairness of `onRawLog`, `Debounce`,
  `SubscriptionErr` and the registrations in `LogBroadcaster`, of `TakeLog` in `FluxMonitor`):
  Go chooses among the ready cases at random.
* *A process that died is started again* (`Start`, `Restart`): by its supervisor, which is not
  in the repository. Nothing is assumed of how often it dies, but the bounds make that finite;
  `RequestsGetResolved` is about behaviours without a crash, because a request that a crash has
  left behind is indeed not taken up again, and `JobsGetTaken` is about a process that stays up.
* *Polls are timers*: the broadcaster starts a round whenever none runs (`StartRound`), the
  spawner wakes its worker and looks for deleted jobs, the runner takes a run however often it
  does something else (`TakeRun`, strong), AwaitRun looks at its run.
* *The node does not fail every time it is asked* (strong fairness of `LoadNonce` and of a decisive
  answer to `Send`); without this no transaction need ever arrive. `EveryTxIsBroadcast` excepts a
  floor above `MaxGasPrice`: the node then refuses every price that the broadcaster offers, as it
  should.
* *Who waits for a run goes on waiting*: of `AwaitFails` nothing is assumed, and `AwaitReturns` is about the
  calls that do not end with an error.
* *Heads keep coming* and *every transaction is decided* (`ResumeAllPendingNextBlock`,
  `TxDecided`): what the head tracker and the transaction manager are for.
* *An external adapter answers in the end* (strong fairness of `ResumePendingBridge` and of its
  save): one answer may come before the run is saved as pending and is refused, so a single
  answer would not be enough.

Nothing is assumed of blocks, reorganisations, failures, cancels, connections, ticks, external
wallets, and of who creates or deletes a job.

## 5. Proofs

`VRFOracleProofs` proves safety of `VRFOracle` for all values of the constants: any set of jobs, any
set of streams that satisfies `StreamsAssumption`, any capacity, retry limit and number of crashes.
It uses the two named assumptions of `VRFOracle` and nothing else. `RunPipelineProofs` proves
`RunPipeline` for any jobs, goroutines, heights, connections and crashes, from `RunAssumption`.
`JobSpawnerProofs` proves `JobSpawner` for any processes, jobs and starts, from
`SpawnerAssumption`, and `PipelineRunnerProofs` proves `PipelineRunner` for any pipeline and any
number of workers, runs, timeouts and crashes, from `PipelineAssumption` and `AcyclicAssumption` (the
graph of the tasks has no cycle: `CreateJob` refuses one). `LogBroadcasterProofs` proves
`LogBroadcaster` for any listeners, contracts, depth and faults, from its `BroadcasterAssumption`;
`HeadTrackerProofs` proves `HeadTracker` for any depths, buffer, heights, reorganisations and
faults, from `TrackerAssumption`; `FluxMonitorProofs` proves `FluxMonitor` for any capacities of the
queue and any bounds on rounds, runs, flags and faults, from `CheckerAssumption`.

`TxManagerProofs` proves `EthBroadcaster` and `EthConfirmer` for any keys, transactions, gas
settings, depths and crashes, whatever the node refuses, mines, evicts or reorganises, from
`GasAssumption`, `NodeAssumption`, `BroadcasterAssumption` and `ConfirmerAssumption`. Its theorems
about the confirmer have one hypothesis more, `KeysApart`: gas bumps have a limit of depth, as in
the default configuration, or there is one key. Without it two goroutines have one transaction in
hand (`eth_confirmer.go:418`, section 6), and TLC finds that the invariant fails.

| Theorem | Says |
|---|---|
| `Invariance` | `Spec => []IInv` |
| `TypeCorrect` | the variables keep their types and the channel its capacity |
| `FirstJobsAreSafe` | the cursor never passes the first job of a block that is no row |
| `AtMostOnce` | at most one job per request, one run per job, one execution per request |
| `InOrder` | jobs are created in the order of their requests |
| `CompletedIsExecuted` | a completed job's SetRand was executed |
| `TablesAgree` | requests, jobs and runs tell one story |
| `CursorIsMonotonic` | no step moves the cursor back |
| `DuplicatesAreFromCrashes` | with k crashes there are at most k + 1 rows for one delta |
| `Implementation` | `Spec => ServiceSpec`: the oracle implements `RandomnessService` |
| `RunTypeCorrect` (`RunPipelineProofs`) | rows, copies and counters keep their types; a run has a worker exactly while the queue counts it |
| `CompletedRunsAreDone`, `EndsAreFinal` (`RunPipelineProofs`) | a completed run has all its tasks and transactions; nothing is saved over a run that has completed or errored; both unless a connection overtook a run |
| `TasksHaveOneTransaction` (`RunPipelineProofs`) | an ethtx task has one transaction |
| `Claims`, `SpawnerTypeCorrect`, `NeverTwoProcesses` (`JobSpawnerProofs`) | who serves a job, or is about to, holds its lock; so one process at most does |
| `ClosedHasNoServices` (`JobSpawnerProofs`) | a spawner that was closed runs no service, unless its worker was busy or woken when the run loop ended |
| `Transactions`, `EachRunOnce` (`PipelineRunnerProofs`) | a worker in a transaction has a run that is not finished, and has it alone; so a run is finished once, and AwaitRun returns after that |
| `Executions`, `EachTaskOnce`, `RunnerTypeCorrect` (`PipelineRunnerProofs`) | where chains of tasks meet one goroutine goes on; so each task is executed once, with all results it needs, and a finished run has a result of every task |
| `BroadcasterInvariant`, `SubscriptionAlwaysCovers`, `ListenersAlwaysKnow` (`LogBroadcasterProofs`) | while logs are processed the subscription covers the contracts of the listeners, or is known to be out of date; listeners know whether they are connected, unless the connection failed while they registered |
| `BroadcasterTypes` (`LogBroadcasterProofs`) | a subscription has logs of its contracts only, a listener those of its own, and who is not registered does not think it is connected |
| `EthBroadcasterInvariant`, `TablesStayTyped`, `NoncesNeverHaveGap`, `WhatIsSentIsSaved` (`TxManagerProofs`) | no statement fails on a constraint of the tables; the nonces of a key have no gap; what the node has of ours is a saved attempt |
| `ConfirmerInvariant`, `ConfirmerTypes` (`TxManagerProofs`) | no save of the confirmer fails on a constraint of the tables, and the goroutine of a key works on that key's rows |
| `ConfirmedByOneReceipt`, `ReceiptsAreOfTheChain` (`TxManagerProofs`) | a transaction has one receipt at most and is confirmed while it has; once a head's rebroadcasts are marked, no receipt that counts is of a block its chain has replaced |
| `ResentAtHighestPrice`, `ReorganisedTxIsSentAgain` (`TxManagerProofs`) | what is sent again is the dearest attempt; a confirmation is taken back only together with putting an attempt in progress, that attempt stays in progress, across crashes, until the node was asked to take it, and no head begins its own rebroadcasts before |
| `OneKeyIsSuperseded` (`TxManagerProofs`) | with one key, a transaction is marked as confirmed without a receipt only below a confirmed one |
| `TrackerInvariant`, `CallbacksAscend` (`HeadTrackerProofs`) | the callbacks hear of ever higher heads, also across restarts |
| `ChainsAreComplete` (`HeadTrackerProofs`) | the chain handed to the callbacks is complete, unless a reorganisation overtook it |
| `TrackerTypes` (`HeadTrackerProofs`) | the buffer keeps its size, the head that is handled is in the table, and nothing is higher than the highest head seen |
| `CheckerInvariant`, `NeverASecondOpenRun` (`FluxMonitorProofs`) | no second run is created for a round while one is open, unless the table has lost the first |
| `FluxTypes` (`FluxMonitorProofs`) | the queues keep to their capacities, and a row of the table names a run for its round |

None of these is inductive. `IInv` adds what they rest on:

* `OrderInv`: the ids of requests grow along their way, from the jobs through the channel to
  the handler. It makes `InOrder` inductive: what `TakeRequest` takes off the channel is beyond
  every job. A crash empties the channel and so keeps it.
* `HandlerInv`: while the handler is in `OnDelta`, the last request is that delta's, so the
  cursor it commits and the request it sends are its own.
* `ResolverInv`: the resolver works on the last job and the last run; its run is running, and
  its job has not been retried. Hence one run per job, and the statuses `EndRun` writes agree.
* `ChainInv`: SetRand was pushed only for requests with a job, and not yet for the one being
  proved. Hence one execution per request, also when the answer was lost.
* `StreamInv`: what was read is recorded, and what was not read is not before the cursor.
  Heartbeats come last in their block, so their cursor passes only what was read.

`DuplicatesNeedCrashes` needs one more, `RowsInv`: the rows of a delta are at most as many as the
crashes, and one more only if the process that runs has read it. A crash pays for that one.

The module first states what the actions do to the tables (`EndRunTables`, `CreateTables`, ...)
as facts about sequences, then proves one lemma per conjunct of `IInv`, with one case per
action.

`Implementation` rests on the same invariant. A request's abstract state is read off its job and
the runs of that job; `OrderInv` says it has one job (`OneJob`), so `WithJob` and `WithoutJob`
give that state in one equation. Then each action has a lemma: `CreateVRFRequest` is `Accept`,
`TakeRequest` is `TakeUp` of the head of the channel (beyond which no request has a job, again
by `OrderInv`), `Execute` is `Give`, a step that ends a run is `Finish`, and every other step,
`StartRun`, the cursor and the crashes among them, changes nothing.

`RunPipelineProofs` says of a run that its tasks are in order (`InOrder`): there is one it is at,
those before are completed, with a confirmed transaction where they need one, and those after it were
not started. This holds of every row and of every copy that a worker, a connection or a call has
(`RowOK`, `WorkerOK`, `CopyOK`, `CallOK`), and each method that changes a copy keeps it; for the
worker also `next`, with which its loop goes on after a save, must not be beyond that task. The other
half is about saves: whoever may still save has a copy of a run that has not ended, since the save
that ended it was a save of all other copies too (`HoldersOf`). As `Runnable` is true of a completed run,
a worker may load one; it finds no task left, so it saves nothing, and that is again `InOrder`. A
connection that takes up a run that has ended breaks both halves, hence `overtaken`.

For `JobSpawner`, `OneProcessPerJob` alone is not inductive: a process may start a job that it has
claimed long ago. `Locked` says that every job a process has claimed, starts, or serves is
locked by it; the actions keep it since `Claimable` leaves out what others have locked and
`SessionsEnd` frees only what the process that ends has held, which by then has forgotten it.
`CloseStopsServices` is strengthened by `Ended`: after the run loop nobody wakes the worker, so that
what was idle then stays idle.

`PipelineRunnerProofs` strengthens `FinishedOnce` by `Shape` (a worker is in a
transaction only with a run in hand), `HasRow` (that run is unfinished, as nobody but the holder
of the lock may finish it) and `Alone` (no two transactions have the same run).

`EachTaskOnce` is about one execution, and rests on `MemoryInv` of a worker's memory: the counter of
a task is the number of its predecessors whose result has not arrived, and no goroutine is beyond the
check of a task that misses one (`Counted`); a task that was taken is in the hand of one goroutine,
or was executed and has passed its result on (`Held`, `Resulted`); and for a task that misses
nothing and was not taken, a goroutine is on its way (`Awaited`). When all goroutines have ended, a task
without a result would miss that of a predecessor, and so would that one in turn: among the tasks
without a result, one would have no predecessor among them, as the graph has no cycle. Hence the
set is empty (`AllHaveResults`).

`LogBroadcasterProofs` adds two facts. `NextCovers`: between the creation of a subscription and the
switch to it, nobody is added to or removed from the map of listeners, as the same goroutine does
both. `Answers`: for each place a registration can be at, whether the broadcaster is connected then,
so that what `NoteAnswer` writes is right unless `raced`; it holds since each change of the
connection marks those who have got the other answer. `BroadcasterTypes` is proved from three facts
that the steps keep one by one: `Logs` (what a subscription or the pipe holds passed its filter),
`Inboxes` (who is handed a log was registered for its contract) and `OnlyMembersAreTold`.

`HeadTrackerProofs` must carry the order across a restart, when `highest` is read from the table.
`RowKept` says that a highest row is at least as high as what the callbacks have heard of, and
that trimming never takes it; `HighestKnown` that no row is above `highest`; `HandedOnlyHigher`
that a head under way is in the table and above what was handed on. For a backfill to stay below
its head, the length of the chain must be at least one (`ChainLengthBounds`), which rests on the
maximum of a set of numbers being one of them (`MaxOfSome`, from the well-foundedness of `<`).
For `ChainIsComplete`, `BackfillJoins` says that unless a reorganisation interfered, what backfill has
reached is an ancestor of the head, and the table has all between them: a block fetched by its
number belongs to the same chain as the head if the head is on the node's chain then
(`PrefixOfPrefix`). Trimming does not come between, as it is a step of the same goroutine.
`TrackerTypes` adds `Bounds`: a head is in hand exactly while one is saved or handed on, and every
block in a row, in the buffer or in hand has the height and the forks that the node's can have.

`TxManagerProofs` needs, for the broadcaster's `NoncesHaveNoGap`, who holds a nonce (`NonceInv`: the
transaction in progress has the next one, which a fatal error gives back) and that what a key has
broadcast is a whole interval up to it (`SeriesInv`). For `SentIsSaved` it needs that each such
transaction has one attempt (`AttemptInv`), and that an attempt is dropped only when the node cannot
have it (`SenderInv`). A refused transaction never gets into the pool. An attempt that is too cheap
was not in the pool when the node said so, nor can it have been mined: a nonce in the chain is below
the number of transactions its key has there, at every height, also after a reorganisation (`Used`).
That counts sets of nonces; `NoncesCount` is the lemma for it.

For the confirmer, `ConfirmerInv` is one invariant under all its theorems, since each part needs
another. Every transaction has its nonce until it is given up (`RowInv`), and every attempt has
that nonce and a price of its own, the dearest in progress (`PriceInv`). As the chain has a nonce of
a key once (`Once`, among the facts about the node), at most one attempt of a transaction is mined, so
`FetchReceipt` finds at most one receipt; and there is none yet, as a transaction that is asked
for is not confirmed (`PhaseInv`) and one with a receipt is (`ReceiptInv`). `Accounted` says where
a receipt of another chain may still be, from the bumps to the end of the rebroadcasts: below the
chain of the head, or of a transaction that is yet to be marked. `WorkInv` is about the goroutines
of the keys, which take turns on one table: what a goroutine has in hand, or is to send, are rows of
its own key, so that no other changes them. Here `KeysApart` is needed. For `ReorganisedTxIsSentAgain`,
`LeftInv` says where an attempt in progress is while the goroutines are at work: its key has yet to
ask for what was left, or has it in its list or in hand. So when all have ended there is none
(`StepLeavesNothing`), but for a transaction that was given up.

`OneKeyIsSuperseded` is the property that the run `confirmer_other_key` refutes. With one key it
follows from what the query compares; so the key that the query leaves out is the only reason for the
counterexample.

For the flux monitor, `Known` says of every open run that the row of its round names it, or that the
goroutine is about to write that, or that the submission is `lost`. `InHand` carries it from the
decision to the run: while an answer is fetched there is no open run for the round, and after
`CreateRun` only the last one. For this a run that has ended must not be open again. That failed in
the first attempt at the proof: a reorganisation reopened runs in the model, among them ones that
had errored and that the table had already replaced. The code does no such thing
(`checkEthTxForReceipt` completes a run and nothing takes it back), so the model was corrected:
`Reorg` leaves the status of runs alone, and `RunCompletes` is a step after `MineTx`.

Only model-checked: liveness, as the proof system has neither ENABLED nor fairness. Every
invariant and every safety property of an action that a passing run checks is also a theorem.

## 6. Where the code and what it says of itself differ

Each of these is a run whose counterexample TLC finds.

* `oracle_transaction`: `orm_vrf.go:13` inserts the request with `orm.DB` and not with the
  transaction it is given, so the request is there when the cursor is not; after a restart the
  delta makes a second one, and both are answered.
* `confirmer_other_key`: `eth_confirmer.go:266` compares the nonce of a transaction with the
  highest confirmed nonce of *any* key, and marks it as confirmed without a receipt.
* `flux_twice`: `flux_monitor.go:802` takes a new-round log that is only late for a sign of a
  reorganisation and deletes the rows of the rounds above it. The next tick finds no submission
  for a round that has an open run, and creates another; `:939-941` says that the table is there
  to keep polls from submitting twice.

The models show these too; they have no run of their own:

* `config.go:937` calls `VRFMaxRetries` the "number of retries to resolve a VRFRequest". A job whose
  run failed becomes Active again (`vrf_resolver.go:76`), and nothing reads Active jobs
  (`EndRun` in `VRFOracle`; no action takes such a job up).
* `eth_confirmer.go:664` takes a transaction for reorganised when its receipt is newer than the
  head being processed, since receipts are fetched from the node's latest block; `:605` says it
  "has been re-org'd out" (`HasReceiptInLongestChain`).
* `common.go:119`, `Runnable` is true of a cancelled run, so a worker that was queued before the
  cancel executes it, and its status changes again; `common.go:113` says the status "is final
  and can't be changed", and `job_run.go:189` that the run "should no longer be processed".
* With `ETH_GAS_BUMP_TX_DEPTH = 0` ("no limit", `config.go:344`) the query of
  `eth_confirmer.go:418` has no condition on the key, and two goroutines have one transaction in
  hand, which `:325` says is safe. The configurations here have a depth of 1.
* `eth_confirmer.go:297` gives up a transaction with an attempt that was just sent, which has no
  block number yet: `MAX` ignores NULL. `:275-276` says it has waited.
* `eth_confirmer.go:714` does not send a transaction again whose dearest attempt ran out of
  funds; `:605-606` says it is sent again.
* Deleting an attempt deletes its receipt (`bulletprooftxmanager.go:156`, by the cascade of
  `migration1589206996/migrate.go:110`), so a transaction stays confirmed without one, and is
  then treated as `:601-603` says of a reorganisation.
* `orm.go:589-604`: the ids of the runs to resume after a connection and their rows come from two
  queries, and the callback (`run_manager.go:305`) does not look at the status again. A run that
  ended in between becomes errored. One that waits for a bridge becomes `in_progress`, its task
  then takes the answer of the bridge to be there (`bridge.go:41`), and the run stays
  `in_progress` without a worker.

## 7. What is not modelled

* *Cryptography* (`vrf`, `signatures`): elliptic-curve arithmetic on 256-bit numbers has no
  useful small instance. A proof succeeds or fails (`ProofFails`).
* *Single queries and presentation*: most of the ORM, the web and command line, presenters,
  configuration, migrations, metrics, logging. Where a query decides something in a modelled
  component it is in that component's module.
* *libocr*, which off-chain reporting adapts, is not in the repository.
* *The database itself* does what Postgres promises: commits are atomic, indexes are enforced.
  Deadlocks in it, its connection pool and lost sessions are not in the present modules.
* *The lock of the whole database* is held by the one process of each model that stands for it;
  the locks of jobs are in `JobSpawner`. `SaveCursor` (`orm_vrf.go:58`) does not ask for it, so
  that a process that has lost it could move the cursor of its successor; nothing says how two
  processes are to share it.
* *The key store*: a map and a table changed one after the other; the next Unlock makes up for a
  step that failed. Which key answers after a second one is created (`start-vrf-oracle.go:80`)
  depends on the order of rows.
* *The end of services* other than the spawner's (`Stop` of the queue, the broadcasters, the
  tracker and the checkers): they end by a crash, which leaves the database as a stop may.
* *Timers of the flux monitor*, and its payments: a tick may come at any time, so that what depends
  on none coming (an idle timer that is not reset because its deadline is past,
  `flux_monitor.go:1115-1138`) is not visible.
* The components marked `not_modelled` in `PROJECT.json`, each with its reason.

## 8. Plan

The order was: what the program is for (the oracle), what moves money (the transaction
manager), what drives it (job runs), and then what feeds both of these: jobs, pipelines, logs,
heads and rounds. What would come next:

1. `TxManager`: `EthBroadcaster` and `EthConfirmer` on one set of tables
   (`B == INSTANCE EthBroadcaster`, `C == INSTANCE EthConfirmer`), with an abstract specification
   of a transaction service: a transaction is inserted, given at most one nonce, and ends up
   confirmed or refused. It also makes `TxDecided` of `RunPipeline` a promise that is kept.
2. `HeadTracker` composed with `EthConfirmer`, whose heads it hands over; `LogBroadcaster` composed
   with `FluxMonitor`, whose `HandleLog` it calls.
3. `JobSubscriber`, which Connect and Disconnect of the head tracker drive, and the end of the
   run queue.

Of the theorems: that what the node has under a nonce of ours is an attempt in the tables, for the
confirmer as for the broadcaster (`SentIsSaved`); and the refinement of the transaction service by
`TxManager`. Both can use what `TxManagerProofs` proves about the node.

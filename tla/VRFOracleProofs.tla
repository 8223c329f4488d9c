--------------------------- MODULE VRFOracleProofs ---------------------------
(***************************************************************************)
(* Proofs about VRFOracle, for every set of streams, every channel         *)
(* capacity, every number of retries and any number of crashes.            *)
(***************************************************************************)
EXTENDS VRFOracle, SequenceTheorems, FiniteSetTheorems, TLAPS

-----------------------------------------------------------------------------
(* Lemmas about the rows and the tables *)

\* The status cascade produces rows, and touches only what it should.
LEMMA JobUpdateType ==
    ASSUME NEW job \in JobRow, NEW s \in RunStatus, NEW m \in UInt8
    PROVE  /\ JobUpdateStatus(job, s, m) \in JobRow
           /\ JobUpdateStatus(job, s, m).req = job.req
           /\ s = "Running" => /\ JobUpdateStatus(job, s, m).status = "Running"
                               /\ JobUpdateStatus(job, s, m).retries = job.retries
           /\ s = "Completed" => JobUpdateStatus(job, s, m).status = "Completed"
           /\ s = "Failed" /\ job.retries = 0 =>
                 /\ JobUpdateStatus(job, s, m).retries = 1
                 /\ JobUpdateStatus(job, s, m).status =
                       IF 1 > m THEN "Failed" ELSE "Active"
<1>1. (job.retries + 1) % 256 \in UInt8
  BY DEF JobRow, UInt8
<1>2. job.retries = 0 => (job.retries + 1) % 256 = 1
  OBVIOUS
<1> QED
  BY <1>1, <1>2 DEF JobUpdateStatus, JobRow, RunStatus, JobStatus

LEMMA RequestUpdateType ==
    ASSUME NEW req \in RequestRow, NEW s \in JobStatus
    PROVE  /\ RequestUpdateStatus(req, s) \in RequestRow
           /\ RequestUpdateStatus(req, s).delta = req.delta
           /\ RequestUpdateStatus(req, s).type = req.type
           /\ req.type = "immediate" =>
                 RequestUpdateStatus(req, s).status =
                    IF s \in {"Completed", "Failed"} THEN "Completed" ELSE req.status
  BY DEF RequestUpdateStatus, RequestRow, RequestStatus, RequestType

\* The item being delivered is one.
LEMMA ItemType ==
    ASSUME TypeOK, NEW p \in DOMAIN stream
    PROVE  /\ stream \in Seq(Item)
           /\ stream[p] \in Item
           /\ stream[p].block \in Nat \ {0}
           /\ DOMAIN stream = 1 .. Len(stream)
           /\ \A q \in DOMAIN stream : p < q =>
                 /\ stream[p].block <= stream[q].block
                 /\ stream[p].op = "heartbeat" => stream[p].block < stream[q].block
<1>1. stream \in Seq(Item)
  BY StreamsAssumption DEF TypeOK
<1>2. DOMAIN stream = 1 .. Len(stream) /\ stream[p] \in Item
  BY <1>1
<1>3. stream[p].block \in Nat \ {0}
  BY <1>2 DEF Item
<1> QED
  BY <1>1, <1>2, <1>3, StreamsAssumption DEF TypeOK
-----------------------------------------------------------------------------

\* What EndRun does to the three tables.
LEMMA EndRunTables ==
    ASSUME IInv, rpc \in {"prove", "wait"},
           NEW s \in {"Completed", "Failed"}, NEW m \in UInt8,
           EndRun(s, m)
    PROVE  LET cj == Len(jobs)  cr == Len(runs)  q == jobs[cj].req
               job == JobUpdateStatus(jobs[cj], s, m)
           IN  /\ cj \in DOMAIN jobs /\ cr \in DOMAIN runs /\ q \in DOMAIN requests
               /\ job \in JobRow /\ job.req = q
               /\ requests' \in Seq(RequestRow) /\ Len(requests') = Len(requests)
               /\ jobs' \in Seq(JobRow) /\ Len(jobs') = Len(jobs)
               /\ runs' \in Seq(RunRow) /\ Len(runs') = Len(runs)
               /\ \A r \in DOMAIN requests : requests'[r] =
                     IF r = q THEN RequestUpdateStatus(requests[q], job.status)
                     ELSE requests[r]
               /\ \A i \in DOMAIN jobs : jobs'[i] = IF i = cj THEN job ELSE jobs[i]
               /\ \A k \in DOMAIN runs : runs'[k] =
                     IF k = cr THEN [runs[k] EXCEPT !.status = s] ELSE runs[k]
<1> DEFINE cj == Len(jobs)
           cr == Len(runs)
           q == jobs[cj].req
           job == JobUpdateStatus(jobs[cj], s, m)
<1>1. /\ requests \in Seq(RequestRow) /\ jobs \in Seq(JobRow) /\ runs \in Seq(RunRow)
      /\ jobs # <<>> /\ runs # <<>>
  BY DEF IInv, TypeOK, ResolverInv
<1>2. cj \in 1 .. Len(jobs) /\ cr \in 1 .. Len(runs)
  BY <1>1, EmptySeq
<1>3. jobs[cj] \in JobRow /\ runs[cr] \in RunRow
  BY <1>1, <1>2, ElementOfSeq
<1>4. q \in 1 .. Len(requests)
  BY <1>1, <1>2 DEF IInv, OrderInv
<1>5. requests[q] \in RequestRow
  BY <1>1, <1>4, ElementOfSeq
<1>6. s \in RunStatus
  BY DEF RunStatus
<1>7. job \in JobRow /\ job.req = q
  BY <1>3, <1>6, JobUpdateType
<1>8. job.status \in JobStatus
  BY <1>7 DEF JobRow
<1>9. RequestUpdateStatus(requests[q], job.status) \in RequestRow
  BY <1>5, <1>8, RequestUpdateType
<1>10. [runs[cr] EXCEPT !.status = s] \in RunRow
  BY <1>3, <1>6 DEF RunRow
<1>11. /\ requests' = [requests EXCEPT ![q] = RequestUpdateStatus(requests[q], job.status)]
       /\ jobs' = [jobs EXCEPT ![cj] = job]
       /\ runs' = [runs EXCEPT ![cr] = [runs[cr] EXCEPT !.status = s]]
  BY <1>7 DEF EndRun, CurrentJob, CurrentRun
<1>12. /\ DOMAIN requests = 1 .. Len(requests) /\ DOMAIN jobs = 1 .. Len(jobs)
       /\ DOMAIN runs = 1 .. Len(runs)
  BY <1>1
<1>13. /\ requests' \in Seq(RequestRow) /\ Len(requests') = Len(requests)
       /\ \A r \in 1 .. Len(requests) : requests'[r] =
             IF r = q THEN RequestUpdateStatus(requests[q], job.status) ELSE requests[r]
  BY <1>1, <1>4, <1>9, <1>11, ExceptSeq
<1>14. /\ jobs' \in Seq(JobRow) /\ Len(jobs') = Len(jobs)
       /\ \A i \in 1 .. Len(jobs) : jobs'[i] = IF i = cj THEN job ELSE jobs[i]
  BY <1>1, <1>2, <1>7, <1>11, ExceptSeq
<1>15. /\ runs' \in Seq(RunRow) /\ Len(runs') = Len(runs)
       /\ \A k \in 1 .. Len(runs) : runs'[k] =
             IF k = cr THEN [runs[cr] EXCEPT !.status = s] ELSE runs[k]
  BY <1>1, <1>2, <1>10, <1>11, ExceptSeq
<1> HIDE DEF cj, cr, q, job
<1>16. /\ cj \in DOMAIN jobs /\ cr \in DOMAIN runs /\ q \in DOMAIN requests
       /\ job \in JobRow /\ job.req = q
       /\ requests' \in Seq(RequestRow) /\ Len(requests') = Len(requests)
       /\ jobs' \in Seq(JobRow) /\ Len(jobs') = Len(jobs)
       /\ runs' \in Seq(RunRow) /\ Len(runs') = Len(runs)
       /\ \A r \in DOMAIN requests : requests'[r] =
             IF r = q THEN RequestUpdateStatus(requests[q], job.status) ELSE requests[r]
       /\ \A i \in DOMAIN jobs : jobs'[i] = IF i = cj THEN job ELSE jobs[i]
       /\ \A k \in DOMAIN runs : runs'[k] =
             IF k = cr THEN [runs[k] EXCEPT !.status = s] ELSE runs[k]
  BY <1>2, <1>4, <1>7, <1>12, <1>13, <1>14, <1>15
<1> QED
  BY <1>16 DEF cj, cr, q, job

\* What the other steps do to the tables and to the channel.
LEMMA CreateTables ==
    ASSUME IInv, CreateVRFRequest
    PROVE  /\ requests' \in Seq(RequestRow) /\ Len(requests') = Len(requests) + 1
           /\ \A r \in 1 .. Len(requests) : requests'[r] = requests[r]
           /\ requests'[Len(requests) + 1] = VRFRequest(pos + 1)
           /\ pos + 1 \in DOMAIN stream
<1>1. requests \in Seq(RequestRow) /\ pos \in Nat /\ pos + 1 \in 1 .. Len(stream)
  BY DEF IInv, TypeOK, CreateVRFRequest
<1>2. VRFRequest(pos + 1) \in RequestRow
  BY <1>1 DEF VRFRequest, RequestRow, RequestType, RequestStatus
<1>3. stream \in Seq(Item)
  BY StreamsAssumption DEF IInv, TypeOK
<1> QED
  BY <1>1, <1>2, <1>3, AppendProperties DEF CreateVRFRequest

LEMMA SendTables ==
    ASSUME IInv, SendRequest
    PROVE  /\ chan' \in Seq(Nat \ {0}) /\ Len(chan') = Len(chan) + 1
           /\ \A i \in 1 .. Len(chan) : chan'[i] = chan[i]
           /\ chan'[Len(chan) + 1] = Len(requests)
           /\ Len(requests) \in DOMAIN requests
<1>1. /\ requests \in Seq(RequestRow) /\ requests # <<>>
      /\ chan \in Seq(Nat \ {0})
  BY DEF IInv, TypeOK, HandlerInv, SendRequest
<1>2. Len(requests) \in Nat \ {0}
  BY <1>1, EmptySeq
<1> QED
  BY <1>1, <1>2, AppendProperties DEF SendRequest, ChanWith

LEMMA TakeTables ==
    ASSUME IInv, TakeRequest
    PROVE  /\ jobs' \in Seq(JobRow) /\ Len(jobs') = Len(jobs) + 1
           /\ \A i \in 1 .. Len(jobs) : jobs'[i] = jobs[i]
           /\ jobs'[Len(jobs) + 1] = NewVRFRequestJob(chan[1])
           /\ chan' \in Seq(Nat \ {0}) /\ Len(chan) = Len(chan') + 1
           /\ \A i \in 1 .. Len(chan') : chan'[i] = chan[i + 1]
           /\ chan[1] \in Nat \ {0}
<1>1. jobs \in Seq(JobRow) /\ chan \in Seq(Nat \ {0}) /\ chan # <<>>
  BY DEF IInv, TypeOK, TakeRequest
<1>2. /\ chan' \in Seq(Nat \ {0}) /\ Len(chan') = Len(chan) - 1
      /\ \A i \in 1 .. Len(chan') : chan'[i] = chan[i + 1]
      /\ Head(chan) \in Nat \ {0} /\ Head(chan) = chan[1]
  BY <1>1, HeadTailProperties DEF TakeRequest, ChanAfterTake
<1>3. NewVRFRequestJob(chan[1]) \in JobRow
  BY <1>2 DEF NewVRFRequestJob, JobRow, JobStatus, UInt8
<1>4. jobs' = Append(jobs, NewVRFRequestJob(chan[1]))
  BY <1>2 DEF TakeRequest
<1>5. Len(chan) \in Nat
  BY <1>1
<1> QED
  BY <1>1, <1>2, <1>3, <1>4, <1>5, AppendProperties

LEMMA StartRunTables ==
    ASSUME IInv, StartRun
    PROVE  /\ Len(jobs) \in DOMAIN jobs
           /\ jobs' \in Seq(JobRow) /\ Len(jobs') = Len(jobs)
           /\ \A i \in 1 .. Len(jobs) : i # Len(jobs) => jobs'[i] = jobs[i]
           /\ jobs'[Len(jobs)].req = jobs[Len(jobs)].req
           /\ jobs'[Len(jobs)].status = "Running"
           /\ jobs'[Len(jobs)].retries = 0
           /\ runs' \in Seq(RunRow) /\ Len(runs') = Len(runs) + 1
           /\ \A k \in 1 .. Len(runs) : runs'[k] = runs[k]
           /\ runs'[Len(runs) + 1] = [job |-> Len(jobs), status |-> "Running"]
<1>1. /\ jobs \in Seq(JobRow) /\ jobs # <<>> /\ runs \in Seq(RunRow)
      /\ jobs[Len(jobs)].retries = 0
  BY DEF IInv, TypeOK, ResolverInv, StartRun, CurrentJob
<1>2. Len(jobs) \in 1 .. Len(jobs) /\ Len(jobs) \in Nat \ {0}
  BY <1>1, EmptySeq
<1>3. jobs[Len(jobs)] \in JobRow
  BY <1>1, <1>2, ElementOfSeq
<1> DEFINE job == JobUpdateStatus(jobs[Len(jobs)], "Running", 0)
<1>0. "Running" \in RunStatus /\ 0 \in UInt8
  BY DEF RunStatus, UInt8
<1>4. /\ job \in JobRow /\ job.req = jobs[Len(jobs)].req
      /\ job.status = "Running" /\ job.retries = 0
  BY <1>0, <1>1, <1>3, JobUpdateType
<1>5. /\ jobs' = [jobs EXCEPT ![Len(jobs)] = job]
      /\ runs' = Append(runs, [job |-> Len(jobs), status |-> "Running"])
  BY DEF StartRun, CurrentJob, NewVRFRequestRun
<1>6. [job |-> Len(jobs), status |-> "Running"] \in RunRow
  BY <1>2 DEF RunRow, RunStatus
<1> HIDE DEF job
<1>7. /\ jobs' \in Seq(JobRow) /\ Len(jobs') = Len(jobs)
      /\ \A i \in 1 .. Len(jobs) : jobs'[i] = IF i = Len(jobs) THEN job ELSE jobs[i]
  BY <1>1, <1>2, <1>4, <1>5, ExceptSeq
<1>8. /\ runs' \in Seq(RunRow) /\ Len(runs') = Len(runs) + 1
      /\ \A k \in 1 .. Len(runs) : runs'[k] = runs[k]
      /\ runs'[Len(runs) + 1] = [job |-> Len(jobs), status |-> "Running"]
  BY <1>1, <1>5, <1>6, AppendProperties
<1> QED
  BY <1>1, <1>2, <1>4, <1>7, <1>8

\* The steps that end a run, in one form.
EndsRun ==
    /\ up /\ rpc \in {"prove", "wait"}
    /\ \E s \in {"Completed", "Failed"}, m \in {0, MaxRetries} :
          /\ EndRun(s, m)
          /\ s = "Completed" => Executed(CurrentRequest)

LEMMA EndingSteps ==
    ASSUME RejectSeed \/ ProofFails \/ SetRandSucceeds \/ SetRandFails
    PROVE  EndsRun
<1>1. CASE RejectSeed
  BY <1>1 DEF RejectSeed, EndsRun
<1>2. CASE ProofFails
  BY <1>2 DEF ProofFails, EndsRun
<1>3. CASE SetRandSucceeds
  BY <1>3 DEF SetRandSucceeds, EndsRun, Executed
<1>4. CASE SetRandFails
  BY <1>4 DEF SetRandFails, EndsRun
<1> QED
  BY <1>1, <1>2, <1>3, <1>4

\* The steps of the system, grouped as the proofs take them.
LEMMA Steps ==
    ASSUME [Next]_vars
    PROVE  \/ Start \/ Crash
           \/ CreateVRFRequest \/ CommitCursor \/ SendRequest
           \/ IgnoreRemove \/ OnHeartBeat
           \/ TakeRequest \/ StartRun \/ PushSetRand \/ EndsRun
           \/ \E r \in inflight : Execute(r) \/ Expire(r)
           \/ UNCHANGED vars
  BY EndingSteps DEF Next, HandlerNext, ResolverNext

-----------------------------------------------------------------------------
(* The invariant holds initially, and every step preserves each part of it *)

LEMMA InitIInv ==
    ASSUME Init
    PROVE  IInv
<1>1. /\ DOMAIN requests = {} /\ DOMAIN jobs = {} /\ DOMAIN runs = {}
      /\ DOMAIN chan = {} /\ DOMAIN ledger = {} /\ 1 .. pos = {}
  BY DEF Init
<1>2. /\ requests \in Seq(RequestRow) /\ jobs \in Seq(JobRow) /\ runs \in Seq(RunRow)
      /\ chan \in Seq(Nat \ {0}) /\ ledger \in Seq(Nat \ {0}) /\ Len(chan) = 0
  BY EmptySeq DEF Init
<1>3. stream \in Seq(Item) /\ Len(stream) \in Nat
  BY StreamsAssumption DEF Init
<1>4. TypeOK
  <2>1. Len(chan) <= ChanCap /\ crashes <= MaxCrashes /\ pos <= Len(stream)
    BY <1>2, <1>3, ConstantsAssumption DEF Init
  <2> QED
    BY <1>2, <1>3, <2>1 DEF Init, TypeOK, HandlerPC, ResolverPC
<1>5. OrderInv /\ HandlerInv /\ ResolverInv /\ CompletedWasExecuted
  BY <1>1 DEF Init, OrderInv, HandlerInv, ResolverInv, CompletedWasExecuted
<1>6. ChainInv
  BY <1>1 DEF Init, ChainInv, Executed
<1>7. StatusesAgree
  BY <1>1 DEF StatusesAgree
<1>8. \A p \in DOMAIN stream : ~(stream[p].block <= cursor)
  BY <1>4, ItemType DEF Init
<1>9. NoFirstJobSkipped /\ StreamInv
  BY <1>1, <1>8 DEF Init, NoFirstJobSkipped, StreamInv
<1> QED
  BY <1>4, <1>5, <1>6, <1>7, <1>9 DEF IInv

LEMMA TypeStep ==
    ASSUME IInv, [Next]_vars
    PROVE  TypeOK'
<1> USE DEF TypeOK
<1>0. TypeOK /\ stream \in Seq(Item) /\ Len(stream) \in Nat /\ ChanCap \in Nat /\ MaxCrashes \in Nat
  BY StreamsAssumption, ConstantsAssumption DEF IInv
<1>1. CASE Start
  BY <1>0, <1>1 DEF Start, db, chain, HandlerPC, ResolverPC
<1>2. CASE Crash
  <2>1. chan' \in Seq(Nat \ {0}) /\ Len(chan') = 0
    BY <1>2, EmptySeq DEF Crash
  <2>2. crashes' \in Nat /\ crashes' <= MaxCrashes
    BY <1>0, <1>2 DEF Crash
  <2>3. pos' \in Nat /\ pos' <= Len(stream)
    BY <1>0, <1>2 DEF Crash
  <2>4. Len(chan') <= ChanCap
    BY <1>0, <2>1
  <2> QED
    BY <1>0, <1>2, <2>1, <2>2, <2>3, <2>4 DEF Crash, db, chain, HandlerPC, ResolverPC
<1>3. CASE CreateVRFRequest
  BY <1>0, <1>3, CreateTables DEF CreateVRFRequest, chain, HandlerPC
<1>4. CASE CommitCursor
  <2>1. pos + 1 \in DOMAIN stream
    BY <1>0, <1>4 DEF IInv, HandlerInv, CommitCursor
  <2>2. cursor' \in Nat
    BY <1>0, <1>4, <2>1, ItemType DEF CommitCursor, Next1
  <2> QED
    BY <1>0, <1>4, <2>2 DEF CommitCursor, chain, HandlerPC
<1>5. CASE SendRequest
  <2>1. pos < Len(stream)
    BY <1>5 DEF IInv, HandlerInv, SendRequest
  <2>2. Len(chan) \in Nat
    BY <1>0
  <2>3. chan' \in Seq(Nat \ {0}) /\ Len(chan') <= ChanCap
    BY <1>0, <1>5, <2>2, SendTables DEF SendRequest, HasRoom
  <2> QED
    BY <1>0, <1>5, <2>1, <2>3 DEF SendRequest, db, chain, HandlerPC
<1>6. CASE IgnoreRemove
  BY <1>0, <1>6 DEF IgnoreRemove, db, chain
<1>7. CASE OnHeartBeat
  <2>1. pos + 1 \in DOMAIN stream
    BY <1>0, <1>7 DEF OnHeartBeat
  <2>2. cursor' \in Nat
    BY <1>0, <1>7, <2>1, ItemType DEF OnHeartBeat, Next1
  <2> QED
    BY <1>0, <1>7, <2>2 DEF OnHeartBeat, chain
<1>8. CASE TakeRequest
  <2>1. Len(chan') <= ChanCap
    BY <1>0, <1>8, TakeTables
  <2> QED
    BY <1>0, <1>8, <2>1, TakeTables DEF TakeRequest, chain, ResolverPC
<1>9. CASE StartRun
  BY <1>0, <1>9, StartRunTables DEF StartRun, chain, ResolverPC
<1>10. CASE PushSetRand
  <2>1. jobs # <<>>
    BY <1>10 DEF IInv, ResolverInv, PushSetRand
  <2>2. Len(jobs) \in 1 .. Len(jobs)
    BY <1>0, <2>1, EmptySeq
  <2>3. jobs[Len(jobs)] \in JobRow
    BY <1>0, <2>2, ElementOfSeq
  <2>4. CurrentRequest \in Nat \ {0}
    BY <2>3 DEF CurrentRequest, CurrentJob, JobRow
  <2> QED
    BY <1>0, <1>10, <2>4 DEF PushSetRand, db, ResolverPC
<1>11. CASE EndsRun
  <2>1. PICK s \in {"Completed", "Failed"}, m \in {0, MaxRetries} :
           rpc \in {"prove", "wait"} /\ EndRun(s, m)
    BY <1>11 DEF EndsRun
  <2>2. m \in UInt8
    BY ConstantsAssumption DEF UInt8
  <2>3. requests' \in Seq(RequestRow) /\ jobs' \in Seq(JobRow) /\ runs' \in Seq(RunRow)
    BY <2>1, <2>2, EndRunTables
  <2>4. /\ UNCHANGED <<stream, cursor, up, pos, hpc, chan, chain, crashes>>
        /\ rpc' = "idle"
    BY <2>1 DEF EndRun
  <2> QED
    BY <1>0, <2>3, <2>4 DEF chain, ResolverPC
<1>12. CASE \E r \in inflight : Execute(r) \/ Expire(r)
  <2>1. PICK r \in inflight : Execute(r) \/ Expire(r)
    BY <1>12
  <2>2. CASE Execute(r)
    <3>1. ledger' \in Seq(Nat \ {0})
      BY <1>0, <2>1, <2>2, AppendProperties DEF Execute
    <3> QED
      BY <1>0, <2>2, <3>1 DEF Execute, db, process
  <2>3. CASE Expire(r)
    BY <1>0, <2>3 DEF Expire, db, process
  <2> QED
    BY <2>1, <2>2, <2>3
<1>13. CASE UNCHANGED vars
  BY <1>0, <1>13 DEF vars
<1> QED
  BY <1>1, <1>2, <1>3, <1>4, <1>5, <1>6, <1>7, <1>8, <1>9, <1>10, <1>11, <1>12,
     <1>13, Steps

\* The tables are indexed from 1 to their lengths.
LEMMA Domains ==
    ASSUME TypeOK
    PROVE  /\ DOMAIN stream = 1 .. Len(stream) /\ Len(stream) \in Nat
           /\ DOMAIN requests = 1 .. Len(requests) /\ Len(requests) \in Nat
           /\ DOMAIN jobs = 1 .. Len(jobs) /\ Len(jobs) \in Nat
           /\ DOMAIN runs = 1 .. Len(runs) /\ Len(runs) \in Nat
           /\ DOMAIN chan = 1 .. Len(chan) /\ Len(chan) \in Nat
           /\ DOMAIN ledger = 1 .. Len(ledger) /\ Len(ledger) \in Nat
           /\ \A i \in DOMAIN jobs : jobs[i] \in JobRow
           /\ \A i \in DOMAIN chan : chan[i] \in Nat \ {0}
           /\ \A k \in DOMAIN runs : runs[k] \in RunRow
           /\ \A k \in DOMAIN ledger : ledger[k] \in Nat \ {0}
           /\ \A r \in DOMAIN requests : requests[r] \in RequestRow
<1>1. stream \in Seq(Item)
  BY StreamsAssumption DEF TypeOK
<1> QED
  BY <1>1 DEF TypeOK

LEMMA OrderStep ==
    ASSUME IInv, [Next]_vars
    PROVE  OrderInv'
<1>0. TypeOK /\ TypeOK' /\ OrderInv
  BY TypeStep DEF IInv
<1> USE DEF OrderInv
<1>1. CASE Start \/ Crash
  <2>1. /\ UNCHANGED <<requests, jobs>> /\ DOMAIN chan' = {} /\ hpc' = "idle"
    BY <1>1 DEF Start, Crash, db
  <2> QED
    BY <1>0, <2>1
<1>2. CASE CreateVRFRequest
  <2>1. /\ UNCHANGED <<jobs, chan>>
        /\ DOMAIN requests' = 1 .. Len(requests) + 1 /\ Len(requests') = Len(requests) + 1
    BY <1>0, <1>2, CreateTables, Domains DEF CreateVRFRequest
  <2>2. /\ \A i \in DOMAIN jobs : jobs[i].req \in 1 .. Len(requests)
        /\ \A i \in DOMAIN chan : chan[i] \in 1 .. Len(requests)
    BY <1>0, Domains
  <2>3. /\ \A i \in DOMAIN jobs' : jobs'[i].req \in DOMAIN requests'
        /\ \A i \in DOMAIN chan' : chan'[i] \in DOMAIN requests'
        /\ \A i \in DOMAIN jobs' : jobs'[i].req < Len(requests')
        /\ \A i \in DOMAIN chan' : chan'[i] < Len(requests')
    BY <1>0, <2>1, <2>2, Domains
  <2> QED
    BY <1>0, <2>1, <2>3
<1>3. CASE CommitCursor
  BY <1>0, <1>3 DEF CommitCursor
<1>4. CASE SendRequest
  <2>1. UNCHANGED <<requests, jobs>> /\ hpc' = "idle" /\ hpc # "idle"
    BY <1>4 DEF SendRequest, db
  <2>2. DOMAIN chan' = 1 .. Len(chan) + 1
    BY <1>0, <1>4, SendTables
  <2>3. \A i \in DOMAIN chan' :
           IF i <= Len(chan) THEN i \in DOMAIN chan /\ chan'[i] = chan[i]
                             ELSE chan'[i] = Len(requests)
    BY <1>0, <1>4, <2>2, SendTables, Domains
  <2>4. Len(requests) \in DOMAIN requests
    BY <1>4, SendTables
  <2>5. \A i \in DOMAIN chan' : chan'[i] \in DOMAIN requests
    BY <1>0, <2>3, <2>4
  <2>6. \A i, j \in DOMAIN chan' : i < j => chan'[i] < chan'[j]
    BY <1>0, <2>1, <2>2, <2>3, Domains
  <2>7. \A i \in DOMAIN jobs, j \in DOMAIN chan' : jobs[i].req < chan'[j]
    BY <1>0, <2>1, <2>3
  <2> QED
    BY <1>0, <2>1, <2>5, <2>6, <2>7
<1>5. CASE TakeRequest
  <2>1. UNCHANGED <<requests, hpc>>
    BY <1>5 DEF TakeRequest
  <2>2. DOMAIN chan' = 1 .. Len(chan) - 1 /\ DOMAIN jobs' = 1 .. Len(jobs) + 1
    BY <1>0, <1>5, TakeTables, Domains
  <2>3. \A i \in DOMAIN chan' : i + 1 \in DOMAIN chan /\ chan'[i] = chan[i + 1]
    <3>1. /\ \A i \in 1 .. Len(chan') : chan'[i] = chan[i + 1]
          /\ Len(chan) = Len(chan') + 1 /\ Len(chan') \in Nat
      BY <1>5, TakeTables
    <3>2. DOMAIN chan' = 1 .. Len(chan') /\ DOMAIN chan = 1 .. Len(chan)
      BY <1>0, Domains, <1>5, TakeTables
    <3> QED
      BY <3>1, <3>2
  <2>4. 1 \in DOMAIN chan
    BY <1>0, <1>5, <2>2, TakeTables, Domains
  <2>5. \A i \in DOMAIN jobs' :
           IF i <= Len(jobs) THEN i \in DOMAIN jobs /\ jobs'[i].req = jobs[i].req
                             ELSE jobs'[i].req = chan[1]
    BY <1>0, <1>5, <2>2, TakeTables, Domains DEF NewVRFRequestJob
  <2>6. \A i \in DOMAIN chan' : chan[1] < chan'[i]
    BY <1>0, <2>2, <2>3, <2>4
  <2>7. \A i, j \in DOMAIN jobs' : i < j => jobs'[i].req < jobs'[j].req
    <3>1. Len(jobs) \in Nat
      BY <1>0, Domains
    <3>2. \A i, j \in DOMAIN jobs' : i < j => i \in 1 .. Len(jobs)
      BY <2>2, <3>1
    <3>3. \A i \in DOMAIN jobs' : i <= Len(jobs) => jobs'[i].req < chan[1]
      BY <1>0, <2>4, <2>5
    <3> QED
      BY <1>0, <2>5, <3>2, <3>3
  <2>8. \A i \in DOMAIN jobs', j \in DOMAIN chan' : jobs'[i].req < chan'[j]
    BY <1>0, <2>3, <2>5, <2>6
  <2>9. \A i, j \in DOMAIN chan' : i < j => chan'[i] < chan'[j]
    BY <1>0, <2>2, <2>3
  <2>10. /\ \A i \in DOMAIN jobs' : jobs'[i].req \in DOMAIN requests
         /\ \A i \in DOMAIN chan' : chan'[i] \in DOMAIN requests
    BY <1>0, <2>3, <2>4, <2>5
  <2>11. hpc # "idle" => /\ \A i \in DOMAIN jobs' : jobs'[i].req < Len(requests)
                         /\ \A i \in DOMAIN chan' : chan'[i] < Len(requests)
    BY <1>0, <2>3, <2>4, <2>5
  <2> QED
    BY <2>1, <2>7, <2>8, <2>9, <2>10, <2>11
<1>6. CASE StartRun
  <2>1. UNCHANGED <<requests, hpc, chan>>
    BY <1>6 DEF StartRun
  <2>2. DOMAIN jobs' = DOMAIN jobs /\ \A i \in DOMAIN jobs : jobs'[i].req = jobs[i].req
    BY <1>0, <1>6, StartRunTables, Domains
  <2> QED
    BY <1>0, <2>1, <2>2
<1>7. CASE EndsRun
  <2>1. PICK s \in {"Completed", "Failed"}, m \in {0, MaxRetries} :
           rpc \in {"prove", "wait"} /\ EndRun(s, m)
    BY <1>7 DEF EndsRun
  <2>2. m \in UInt8
    BY ConstantsAssumption DEF UInt8
  <2>3. /\ DOMAIN jobs' = DOMAIN jobs /\ \A i \in DOMAIN jobs : jobs'[i].req = jobs[i].req
        /\ DOMAIN requests' = DOMAIN requests /\ Len(requests') = Len(requests)
    BY <1>0, <2>1, <2>2, EndRunTables, Domains
  <2>4. UNCHANGED <<hpc, chan>>
    BY <2>1 DEF EndRun
  <2> QED
    BY <1>0, <2>3, <2>4
<1>8. CASE IgnoreRemove \/ OnHeartBeat \/ PushSetRand \/ UNCHANGED vars
  BY <1>0, <1>8 DEF IgnoreRemove, OnHeartBeat, PushSetRand, vars, db
<1>9. CASE \E r \in inflight : Execute(r) \/ Expire(r)
  BY <1>0, <1>9 DEF Execute, Expire, db, process
<1> QED
  BY <1>1, <1>2, <1>3, <1>4, <1>5, <1>6, <1>7, <1>8, <1>9, Steps

LEMMA HandlerStep ==
    ASSUME IInv, [Next]_vars
    PROVE  HandlerInv'
<1>0. TypeOK /\ TypeOK' /\ HandlerInv /\ UNCHANGED stream
  BY TypeStep, Steps
     DEF IInv, vars, Start, Crash, CreateVRFRequest, CommitCursor, SendRequest,
         IgnoreRemove, OnHeartBeat, TakeRequest, StartRun, PushSetRand, EndsRun,
         EndRun, Execute, Expire
<1> USE DEF HandlerInv
<1>1. CASE Start \/ Crash
  BY <1>0, <1>1 DEF Start, Crash, db
<1>2. CASE CreateVRFRequest
  <2>1. /\ DOMAIN requests' = 1 .. Len(requests) + 1 /\ Len(requests') = Len(requests) + 1
        /\ pos + 1 \in DOMAIN stream /\ requests' # <<>>
    BY <1>0, <1>2, CreateTables, Domains DEF CreateVRFRequest
  <2>2. \A r \in DOMAIN requests' :
           IF r <= Len(requests) THEN r \in DOMAIN requests /\ requests'[r] = requests[r]
                                 ELSE requests'[r] = VRFRequest(pos + 1)
    BY <1>0, <1>2, <2>1, CreateTables, Domains
  <2>3. requests'[Len(requests')].delta = pos + 1
    BY <1>2, <2>1, CreateTables DEF VRFRequest
  <2>4. /\ up /\ pos < Len(stream) /\ IsCreation(stream[pos + 1])
        /\ UNCHANGED <<up, pos>>
    BY <1>2 DEF CreateVRFRequest, Next1
  <2>5. \A r \in DOMAIN requests' : /\ requests'[r].delta \in DOMAIN stream
                                    /\ requests'[r].type = "immediate"
    BY <1>0, <2>1, <2>2 DEF VRFRequest
  <2> QED
    BY <1>0, <2>1, <2>3, <2>4, <2>5 DEF IsCreation
<1>3. CASE CommitCursor
  BY <1>0, <1>3 DEF CommitCursor, IsCreation
<1>4. CASE SendRequest \/ IgnoreRemove \/ OnHeartBeat
  <2>1. UNCHANGED requests /\ hpc' = "idle"
    BY <1>4 DEF SendRequest, IgnoreRemove, OnHeartBeat, db
  <2> QED
    BY <1>0, <2>1
<1>5. CASE TakeRequest \/ StartRun \/ PushSetRand \/ UNCHANGED vars
  <2>1. UNCHANGED <<requests, hpc, up, pos>>
    BY <1>5 DEF TakeRequest, StartRun, PushSetRand, vars, db
  <2> QED
    BY <1>0, <2>1 DEF IsCreation
<1>6. CASE EndsRun
  <2>1. PICK s \in {"Completed", "Failed"}, m \in {0, MaxRetries} :
           rpc \in {"prove", "wait"} /\ EndRun(s, m)
    BY <1>6 DEF EndsRun
  <2>2. m \in UInt8
    BY ConstantsAssumption DEF UInt8
  <2> DEFINE q == jobs[Len(jobs)].req
             job == JobUpdateStatus(jobs[Len(jobs)], s, m)
  <2>3. /\ Len(requests') = Len(requests) /\ q \in DOMAIN requests /\ job \in JobRow
        /\ DOMAIN requests' = DOMAIN requests
        /\ \A r \in DOMAIN requests : requests'[r] =
              IF r = q THEN RequestUpdateStatus(requests[q], job.status)
              ELSE requests[r]
    BY <1>0, <2>1, <2>2, EndRunTables, Domains
  <2> HIDE DEF q, job
  <2>4. requests[q] \in RequestRow /\ job.status \in JobStatus
    BY <1>0, <2>3, Domains DEF JobRow
  <2>5. \A r \in DOMAIN requests : /\ requests'[r].delta = requests[r].delta
                                   /\ requests'[r].type = requests[r].type
    BY <2>3, <2>4, RequestUpdateType
  <2>6. UNCHANGED <<up, pos, hpc>>
    BY <2>1 DEF EndRun
  <2>7. requests # <<>> => requests' # <<>> /\ Len(requests) \in DOMAIN requests
    BY <1>0, <2>3, EmptySeq, Domains DEF TypeOK
  <2> QED
    BY <1>0, <2>3, <2>5, <2>6, <2>7 DEF IsCreation
<1>7. CASE \E r \in inflight : Execute(r) \/ Expire(r)
  <2>1. UNCHANGED <<requests, hpc, up, pos>>
    BY <1>7 DEF Execute, Expire, db, process
  <2> QED
    BY <1>0, <2>1 DEF IsCreation
<1> QED
  BY <1>1, <1>2, <1>3, <1>4, <1>5, <1>6, <1>7, Steps

LEMMA ResolverStep ==
    ASSUME IInv, [Next]_vars
    PROVE  ResolverInv'
<1>0. TypeOK /\ TypeOK' /\ ResolverInv
  BY TypeStep DEF IInv
<1> USE DEF ResolverInv, CurrentJob, CurrentRun
<1>1. CASE Start \/ Crash
  BY <1>0, <1>1 DEF Start, Crash, db
<1>2. CASE CreateVRFRequest \/ CommitCursor \/ SendRequest \/ IgnoreRemove \/ OnHeartBeat
           \/ UNCHANGED vars
  <2>1. UNCHANGED <<jobs, runs, up, rpc>>
    BY <1>2 DEF CreateVRFRequest, CommitCursor, SendRequest, IgnoreRemove, OnHeartBeat,
                db, vars
  <2> QED
    BY <1>0, <2>1
<1>3. CASE TakeRequest
  <2>1. DOMAIN jobs' = 1 .. Len(jobs) + 1 /\ Len(jobs') = Len(jobs) + 1 /\ jobs' # <<>>
    BY <1>0, <1>3, TakeTables, Domains DEF TakeRequest
  <2>2. UNCHANGED <<runs, up>> /\ up /\ rpc' = "start"
    BY <1>3 DEF TakeRequest
  <2>3. jobs'[Len(jobs')].retries = 0 /\ jobs'[Len(jobs')].status = "Active"
    BY <1>3, <2>1, TakeTables DEF NewVRFRequestJob
  <2>4. \A k \in DOMAIN runs : runs[k].job \in 1 .. Len(jobs)
    BY <1>0, Domains
  <2>5. Len(jobs) \in Nat
    BY <1>0, Domains
  <2>6. \A k \in DOMAIN runs : runs[k].job \in DOMAIN jobs' /\ runs[k].job < Len(jobs')
    BY <2>1, <2>4, <2>5
  <2> QED
    BY <1>0, <2>1, <2>2, <2>3, <2>6
<1>4. CASE StartRun
  <2>1. /\ DOMAIN jobs' = DOMAIN jobs /\ Len(jobs') = Len(jobs) /\ jobs' # <<>>
        /\ jobs'[Len(jobs)].retries = 0
    BY <1>0, <1>4, StartRunTables, Domains, EmptySeq DEF TypeOK
  <2>2. up /\ up' /\ rpc' = "prove" /\ rpc = "start"
    BY <1>4 DEF StartRun
  <2>3. /\ DOMAIN runs' = 1 .. Len(runs) + 1 /\ Len(runs') = Len(runs) + 1 /\ runs' # <<>>
        /\ runs'[Len(runs) + 1].job = Len(jobs)
        /\ runs'[Len(runs) + 1].status = "Running"
    <3>1. /\ runs' \in Seq(RunRow) /\ Len(runs') = Len(runs) + 1
          /\ runs'[Len(runs) + 1] = [job |-> Len(jobs), status |-> "Running"]
      BY <1>4, StartRunTables
    <3>2. Len(runs) \in Nat
      BY <1>0, Domains
    <3>3. runs' # <<>>
      BY <3>1, <3>2, EmptySeq
    <3> QED
      BY <3>1, <3>2, <3>3
  <2>4. \A k \in DOMAIN runs' :
           IF k <= Len(runs) THEN k \in DOMAIN runs /\ runs'[k] = runs[k]
                             ELSE k = Len(runs) + 1
    BY <1>0, <1>4, <2>3, StartRunTables, Domains
  <2>5. Len(jobs) \in DOMAIN jobs
    BY <1>4, StartRunTables
  <2>6. \A k \in DOMAIN runs' : runs'[k].job \in DOMAIN jobs'
    BY <1>0, <2>1, <2>3, <2>4, <2>5
  <2>7. \A k, l \in DOMAIN runs' : k < l => runs'[k].job < runs'[l].job
    <3>1. \A k \in DOMAIN runs : runs[k].job < Len(jobs)
      BY <1>0, <2>2
    <3>2. \A k, l \in DOMAIN runs' : k < l => k \in DOMAIN runs /\ runs'[k] = runs[k]
      BY <1>0, <2>3, <2>4, Domains
    <3>3. \A k, l \in DOMAIN runs' : k < l /\ l <= Len(runs) => runs'[k].job < runs'[l].job
      BY <1>0, <2>4, <3>2
    <3>4. \A k, l \in DOMAIN runs' : k < l /\ ~(l <= Len(runs)) => runs'[k].job < runs'[l].job
      BY <2>3, <2>4, <3>1, <3>2
    <3> QED
      BY <3>3, <3>4
  <2> QED
    BY <2>1, <2>2, <2>3, <2>6, <2>7
<1>5. CASE PushSetRand
  <2>1. UNCHANGED <<jobs, runs, up>> /\ rpc = "prove" /\ rpc' = "wait"
    BY <1>5 DEF PushSetRand, db
  <2> QED
    BY <1>0, <2>1
<1>6. CASE EndsRun
  <2>1. PICK s \in {"Completed", "Failed"}, m \in {0, MaxRetries} :
           rpc \in {"prove", "wait"} /\ EndRun(s, m)
    BY <1>6 DEF EndsRun
  <2>2. m \in UInt8
    BY ConstantsAssumption DEF UInt8
  <2>3. /\ DOMAIN jobs' = DOMAIN jobs
        /\ DOMAIN runs' = DOMAIN runs
        /\ \A k \in DOMAIN runs : runs'[k] =
              IF k = Len(runs) THEN [runs[k] EXCEPT !.status = s] ELSE runs[k]
    BY <1>0, <2>1, <2>2, EndRunTables, Domains
  <2>4. \A k \in DOMAIN runs : runs[k] \in RunRow
    BY <1>0, Domains
  <2>5. \A k \in DOMAIN runs : runs'[k].job = runs[k].job
    BY <2>3, <2>4 DEF RunRow
  <2>6. rpc' = "idle"
    BY <2>1 DEF EndRun
  <2> QED
    BY <1>0, <2>3, <2>5, <2>6
<1>7. CASE \E r \in inflight : Execute(r) \/ Expire(r)
  BY <1>0, <1>7 DEF Execute, Expire, db, process
<1> QED
  BY <1>1, <1>2, <1>3, <1>4, <1>5, <1>6, <1>7, Steps

LEMMA ChainStep ==
    ASSUME IInv, [Next]_vars
    PROVE  ChainInv'
<1>0. TypeOK /\ TypeOK' /\ ChainInv /\ ResolverInv /\ OrderInv
  BY TypeStep DEF IInv
<1> USE DEF ChainInv, Executed, CurrentRequest, CurrentJob
<1>1. CASE Start \/ Crash
  <2>1. UNCHANGED <<jobs, inflight, ledger>> /\ rpc' = "idle"
    BY <1>1 DEF Start, Crash, db, chain
  <2> QED
    BY <1>0, <2>1
<1>2. CASE CreateVRFRequest \/ CommitCursor \/ SendRequest \/ IgnoreRemove \/ OnHeartBeat
           \/ UNCHANGED vars
  <2>1. UNCHANGED <<jobs, inflight, ledger, rpc>>
    BY <1>2 DEF CreateVRFRequest, CommitCursor, SendRequest, IgnoreRemove, OnHeartBeat,
                db, chain, vars
  <2> QED
    BY <1>0, <2>1
<1>3. CASE TakeRequest
  <2>1. /\ DOMAIN jobs' = 1 .. Len(jobs) + 1 /\ Len(jobs') = Len(jobs) + 1
        /\ jobs'[Len(jobs')].req = chan[1]
    BY <1>0, <1>3, TakeTables, Domains DEF NewVRFRequestJob
  <2>2. \A i \in DOMAIN jobs : i \in DOMAIN jobs' /\ jobs'[i] = jobs[i]
    BY <1>0, <1>3, <2>1, TakeTables, Domains
  <2>3. 1 \in DOMAIN chan
    BY <1>0, <1>3, TakeTables, Domains
  <2>4. \A i \in DOMAIN jobs : jobs[i].req < chan[1]
    BY <1>0, <2>3 DEF OrderInv
  <2>5. UNCHANGED <<inflight, ledger>> /\ rpc' = "start"
    BY <1>3 DEF TakeRequest, chain
  <2>6. chan[1] \in Nat
    BY <1>3, TakeTables
  <2>7. \A i \in DOMAIN jobs : jobs[i].req \in Nat /\ jobs[i].req # chan[1]
    BY <1>0, <2>4, <2>6, Domains DEF JobRow
  <2> QED
    BY <1>0, <2>1, <2>2, <2>5, <2>7
<1>4. CASE StartRun
  <2>1. /\ DOMAIN jobs' = DOMAIN jobs /\ Len(jobs') = Len(jobs)
        /\ \A i \in DOMAIN jobs : jobs'[i].req = jobs[i].req
        /\ Len(jobs) \in DOMAIN jobs
    BY <1>0, <1>4, StartRunTables, Domains
  <2>2. UNCHANGED <<inflight, ledger>> /\ rpc = "start"
    BY <1>4 DEF StartRun, chain
  <2> QED
    BY <1>0, <2>1, <2>2
<1>5. CASE PushSetRand
  <2>1. /\ UNCHANGED <<jobs, ledger>> /\ rpc = "prove" /\ rpc' = "wait"
        /\ inflight' = inflight \cup {CurrentRequest}
    BY <1>5 DEF PushSetRand, db
  <2>2. Len(jobs) \in DOMAIN jobs
    BY <1>0, <2>1, EmptySeq, Domains DEF ResolverInv, TypeOK
  <2> QED
    BY <1>0, <2>1, <2>2
<1>6. CASE EndsRun
  <2>1. PICK s \in {"Completed", "Failed"}, m \in {0, MaxRetries} :
           rpc \in {"prove", "wait"} /\ EndRun(s, m)
    BY <1>6 DEF EndsRun
  <2>2. m \in UInt8
    BY ConstantsAssumption DEF UInt8
  <2>3. DOMAIN jobs' = DOMAIN jobs /\ \A i \in DOMAIN jobs : jobs'[i].req = jobs[i].req
    BY <1>0, <2>1, <2>2, EndRunTables, Domains
  <2>4. UNCHANGED <<inflight, ledger>> /\ rpc' = "idle"
    BY <2>1 DEF EndRun, chain
  <2> QED
    BY <1>0, <2>3, <2>4
<1>7. CASE \E r \in inflight : Execute(r) \/ Expire(r)
  <2>1. PICK r \in inflight : Execute(r) \/ Expire(r)
    BY <1>7
  <2>2. UNCHANGED <<jobs, rpc>> /\ inflight' = inflight \ {r}
    BY <2>1 DEF Execute, Expire, db, process
  <2>3. CASE Execute(r)
    <3>1. /\ DOMAIN ledger' = 1 .. Len(ledger) + 1
          /\ \A k \in DOMAIN ledger' :
                IF k <= Len(ledger) THEN k \in DOMAIN ledger /\ ledger'[k] = ledger[k]
                                    ELSE k = Len(ledger) + 1 /\ ledger'[k] = r
      <4>1. ledger \in Seq(Nat \ {0}) /\ r \in Nat \ {0} /\ ledger' = Append(ledger, r)
        BY <1>0, <2>1, <2>3 DEF Execute, TypeOK
      <4>2. /\ Len(ledger') = Len(ledger) + 1 /\ ledger' \in Seq(Nat \ {0})
            /\ \A k \in 1 .. Len(ledger) : ledger'[k] = ledger[k]
            /\ ledger'[Len(ledger) + 1] = r
        BY <4>1, AppendProperties
      <4>3. DOMAIN ledger' = 1 .. Len(ledger) + 1 /\ DOMAIN ledger = 1 .. Len(ledger)
            /\ Len(ledger) \in Nat
        BY <1>0, <4>2, Domains
      <4> QED
        BY <4>2, <4>3
    <3>2. \A k \in DOMAIN ledger : ledger[k] # r
      BY <1>0, <2>1
    <3>3. \A k, l \in DOMAIN ledger' : ledger'[k] = ledger'[l] => k = l
      BY <1>0, <3>1, <3>2
    <3>4. \A k \in DOMAIN ledger' : \E i \in DOMAIN jobs : jobs[i].req = ledger'[k]
      BY <1>0, <2>1, <3>1
    <3>5. \A q \in inflight' : \A k \in DOMAIN ledger' : ledger'[k] # q
      BY <1>0, <2>2, <3>1
    <3>6. rpc \in {"start", "prove"} => \A k \in DOMAIN ledger' : ledger'[k] # CurrentRequest
      BY <1>0, <2>1, <3>1
    <3> QED
      BY <1>0, <2>2, <3>3, <3>4, <3>5, <3>6
  <2>4. CASE Expire(r)
    <3>1. UNCHANGED ledger
      BY <2>4 DEF Expire
    <3> QED
      BY <1>0, <2>2, <3>1
  <2> QED
    BY <2>1, <2>3, <2>4
<1> QED
  BY <1>1, <1>2, <1>3, <1>4, <1>5, <1>6, <1>7, Steps

\* The stream never changes, and a recorded delta stays recorded.
\* A request keeps the delta it was made for, and only OnDelta makes one.
LEMMA DeltasStable ==
    ASSUME IInv, [Next]_vars
    PROVE  /\ CreateVRFRequest \/ DOMAIN requests' = DOMAIN requests
           /\ \A r \in DOMAIN requests :
                 r \in DOMAIN requests' /\ requests'[r].delta = requests[r].delta
<1>0. TypeOK /\ TypeOK'
  BY TypeStep DEF IInv
<1>1. CASE CreateVRFRequest
  BY <1>0, <1>1, CreateTables, Domains
<1>2. CASE EndsRun
  <2>1. PICK s \in {"Completed", "Failed"}, m \in {0, MaxRetries} :
           rpc \in {"prove", "wait"} /\ EndRun(s, m)
    BY <1>2 DEF EndsRun
  <2>2. m \in UInt8
    BY ConstantsAssumption DEF UInt8
  <2> DEFINE q == jobs[Len(jobs)].req
             job == JobUpdateStatus(jobs[Len(jobs)], s, m)
  <2>3. /\ q \in DOMAIN requests /\ job \in JobRow
        /\ DOMAIN requests' = DOMAIN requests
        /\ \A r \in DOMAIN requests : requests'[r] =
              IF r = q THEN RequestUpdateStatus(requests[q], job.status)
              ELSE requests[r]
    BY <1>0, <2>1, <2>2, EndRunTables, Domains
  <2> HIDE DEF q, job
  <2>4. requests[q] \in RequestRow /\ job.status \in JobStatus
    BY <1>0, <2>3, Domains DEF JobRow
  <2> QED
    BY <2>3, <2>4, RequestUpdateType
<1>3. CASE UNCHANGED requests
  BY <1>3
<1> QED
  BY <1>1, <1>2, <1>3, Steps
     DEF vars, db, Start, Crash, CommitCursor, SendRequest, IgnoreRemove,
         OnHeartBeat, TakeRequest, StartRun, PushSetRand, Execute, Expire

LEMMA RecordedStable ==
    ASSUME IInv, [Next]_vars
    PROVE  /\ UNCHANGED stream
           /\ \A p : Recorded(p) => Recorded(p)'
           /\ \A p : FirstOfBlock(p) <=> FirstOfBlock(p)'
<1>1. UNCHANGED stream
  BY Steps
     DEF vars, Start, Crash, CreateVRFRequest, CommitCursor, SendRequest,
         IgnoreRemove, OnHeartBeat, TakeRequest, StartRun, PushSetRand, EndsRun,
         EndRun, Execute, Expire
<1>2. \A r \in DOMAIN requests : r \in DOMAIN requests' /\ requests'[r].delta = requests[r].delta
  BY DeltasStable
<1> QED
  BY <1>1, <1>2 DEF Recorded, FirstOfBlock, IsCreation

LEMMA StreamStep ==
    ASSUME IInv, [Next]_vars
    PROVE  StreamInv' /\ NoFirstJobSkipped'
<1>0. TypeOK /\ HandlerInv /\ StreamInv /\ NoFirstJobSkipped /\ UNCHANGED stream
  BY RecordedStable DEF IInv
<1>s. /\ \A p : Recorded(p) => Recorded(p)'
      /\ \A p : FirstOfBlock(p) <=> FirstOfBlock(p)'
  BY RecordedStable
<1> USE DEF StreamInv, NoFirstJobSkipped
<1>b. \A p \in DOMAIN stream : stream[p].block \in Nat /\ cursor \in Nat
  BY <1>0, ItemType DEF TypeOK
<1>d. DOMAIN stream = 1 .. Len(stream) /\ pos \in Nat /\ pos <= Len(stream)
  BY <1>0, Domains DEF TypeOK
<1>1. CASE Start
  <2>1. PICK p0 \in 0 .. Len(stream) :
           /\ \A i \in DOMAIN stream : i <= p0 <=> stream[i].block <= cursor
           /\ pos' = p0
    BY <1>1 DEF Start, ResumesAt
  <2>2. UNCHANGED cursor
    BY <1>1 DEF Start, db
  <2>3. \A p \in DOMAIN stream : p > p0 => cursor <= stream[p].block
    BY <1>b, <1>d, <2>1
  <2>4. \A p \in 1 .. p0 : FirstOfBlock(p) => Recorded(p)
    BY <1>0, <1>d, <2>1
  <2> QED
    BY <1>0, <1>s, <2>1, <2>2, <2>3, <2>4
<1>2. CASE Crash
  <2>1. UNCHANGED cursor /\ pos' = 0 /\ up' = FALSE
    BY <1>2 DEF Crash, db
  <2> QED
    BY <1>0, <1>s, <2>1
<1>3. CASE CommitCursor
  <2>1. /\ pos + 1 \in DOMAIN stream /\ IsCreation(stream[pos + 1])
        /\ cursor' = stream[pos + 1].block /\ UNCHANGED <<pos, up>>
    BY <1>0, <1>3, <1>d DEF CommitCursor, Next1, HandlerInv
  <2>2. Recorded(pos + 1)
    <3>1. requests # <<>> /\ requests[Len(requests)].delta = pos + 1
      BY <1>0, <1>3 DEF CommitCursor, HandlerInv
    <3>2. Len(requests) \in DOMAIN requests
      BY <1>0, <3>1, EmptySeq, Domains DEF TypeOK
    <3> QED
      BY <3>1, <3>2 DEF Recorded
  <2>3. \A p \in DOMAIN stream : p > pos => stream[pos + 1].block <= stream[p].block
    BY <1>0, <1>d, <1>b, <2>1, ItemType
  <2>4. \A p \in DOMAIN stream : p > pos + 1 /\ FirstOfBlock(p) =>
           stream[pos + 1].block < stream[p].block
    BY <1>d, <2>1 DEF FirstOfBlock
  <2>5. \A p \in DOMAIN stream :
           FirstOfBlock(p) /\ stream[p].block <= stream[pos + 1].block => Recorded(p)
    <3> TAKE p \in DOMAIN stream
    <3> HAVE FirstOfBlock(p) /\ stream[p].block <= stream[pos + 1].block
    <3>1. CASE p <= pos
      BY <1>0, <1>d, <3>1
    <3>2. CASE p = pos + 1
      BY <2>2, <3>2
    <3>3. CASE p > pos + 1
      BY <1>b, <2>1, <2>4, <3>3
    <3> QED
      BY <1>d, <3>1, <3>2, <3>3
  <2> QED
    BY <1>0, <1>s, <2>1, <2>3, <2>5
<1>4. CASE OnHeartBeat
  <2>1. /\ pos + 1 \in DOMAIN stream /\ stream[pos + 1].op = "heartbeat"
        /\ cursor' = stream[pos + 1].block /\ pos' = pos + 1
    BY <1>d, <1>4 DEF OnHeartBeat, Next1
  <2>2. \A p \in DOMAIN stream : p > pos + 1 => stream[pos + 1].block < stream[p].block
    BY <1>0, <1>d, <2>1, ItemType
  <2>3. ~FirstOfBlock(pos + 1)
    BY <2>1 DEF FirstOfBlock, IsCreation
  <2>4. \A p \in 1 .. pos + 1 : FirstOfBlock(p) => Recorded(p)
    BY <1>0, <1>d, <2>3
  <2>5. \A p \in DOMAIN stream :
           FirstOfBlock(p) /\ stream[p].block <= stream[pos + 1].block => Recorded(p)
    BY <1>b, <1>d, <2>1, <2>2, <2>4
  <2>6. \A p \in DOMAIN stream : p > pos + 1 => stream[pos + 1].block <= stream[p].block
    BY <1>b, <2>1, <2>2
  <2> QED
    BY <1>0, <1>s, <2>1, <2>4, <2>5, <2>6
<1>5. CASE SendRequest \/ IgnoreRemove
  <2>1. pos + 1 \in DOMAIN stream /\ pos' = pos + 1 /\ UNCHANGED cursor /\ up
    BY <1>0, <1>d, <1>5 DEF SendRequest, IgnoreRemove, HandlerInv, db
  <2>2. FirstOfBlock(pos + 1) => Recorded(pos + 1)
    <3>1. CASE SendRequest
      <4>1. requests # <<>> /\ requests[Len(requests)].delta = pos + 1
        BY <1>0, <3>1 DEF SendRequest, HandlerInv
      <4>2. Len(requests) \in DOMAIN requests
        BY <1>0, <4>1, EmptySeq, Domains DEF TypeOK
      <4> QED
        BY <4>1, <4>2 DEF Recorded
    <3>2. CASE IgnoreRemove
      BY <3>2 DEF IgnoreRemove, IsIgnored, Next1, FirstOfBlock, IsCreation
    <3> QED
      BY <1>5, <3>1, <3>2
  <2>3. \A p \in 1 .. pos + 1 : FirstOfBlock(p) => Recorded(p)
    BY <1>0, <1>d, <2>2
  <2>4. \A p \in DOMAIN stream : p > pos + 1 => cursor <= stream[p].block
    BY <1>0, <1>d, <2>1
  <2> QED
    BY <1>0, <1>s, <2>1, <2>3, <2>4
<1>6. CASE CreateVRFRequest \/ TakeRequest \/ StartRun \/ PushSetRand \/ EndsRun
           \/ (\E r \in inflight : Execute(r) \/ Expire(r)) \/ UNCHANGED vars
  <2>1. UNCHANGED <<cursor, pos, up>>
    BY <1>6 DEF CreateVRFRequest, TakeRequest, StartRun, PushSetRand, EndsRun, EndRun,
                Execute, Expire, vars, db, process
  <2> QED
    BY <1>0, <1>s, <2>1
<1> QED
  BY <1>1, <1>2, <1>3, <1>4, <1>5, <1>6, Steps

LEMMA CompletedStep ==
    ASSUME IInv, [Next]_vars
    PROVE  CompletedWasExecuted'
<1>0. TypeOK /\ TypeOK' /\ CompletedWasExecuted
  BY TypeStep DEF IInv
<1> DEFINE ExecutedNext(r) == \E k \in DOMAIN ledger' : ledger'[k] = r
<1>1. \A r : Executed(r) => ExecutedNext(r)
  <2>1. CASE \E r \in inflight : Execute(r)
    <3>1. PICK r \in inflight : Execute(r)
      BY <2>1
    <3>2. ledger \in Seq(Nat \ {0}) /\ r \in Nat \ {0} /\ ledger' = Append(ledger, r)
      BY <1>0, <3>1 DEF Execute, TypeOK
    <3>3. /\ Len(ledger') = Len(ledger) + 1 /\ ledger' \in Seq(Nat \ {0})
          /\ \A k \in 1 .. Len(ledger) : ledger'[k] = ledger[k]
      BY <3>2, AppendProperties
    <3>4. \A k \in DOMAIN ledger : k \in DOMAIN ledger' /\ ledger'[k] = ledger[k]
      BY <1>0, <3>3, Domains
    <3> QED
      BY <3>4 DEF Executed
  <2>2. CASE UNCHANGED ledger
    BY <2>2 DEF Executed
  <2> QED
    BY <2>1, <2>2, Steps
       DEF vars, chain, Start, Crash, CreateVRFRequest, CommitCursor, SendRequest,
           IgnoreRemove, OnHeartBeat, TakeRequest, StartRun, PushSetRand, EndsRun,
           EndRun, Expire
<1> HIDE DEF ExecutedNext
<1>2. \A i \in DOMAIN jobs : jobs[i].status = "Completed" => Executed(jobs[i].req)
  BY <1>0 DEF CompletedWasExecuted, Executed
<1>3. \A i \in DOMAIN jobs' : jobs'[i].status = "Completed" => ExecutedNext(jobs'[i].req)
  <2>1. CASE TakeRequest
    <3>1. \A i \in DOMAIN jobs' :
             IF i <= Len(jobs) THEN i \in DOMAIN jobs /\ jobs'[i] = jobs[i]
                               ELSE jobs'[i].status = "Active"
      BY <1>0, <2>1, TakeTables, Domains DEF NewVRFRequestJob
    <3> QED
      BY <1>1, <1>2, <3>1
  <2>2. CASE StartRun
    <3>1. \A i \in DOMAIN jobs' :
             IF i = Len(jobs) THEN jobs'[i].status = "Running"
                              ELSE i \in DOMAIN jobs /\ jobs'[i] = jobs[i]
      BY <1>0, <2>2, StartRunTables, Domains
    <3> QED
      BY <1>1, <1>2, <3>1
  <2>3. CASE EndsRun
    <3>1. PICK s \in {"Completed", "Failed"}, m \in {0, MaxRetries} :
             /\ rpc \in {"prove", "wait"} /\ EndRun(s, m)
             /\ s = "Completed" => Executed(CurrentRequest)
      BY <2>3 DEF EndsRun
    <3>2. m \in UInt8 /\ s \in RunStatus
      BY ConstantsAssumption DEF UInt8, RunStatus
    <3> DEFINE cj == Len(jobs)
               job == JobUpdateStatus(jobs[cj], s, m)
    <3>3. /\ cj \in DOMAIN jobs /\ jobs[cj] \in JobRow /\ job.req = jobs[cj].req
          /\ DOMAIN jobs' = DOMAIN jobs
          /\ \A i \in DOMAIN jobs : jobs'[i] = IF i = cj THEN job ELSE jobs[i]
      BY <1>0, <3>1, <3>2, EndRunTables, Domains
    <3>4. jobs[cj].retries = 0
      BY <3>1 DEF IInv, ResolverInv, CurrentJob
    <3>5. s = "Failed" => job.status # "Completed"
      BY <3>2, <3>3, <3>4, JobUpdateType
    <3>6. s = "Completed" => Executed(jobs[cj].req)
      BY <3>1 DEF CurrentRequest, CurrentJob
    <3> HIDE DEF job, cj
    <3> QED
      BY <1>1, <1>2, <3>3, <3>5, <3>6
  <2>4. CASE UNCHANGED jobs
    BY <1>1, <1>2, <2>4
  <2> QED
    BY <2>1, <2>2, <2>3, <2>4, Steps
       DEF vars, db, Start, Crash, CreateVRFRequest, CommitCursor, SendRequest,
           IgnoreRemove, OnHeartBeat, PushSetRand, Execute, Expire
<1> QED
  BY <1>3 DEF CompletedWasExecuted, ExecutedNext, Executed

LEMMA StatusStep ==
    ASSUME IInv, [Next]_vars
    PROVE  StatusesAgree'
<1>0. /\ TypeOK /\ TypeOK' /\ OrderInv /\ HandlerInv /\ ResolverInv /\ StatusesAgree
  BY TypeStep DEF IInv
<1> USE DEF StatusesAgree
<1>1. CASE CreateVRFRequest
  <2>1. UNCHANGED <<jobs, runs>>
    BY <1>1 DEF CreateVRFRequest
  <2>2. \A r \in DOMAIN requests' :
           IF r <= Len(requests) THEN r \in DOMAIN requests /\ requests'[r] = requests[r]
           ELSE r = Len(requests) + 1 /\ requests'[r].status = "Active"
    BY <1>0, <1>1, CreateTables, Domains DEF VRFRequest
  <2>3. \A i \in DOMAIN jobs : jobs[i].req # Len(requests) + 1
    BY <1>0, Domains DEF OrderInv
  <2> QED
    BY <1>0, <2>1, <2>2, <2>3
<1>2. CASE TakeRequest
  <2>1. UNCHANGED <<requests, runs>>
    BY <1>2 DEF TakeRequest
  <2>2. \A i \in DOMAIN jobs' :
           IF i <= Len(jobs) THEN i \in DOMAIN jobs /\ jobs'[i] = jobs[i]
                             ELSE jobs'[i].status = "Active"
    BY <1>0, <1>2, TakeTables, Domains DEF NewVRFRequestJob
  <2>3. \A i \in DOMAIN jobs : i \in DOMAIN jobs' /\ jobs'[i] = jobs[i]
    BY <1>0, <1>2, TakeTables, Domains
  <2>4. \A k \in DOMAIN runs : runs[k].job \in DOMAIN jobs
    BY <1>0 DEF ResolverInv
  <2> QED
    BY <1>0, <2>1, <2>2, <2>3, <2>4
<1>3. CASE StartRun
  <2> DEFINE cj == Len(jobs)
  <2>1. UNCHANGED requests /\ rpc = "start"
    BY <1>3 DEF StartRun
  <2>2. /\ cj \in DOMAIN jobs /\ jobs[cj].status = "Active"
        /\ \A k \in DOMAIN runs : runs[k].job # cj
    BY <1>0, <1>3, <2>1, StartRunTables, Domains DEF ResolverInv, CurrentJob, RunRow
  <2>3. /\ DOMAIN jobs' = DOMAIN jobs
        /\ \A i \in DOMAIN jobs : i # cj => jobs'[i] = jobs[i]
        /\ jobs'[cj].req = jobs[cj].req /\ jobs'[cj].status = "Running"
    BY <1>0, <1>3, StartRunTables, Domains
  <2>4. \A k \in DOMAIN runs' :
           IF k <= Len(runs) THEN k \in DOMAIN runs /\ runs'[k] = runs[k]
           ELSE runs'[k] = [job |-> cj, status |-> "Running"]
    BY <1>0, <1>3, StartRunTables, Domains
  <2>5. \A k \in DOMAIN runs : k \in DOMAIN runs' /\ runs'[k] = runs[k]
    BY <1>0, <1>3, StartRunTables, Domains
  <2>6. Len(runs) + 1 \in DOMAIN runs' /\ runs'[Len(runs) + 1].job = cj
    BY <1>0, <1>3, StartRunTables, Domains
  <2>7. \A k \in DOMAIN runs : runs[k].job \in DOMAIN jobs
    BY <1>0 DEF ResolverInv
  <2> HIDE DEF cj
  <2>8. \A r \in DOMAIN requests' :
          requests'[r].status = "Completed" <=>
              \E i \in DOMAIN jobs' : /\ jobs'[i].req = r
                                      /\ jobs'[i].status \in {"Completed", "Failed"}
    BY <1>0, <2>1, <2>2, <2>3
  <2>9. \A k \in DOMAIN runs' :
          /\ runs'[k].status = "Running" => jobs'[runs'[k].job].status = "Running"
          /\ runs'[k].status = "Completed" => jobs'[runs'[k].job].status = "Completed"
          /\ runs'[k].status = "Failed" =>
                /\ jobs'[runs'[k].job].status \in {"Active", "Failed"}
                /\ jobs'[runs'[k].job].retries = 1
                /\ jobs'[runs'[k].job].status = "Active" => MaxRetries >= 1
    BY <1>0, <2>2, <2>3, <2>4, <2>7
  <2>10. \A i \in DOMAIN jobs' : jobs'[i].status # "Active" =>
          \E k \in DOMAIN runs' : runs'[k].job = i
    BY <1>0, <2>3, <2>5, <2>6
  <2> QED
    BY <2>8, <2>9, <2>10
<1>4. CASE EndsRun
  <2>1. PICK s \in {"Completed", "Failed"}, m \in {0, MaxRetries} :
           rpc \in {"prove", "wait"} /\ EndRun(s, m)
    BY <1>4 DEF EndsRun
  <2>2. m \in UInt8 /\ s \in RunStatus
    BY ConstantsAssumption DEF UInt8, RunStatus
  <2> DEFINE cj == Len(jobs)
             cr == Len(runs)
             q == jobs[cj].req
             job == JobUpdateStatus(jobs[cj], s, m)
  <2>3. /\ cj \in DOMAIN jobs /\ cr \in DOMAIN runs /\ q \in DOMAIN requests
        /\ job \in JobRow /\ job.req = q
        /\ DOMAIN requests' = DOMAIN requests /\ DOMAIN jobs' = DOMAIN jobs
        /\ DOMAIN runs' = DOMAIN runs
        /\ \A r \in DOMAIN requests : requests'[r] =
              IF r = q THEN RequestUpdateStatus(requests[q], job.status)
              ELSE requests[r]
        /\ \A i \in DOMAIN jobs : jobs'[i] = IF i = cj THEN job ELSE jobs[i]
        /\ \A k \in DOMAIN runs : runs'[k] =
              IF k = cr THEN [runs[k] EXCEPT !.status = s] ELSE runs[k]
    BY <1>0, <2>1, <2>2, EndRunTables, Domains
  <2>4. /\ jobs[cj].retries = 0
        /\ runs[cr].job = cj /\ runs[cr].status = "Running"
        /\ runs[cr] \in RunRow /\ jobs[cj] \in JobRow /\ requests[q] \in RequestRow
        /\ requests[q].type = "immediate"
    BY <1>0, <2>1, <2>3, Domains DEF ResolverInv, HandlerInv, CurrentJob, CurrentRun
  <2>5. runs'[cr].job = cj /\ runs'[cr].status = s
    BY <2>3, <2>4 DEF RunRow
  <2>6. /\ s = "Completed" => job.status = "Completed"
        /\ s = "Failed" => /\ job.retries = 1
                           /\ job.status = IF 1 > m THEN "Failed" ELSE "Active"
    BY <2>2, <2>4, JobUpdateType
  <2>7. requests'[q].status =
           IF job.status \in {"Completed", "Failed"} THEN "Completed"
           ELSE requests[q].status
    BY <2>3, <2>4, RequestUpdateType DEF JobRow
  <2>8. jobs[cj].status = "Running"
    BY <1>0, <2>3, <2>4
  <2>9. \A i \in DOMAIN jobs : i # cj => jobs[i].req # q
    <3>1. \A i \in DOMAIN jobs : i # cj => i < cj
      BY <1>0, <2>3, Domains
    <3>2. \A i \in DOMAIN jobs : jobs[i].req \in Nat
      BY <1>0, Domains DEF JobRow
    <3>3. \A i \in DOMAIN jobs : i # cj => jobs[i].req < jobs[cj].req
      BY <1>0, <2>3, <3>1 DEF OrderInv
    <3> QED
      BY <2>3, <3>2, <3>3
  <2>10. \A k \in DOMAIN runs : k # cr => runs[k].job # cj
    <3>1. \A k \in DOMAIN runs : k # cr => k < cr
      BY <1>0, <2>3, Domains
    <3>2. \A k \in DOMAIN runs : runs[k].job \in Nat
      BY <1>0, Domains DEF RunRow
    <3>3. \A k \in DOMAIN runs : k # cr => runs[k].job < runs[cr].job
      BY <1>0, <2>3, <3>1 DEF ResolverInv
    <3> QED
      BY <2>3, <2>4, <3>2, <3>3
  <2>11. \A k \in DOMAIN runs : runs[k].job \in DOMAIN jobs
    BY <1>0 DEF ResolverInv
  <2>12. \A k \in DOMAIN runs : runs'[k].job = runs[k].job
    BY <2>3, <2>4, <2>5
  <2> HIDE DEF cj, cr, q, job
  <2>13. \A r \in DOMAIN requests' :
          requests'[r].status = "Completed" <=>
              \E i \in DOMAIN jobs' : /\ jobs'[i].req = r
                                      /\ jobs'[i].status \in {"Completed", "Failed"}
    <3> TAKE r \in DOMAIN requests'
    <3>1. CASE r = q
      <4>1. requests[q].status # "Completed"
        BY <1>0, <2>3, <2>8, <2>9 DEF cj, q
      <4>2. (\E i \in DOMAIN jobs' : /\ jobs'[i].req = q
                                     /\ jobs'[i].status \in {"Completed", "Failed"})
              <=> job.status \in {"Completed", "Failed"}
        BY <2>3, <2>9
      <4> QED
        BY <2>7, <3>1, <4>1, <4>2
    <3>2. CASE r # q
      <4>1. requests'[r] = requests[r] /\ r \in DOMAIN requests
        BY <2>3, <3>2
      <4>2. \A i \in DOMAIN jobs : jobs[i].req = r => i # cj /\ jobs'[i] = jobs[i]
        BY <2>3, <3>2 DEF q
      <4>3. \A i \in DOMAIN jobs' : jobs'[i].req = r => i # cj /\ jobs'[i] = jobs[i]
        BY <2>3, <3>2
      <4> QED
        BY <1>0, <2>3, <4>1, <4>2, <4>3
    <3> QED
      BY <3>1, <3>2
  <2>14. \A k \in DOMAIN runs' :
          /\ runs'[k].status = "Running" => jobs'[runs'[k].job].status = "Running"
          /\ runs'[k].status = "Completed" => jobs'[runs'[k].job].status = "Completed"
          /\ runs'[k].status = "Failed" =>
                /\ jobs'[runs'[k].job].status \in {"Active", "Failed"}
                /\ jobs'[runs'[k].job].retries = 1
                /\ jobs'[runs'[k].job].status = "Active" => MaxRetries >= 1
    <3> TAKE k \in DOMAIN runs'
    <3>1. CASE k = cr
      <4>1. jobs'[runs'[k].job] = job /\ runs'[k].status = s
        BY <2>3, <2>5, <3>1
      <4>2. s = "Failed" /\ job.status = "Active" => MaxRetries >= 1
        BY <2>6, ConstantsAssumption DEF UInt8
      <4> QED
        BY <2>6, <4>1, <4>2
    <3>2. CASE k # cr
      <4>1. runs'[k] = runs[k] /\ jobs'[runs[k].job] = jobs[runs[k].job]
        BY <2>3, <2>10, <2>11, <3>2
      <4> QED
        BY <1>0, <2>3, <4>1
    <3> QED
      BY <3>1, <3>2
  <2>15. \A i \in DOMAIN jobs' : jobs'[i].status # "Active" =>
          \E k \in DOMAIN runs' : runs'[k].job = i
    BY <1>0, <2>3, <2>4, <2>12
  <2> QED
    BY <2>13, <2>14, <2>15
<1>5. CASE UNCHANGED <<requests, jobs, runs>>
  BY <1>0, <1>5
<1> QED
  BY <1>1, <1>2, <1>3, <1>4, <1>5, Steps
     DEF vars, db, Start, Crash, CommitCursor, SendRequest,
         IgnoreRemove, OnHeartBeat, PushSetRand, Execute, Expire

-----------------------------------------------------------------------------
(* The theorems *)

LEMMA IInvStep ==
    ASSUME IInv, [Next]_vars
    PROVE  IInv'
  BY TypeStep, OrderStep, HandlerStep, ResolverStep, ChainStep, StreamStep,
     CompletedStep, StatusStep DEF IInv

\* The inductive invariant holds in every reachable state.
THEOREM Invariance == Spec => []IInv
<1>1. Init => IInv
  BY InitIInv
<1>2. IInv /\ [Next]_vars => IInv'
  BY IInvStep
<1> QED
  BY <1>1, <1>2, PTL DEF Spec

\* Type correctness; in particular the request channel (main) is never over
\* its capacity and a retry counter is always a uint8.
THEOREM TypeCorrect == Spec => []TypeOK
<1>1. IInv => TypeOK
  BY DEF IInv
<1> QED
  BY <1>1, Invariance, PTL

\* The cursor of the firehose never passes the first job of a block that has
\* no row (CreateVRFRequest, OnHeartBeat), for any number of crashes.
THEOREM FirstJobsAreSafe == Spec => []NoFirstJobSkipped
<1>1. IInv => NoFirstJobSkipped
  BY DEF IInv
<1> QED
  BY <1>1, Invariance, PTL

\* A request row gets at most one job, one run and one executed SetRand,
\* whatever crashes and lost answers there are (Consume, Process).
THEOREM AtMostOnce == Spec => []AtMostOncePerRequest
<1>1. ASSUME IInv PROVE AtMostOncePerRequest
  <2>1. TypeOK /\ OrderInv /\ ResolverInv /\ ChainInv
    BY <1>1 DEF IInv
  <2>2. \A i, j \in DOMAIN jobs : jobs[i].req = jobs[j].req => i = j
    <3>1. \A i, j \in DOMAIN jobs : i < j \/ j < i \/ i = j
      BY <2>1, Domains
    <3>2. \A i \in DOMAIN jobs : jobs[i].req \in Nat
      BY <2>1, Domains DEF JobRow
    <3> QED
      BY <2>1, <3>1, <3>2 DEF OrderInv
  <2>3. \A i, j \in DOMAIN runs : runs[i].job = runs[j].job => i = j
    <3>1. \A i, j \in DOMAIN runs : i < j \/ j < i \/ i = j
      BY <2>1, Domains
    <3>2. \A i \in DOMAIN runs : runs[i].job \in Nat
      BY <2>1, Domains DEF RunRow
    <3> QED
      BY <2>1, <3>1, <3>2 DEF ResolverInv
  <2> QED
    BY <2>1, <2>2, <2>3 DEF AtMostOncePerRequest, ChainInv
<1> QED
  BY <1>1, Invariance, PTL

\* The channel and the single resolver take requests up in their order.
THEOREM InOrder == Spec => []ResolvedInOrder
<1>1. IInv => ResolvedInOrder
  BY DEF IInv, OrderInv, ResolvedInOrder
<1> QED
  BY <1>1, Invariance, PTL

\* A job is saved as completed only for randomness the contract has (Process).
THEOREM CompletedIsExecuted == Spec => []CompletedWasExecuted
<1>1. IInv => CompletedWasExecuted
  BY DEF IInv
<1> QED
  BY <1>1, Invariance, PTL

\* Requests, jobs and runs agree at every commit (SaveVRFRequestRun).
THEOREM TablesAgree == Spec => []StatusesAgree
<1>1. IInv => StatusesAgree
  BY DEF IInv
<1> QED
  BY <1>1, Invariance, PTL

\* The saved cursor never moves back (SaveCursorTrx).
THEOREM CursorIsMonotonic == Spec => CursorMovesForward
<1>1. ASSUME IInv, [Next]_vars PROVE [cursor' >= cursor]_vars
  <2>1. TypeOK /\ StreamInv /\ HandlerInv /\ cursor \in Nat
    BY <1>1 DEF IInv, TypeOK
  <2>2. CASE CommitCursor \/ OnHeartBeat
    <3>1. up /\ pos < Len(stream) /\ cursor' = stream[pos + 1].block
      BY <2>1, <2>2 DEF CommitCursor, OnHeartBeat, HandlerInv, Next1
    <3>2. pos + 1 \in DOMAIN stream /\ pos + 1 > pos
      BY <2>1, <3>1, Domains DEF TypeOK
    <3>3. cursor <= stream[pos + 1].block /\ stream[pos + 1].block \in Nat
      BY <2>1, <3>1, <3>2, ItemType DEF StreamInv
    <3> QED
      BY <2>1, <3>1, <3>3
  <2>3. CASE UNCHANGED cursor
    BY <2>1, <2>3
  <2> QED
    BY <1>1, <2>2, <2>3, Steps
       DEF vars, db, process, Start, Crash, CreateVRFRequest, SendRequest,
           IgnoreRemove, TakeRequest, StartRun, PushSetRand, EndsRun, EndRun,
           Execute, Expire
<1> QED
  BY <1>1, Invariance, PTL DEF Spec, CursorMovesForward

-----------------------------------------------------------------------------
(* Two rows of one delta *)

Rows(p) == {r \in DOMAIN requests : requests[r].delta = p}

\* The process that runs has read item p, or is reading it.
HasRead(p) == up /\ (p <= pos \/ (hpc # "idle" /\ p = pos + 1))

\* Each life of the process makes at most one row of a delta: each but the
\* last ended in a crash, and the last one only when it has read the delta.
RowsInv ==
    \A p \in DOMAIN stream :
        /\ Cardinality(Rows(p)) <= crashes + 1
        /\ ~HasRead(p) => Cardinality(Rows(p)) <= crashes

LEMMA RowsAreFinite ==
    ASSUME TypeOK, NEW p
    PROVE  IsFiniteSet(Rows(p)) /\ Cardinality(Rows(p)) \in Nat
<1>1. DOMAIN requests = 1 .. Len(requests) /\ Len(requests) \in Nat
  BY Domains
<1>2. IsFiniteSet(1 .. Len(requests))
  BY <1>1, FS_Interval
<1>3. Rows(p) \subseteq 1 .. Len(requests)
  BY <1>1 DEF Rows
<1>4. IsFiniteSet(Rows(p))
  BY <1>2, <1>3, FS_Subset
<1> QED
  BY <1>4, FS_CardinalityType

\* A step that makes no row, and forgets nothing that was read.
LEMMA NoNewRow ==
    ASSUME IInv, RowsInv, UNCHANGED <<stream, crashes>>, DOMAIN requests' = DOMAIN requests,
           \A r \in DOMAIN requests : requests'[r].delta = requests[r].delta,
           \A p \in DOMAIN stream : HasRead(p) => HasRead(p)'
    PROVE  RowsInv'
<1>1. \A p : Rows(p)' = Rows(p)
  BY DEF Rows
<1> QED
  BY <1>1 DEF RowsInv

LEMMA RowsStep ==
    ASSUME IInv, RowsInv, [Next]_vars
    PROVE  RowsInv'
<1>0. TypeOK /\ TypeOK' /\ UNCHANGED stream /\ crashes \in Nat /\ pos \in Nat
  BY TypeStep, RecordedStable DEF IInv, TypeOK
<1>s. \A p \in DOMAIN stream : p \in Nat
  BY <1>0, Domains
<1>d. \A r \in DOMAIN requests :
         r \in DOMAIN requests' /\ requests'[r].delta = requests[r].delta
  BY DeltasStable
<1>1. CASE Start
  <2>1. /\ ~up /\ UNCHANGED <<requests, crashes>>
    BY <1>1 DEF Start, db
  <2>2. \A p : Rows(p)' = Rows(p) /\ ~HasRead(p)
    BY <2>1 DEF Rows, HasRead
  <2> QED
    BY <1>0, <2>1, <2>2, RowsAreFinite DEF RowsInv
\* What a life has added is paid for by its end.
<1>2. CASE Crash
  <2>1. UNCHANGED requests /\ crashes' = crashes + 1
    BY <1>2 DEF Crash, db
  <2>2. \A p : Rows(p)' = Rows(p) /\ Cardinality(Rows(p)) \in Nat
    BY <1>0, <2>1, RowsAreFinite DEF Rows
  <2> QED
    BY <1>0, <2>1, <2>2 DEF RowsInv
\* The delta has not been read in this life, and from now on it has.
<1>3. CASE CreateVRFRequest
  <2>1. /\ up /\ hpc = "idle" /\ hpc' = "saveCursor" /\ up' = up
        /\ UNCHANGED <<pos, crashes>>
    BY <1>3 DEF CreateVRFRequest
  <2>2. /\ DOMAIN requests' = DOMAIN requests \cup {Len(requests) + 1}
        /\ requests'[Len(requests) + 1].delta = pos + 1
        /\ Len(requests) + 1 \notin DOMAIN requests
    <3>1. requests'[Len(requests) + 1] = VRFRequest(pos + 1) /\ Len(requests') = Len(requests) + 1
      BY <1>3, CreateTables
    <3>2. DOMAIN requests = 1 .. Len(requests) /\ Len(requests) \in Nat
          /\ DOMAIN requests' = 1 .. Len(requests')
      BY <1>0, Domains
    <3> QED
      BY <3>1, <3>2 DEF VRFRequest
  <2> SUFFICES ASSUME NEW p \in DOMAIN stream
               PROVE  /\ Cardinality(Rows(p)') <= crashes + 1
                      /\ ~HasRead(p)' => Cardinality(Rows(p)') <= crashes
    BY <1>0, <2>1 DEF RowsInv
  <2>3. CASE p = pos + 1
    <3>1. ~HasRead(p) /\ HasRead(p)'
      BY <1>0, <2>1, <2>3 DEF HasRead
    <3>2. Cardinality(Rows(p)) <= crashes
      BY <3>1 DEF RowsInv
    <3>3. Rows(p)' = Rows(p) \cup {Len(requests) + 1} /\ Len(requests) + 1 \notin Rows(p)
      BY <1>d, <2>2, <2>3 DEF Rows
    <3>4. IsFiniteSet(Rows(p)) /\ Cardinality(Rows(p)) \in Nat
      BY <1>0, RowsAreFinite
    <3>5. Cardinality(Rows(p) \cup {Len(requests) + 1}) = Cardinality(Rows(p)) + 1
      BY <3>3, <3>4, FS_AddElement
    <3> QED
      BY <1>0, <3>1, <3>2, <3>3, <3>4, <3>5
  <2>4. CASE p # pos + 1
    <3>1. Rows(p)' = Rows(p)
      BY <1>d, <2>2, <2>4 DEF Rows
    <3>2. HasRead(p) => HasRead(p)'
      BY <2>1, <2>4 DEF HasRead
    <3> QED
      BY <3>1, <3>2 DEF RowsInv
  <2> QED
    BY <2>3, <2>4
<1>4. CASE SendRequest
  <2>1. UNCHANGED <<crashes, up, requests>> /\ pos' = pos + 1
    BY <1>4 DEF SendRequest, db
  <2>2. \A p \in DOMAIN stream : HasRead(p) => HasRead(p)'
    BY <1>0, <1>s, <2>1 DEF HasRead
  <2> QED
    BY <1>0, <2>1, <2>2, NoNewRow
<1>5. CASE IgnoreRemove \/ OnHeartBeat
  <2>1. UNCHANGED <<crashes, up, requests>> /\ pos' = pos + 1 /\ hpc = "idle"
    BY <1>5 DEF IgnoreRemove, OnHeartBeat, db
  <2>2. \A p \in DOMAIN stream : HasRead(p) => HasRead(p)'
    BY <1>0, <1>s, <2>1 DEF HasRead
  <2> QED
    BY <1>0, <2>1, <2>2, NoNewRow
<1>6. CASE CommitCursor
  <2>1. UNCHANGED <<crashes, up, requests, pos>> /\ hpc # "idle" /\ hpc' # "idle"
    BY <1>6 DEF CommitCursor
  <2>2. \A p \in DOMAIN stream : HasRead(p) => HasRead(p)'
    BY <2>1 DEF HasRead
  <2> QED
    BY <1>0, <2>1, <2>2, NoNewRow
\* The resolver and the chain leave the handler alone.
<1>7. CASE UNCHANGED <<up, pos, hpc, crashes>> /\ ~CreateVRFRequest
  <2>1. DOMAIN requests' = DOMAIN requests
    BY <1>7, DeltasStable
  <2>2. \A p \in DOMAIN stream : HasRead(p) => HasRead(p)'
    BY <1>7 DEF HasRead
  <2> QED
    BY <1>0, <1>7, <1>d, <2>1, <2>2, NoNewRow
<1> QED
  BY <1>1, <1>2, <1>3, <1>4, <1>5, <1>6, <1>7, Steps
     DEF vars, process, TakeRequest, StartRun, PushSetRand, EndsRun, EndRun, Execute, Expire

\* Each life of the process makes at most one row of a delta (OnDelta,
\* CreateVRFRequest): whoever finds two of them knows that a crash came between.
THEOREM DuplicatesAreFromCrashes == Spec => []DuplicatesNeedCrashes
<1>1. Init => RowsInv
  <2>1. ASSUME Init, NEW p PROVE Rows(p) = {} /\ crashes = 0
    BY <2>1 DEF Init, Rows
  <2> QED
    BY <2>1, FS_EmptySet DEF RowsInv
<1>2. IInv /\ RowsInv /\ [Next]_vars => RowsInv'
  BY RowsStep
<1>3. RowsInv => DuplicatesNeedCrashes
  BY DEF RowsInv, Rows, DuplicatesNeedCrashes
<1> QED
  BY <1>1, <1>2, <1>3, Invariance, PTL DEF Spec

-----------------------------------------------------------------------------
(***************************************************************************)
(* VRFOracle implements RandomnessService: the mapped initial state is its *)
(* initial state, and every step of the oracle maps to one of its steps or *)
(* leaves it alone.                                                        *)
(***************************************************************************)

\* The mapped variables.
State == [r \in DOMAIN requests |-> StateOf(r)]
Given == {ledger[k] : k \in DOMAIN ledger}

-----------------------------------------------------------------------------
(* What StateOf is for given tables *)

NoRunEnded(rs, i) == \A k \in DOMAIN rs : rs[k].job = i => rs[k].status = "Running"

\* StateOf, for a request without a job and for one whose only job is i.
StateByJob(js, rs, i) ==
    IF NoRunEnded(rs, i) THEN "taken"
    ELSE IF js[i].status = "Completed" THEN "resolved" ELSE "unresolved"

LEMMA WithoutJob ==
    ASSUME NEW r, \A i \in DOMAIN jobs : jobs[i].req # r
    PROVE  StateOf(r) = "accepted"
  BY DEF StateOf, JobsOf

LEMMA WithoutJobNext ==
    ASSUME NEW r, \A i \in DOMAIN jobs' : jobs'[i].req # r
    PROVE  StateOf(r)' = "accepted"
  BY DEF StateOf, JobsOf

LEMMA WithJob ==
    ASSUME NEW r, NEW i \in DOMAIN jobs, jobs[i].req = r,
           \A j \in DOMAIN jobs : jobs[j].req = r => j = i
    PROVE  StateOf(r) = StateByJob(jobs, runs, i)
<1>1. JobsOf(r) = {i}
  BY DEF JobsOf
<1>2. EndedRunsOf(i) = {} <=> NoRunEnded(runs, i)
  BY DEF EndedRunsOf, NoRunEnded
<1> QED
  BY <1>1, <1>2 DEF StateOf, StateByJob

LEMMA WithJobNext ==
    ASSUME NEW r, NEW i \in DOMAIN jobs', jobs'[i].req = r,
           \A j \in DOMAIN jobs' : jobs'[j].req = r => j = i
    PROVE  StateOf(r)' = StateByJob(jobs', runs', i)
<1>1. JobsOf(r)' = {i}
  BY DEF JobsOf
<1>2. EndedRunsOf(i)' = {} <=> NoRunEnded(runs', i)
  BY DEF EndedRunsOf, NoRunEnded
<1> QED
  BY <1>1, <1>2 DEF StateOf, StateByJob

\* One request has one job.
LEMMA OneJob ==
    ASSUME IInv, NEW i \in DOMAIN jobs, NEW j \in DOMAIN jobs, jobs[i].req = jobs[j].req
    PROVE  i = j
<1>1. TypeOK /\ OrderInv
  BY DEF IInv
<1>2. DOMAIN jobs \subseteq Nat /\ jobs[i].req \in Nat /\ jobs[j].req \in Nat
  BY <1>1, Domains DEF JobRow
<1> QED
  BY <1>1, <1>2 DEF OrderInv

\* A step that changes neither jobs nor runs, nor the number of requests.
LEMMA TablesLeftAlone ==
    ASSUME UNCHANGED <<jobs, runs>>, DOMAIN requests' = DOMAIN requests
    PROVE  State' = State
<1>1. \A r : StateOf(r)' = StateOf(r)
  BY DEF StateOf, JobsOf, EndedRunsOf
<1> QED
  BY <1>1 DEF State

\* A step after which every job of before has the state it had.
LEMMA Elsewhere ==
    ASSUME IInv, NEW r,
           DOMAIN jobs \subseteq DOMAIN jobs',
           \A i \in DOMAIN jobs : jobs'[i].req = jobs[i].req,
           \A i \in DOMAIN jobs' \ DOMAIN jobs : jobs'[i].req # r,
           \A i \in DOMAIN jobs : jobs[i].req = r =>
               StateByJob(jobs', runs', i) = StateByJob(jobs, runs, i)
    PROVE  StateOf(r)' = StateOf(r)
<1>1. CASE \A i \in DOMAIN jobs : jobs[i].req # r
  BY <1>1, WithoutJob, WithoutJobNext
<1>2. ASSUME NEW i \in DOMAIN jobs, jobs[i].req = r
      PROVE  StateOf(r)' = StateOf(r)
  <2>1. \A j \in DOMAIN jobs : jobs[j].req = r => j = i
    BY <1>2, OneJob
  <2>2. i \in DOMAIN jobs' /\ jobs'[i].req = r
    BY <1>2
  <2>3. \A j \in DOMAIN jobs' : jobs'[j].req = r => j = i
    BY <2>1
  <2> QED
    BY <1>2, <2>1, <2>2, <2>3, WithJob, WithJobNext
<1> QED
  BY <1>1, <1>2

\* A step that changes the state of one request.
LEMMA OneChanges ==
    ASSUME DOMAIN requests' = DOMAIN requests, NEW q \in DOMAIN requests, NEW x,
           StateOf(q)' = x,
           \A r \in DOMAIN requests : r # q => StateOf(r)' = StateOf(r)
    PROVE  State' = [State EXCEPT ![q] = x]
<1>1. State' = [r \in DOMAIN requests |-> StateOf(r)']
  BY DEF State
<1>2. \A r \in DOMAIN requests : StateOf(r)' = IF r = q THEN x ELSE StateOf(r)
  OBVIOUS
<1>3. State' = [r \in DOMAIN requests |-> IF r = q THEN x ELSE StateOf(r)]
  BY <1>1, <1>2
<1> QED
  BY <1>3 DEF State

-----------------------------------------------------------------------------
(* The steps *)

LEMMA AcceptStep ==
    ASSUME IInv, CreateVRFRequest
    PROVE  Service!Accept
<1>0. TypeOK /\ OrderInv /\ jobs' = jobs /\ runs' = runs /\ ledger' = ledger
  BY DEF IInv, CreateVRFRequest, chain
<1> DEFINE n == Len(requests)
<1>1. /\ n \in Nat /\ DOMAIN requests = 1 .. n /\ DOMAIN requests' = 1 .. n + 1
  BY <1>0, CreateTables, Domains
<1>2. \A r : StateOf(r)' = StateOf(r)
  BY <1>0 DEF StateOf, JobsOf, EndedRunsOf
<1>3. StateOf(n + 1) = "accepted"
  <2>1. \A i \in DOMAIN jobs : jobs[i].req # n + 1
    BY <1>0, <1>1 DEF OrderInv
  <2> QED
    BY <2>1, WithoutJob
<1>4. \A r : StateOf(r) \in Service!State
  BY DEF StateOf, Service!State
<1> HIDE DEF n
<1>5. State \in Seq(Service!State) /\ Len(State) = n
  BY <1>1, <1>4 DEF State
<1>6. Append(State, "accepted") = [r \in 1 .. n + 1 |-> IF r = n + 1 THEN "accepted" ELSE StateOf(r)]
  BY <1>1, <1>5 DEF State
<1>7. State' = [r \in 1 .. n + 1 |-> IF r = n + 1 THEN "accepted" ELSE StateOf(r)]
  BY <1>1, <1>2, <1>3 DEF State
<1> QED
  BY <1>0, <1>6, <1>7 DEF Service!Accept, State

LEMMA TakeUpStep ==
    ASSUME IInv, TakeRequest
    PROVE  chan[1] \in DOMAIN State /\ Service!TakeUp(chan[1])
<1> PICK q, n : q = chan[1] /\ n = Len(jobs)
  OBVIOUS
<1>0. /\ TypeOK /\ OrderInv /\ ResolverInv
      /\ UNCHANGED <<requests, runs, ledger>>
  BY DEF IInv, TakeRequest, chain
<1>1. /\ n \in Nat /\ DOMAIN jobs = 1 .. n /\ DOMAIN jobs' = 1 .. n + 1
      /\ \A i \in DOMAIN jobs : jobs'[i] = jobs[i]
      /\ jobs'[n + 1].req = q
  BY <1>0, TakeTables, Domains DEF NewVRFRequestJob
<1>2. 1 \in DOMAIN chan
  BY <1>0, TakeTables, Domains
<1>3. q \in DOMAIN requests /\ \A i \in DOMAIN jobs : jobs[i].req < q
  BY <1>0, <1>2 DEF OrderInv
<1>4. \A i \in DOMAIN jobs : jobs[i].req \in Nat
  BY <1>0, Domains DEF JobRow
<1>5. DOMAIN requests \subseteq Nat
  BY <1>0, Domains
<1>6. \A r \in DOMAIN requests : r >= q => StateOf(r) = "accepted"
  <2> SUFFICES ASSUME NEW r \in DOMAIN requests, r >= q PROVE StateOf(r) = "accepted"
    OBVIOUS
  <2>1. \A i \in DOMAIN jobs : jobs[i].req # r
    BY <1>3, <1>4, <1>5
  <2> QED
    BY <2>1, WithoutJob
<1>7. StateOf(q)' = "taken"
  <2>1. \A j \in DOMAIN jobs' : jobs'[j].req = q => j = n + 1
    BY <1>1, <1>3, <1>4
  <2>2. NoRunEnded(runs', n + 1)
    BY <1>0, <1>1 DEF ResolverInv, NoRunEnded
  <2>3. n + 1 \in DOMAIN jobs' /\ jobs'[n + 1].req = q
    BY <1>1
  <2>4. StateOf(q)' = StateByJob(jobs', runs', n + 1)
    BY <2>1, <2>3, WithJobNext
  <2> QED
    BY <2>2, <2>4 DEF StateByJob
<1>8. \A r \in DOMAIN requests : r # q => StateOf(r)' = StateOf(r)
  <2> SUFFICES ASSUME NEW r \in DOMAIN requests, r # q PROVE StateOf(r)' = StateOf(r)
    OBVIOUS
  <2>1. \A i \in DOMAIN jobs : StateByJob(jobs', runs', i) = StateByJob(jobs, runs, i)
    BY <1>0, <1>1 DEF StateByJob
  <2>2. \A i \in DOMAIN jobs' \ DOMAIN jobs : jobs'[i].req # r
    BY <1>1
  <2> QED
    BY <1>1, <2>1, <2>2, Elsewhere
<1>9. State' = [State EXCEPT ![q] = "taken"]
  BY <1>0, <1>3, <1>7, <1>8, OneChanges
<1>10. \A r \in DOMAIN State : r >= q => State[r] = "accepted"
  BY <1>6 DEF State
<1> QED
  BY <1>0, <1>3, <1>9, <1>10 DEF Service!TakeUp, State

LEMMA StartRunStep ==
    ASSUME IInv, StartRun
    PROVE  State' = State /\ Given' = Given
<1> PICK cj, cr : cj = Len(jobs) /\ cr = Len(runs)
  OBVIOUS
<1>0. /\ TypeOK /\ OrderInv /\ ResolverInv /\ rpc = "start"
      /\ UNCHANGED <<requests, ledger>>
  BY DEF IInv, StartRun, chain
<1>1. /\ cj \in DOMAIN jobs /\ DOMAIN jobs' = DOMAIN jobs
      /\ \A i \in DOMAIN jobs : jobs'[i].req = jobs[i].req
      /\ \A i \in DOMAIN jobs : i # cj => jobs'[i] = jobs[i]
  BY <1>0, StartRunTables, Domains
<1>2. /\ cr \in Nat /\ DOMAIN runs = 1 .. cr /\ DOMAIN runs' = 1 .. cr + 1
      /\ \A k \in DOMAIN runs : runs'[k] = runs[k]
      /\ runs'[cr + 1].job = cj /\ runs'[cr + 1].status = "Running"
  BY <1>0, StartRunTables, Domains
<1>3. \A k \in DOMAIN runs : runs[k].job < cj
  BY <1>0 DEF ResolverInv, CurrentJob
<1>4. \A k \in DOMAIN runs : runs[k].job # cj
  <2>1. cj \in Nat
    BY <1>0, Domains
  <2> QED
    BY <1>0, <1>3, <2>1, Domains DEF RunRow
<1>5. \A i \in DOMAIN jobs : NoRunEnded(runs', i) <=> NoRunEnded(runs, i)
  <2> TAKE i \in DOMAIN jobs
  <2>1. DOMAIN runs' = DOMAIN runs \cup {cr + 1}
    BY <1>2
  <2> QED
    BY <1>2, <2>1 DEF NoRunEnded
<1>6. NoRunEnded(runs, cj)
  BY <1>4 DEF NoRunEnded
<1>7. \A i \in DOMAIN jobs : StateByJob(jobs', runs', i) = StateByJob(jobs, runs, i)
  BY <1>1, <1>5, <1>6 DEF StateByJob
<1>8. \A r : StateOf(r)' = StateOf(r)
  BY <1>1, <1>7, Elsewhere
<1> QED
  BY <1>0, <1>8 DEF State, Given

LEMMA FinishStep ==
    ASSUME IInv, EndsRun
    PROVE  \E r \in DOMAIN State :
              Service!Finish(r, "resolved") \/ Service!Finish(r, "unresolved")
<1>0. TypeOK /\ OrderInv /\ ResolverInv
  BY DEF IInv
<1>1. PICK s \in {"Completed", "Failed"}, m \in {0, MaxRetries} :
         /\ rpc \in {"prove", "wait"} /\ EndRun(s, m)
         /\ s = "Completed" => Executed(CurrentRequest)
  BY DEF EndsRun
<1>2. m \in UInt8
  BY ConstantsAssumption DEF UInt8
<1> PICK cj, cr, q, outcome :
       /\ cj = Len(jobs) /\ cr = Len(runs) /\ q = jobs[cj].req
       /\ outcome = IF s = "Completed" THEN "resolved" ELSE "unresolved"
  OBVIOUS
<1>3. /\ cj \in DOMAIN jobs /\ cr \in DOMAIN runs /\ q \in DOMAIN requests
      /\ DOMAIN requests' = DOMAIN requests
      /\ DOMAIN jobs' = DOMAIN jobs /\ DOMAIN runs' = DOMAIN runs
      /\ jobs'[cj] = JobUpdateStatus(jobs[cj], s, m)
      /\ JobUpdateStatus(jobs[cj], s, m).req = q
      /\ \A i \in DOMAIN jobs : i # cj => jobs'[i] = jobs[i]
      /\ \A k \in DOMAIN runs : k # cr => runs'[k] = runs[k]
      /\ runs'[cr] = [runs[cr] EXCEPT !.status = s]
  <2>1. /\ requests' \in Seq(RequestRow) /\ Len(requests') = Len(requests)
        /\ jobs' \in Seq(JobRow) /\ Len(jobs') = Len(jobs)
        /\ runs' \in Seq(RunRow) /\ Len(runs') = Len(runs)
    BY <1>1, <1>2, EndRunTables
  <2>2. /\ DOMAIN requests' = DOMAIN requests
        /\ DOMAIN jobs' = DOMAIN jobs /\ DOMAIN runs' = DOMAIN runs
    BY <1>0, <2>1, Domains
  <2>3. /\ cj \in DOMAIN jobs /\ cr \in DOMAIN runs /\ q \in DOMAIN requests
        /\ JobUpdateStatus(jobs[cj], s, m).req = q
        /\ \A i \in DOMAIN jobs : jobs'[i] =
              IF i = cj THEN JobUpdateStatus(jobs[cj], s, m) ELSE jobs[i]
        /\ \A k \in DOMAIN runs : runs'[k] =
              IF k = cr THEN [runs[k] EXCEPT !.status = s] ELSE runs[k]
    BY <1>1, <1>2, EndRunTables
  <2> QED
    BY <2>2, <2>3
<1>4. jobs'[cj].status = "Completed" <=> s = "Completed"
  <2>1. jobs[cj] \in JobRow /\ s \in RunStatus /\ jobs[cj].retries = 0
    BY <1>0, <1>1, <1>3, Domains DEF RunStatus, ResolverInv, CurrentJob
  <2> QED
    BY <1>2, <1>3, <2>1, JobUpdateType
<1>5. /\ runs[cr].job = cj /\ runs[cr].status = "Running"
      /\ runs[cr] \in RunRow
  BY <1>0, <1>1, <1>3, Domains DEF ResolverInv, CurrentRun, CurrentJob
<1>6. runs'[cr].job = cj /\ runs'[cr].status = s
  BY <1>3, <1>5 DEF RunRow
<1>7. \A k \in DOMAIN runs : k # cr => runs[k].job # cj
  <2> SUFFICES ASSUME NEW k \in DOMAIN runs, k # cr PROVE runs[k].job # cj
    OBVIOUS
  <2>1. k < cr
    BY <1>0, <1>3, Domains
  <2>2. runs[k].job < cj
    BY <1>0, <1>3, <1>5, <2>1 DEF ResolverInv
  <2>3. cj \in Nat /\ runs[k].job \in Nat
    BY <1>0, Domains DEF RunRow
  <2> QED
    BY <2>2, <2>3
<1>8. ledger' = ledger
  BY <1>1 DEF EndRun, chain
<1>9. s = "Completed" => q \in Given
  BY <1>1 DEF Executed, CurrentRequest, CurrentJob, Given
<1>10. NoRunEnded(runs, cj) /\ ~NoRunEnded(runs', cj)
  <2>1. NoRunEnded(runs, cj)
    BY <1>5, <1>7 DEF NoRunEnded
  <2>2. s # "Running"
    OBVIOUS
  <2>3. cr \in DOMAIN runs'
    BY <1>3
  <2> QED
    BY <1>6, <2>1, <2>2, <2>3 DEF NoRunEnded
<1>11. \A i \in DOMAIN jobs : i # cj => (NoRunEnded(runs', i) <=> NoRunEnded(runs, i))
  <2> SUFFICES ASSUME NEW i \in DOMAIN jobs, i # cj
               PROVE  NoRunEnded(runs', i) <=> NoRunEnded(runs, i)
    OBVIOUS
  <2>1. \A k \in DOMAIN runs : runs[k].job = i \/ runs'[k].job = i => k # cr
    BY <1>5, <1>6
  <2> QED
    BY <1>3, <2>1 DEF NoRunEnded
<1>12. /\ StateByJob(jobs, runs, cj) = "taken"
       /\ StateByJob(jobs', runs', cj) = outcome
       /\ \A i \in DOMAIN jobs : i # cj =>
             StateByJob(jobs', runs', i) = StateByJob(jobs, runs, i)
  BY <1>3, <1>4, <1>10, <1>11 DEF StateByJob
<1>13. \A i \in DOMAIN jobs : jobs'[i].req = jobs[i].req
  BY <1>3
<1>14. \A j \in DOMAIN jobs : jobs[j].req = q => j = cj
  BY <1>3, OneJob
<1>15. StateOf(q) = "taken"
  BY <1>3, <1>12, <1>14, WithJob
<1>16. StateOf(q)' = outcome
  <2>1. cj \in DOMAIN jobs' /\ jobs'[cj].req = q
    BY <1>3
  <2>2. \A j \in DOMAIN jobs' : jobs'[j].req = q => j = cj
    BY <1>3, <1>13, <1>14
  <2>3. StateOf(q)' = StateByJob(jobs', runs', cj)
    BY <2>1, <2>2, WithJobNext
  <2> QED
    BY <1>12, <2>3
<1>17. \A r : r # q => StateOf(r)' = StateOf(r)
  <2> SUFFICES ASSUME NEW r, r # q PROVE StateOf(r)' = StateOf(r)
    OBVIOUS
  <2>1. \A i \in DOMAIN jobs : jobs[i].req = r => i # cj
    OBVIOUS
  <2> QED
    BY <1>3, <1>12, <1>13, <2>1, Elsewhere
<1>18. State' = [State EXCEPT ![q] = outcome]
  BY <1>3, <1>16, <1>17, OneChanges
<1>19. q \in DOMAIN State /\ State[q] = "taken"
  BY <1>3, <1>15 DEF State
<1>20. /\ outcome \in {"resolved", "unresolved"}
       /\ outcome = "resolved" => q \in Given
  BY <1>9
<1>21. Service!Finish(q, outcome)
  BY <1>8, <1>18, <1>19, <1>20 DEF Service!Finish, State, Given
<1> QED
  BY <1>19, <1>20, <1>21

LEMMA GiveStep ==
    ASSUME IInv, NEW r \in inflight, Execute(r)
    PROVE  r \in DOMAIN State /\ Service!Give(r)
<1>0. TypeOK /\ OrderInv /\ ChainInv
  BY DEF IInv
<1>1. PICK i \in DOMAIN jobs : jobs[i].req = r
  BY <1>0 DEF ChainInv
<1>2. r \in DOMAIN requests
  BY <1>0, <1>1 DEF OrderInv
<1>3. StateOf(r) # "accepted"
  <2>1. \A j \in DOMAIN jobs : jobs[j].req = r => j = i
    BY <1>1, OneJob
  <2> QED
    BY <1>1, <2>1, WithJob DEF StateByJob
<1>4. r \notin Given
  BY <1>0 DEF ChainInv, Executed, Given
<1>5. State' = State
  BY TablesLeftAlone DEF Execute, db
<1>6. Given' = Given \cup {r}
  <2>1. ledger \in Seq(Nat \ {0}) /\ r \in Nat \ {0} /\ ledger' = Append(ledger, r)
    BY <1>0 DEF TypeOK, Execute
  <2>2. /\ DOMAIN ledger = 1 .. Len(ledger) /\ Len(ledger) \in Nat
        /\ DOMAIN ledger' = 1 .. Len(ledger) + 1
        /\ \A k \in 1 .. Len(ledger) : ledger'[k] = ledger[k]
        /\ ledger'[Len(ledger) + 1] = r
    BY <2>1, AppendProperties
  <2>3. DOMAIN ledger' = DOMAIN ledger \cup {Len(ledger) + 1}
    BY <2>2
  <2> QED
    BY <2>2, <2>3 DEF Given
<1> QED
  BY <1>2, <1>3, <1>4, <1>5, <1>6 DEF Service!Give, State, Given

-----------------------------------------------------------------------------

LEMMA ServiceInit ==
    ASSUME Init
    PROVE  Service!Init
<1>1. DOMAIN requests = {} /\ DOMAIN ledger = {}
  BY DEF Init
<1>2. State = <<>> /\ Given = {}
  BY <1>1 DEF State, Given
<1> QED
  BY <1>2 DEF Service!Init, State, Given

LEMMA ServiceStep ==
    ASSUME IInv, [Next]_vars
    PROVE  [Service!Next]_<<State, Given>>
<1>1. CASE CreateVRFRequest
  BY <1>1, AcceptStep DEF Service!Next
<1>2. CASE TakeRequest
  BY <1>2, TakeUpStep DEF Service!Next, State
<1>3. CASE StartRun
  BY <1>3, StartRunStep
<1>4. CASE EndsRun
  BY <1>4, FinishStep DEF Service!Next, State
<1>5. CASE \E r \in inflight : Execute(r)
  BY <1>5, GiveStep DEF Service!Next, State
<1>6. CASE \/ Start \/ Crash \/ CommitCursor \/ SendRequest \/ IgnoreRemove
           \/ OnHeartBeat \/ PushSetRand \/ UNCHANGED vars
           \/ \E r \in inflight : Expire(r)
  <2>1. UNCHANGED <<requests, jobs, runs, ledger>>
    BY <1>6 DEF Start, Crash, CommitCursor, SendRequest, IgnoreRemove, OnHeartBeat,
                PushSetRand, Expire, vars, db, chain
  <2> QED
    BY <2>1, TablesLeftAlone DEF Given
<1> QED
  BY <1>1, <1>2, <1>3, <1>4, <1>5, <1>6, Steps

\* The oracle (delta handler, resolver, crashes and the chain) keeps the
\* promise of RandomnessService for the rows of vrf_requests.
THEOREM Implementation == Spec => ServiceSpec
<1>1. Init => Service!Init
  BY ServiceInit
<1>2. IInv /\ [Next]_vars => [Service!Next]_<<State, Given>>
  BY ServiceStep
<1>3. [Service!Next]_<<State, Given>> =>
        [Service!Next]_<<[r \in DOMAIN requests |-> StateOf(r)],
                         {ledger[k] : k \in DOMAIN ledger}>>
  BY DEF State, Given
<1> QED
  BY <1>1, <1>2, <1>3, Invariance, PTL DEF Spec, ServiceSpec, Service!Spec
=============================================================================

-------------------------- MODULE VRFRequestModels --------------------------
(***************************************************************************)
(* The three database rows of the VRF oracle (a request, the job that      *)
(* resolves it, and one run of that job) and the UpdateStatus cascade that *)
(* keeps their statuses in step: core/store/models/vrf_request*.go.        *)
(*                                                                         *)
(* A row is a record; its primary key is its position in the table.  Times *)
(* and messages are left out.  A request keeps, in the place of the job's  *)
(* fields copied from the chain, the position of the delta it came from.   *)
(***************************************************************************)
EXTENDS Naturals

RequestType   == {"immediate", "scheduled", "recurrent"}
RequestStatus == {"Active", "Completed"}
JobStatus     == {"Active", "Running", "Completed", "Failed"}
RunStatus     == {"Running", "Completed", "Failed"}

\* Retries is a uint8.
UInt8 == 0 .. 255

\* The rows of vrf_requests, vrf_request_jobs and vrf_request_runs.
RequestRow == [delta : Nat \ {0}, type : RequestType, status : RequestStatus]
JobRow     == [req : Nat \ {0}, status : JobStatus, retries : UInt8]
RunRow     == [job : Nat \ {0}, status : RunStatus]

\* Every request that comes from the chain is an immediate one.
VRFRequest(delta) ==
    [delta |-> delta, type |-> "immediate", status |-> "Active"]

NewVRFRequestJob(request) ==
    [req |-> request, status |-> "Active", retries |-> 0]

NewVRFRequestRun(job) == [job |-> job, status |-> "Running"]

----------------------------------------------------------------------------

\* (*VRFRequestJob).UpdateStatus, the job's own fields.
JobUpdateStatus(job, runStatus, maxRetries) ==
    LET retries == (job.retries + 1) % 256
    IN  CASE runStatus = "Running"   -> [job EXCEPT !.status = "Running"]
          [] runStatus = "Completed" -> [job EXCEPT !.status = "Completed"]
          [] runStatus = "Failed"    ->
                 [job EXCEPT !.retries = retries,
                             !.status  = IF retries > maxRetries
                                         THEN "Failed" ELSE "Active"]

\* (*VRFRequest).UpdateStatus: the job's new status reaches the request.
RequestUpdateStatus(request, jobStatus) ==
    IF /\ jobStatus \in {"Completed", "Failed"}
       /\ request.type \in {"immediate", "scheduled"}
    THEN [request EXCEPT !.status = "Completed"]
    ELSE request
=============================================================================

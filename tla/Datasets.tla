------------------------------ MODULE Datasets ------------------------------
(* Datasets: a request uploads files to S3, or has a Kubernetes Job copy them there from    *)
(* Hugging Face; from S3 an ops job per volume downloads them. The row of a dataset is      *)
(* written by the API server, by the controller of the Jobs and by that of the downloads,   *)
(* which lets another workspace of the volume try when a download fails.                    *)
EXTENDS Integers, Sequences, FiniteSets, SequencesExt

CONSTANTS Ids,          \* the datasets, one for each request
          Sources,      \* where they come from: "upload", "hf"
          Workspaces,   \* the workspaces, in the order they are listed
          Volume,       \* the path of each workspace's volume, "" for none
          Wanted,       \* the workspaces a request may name, "" for all
          MaxFailover,  \* MaxDatasetFailoverAttempts
          Prompt,       \* no Job ends before the request that created it
          Calls, Restarts, MaxJobs

VARIABLES row,          \* the rows of the database
          req,          \* how far the request for a dataset is
          s3,           \* the datasets whose files are complete in S3
          hf,           \* the Hugging Face Job of a dataset
          hfQueue,      \* the datasets whose Job waits for the controller
          jobs,         \* the ops jobs, in the order of their creation
          queue,        \* the ops jobs that wait for the controller
          ctl,          \* what the controller of the downloads is at
          disk,         \* the datasets on each volume
          calls, restarts

vars == <<row, req, s3, hf, hfQueue, jobs, queue, ctl, disk, calls, restarts>>

NoRow == [status |-> "none"]
Idle == [at |-> "idle"]
Exists(d) == row[d] # NoRow /\ ~row[d].deleted
Volumes == {Volume[w] : w \in Range(Workspaces)} \ {""}

----------------------------------------------------------------------------
(* The database. *)

\* An update leaves the workspace and the mark of the deletion alone.
UpsertDataset(d, r) ==
    row' = [row EXCEPT ![d] = IF @ = NoRow THEN r ELSE [r EXCEPT !.ws = row[d].ws, !.deleted = row[d].deleted]]
SetDatasetDeleted(d) == row' = [row EXCEPT ![d].deleted = TRUE]
UpdateDatasetStatus(d, s) == row' = [row EXCEPT ![d].status = s]
CheckDatasetNameExists(name) == \E d \in Ids : Exists(d) /\ row[d].name = name
checkDatasetURLExists(url) == \E d \in Ids : Exists(d) /\ row[d].url = url

\* One path that is ready is enough.
calculateOverallStatus(paths) ==
    LET Has(s) == \E i \in DOMAIN paths : paths[i].status = s
    IN CASE paths = <<>> -> "Pending"
         [] Has("Ready") -> "Ready"
         [] Has("Downloading") /\ ~Has("Ready") -> "Downloading"
         [] paths # <<>> /\ \A i \in DOMAIN paths : paths[i].status = "Failed" -> "Failed"
         [] OTHER -> "Pending"
\* The first path of the workspace is changed; one that is not there is added, without a volume.
UpdateDatasetLocalPath(d, ws, s) ==
    LET paths == row[d].paths
        at == {i \in DOMAIN paths : paths[i].ws = ws}
        first == CHOOSE i \in at : \A j \in at : i <= j
        new == IF at = {} THEN Append(paths, [ws |-> ws, vol |-> "", status |-> s])
               ELSE [paths EXCEPT ![first].status = s]
    IN row' = [row EXCEPT ![d].paths = new, ![d].status = calculateOverallStatus(new)]

----------------------------------------------------------------------------
(* The targets of the downloads: every volume once, by the first workspace that has it. *)

FirstOf(v) == CHOOSE w \in Range(Workspaces) :
    /\ Volume[w] = v
    /\ \A i, j \in DOMAIN Workspaces : (Workspaces[i] = w /\ Volume[Workspaces[j]] = v) => i <= j
getDatasetDownloadTargets(ws) ==
    LET found == IF ws = "" THEN [v \in Volumes |-> FirstOf(v)]
                 ELSE [v \in {Volume[ws]} \ {""} |-> ws]
    IN SetToSeq({[ws |-> found[v], vol |-> v, status |-> "Pending"] : v \in DOMAIN found})

----------------------------------------------------------------------------
(* Requests. A call that fails is taken from a budget. *)

Fails == calls > 0 /\ calls' = calls - 1
Works == UNCHANGED calls
At(d, step) == req' = [req EXCEPT ![d] = step]
NewRow(d, src, ws, status) ==
    [status |-> status, paths |-> <<>>, tried |-> [v \in Volumes |-> {}], deleted |-> FALSE, ws |-> ws,
     src |-> src, name |-> "n", url |-> IF src = "hf" THEN "u" ELSE ""]
AddJob(d, ws) == Append(jobs, [ds |-> d, ws |-> ws, phase |-> "Pending"])
Outside == <<s3, hf, hfQueue, jobs, queue, ctl, disk, restarts>>

createDataset(d, ws) ==
    /\ req[d] = "new" /\ "upload" \in Sources /\ ws \in Wanted
    /\ ~CheckDatasetNameExists("n")
    /\ UpsertDataset(d, NewRow(d, "upload", ws, "Uploading")) /\ At(d, "upload")
    /\ Works /\ UNCHANGED Outside

uploadFilesToS3(d) ==
    /\ req[d] = "upload"
    /\ \/ Works /\ s3' = s3 \union {d} /\ At(d, "paths") /\ UNCHANGED row
       \/ Fails /\ UpdateDatasetStatus(d, "Failed") /\ At(d, "done") /\ UNCHANGED s3
    /\ UNCHANGED <<hf, hfQueue, jobs, queue, ctl, disk, restarts>>

\* The paths are stored before the first job is created.
SetPaths(d) ==
    LET targets == getDatasetDownloadTargets(row[d].ws)
    IN /\ req[d] = "paths"
       /\ \/ /\ Works /\ At(d, "jobs")
             /\ UpsertDataset(d, [NewRow(d, "upload", row[d].ws, "Pending") EXCEPT !.paths = targets])
          \/ Fails /\ At(d, "done") /\ UNCHANGED row
       /\ UNCHANGED Outside

\* One job after the other; one that cannot be created is left out.
createDatasetDownloadOpsJobs(d) ==
    LET targets == getDatasetDownloadTargets(row[d].ws)
        made == {i \in DOMAIN jobs : jobs[i].ds = d}
        next == SelectSeq(targets, LAMBDA t : \A i \in made : jobs[i].ws # t.ws)
    IN /\ req[d] = "jobs"
       /\ \/ next = <<>> /\ Works /\ At(d, "done") /\ UNCHANGED <<jobs, queue>>
          \/ /\ next # <<>> /\ Works /\ Len(jobs) < MaxJobs
             /\ jobs' = AddJob(d, next[1].ws) /\ queue' = queue \union {Len(jobs) + 1} /\ UNCHANGED req
          \/ next # <<>> /\ Fails /\ At(d, "done") /\ UNCHANGED <<jobs, queue>>
       /\ UNCHANGED <<row, s3, hf, hfQueue, ctl, disk, restarts>>

importDatasetFromHF(d, ws) ==
    /\ req[d] = "new" /\ "hf" \in Sources /\ ws \in Wanted
    /\ ~checkDatasetURLExists("u")
    /\ UpsertDataset(d, NewRow(d, "hf", ws, "Pending")) /\ At(d, "hfjob")
    /\ Works /\ UNCHANGED Outside

createHFDatasetDownloadJob(d) ==
    /\ req[d] = "hfjob"
    /\ \/ Works /\ hf' = [hf EXCEPT ![d] = "active"] /\ hfQueue' = hfQueue \union {d} /\ At(d, "mark") /\ UNCHANGED row
       \/ Fails /\ UpdateDatasetStatus(d, "Failed") /\ At(d, "done") /\ UNCHANGED <<hf, hfQueue>>
    /\ UNCHANGED <<s3, jobs, queue, ctl, disk, restarts>>

\* The request writes the row it made: a controller that was faster is overwritten.
MarkUploading(d) ==
    /\ req[d] = "mark" /\ At(d, "done")
    /\ \/ Works /\ UpsertDataset(d, NewRow(d, "hf", row[d].ws, "Uploading"))
       \/ Fails /\ UNCHANGED row
    /\ UNCHANGED Outside

\* The files in S3 stay: what is deleted there is an object of the name of their directory.
deleteDataset(d) ==
    /\ Exists(d) /\ SetDatasetDeleted(d) /\ UNCHANGED <<req, calls>> /\ UNCHANGED Outside

----------------------------------------------------------------------------
(* The controller of the Jobs that copy from Hugging Face. *)

initializeLocalPaths(d) == getDatasetDownloadTargets(row[d].ws)

createLocalDownloadOpsJobs(d, targets) ==
    /\ jobs' = jobs \o [i \in DOMAIN targets |-> [ds |-> d, ws |-> targets[i].ws, phase |-> "Pending"]]
    /\ queue' = queue \union (Len(jobs) + 1)..Len(jobs')
handleJobSucceeded(d) ==
    LET targets == initializeLocalPaths(d)
    IN /\ hf[d] = "succeeded"
       /\ \/ /\ Works /\ Len(jobs) + Len(targets) <= MaxJobs
             /\ UpsertDataset(d, [row[d] EXCEPT !.status = "Downloading", !.paths = targets])
             /\ createLocalDownloadOpsJobs(d, targets)
             \* The Job is deleted; if that fails it is met again after a restart.
             /\ \E h \in IF restarts < Restarts THEN {"gone", "succeeded"} ELSE {"gone"} : hf' = [hf EXCEPT ![d] = h]
             /\ hfQueue' = hfQueue \ {d}
          \/ Fails /\ UNCHANGED <<row, jobs, queue, hf, hfQueue>>
handleJobFailed(d) ==
    /\ hf[d] = "failed"
    /\ \/ /\ Works /\ UpsertDataset(d, [row[d] EXCEPT !.status = "Failed"])
          /\ hf' = [hf EXCEPT ![d] = "gone"] /\ hfQueue' = hfQueue \ {d}
       \/ Fails /\ UNCHANGED <<row, hf, hfQueue>>
    /\ UNCHANGED <<jobs, queue>>

\* A Job of a dataset that is deleted stays in the queue until it expires.
HFReconcile(d) ==
    /\ d \in hfQueue
    /\ \/ Exists(d) /\ (handleJobSucceeded(d) \/ handleJobFailed(d))
       \/ hf[d] = "gone" /\ hfQueue' = hfQueue \ {d} /\ Works /\ UNCHANGED <<row, jobs, queue, hf>>
    /\ UNCHANGED <<req, s3, ctl, disk, restarts>>

----------------------------------------------------------------------------
(* The controller of the downloads. *)

mapOpsJobPhaseToDatasetStatus(phase) ==
    CASE phase = "Running" -> "Downloading"
      [] phase = "Succeeded" -> "Ready"
      [] phase = "Failed" -> "Failed"
      [] OTHER -> "Pending"

Settle(j) ==
    /\ UpdateDatasetLocalPath(jobs[j].ds, jobs[j].ws, mapOpsJobPhaseToDatasetStatus(jobs[j].phase))
    /\ ctl' = Idle

GetWorkspacesWithSamePath(v) == SelectSeq(Workspaces, LAMBDA w : Volume[w] = v)

\* The workspace that is to try next, "" for none: one of the same volume that has not
\* tried, unless too many have. Whoever has tried is remembered only if there is one.
NextTry(r, failed) ==
    LET at == {i \in DOMAIN r.paths : r.paths[i].ws = failed}
        vol == r.paths[CHOOSE i \in at : \A j \in at : i <= j].vol
        tried == r.tried[vol] \union {failed}
        left == SelectSeq(GetWorkspacesWithSamePath(vol), LAMBDA w : w \notin tried)
    IN IF at = {} \/ vol = "" \/ Cardinality(tried) > MaxFailover \/ left = <<>> THEN "" ELSE left[1]

Reconcile(j) ==
    /\ j \in queue /\ ctl = Idle
    /\ \/ /\ jobs[j].phase = "Failed" /\ Exists(jobs[j].ds)
          /\ NextTry(row[jobs[j].ds], jobs[j].ws) # ""
          /\ ctl' = [at |-> "write", job |-> j, row |-> row[jobs[j].ds]]
          /\ queue' = queue \ {j} /\ Works /\ UNCHANGED row
       \* Nobody is left to try, or the row cannot be read.
       \/ /\ jobs[j].phase = "Failed" => ~Exists(jobs[j].ds) \/ NextTry(row[jobs[j].ds], jobs[j].ws) = ""
          /\ \/ Works /\ Settle(j) /\ queue' = queue \ {j}
             \/ Fails /\ UNCHANGED <<row, ctl, queue>>
    /\ UNCHANGED <<req, s3, hf, hfQueue, jobs, disk, restarts>>

\* The whole row is written as it was read, but for the path and who tried.
tryDatasetFailover ==
    LET r == ctl.row
        failed == jobs[ctl.job].ws
        at == {i \in DOMAIN r.paths : r.paths[i].ws = failed}
        first == CHOOSE i \in at : \A j \in at : i <= j
        next == NextTry(r, failed)
    IN /\ ctl.at = "write"
       /\ \/ /\ Works
             /\ UpsertDataset(jobs[ctl.job].ds,
                    [r EXCEPT !.tried[r.paths[first].vol] = @ \union {failed},
                              !.paths[first] = [@ EXCEPT !.ws = next, !.status = "Pending"]])
             /\ ctl' = [at |-> "create", job |-> ctl.job, next |-> next]
          \/ Fails /\ Settle(ctl.job)
       /\ UNCHANGED <<req, s3, hf, hfQueue, jobs, queue, disk, restarts>>

createFailoverOpsJob ==
    /\ ctl.at = "create"
    /\ \/ /\ Works /\ Len(jobs) < MaxJobs
          /\ jobs' = AddJob(jobs[ctl.job].ds, ctl.next) /\ queue' = queue \union {Len(jobs) + 1}
          /\ ctl' = Idle /\ UNCHANGED row
       \/ Fails /\ Settle(ctl.job) /\ UNCHANGED <<jobs, queue>>
    /\ UNCHANGED <<req, s3, hf, hfQueue, disk, restarts>>

----------------------------------------------------------------------------
(* Jobs, restarts. *)

HFJobEnds(d) ==
    /\ hf[d] = "active" /\ (Prompt => req[d] = "done")
    /\ \/ hf' = [hf EXCEPT ![d] = "succeeded"] /\ s3' = s3 \union {d}
       \/ hf' = [hf EXCEPT ![d] = "failed"] /\ UNCHANGED s3
    /\ hfQueue' = hfQueue \union {d}
    /\ UNCHANGED <<row, req, jobs, queue, ctl, disk, calls, restarts>>
HFJobExpires(d) ==
    /\ hf[d] \in {"succeeded", "failed"} /\ ~Exists(d) /\ hf' = [hf EXCEPT ![d] = "gone"]
    /\ UNCHANGED <<row, req, s3, hfQueue, jobs, queue, ctl, disk, calls, restarts>>

JobMoves(j, from, to) ==
    /\ jobs[j].phase = from /\ jobs' = [jobs EXCEPT ![j].phase = to] /\ queue' = queue \union {j}
    /\ UNCHANGED <<row, req, s3, hf, hfQueue, ctl, calls, restarts>>
JobStarts(j) == JobMoves(j, "Pending", "Running") /\ UNCHANGED disk
JobEnds(j) ==
    \/ /\ jobs[j].ds \in s3 /\ JobMoves(j, "Running", "Succeeded")
       /\ disk' = [disk EXCEPT ![Volume[jobs[j].ws]] = @ \union {jobs[j].ds}]
    \/ JobMoves(j, "Running", "Failed") /\ UNCHANGED disk

ManagerRestarts ==
    /\ restarts < Restarts /\ restarts' = restarts + 1
    /\ queue' = DOMAIN jobs /\ hfQueue' = {d \in Ids : hf[d] \in {"active", "succeeded", "failed"}}
    /\ ctl' = Idle
    /\ UNCHANGED <<row, req, s3, hf, jobs, disk, calls>>
ServerRestarts ==
    /\ restarts < Restarts /\ restarts' = restarts + 1
    /\ req' = [d \in Ids |-> IF req[d] = "new" THEN "new" ELSE "done"]
    /\ UNCHANGED <<row, s3, hf, hfQueue, jobs, queue, ctl, disk, calls>>

Init ==
    /\ row = [d \in Ids |-> NoRow] /\ req = [d \in Ids |-> "new"]
    /\ s3 = {} /\ hf = [d \in Ids |-> "none"] /\ hfQueue = {}
    /\ jobs = <<>> /\ queue = {} /\ ctl = Idle
    /\ disk = [v \in Volumes |-> {}]
    /\ calls = Calls /\ restarts = 0

Request(d) ==
    \/ uploadFilesToS3(d) \/ SetPaths(d) \/ createDatasetDownloadOpsJobs(d)
    \/ createHFDatasetDownloadJob(d) \/ MarkUploading(d)
Controller == (\E j \in queue : Reconcile(j)) \/ tryDatasetFailover \/ createFailoverOpsJob
Next ==
    \/ \E d \in Ids, ws \in Wanted : createDataset(d, ws) \/ importDatasetFromHF(d, ws)
    \/ \E d \in Ids : Request(d) \/ deleteDataset(d) \/ HFReconcile(d) \/ HFJobEnds(d) \/ HFJobExpires(d)
    \/ Controller
    \/ \E j \in DOMAIN jobs : JobStarts(j) \/ JobEnds(j)
    \/ ManagerRestarts \/ ServerRestarts
Spec == Init /\ [][Next]_vars

----------------------------------------------------------------------------
TypeOK ==
    /\ \A d \in Ids : row[d] # NoRow =>
          row[d].status \in {"Uploading", "Pending", "Downloading", "Ready", "Failed"}
    /\ queue \subseteq DOMAIN jobs /\ s3 \subseteq Ids /\ hfQueue \subseteq Ids
    /\ ctl.at \in {"idle", "write", "create"}

\* A path that is ready has the files, and a dataset that is ready a path that has.
ReadyIsOnDisk ==
    \A d \in Ids : row[d] # NoRow =>
        /\ \A i \in DOMAIN row[d].paths : row[d].paths[i].status = "Ready" => d \in disk[Volume[row[d].paths[i].ws]]
        /\ row[d].status = "Ready" => \E v \in Volumes : d \in disk[v]

\* A workspace tries the download of a dataset once, however failures, lost writes and
\* restarts of the manager interleave (a Hugging Face Job that is met again starts anew).
TriesOnce ==
    \A i, j \in DOMAIN jobs :
        (i # j /\ jobs[i].ds = jobs[j].ds /\ row[jobs[i].ds].src = "upload") => jobs[i].ws # jobs[j].ws

\* A dataset whose files are in S3 and whose request is over is still to settle.
Open(d) == Exists(d) /\ req[d] = "done" /\ row[d].status \notin {"Ready", "Failed"}
=============================================================================

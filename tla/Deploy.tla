------------------------------- MODULE Deploy -------------------------------
(***************************************************************************)
(* Continuous deployment: requests to deploy new versions and their        *)
(* approval in the API server (cd-handlers), the job and its workload in    *)
(* the resource manager (cd_job_controller.go), the script the workload    *)
(* runs (bootstrap/cd-deploy.sh), and the controller in the API server     *)
(* that turns the job's phase into the request's status and into snapshots *)
(* of the environment (cd_opsjob_controller.go).                           *)
(*                                                                         *)
(* A request names images for some components and, perhaps, a new          *)
(* environment file; a Lens request only files. An image is <<name, tag>>, *)
(* as typed <<tag>> or <<name, tag>>, and <<>> where there is none.        *)
(* Updates of a request write the whole row from the copy the writer read. *)
(***************************************************************************)
EXTENDS Integers, Sequences

CONSTANTS Users,          \* who asks and approves
          Asks,           \* what is asked for: [type, by, img, env]
          ImageName,      \* the image name of each component
          Clusters,       \* the clusters beside the control plane
          RequireApproval,\* requests are approved by another user
          Actions,        \* of {"rollback", "retry", "late"}: requests on old ones, and jobs that time out
          Serial,         \* requests are decided and deployed one after the other
          Prompt,         \* the approval ends before the controllers see its job
          Breaks,         \* scripts fail and clusters cannot be reached
          MaxReqs,        \* bound on requests
          Calls, Restarts \* bounds on failed calls and on restarts of the API server

VARIABLES reqs,    \* table deployment_requests, by id
          snaps,   \* table environment_snapshots, by time
          jobs,    \* the OpsJobs, each with its workload
          hands,   \* per user: the approval under way
          cds,     \* queue and worker of the controller in the API server
          live,    \* the image each component runs with, <<"chart", 0>> for the chart's own
          remote,  \* per cluster the images of its node agent and its runners
          left     \* the failed calls and restarts still to come

vars == <<reqs, snaps, jobs, hands, cds, live, remote, left>>

Components == DOMAIN ImageName
None == <<>>
Chart == <<"chart", 0>>
Cicd == {"cicd_runner", "cicd_unified_job"}
Remote == {"node_agent"} \cup Cicd
Idle == [at |-> "idle", id |-> 0, row |-> [status |-> "", job |-> 0], job |-> 0]
Ended(p) == p \in {"succeeded", "failed"}
Spend(what) == left[what] > 0 /\ left' = [left EXCEPT ![what] = @ - 1]

-----------------------------------------------------------------------------
\* Requests.

NormalizeImageVersion(c, v) == IF Len(v) = 1 THEN <<ImageName[c], v[1]>> ELSE v

NewRequest(type, by, cfg, back) ==
    /\ Len(reqs) < MaxReqs
    /\ reqs' = Append(reqs, [type |-> type, by |-> by, cfg |-> cfg, back |-> back,
                             status |-> "pending_approval", job |-> 0])
    /\ UNCHANGED <<snaps, jobs, hands, cds, live, remote, left>>

\* A request names something to deploy.
createDeploymentRequest(a) ==
    /\ a.env # 0 \/ (a.type = "safe" /\ \E c \in Components : a.img[c] # None)
    /\ NewRequest(a.type, a.by,
                  [img |-> [c \in Components |->
                               IF a.type = "lens" \/ a.img[c] = None THEN None
                               ELSE NormalizeImageVersion(c, a.img[c])],
                   env |-> a.env], 0)

\* GetEnvironmentSnapshotByRequestId names no order: any snapshot of the request.
Rollback(u, i) ==
    /\ "rollback" \in Actions /\ reqs[i].status = "deployed"
    /\ LET of == {k \in DOMAIN snaps : snaps[k].req = i}
       IN  \/ \E k \in of : NewRequest(reqs[i].type, u, snaps[k].cfg, i)
           \/ of = {} /\ NewRequest(reqs[i].type, u, reqs[i].cfg, i)

retryDeployment(u, i) ==
    /\ "retry" \in Actions /\ reqs[i].status = "failed"
    /\ NewRequest(reqs[i].type, u, reqs[i].cfg, 0)

-----------------------------------------------------------------------------
\* Snapshots of the environment.

NoConfig == [img |-> [c \in Components |-> None], env |-> 0]

OfType(t) == {k \in DOMAIN snaps : snaps[k].type = t}

\* The latest snapshot of the type, or an empty configuration.
Latest(t) == IF OfType(t) = {} THEN NoConfig
             ELSE snaps[CHOOSE k \in OfType(t) : \A j \in OfType(t) : j <= k].cfg

Overlay(base, cfg) == [img |-> [c \in Components |-> IF cfg.img[c] # None THEN cfg.img[c] ELSE base.img[c]],
                       env |-> IF cfg.env # 0 THEN cfg.env ELSE base.env]

mergeWithLatestSnapshot(cfg) == Overlay(Latest("safe"), cfg)

\* The snapshot of a request that was deployed; if the list cannot be read it starts anew.
Snapshot(i, readable) ==
    [req |-> i, type |-> reqs[i].type,
     cfg |-> IF reqs[i].type = "lens" THEN reqs[i].cfg
             ELSE Overlay(IF readable THEN Latest("safe") ELSE NoConfig, reqs[i].cfg)]

-----------------------------------------------------------------------------
\* Approval: read and check the request, mark it approved, create the job, for
\* Lens its ConfigMap, and write the job's name.

Store(i, row) == reqs' = [reqs EXCEPT ![i].status = row.status, ![i].job = row.job]
Row(i) == [status |-> reqs[i].status, job |-> reqs[i].job]
Hand(u, h) == hands' = [hands EXCEPT ![u] = h]
Busy(i) == reqs[i].status \in {"approved", "deploying"} \/ \E u \in Users : hands[u].at # "idle" /\ hands[u].id = i

Approve(u, i) ==
    /\ hands[u].at = "idle" /\ reqs[i].status = "pending_approval"
    /\ ~(RequireApproval /\ reqs[i].by = u)
    /\ Serial => \A k \in DOMAIN reqs : ~Busy(k)
    /\ Hand(u, [at |-> "mark", id |-> i, row |-> [Row(i) EXCEPT !.status = "approved"], job |-> 0])
    /\ UNCHANGED <<reqs, snaps, jobs, cds, live, remote, left>>

\* The requester withdraws, another user rejects.
Reject(u, i) ==
    /\ hands[u].at = "idle" /\ reqs[i].status = "pending_approval"
    /\ Serial => ~Busy(i)
    /\ Hand(u, [at |-> "reject", id |-> i, job |-> 0,
                row |-> [Row(i) EXCEPT !.status = IF RequireApproval /\ reqs[i].by = u THEN "cancelled" ELSE "rejected"]])
    /\ UNCHANGED <<reqs, snaps, jobs, cds, live, remote, left>>

\* The job carries every image known, but the node agent's and the runners' for
\* the other clusters only if this request asks for them.
generateCDOpsJob(i) ==
    LET cfg == reqs[i].cfg
        all == IF reqs[i].type = "lens" THEN cfg ELSE mergeWithLatestSnapshot(cfg)
    IN  [req |-> i, phase |-> "", wl |-> "none", told |-> "none", todo |-> {}, cfg |-> all,
         asked |-> [c \in Remote |-> IF c \in Components THEN cfg.img[c] ELSE None]]

Create(u, i) ==
    /\ jobs' = Append(jobs, generateCDOpsJob(i))
    /\ Hand(u, [hands[u] EXCEPT !.at = IF reqs[i].type = "lens" THEN "map" ELSE "save", !.job = Len(jobs) + 1])
    /\ UNCHANGED <<reqs, left>>

\* UpdateRequestStatus reads the row anew.
CreateFails(u, i) ==
    /\ Spend("calls")
    /\ Store(i, [Row(i) EXCEPT !.status = "failed"])
    /\ Hand(u, Idle) /\ UNCHANGED jobs

approveDeploymentRequest(u) ==
    LET h == hands[u] IN
    /\ \/ h.at \in {"mark", "reject"} /\ Store(h.id, h.row)
          /\ Hand(u, IF h.at = "mark" THEN [h EXCEPT !.at = "job"] ELSE Idle) /\ UNCHANGED <<jobs, left>>
       \/ h.at \in {"mark", "reject"} /\ Spend("calls") /\ Hand(u, Idle) /\ UNCHANGED <<reqs, jobs>>
       \/ h.at = "job" /\ (Create(u, h.id) \/ CreateFails(u, h.id))
       \/ h.at = "map" /\ Hand(u, [h EXCEPT !.at = "save"]) /\ UNCHANGED <<reqs, jobs, left>>
       \/ h.at = "map" /\ Spend("calls") /\ Hand(u, Idle) /\ UNCHANGED <<reqs, jobs>>
       \/ h.at = "save" /\ Store(h.id, [status |-> "deploying", job |-> h.job]) /\ Hand(u, Idle) /\ UNCHANGED <<jobs, left>>
       \/ h.at = "save" /\ Spend("calls") /\ Hand(u, Idle) /\ UNCHANGED <<reqs, jobs>>
    /\ cds' = IF jobs' = jobs THEN cds ELSE [cds EXCEPT !.queue = @ \cup {Len(jobs')}]
    /\ UNCHANGED <<snaps, live, remote>>

-----------------------------------------------------------------------------
\* The job in the resource manager.

Seen(j) == Prompt => \A u \in Users : hands[u].job # j

\* A new phase is an event for the controller in the API server.
SetPhase(j, job) ==
    /\ jobs' = [jobs EXCEPT ![j] = job]
    /\ cds' = IF job.phase = jobs[j].phase THEN cds ELSE [cds EXCEPT !.queue = @ \cup {j}]

JobStep == UNCHANGED <<reqs, snaps, hands, live, remote>>

\* A new job becomes Pending; then the workload is created.
handle(j) ==
    LET job == jobs[j] IN
    /\ Seen(j) /\ ~Ended(job.phase)
    /\ \/ job.phase = "" /\ SetPhase(j, [job EXCEPT !.phase = "pending"])
       \/ job.phase # "" /\ job.wl = "none" /\ SetPhase(j, [job EXCEPT !.wl = "pending"])
    /\ JobStep /\ UNCHANGED left

WorkloadPhase(w) == CASE w \in {"upgrade", "remote"} -> "running" [] OTHER -> w

\* Events of the workload come in order; one whose writes fail is lost.
handleWorkloadEvent(j) ==
    LET job == jobs[j]
        now == WorkloadPhase(job.wl)
        next == IF job.told = "none" THEN "pending" ELSE IF job.told = "pending" THEN "running" ELSE now
    IN  /\ now # "none" /\ job.told # now
        /\ \/ SetPhase(j, [job EXCEPT !.told = next, !.phase = next]) /\ UNCHANGED left
           \/ SetPhase(j, [job EXCEPT !.told = next]) /\ Spend("calls")
        /\ JobStep

\* The job times out in the resource manager, and its workload goes on.
timeout(j) ==
    /\ "late" \in Actions /\ jobs[j].phase # "" /\ ~Ended(jobs[j].phase)
    /\ SetPhase(j, [jobs[j] EXCEPT !.phase = "failed"])
    /\ JobStep /\ UNCHANGED left

-----------------------------------------------------------------------------
\* The script of the workload.

Becomes(j, w, todo) == jobs' = [jobs EXCEPT ![j].wl = w, ![j].todo = todo]
ScriptStep == UNCHANGED <<reqs, snaps, hands, cds, left>>
Lens(j) == reqs[jobs[j].req].type = "lens"

Starts(j) ==
    /\ jobs[j].wl = "pending" /\ Becomes(j, "upgrade", {})
    /\ UNCHANGED <<live, remote>> /\ ScriptStep

\* Step 1 to 3: the values of a fresh clone with the job's images, the upgrade,
\* and the wait for the deployments. A Lens deployment touches no component here.
upgrade(j) ==
    LET job == jobs[j]
        asked == {c \in Remote : job.asked[c] # None}
        done == \/ Becomes(j, "remote", IF asked = {} THEN {} ELSE Clusters)
                \/ Breaks /\ Becomes(j, "failed", {})
    IN  /\ job.wl = "upgrade"
        /\ \/ /\ live' = IF Lens(j) THEN live
                         ELSE [c \in Components |-> IF c = "node_agent" THEN live[c]
                                                    ELSE IF job.cfg.img[c] = None THEN Chart ELSE job.cfg.img[c]]
              /\ done
           \/ Breaks /\ Becomes(j, "failed", {}) /\ UNCHANGED live
        /\ UNCHANGED remote /\ ScriptStep

\* Step 4, one cluster: the node agent's chart, whose failure is passed over, and
\* the runners, whose own image is written whichever of the two was asked for.
updateCluster(j, k) ==
    LET job == jobs[j]
        cicd == \E c \in Cicd : job.asked[c] # None
        runners == [remote[k] EXCEPT
            !["cicd_runner"] = IF cicd THEN job.asked["cicd_runner"] ELSE @,
            !["cicd_unified_job"] = IF job.asked["cicd_unified_job"] # None THEN job.asked["cicd_unified_job"] ELSE @]
        agent == IF job.asked["node_agent"] # None THEN job.asked["node_agent"] ELSE remote[k]["node_agent"]
    IN  /\ job.wl = "remote" /\ k \in job.todo
        /\ \/ /\ remote' = [remote EXCEPT ![k] = [runners EXCEPT !["node_agent"] = agent]]
              /\ Becomes(j, "remote", job.todo \ {k})
           \/ /\ Breaks /\ remote' \in {remote, [remote EXCEPT ![k] = runners]}
              /\ Becomes(j, "remote", job.todo \ {k})
           \/ /\ Breaks /\ job.asked["node_agent"] # None
              /\ Becomes(j, "failed", {}) /\ UNCHANGED remote
        /\ UNCHANGED live /\ ScriptStep

Ends(j) ==
    /\ jobs[j].wl = "remote" /\ jobs[j].todo = {} /\ Becomes(j, "succeeded", {})
    /\ UNCHANGED <<live, remote>> /\ ScriptStep

-----------------------------------------------------------------------------
\* The controller in the API server: one worker, which reads the job and the
\* row, records a snapshot of a job that succeeded, and writes the status.

\* If the row cannot be read the event is dropped.
Reconcile(j) ==
    /\ cds.at = "idle" /\ j \in cds.queue /\ Seen(j)
    /\ \/ /\ cds' = [at |-> "record", queue |-> cds.queue \ {j}, job |-> j, phase |-> jobs[j].phase,
                      row |-> Row(jobs[j].req)]
          /\ UNCHANGED left
       \/ Spend("calls") /\ cds' = [cds EXCEPT !.queue = @ \ {j}]
    /\ UNCHANGED <<reqs, snaps, jobs, hands, live, remote>>

StatusOf(phase) == CASE phase \in {"pending", "running"} -> "deploying"
                     [] phase = "succeeded" -> "deployed"
                     [] phase = "failed" -> "failed"

Quiet(queue) == [at |-> "idle", queue |-> queue, job |-> 0, phase |-> "", row |-> Idle.row]

\* The snapshot is recorded before the status is looked at; a failed update of
\* the row is tried again, with another snapshot.
record ==
    LET i == jobs[cds.job].req
        same == cds.phase = "" \/ cds.row.status = StatusOf(cds.phase)
        snap(readable) == IF cds.phase = "succeeded" THEN Append(snaps, Snapshot(i, readable)) ELSE snaps
    IN  /\ cds.at = "record"
        /\ \/ /\ snaps' = snap(TRUE)
              /\ IF same THEN UNCHANGED reqs ELSE Store(i, [cds.row EXCEPT !.status = StatusOf(cds.phase)])
              /\ cds' = Quiet(cds.queue) /\ UNCHANGED left
           \/ /\ ~same /\ Spend("calls") /\ snaps' = snap(TRUE) /\ UNCHANGED reqs
              /\ cds' = Quiet(cds.queue \cup {cds.job})
           \/ /\ cds.phase = "succeeded" /\ Spend("calls")
              /\ snaps' \in {snaps, snap(FALSE)}
              /\ IF same THEN UNCHANGED reqs ELSE Store(i, [cds.row EXCEPT !.status = StatusOf(cds.phase)])
              /\ cds' = Quiet(cds.queue)
        /\ UNCHANGED <<jobs, hands, live, remote>>

\* The API server starts anew: its requests are cut off, every job is an event again.
Restart ==
    /\ Spend("restarts")
    /\ hands' = [u \in Users |-> Idle]
    /\ cds' = Quiet(DOMAIN jobs)
    /\ UNCHANGED <<reqs, snaps, jobs, live, remote>>

-----------------------------------------------------------------------------
Init ==
    /\ reqs = <<>> /\ snaps = <<>> /\ jobs = <<>>
    /\ hands = [u \in Users |-> Idle]
    /\ cds = Quiet({})
    /\ live = [c \in Components |-> Chart]
    /\ remote = [k \in Clusters |-> [c \in Remote |-> Chart]]
    /\ left = [calls |-> Calls, restarts |-> Restarts]

Request ==
    \/ \E a \in Asks : createDeploymentRequest(a)
    \/ \E u \in Users, i \in DOMAIN reqs : Rollback(u, i) \/ retryDeployment(u, i) \/ Approve(u, i) \/ Reject(u, i)

Manager == \E j \in DOMAIN jobs : handle(j) \/ handleWorkloadEvent(j) \/ timeout(j)

Script ==
    \E j \in DOMAIN jobs :
        Starts(j) \/ upgrade(j) \/ Ends(j) \/ \E k \in Clusters : updateCluster(j, k)

Handler == \E u \in Users : approveDeploymentRequest(u)
Worker == (\E j \in DOMAIN jobs : Reconcile(j)) \/ record

Next == Request \/ Handler \/ Manager \/ Script \/ Worker \/ Restart

Spec == Init /\ [][Next]_vars

-----------------------------------------------------------------------------
Image == {None, Chart} \cup {<<n, t>> : n \in {ImageName[c] : c \in Components} \cup {"own"}, t \in 1 .. 2}
Config == [img : [Components -> Image \ {Chart}], env : 0 .. 2]
Status == {"pending_approval", "approved", "deploying", "deployed", "failed", "rejected", "cancelled"}

\* The values of the variables.
TypeOK ==
    /\ \A i \in DOMAIN reqs : reqs[i].status \in Status /\ reqs[i].cfg \in Config /\ reqs[i].job \in 0 .. Len(jobs)
    /\ \A k \in DOMAIN snaps : snaps[k].req \in DOMAIN reqs /\ snaps[k].cfg \in Config
    /\ \A j \in DOMAIN jobs : jobs[j].phase \in {"", "pending", "running", "succeeded", "failed"}
    /\ cds.queue \subseteq DOMAIN jobs
    /\ live \in [Components -> Image] /\ remote \in [Clusters -> [Remote -> Image]]

JobsOf(i) == {j \in DOMAIN jobs : jobs[j].req = i}

\* A request that is reported as deployed was deployed, and so was what a snapshot records.
DeployedIsReal ==
    /\ \A i \in DOMAIN reqs : reqs[i].status = "deployed" => \E j \in JobsOf(i) : jobs[j].wl = "succeeded"
    /\ \A k \in DOMAIN snaps : \E j \in JobsOf(snaps[k].req) : jobs[j].wl = "succeeded"

AllDone == \A i \in DOMAIN reqs : ~Busy(i)
Rests == AllDone /\ cds = Quiet({}) /\ \A j \in DOMAIN jobs : Ended(jobs[j].wl) /\ jobs[j].told = jobs[j].wl
LastSafe == {j \in DOMAIN jobs : ~Lens(j) /\ \A k \in DOMAIN jobs : Lens(k) \/ k <= j}

\* When nothing is under way and the last deployment succeeded, the components
\* run with the images and the file the latest snapshot records.
SnapshotIsLive ==
    Rests => \A j \in LastSafe : jobs[j].wl = "succeeded" =>
        /\ jobs[j].cfg.env = Latest("safe").env
        /\ \A c \in Components \ {"node_agent"} :
               live[c] = IF Latest("safe").img[c] = None THEN Chart ELSE Latest("safe").img[c]

\* A rollback that was deployed brings back every image of the request it goes back to.
RollbackRestores ==
    Rests => \A j \in LastSafe : LET i == jobs[j].req IN
        reqs[i].status = "deployed" /\ reqs[i].back # 0 =>
            \A k \in DOMAIN snaps, c \in Components :
                snaps[k].req = reqs[i].back /\ snaps[k].cfg.img[c] # None /\ c # "node_agent"
                    => live[c] = snaps[k].cfg.img[c]

\* Runners keep an image, unless someone asked for the unified job without the runner.
RunnersHaveImages ==
    (\A i \in DOMAIN reqs : reqs[i].cfg.img["cicd_unified_job"] # None => reqs[i].cfg.img["cicd_runner"] # None)
        => \A k \in Clusters, c \in Cicd : remote[k][c] # None

Approved(i) == i \in DOMAIN reqs /\ reqs[i].status \in {"approved", "deploying"}
Settled(i) == i \in DOMAIN reqs /\ reqs[i].status \in {"deployed", "failed"}
=============================================================================

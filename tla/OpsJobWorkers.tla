--------------------------- MODULE OpsJobWorkers ----------------------------
(***************************************************************************)
(* The ops jobs that the resource manager does itself: warming an image up *)
(* with a DaemonSet, exporting the image of a container over ssh, and      *)
(* rebooting nodes.  The first two are done by a worker that the           *)
(* reconciler gives the job to, the third by the reconciler.               *)
(***************************************************************************)
EXTENDS Integers, FiniteSets

CONSTANTS
    Kind,           \* "prewarm", "export" or "reboot"
    Nodes,          \* nodes to reboot
    Lag,            \* whether the cache may lag behind the reconciler's own writes
    MaxRestarts,    \* bound: restarts of the resource manager
    MaxFailures     \* bound: calls to nodes and data planes that fail

VARIABLES
    job,        \* the job: state, phase, finished, age and the nodes in its outputs
    queued,     \* whether it is to be reconciled (periodic requeues included)
    timer,      \* whether it will be at its timeout
    worker,     \* the worker's place in Do
    todo,       \* the nodes that the reconciler is about to reboot
    ds,         \* the DaemonSet: none, there, ready, kept for a deletion that failed
    local,      \* whether the node holds the committed image
    pushed,     \* whether the registry holds it
    sent,       \* what became of the command to reboot a node: taken, carried out, cut off
    boots,      \* how often each node was rebooted
    seen,       \* the outputs as the cache has them
    left

vars == <<job, queued, timer, worker, todo, ds, local, pushed, sent, boots, seen, left>>

Spend(what) == left[what] > 0 /\ left' = [left EXCEPT ![what] = @ - 1]

\* new: the grace periods have not passed; expired: the time for warming up has passed;
\* late: the timeout of the job has.
Ages == {"new", "old", "expired", "late"}
Older(a) == CASE a = "new" -> "old" [] a = "old" -> "expired" [] OTHER -> "late"
IsEnd == job.finished \/ job.state # "live"

World == <<ds, local, pushed, sent, boots, seen, todo>>

-----------------------------------------------------------------------------
(* API server.                                                              *)

\* The request is refused, or gives a job; the node, image, workload and workspace
\* that it names are in the inputs.
generateRebootJob == {"accepted", "refused"}
generateExportImageJob == {"accepted", "refused"}
generatePrewarmImageJob == {"accepted", "refused"}

createOpsJob ==
    /\ job.state = "none"
    /\ "accepted" \in CASE Kind = "reboot" -> generateRebootJob
                        [] Kind = "export" -> generateExportImageJob
                        [] OTHER -> generatePrewarmImageJob
    /\ job' = [job EXCEPT !.state = "live"] /\ queued' = TRUE
    /\ UNCHANGED <<timer, worker, World, left>>

\* A deletion, by a user or at the end of the TTL of a job that has finished.
DeleteOpsJob ==
    /\ job.state = "live"
    /\ job' = [job EXCEPT !.state = "deleting"] /\ queued' = TRUE
    /\ UNCHANGED <<timer, worker, World, left>>

-----------------------------------------------------------------------------
(* The base reconciler.                                                     *)

\* setJobCompleted: not if the phase is that already, and not once the job has gone.
setJobCompleted(phase) ==
    job' = IF job.phase = phase \/ job.state = "gone" THEN job ELSE [job EXCEPT !.phase = phase, !.finished = TRUE]

setJobPhase == job' = [job EXCEPT !.phase = "running"]

\* cleanupDaemonSet: an error is only logged.
cleanupDaemonSet == ds' = "none"

delete ==
    /\ job.state = "deleting"
    /\ job' = [job EXCEPT !.state = "gone", !.phase = IF job.finished THEN @ ELSE "failed", !.finished = TRUE]
    /\ IF Kind = "prewarm" THEN cleanupDaemonSet ELSE UNCHANGED ds
    /\ queued' = FALSE
    /\ UNCHANGED <<timer, worker, local, pushed, sent, boots, seen, todo, left>>

\* observe of the three: prewarm looks for the end, reboot also for nodes to do, and
\* export for nothing.
observe ==
    CASE Kind = "prewarm" -> IsEnd
      [] Kind = "reboot" -> IsEnd
      [] OTHER -> FALSE

\* getTheUnprocessedNodes, in the job that the cache has.
getTheUnprocessedNodes == Nodes \ seen

-----------------------------------------------------------------------------
(* Prewarm.                                                                 *)

\* Mutant of checkAndUpdateJobStatus: the DaemonSet of a success is not deleted.
checkKeeping ==
    /\ \/ /\ ds = "none" /\ job.age # "new" /\ setJobCompleted("failed") /\ queued' = FALSE /\ UNCHANGED ds
       \/ /\ ds = "none" /\ job.age = "new" /\ UNCHANGED <<job, queued, ds>>
       \/ /\ ds = "ready" /\ setJobCompleted("succeeded") /\ queued' = FALSE /\ UNCHANGED ds
       \/ /\ ds = "there" /\ UNCHANGED <<job, queued, ds>>
    /\ UNCHANGED left

\* checkAndUpdateJobStatus, with its own timeout, before which it looks again after a
\* while.
checkAndUpdateJobStatus ==
    \/ /\ ds = "none" /\ job.age # "new"
       /\ setJobCompleted("failed") /\ queued' = FALSE /\ UNCHANGED <<ds, left>>
    \/ /\ ds = "none" /\ job.age = "new"
       /\ UNCHANGED <<job, queued, ds, left>>
    \/ /\ ds # "none" /\ job.age = "expired"
       /\ ds' = "none" /\ setJobCompleted("failed") /\ queued' = FALSE /\ UNCHANGED left
    \/ /\ ds = "ready" /\ job.age # "expired"
       /\ ds' = "none" /\ setJobCompleted("succeeded") /\ queued' = FALSE /\ UNCHANGED left
    \/ /\ ds = "there" /\ job.age # "expired"
       /\ UNCHANGED <<job, queued, ds, left>>

\* The same, where the deletion of the DaemonSet fails, which is only logged.
deleteDaemonSetFails ==
    /\ ds # "none" /\ Spend("failures")
    /\ job.age = "expired" \/ ds = "ready"
    /\ setJobCompleted(IF job.age = "expired" THEN "failed" ELSE "succeeded")
    /\ queued' = FALSE /\ ds' = "kept"

\* The data plane has no client: tried again while the job is new.
clientIsMissing ==
    /\ Spend("failures")
    /\ IF job.age = "new" THEN UNCHANGED <<job, queued>> ELSE setJobCompleted("failed") /\ queued' = FALSE
    /\ UNCHANGED ds

\* Mutant of handlePrewarm: nothing looks at the job again.
handlePrewarmOnce ==
    /\ \/ /\ job.phase = ""
          /\ setJobPhase /\ worker' = "queued"
       \/ /\ job.phase # "" /\ UNCHANGED <<job, worker>>
    /\ queued' = FALSE
    /\ UNCHANGED <<timer, ds, local, pushed, sent, boots, seen, todo, left>>

handlePrewarm ==
    /\ \/ /\ job.phase = ""
          /\ setJobPhase /\ worker' = "queued"
          /\ UNCHANGED <<queued, ds, left>>
       \/ /\ job.phase = "running" /\ UNCHANGED worker
          /\ checkAndUpdateJobStatus \/ deleteDaemonSetFails \/ clientIsMissing
    /\ UNCHANGED <<timer, local, pushed, sent, boots, seen, todo>>

\* Mutant of Do: a job that is not found is an error, which is tried again.
DoRetries ==
    /\ \/ /\ worker = "queued" /\ IsEnd /\ job.state # "gone"
          /\ worker' = "idle"
       \/ /\ worker = "queued" /\ ~IsEnd
          /\ worker' = "create"
    /\ UNCHANGED <<job, queued, timer, ds, local, pushed, sent, boots, seen, todo, left>>

\* Do of prewarm: it reads the job and creates the DaemonSet.  It also looks for an older
\* one of that name, but no second call of Do comes that far for a job.
Do ==
    /\ Kind = "prewarm"
    /\ \/ /\ worker = "queued" /\ IsEnd
          /\ worker' = "idle" /\ UNCHANGED <<job, ds, left>>
       \/ /\ worker = "queued" /\ ~IsEnd
          /\ worker' = "create" /\ UNCHANGED <<job, ds, left>>
       \/ /\ worker = "queued" /\ ~IsEnd /\ Spend("failures")
          /\ IF job.age = "new" THEN UNCHANGED <<job, worker>> ELSE setJobCompleted("failed") /\ worker' = "idle"
          /\ UNCHANGED ds
       \/ /\ worker = "create" /\ Spend("failures")
          /\ setJobCompleted("failed") /\ worker' = "idle" /\ UNCHANGED ds
    /\ UNCHANGED <<queued, timer, local, pushed, sent, boots, seen, todo>>

createPrewarmDaemonSet ==
    /\ worker = "create" /\ ds = "none"
    /\ ds' = "there" /\ worker' = "idle"
    /\ UNCHANGED <<job, queued, timer, local, pushed, sent, boots, seen, todo, left>>

\* The image is on every node.
DaemonSetReady ==
    /\ ds = "there" /\ ds' = "ready"
    /\ UNCHANGED <<job, queued, timer, worker, local, pushed, sent, boots, seen, todo, left>>

-----------------------------------------------------------------------------
(* Export.                                                                  *)

\* Mutant of handleExport: the job is not given to a worker in the call that marks it.
handleExportLater ==
    /\ \/ /\ job.phase = ""
          /\ setJobPhase
       \/ /\ job.phase # "" /\ UNCHANGED job
    /\ queued' = FALSE
    /\ UNCHANGED <<timer, worker, World, left>>

\* handle of export: the job is given to a worker once.
handleExport ==
    /\ \/ /\ job.phase = ""
          /\ setJobPhase /\ worker' = "queued" /\ timer' = TRUE
       \/ /\ job.phase # "" /\ UNCHANGED <<job, worker, timer>>
    /\ queued' = FALSE
    /\ UNCHANGED <<World, left>>

\* What Do of export looks up first: each may be missing, which fails the job.
getContainerIDFromPod == {"commit", "failed"}
getHarborCredentials == {"commit", "failed"}
generateTargetImageName == {"commit", "failed"}
LookUp == getContainerIDFromPod \cup getHarborCredentials \cup generateTargetImageName

startExport ==
    /\ Kind = "export" /\ worker = "queued"
    /\ \/ /\ job.state = "gone"     \* Get fails, and the worker tries again
          /\ UNCHANGED <<job, worker>>
       \/ /\ job.state # "gone" /\ IsEnd
          /\ worker' = "idle" /\ UNCHANGED job
       \/ /\ ~IsEnd
          /\ \E r \in LookUp :
                IF r = "commit" THEN worker' = r /\ UNCHANGED job
                ELSE worker' = "idle" /\ setJobCompleted("failed")
    /\ UNCHANGED <<queued, timer, World, left>>

\* Mutant of exportImageViaSSH: the result of a push is not looked at.
exportImageUnchecked ==
    /\ \/ /\ worker = "commit" /\ local' = TRUE /\ worker' = "login" /\ UNCHANGED <<job, pushed, left>>
       \/ /\ worker = "login" /\ worker' = "push" /\ UNCHANGED <<job, local, pushed, left>>
       \/ /\ worker = "push" /\ (pushed' = TRUE \/ UNCHANGED pushed)
          /\ worker' = "deleteImage" /\ UNCHANGED <<job, local, left>>
       \/ /\ worker = "deleteImage" /\ local' = FALSE /\ worker' = "idle" /\ setJobCompleted("succeeded") /\ UNCHANGED <<pushed, left>>
    /\ UNCHANGED <<queued, timer, ds, sent, boots, seen, todo>>

\* exportImageViaSSH: commit, login, push, delete; only an error of the last is passed
\* over, and the image is not deleted after an error of another.
exportImageViaSSH ==
    /\ \/ /\ worker = "commit"
          /\ local' = TRUE /\ worker' = "login" /\ UNCHANGED <<job, pushed, left>>
       \/ /\ worker = "login"
          /\ worker' = "push" /\ UNCHANGED <<job, local, pushed, left>>
       \/ /\ worker = "push"
          /\ pushed' = TRUE /\ worker' = "deleteImage" /\ UNCHANGED <<job, local, left>>
       \/ /\ worker = "deleteImage"
          /\ local' = FALSE /\ worker' = "idle" /\ setJobCompleted("succeeded") /\ UNCHANGED <<pushed, left>>
       \/ /\ worker \in {"commit", "login", "push"} /\ Spend("failures")
          /\ worker' = "idle" /\ setJobCompleted("failed") /\ UNCHANGED <<local, pushed>>
       \/ /\ worker = "deleteImage" /\ Spend("failures")
          /\ worker' = "idle" /\ setJobCompleted("succeeded") /\ UNCHANGED <<local, pushed>>
    /\ UNCHANGED <<queued, timer, ds, sent, boots, seen, todo>>

-----------------------------------------------------------------------------
(* Reboot.                                                                  *)

\* Mutant of handleReboot: the job is not looked at again after the commands.
handleRebootOnce ==
    /\ \/ /\ job.phase = ""
          /\ setJobPhase /\ UNCHANGED <<todo, queued>>
       \/ /\ job.phase # "" /\ todo' = getTheUnprocessedNodes
          /\ queued' = FALSE /\ UNCHANGED job
    /\ UNCHANGED <<timer, worker, ds, local, pushed, sent, boots, seen, left>>

\* handle of reboot: the nodes found when it begins are done one after the other, all
\* of it within one reconcile.
handleReboot ==
    /\ \/ /\ job.phase = ""
          /\ setJobPhase /\ UNCHANGED todo
       \/ /\ job.phase # "" /\ todo' = getTheUnprocessedNodes
          /\ UNCHANGED job
    /\ UNCHANGED <<queued, timer, worker, ds, local, pushed, sent, boots, seen, left>>

Rebooting == todo # {}

\* The job succeeds once every node is in the outputs.
observeDone ==
    /\ Nodes \subseteq seen
    /\ setJobCompleted("succeeded") /\ queued' = FALSE
    /\ UNCHANGED <<timer, worker, World, left>>

\* executeRebootCommand: the node takes the command, and an error of any other call before
\* it or of the command ends the job.  A connection that is lost while the command runs
\* counts as a reboot (isExpectedRebootDisconnect), whether or not the node goes on with it.
executeRebootCommand(n) ==
    /\ n \in todo /\ worker = "idle"
    /\ \/ /\ sent' = [sent EXCEPT ![n] = "taken"] /\ worker' = n
          /\ UNCHANGED <<job, todo, left>>
       \/ /\ \E r \in {"taken", "cut"} : sent' = [sent EXCEPT ![n] = r]
          /\ worker' = n /\ Spend("failures") /\ UNCHANGED <<job, todo>>
       \/ /\ sent' \in {sent, [sent EXCEPT ![n] = "taken"]}
          /\ Spend("failures") /\ setJobCompleted("failed") /\ todo' = {} /\ UNCHANGED worker
    /\ UNCHANGED <<boots, seen>>

\* Mutant of setJobOutput: what was done is not noted.
setJobOutputNot(n) ==
    /\ worker = n /\ worker' = "idle"
    /\ todo' = todo \ {n}
    /\ UNCHANGED <<job, seen, sent, boots, left>>

\* setJobOutput: the update of a job that the cache has not caught up with is refused,
\* which fails the job.
setJobOutput(n) ==
    /\ worker = n /\ worker' = "idle"
    /\ IF job.state = "gone" \/ seen # job.outputs
       THEN setJobCompleted("failed") /\ todo' = {} /\ UNCHANGED seen
       ELSE /\ job' = [job EXCEPT !.outputs = @ \cup {n}]
            /\ seen' = IF Lag THEN seen ELSE seen \cup {n}
            /\ todo' = todo \ {n}
    /\ UNCHANGED <<sent, boots, left>>

execReboot(n) ==
    /\ executeRebootCommand(n) \/ setJobOutput(n)
    /\ UNCHANGED <<queued, timer, ds, local, pushed>>

\* The node goes down and comes back.
Reboots(n) ==
    /\ sent[n] = "taken"
    /\ sent' = [sent EXCEPT ![n] = "done"] /\ boots' = [boots EXCEPT ![n] = @ + 1]
    /\ UNCHANGED <<job, queued, timer, worker, ds, local, pushed, seen, todo, left>>

\* The cache catches up.
Sync ==
    /\ seen # job.outputs /\ seen' = job.outputs
    /\ UNCHANGED <<job, queued, timer, worker, ds, local, pushed, sent, boots, todo, left>>

-----------------------------------------------------------------------------

handle ==
    CASE Kind = "prewarm" -> handlePrewarm
      [] Kind = "export" -> handleExport
      [] OTHER -> handleReboot

Reconcile ==
    /\ queued /\ ~Rebooting /\ job.state # "none"
    /\ \/ delete
       \/ /\ job.state = "live" /\ observe
          /\ queued' = FALSE /\ UNCHANGED <<job, timer, worker, World, left>>
       \/ /\ job.state = "live" /\ Kind = "reboot" /\ ~observe /\ observeDone
       \/ /\ job.state = "live" /\ ~observe /\ job.age = "late"
          /\ Kind = "reboot" => ~(Nodes \subseteq seen)
          /\ setJobCompleted("failed") /\ queued' = FALSE
          /\ UNCHANGED <<timer, worker, World, left>>
       \/ /\ job.state = "live" /\ ~observe /\ job.age # "late"
          /\ Kind = "reboot" => ~(Nodes \subseteq seen)
          /\ handle

GrowsOld ==
    /\ job.state = "live" /\ job.age # "late"
    /\ job' = [job EXCEPT !.age = Older(@)]
    /\ queued' = (queued \/ (timer /\ job.age = "expired"))
    /\ UNCHANGED <<timer, worker, World, left>>

\* A restart, also between a command and the note of it.
Restart ==
    /\ Spend("restarts")
    /\ worker' = "idle" /\ todo' = {} /\ timer' = FALSE
    /\ queued' = (job.state \in {"live", "deleting"})
    /\ seen' = job.outputs
    /\ UNCHANGED <<job, ds, local, pushed, sent, boots>>

Init ==
    /\ job = [state |-> "none", phase |-> "", finished |-> FALSE, age |-> "new", outputs |-> {}]
    /\ queued = FALSE /\ timer = FALSE /\ worker = "idle"
    /\ ds = "none" /\ local = FALSE /\ pushed = FALSE
    /\ sent = [n \in Nodes |-> "no"] /\ boots = [n \in Nodes |-> 0] /\ seen = {} /\ todo = {}
    /\ left = [restarts |-> MaxRestarts, failures |-> MaxFailures]

Work == Do \/ createPrewarmDaemonSet \/ startExport \/ exportImageViaSSH \/ \E n \in Nodes : execReboot(n)

Next ==
    \/ createOpsJob \/ DeleteOpsJob \/ Reconcile \/ Work \/ DaemonSetReady \/ Sync \/ (\E n \in Nodes : Reboots(n)) \/ GrowsOld \/ Restart

Spec == Init /\ [][Next]_vars

-----------------------------------------------------------------------------
(* Properties.                                                              *)

\* Types of the variables.
TypeOK ==
    /\ job.state \in {"none", "live", "deleting", "gone"} /\ job.age \in Ages
    /\ job.phase \in {"", "running", "succeeded", "failed"} /\ job.outputs \subseteq Nodes /\ seen \subseteq Nodes
    /\ worker \in {"idle", "queued", "create", "commit", "login", "push", "deleteImage"} \cup todo /\ todo \subseteq Nodes
    /\ ds \in {"none", "there", "ready", "kept"} /\ {queued, timer, local, pushed, job.finished} \subseteq BOOLEAN
    /\ sent \in [Nodes -> {"no", "taken", "done", "cut"}] /\ boots \in [Nodes -> 0..1 + MaxRestarts]

\* What a job that succeeded reports is true: the image is in the registry, and every node
\* is rebooting or has done so, or lost the connection to the command that told it to.
SuccessIsReal ==
    job.phase = "succeeded" =>
      /\ Kind = "export" => pushed
      /\ Kind = "reboot" => \A n \in Nodes : sent[n] # "no"

\* No node is rebooted twice by a job.
RebootOnce == \A n \in Nodes : boots[n] <= 1

\* A job that has warmed an image up has no DaemonSet left, unless the deletion of it failed.
SuccessIsClean == Kind = "prewarm" /\ job.phase = "succeeded" => ds \in {"none", "kept"}
=============================================================================

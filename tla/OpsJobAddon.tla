----------------------------- MODULE OpsJobAddon -----------------------------
(***************************************************************************)
(* Ops jobs that install addons on nodes.  A job passes the webhooks, is   *)
(* kept in memory with the phase of each node, and is worked on in batches *)
(* by goroutines that taint a node by a fault, run scripts over ssh and    *)
(* delete the fault, which lasts until the fault controller has lifted the *)
(* taint.  Meanwhile nodes leave the cluster, workloads come and go, the   *)
(* job times out or is deleted, calls fail and the process restarts.       *)
(***************************************************************************)
EXTENDS Integers, Sequences, FiniteSets, SequencesExt

CONSTANTS
    Node, Job,
    BatchCount,     \* nodes of a job that are worked on at a time
    Security,       \* whether jobs respect the workloads on a node
    MaxInputs,      \* bound: inputs of a job
    MaxTries,       \* bound: times a script is run in one batch
    MaxFails,       \* bound: scripts, connections and calls that fail
    MaxMisses,      \* bound: cleanups that fail or miss a fault
    MaxRemoved,     \* bound: nodes that leave the cluster
    MaxWork,        \* bound: workloads that start
    MaxRestarts     \* bound: restarts of the resource manager

VARIABLES
    job,        \* the jobs, as stored
    allJobs,    \* in memory: the phase of each node of a job, once it is taken up
    batch,      \* the batch a job's worker is busy with
    fault,      \* the job whose fault taints a node
    going,      \* the nodes whose fault is being deleted, or is gone and still cached
    using,      \* the nodes workloads run on
    removed,    \* the nodes that have left the cluster
    queue,      \* jobs to reconcile
    timer,      \* in memory: jobs that will be reconciled at their timeout
    left

vars == <<job, allJobs, batch, fault, going, using, removed, queue, timer, left>>

None == "none"
NodePhase == {"pending", "succeeded", "failed"}
Results == {"none", "held", "late", "ok", "nothing", "inuse", "script", "net"}
JobRecord == [state : {"new", "live", "deleting", "gone"}, finished : BOOLEAN, timeout : BOOLEAN,
              phase : {"", "running", "succeeded", "failed"}]
Spend(what) == left[what] > 0 /\ left' = [left EXCEPT ![what] = @ - 1]
Live(j) == job[j].state = "live"
IsEnd(j) == job[j].finished \/ job[j].state # "live"

-----------------------------------------------------------------------------
(* Webhooks.                                                                *)

\* removeDuplicates: an input is dropped if it equals the last one of its name.
removeDuplicates(inputs) ==
    LET Keep(kept, n) == IF kept # <<>> /\ Last(kept) = n THEN kept ELSE Append(kept, n)
    IN  FoldLeft(Keep, <<>>, inputs)

\* filterUnhealthyNodes: nodes that are gone, and tainted ones unless tolerated; some of
\* the taints that are to go are lifted already.
filterUnhealthyNodes(inputs, tolerate, lifted) ==
    SelectSeq(inputs, LAMBDA n : n \notin removed /\ (tolerate \/ fault[n] = None \/ n \in lifted))

\* hasDuplicateInput: of the first list only the last value of a name is kept.
hasDuplicateInput(inputs, others) == inputs # <<>> /\ Last(inputs) \in Range(others)

\* validateNodeDuplicated: no other job that has not ended has such a node.
validateNodeDuplicated(j, inputs) ==
    \A k \in Job \ {j} : job[k].state # "new" /\ ~IsEnd(k) => ~hasDuplicateInput(inputs, job[k].inputs)

\* A user creates a job for some nodes.
createJob(j) ==
    /\ job[j].state = "new"
    /\ \E wanted \in UNION {[1 .. k -> Node] : k \in 1 .. MaxInputs}, tolerate \in BOOLEAN, lifted \in SUBSET going :
         LET inputs == filterUnhealthyNodes(removeDuplicates(wanted), tolerate, lifted)
         IN  /\ inputs # <<>>
             /\ validateNodeDuplicated(j, inputs)
             /\ job' = [job EXCEPT ![j] = [state |-> "live", finished |-> FALSE, timeout |-> FALSE,
                                           phase |-> "", inputs |-> inputs]]
    /\ queue' = queue \cup {j}
    /\ UNCHANGED <<allJobs, batch, fault, going, using, removed, left, timer>>

deleteJob(j) ==
    /\ Live(j)
    /\ job' = [job EXCEPT ![j].state = "deleting"]
    /\ queue' = queue \cup {j}
    /\ UNCHANGED <<allJobs, batch, fault, going, using, removed, left, timer>>

\* deleteExpiredJob: the TTL of a finished job has passed.
deleteExpiredJob(j) ==
    /\ Live(j) /\ job[j].finished
    /\ job' = [job EXCEPT ![j].state = "deleting"]
    /\ queue' = queue \cup {j}
    /\ UNCHANGED <<allJobs, batch, fault, going, using, removed, left, timer>>

-----------------------------------------------------------------------------
(* The nodes.                                                               *)

\* A workload is placed on a node without a taint.
WorkStarts(n) ==
    /\ n \notin using \cup removed /\ (fault[n] = None \/ n \in going)
    /\ Spend("work")
    /\ using' = using \cup {n}
    /\ UNCHANGED <<job, allJobs, batch, fault, going, removed, queue, timer>>

\* handleWorkloadEvent: jobs that wait for a node are woken.
WorkEnds(n) ==
    /\ n \in using
    /\ using' = using \ {n}
    /\ queue' = IF Security THEN queue \cup {j \in Job : Live(j) /\ ~job[j].finished} ELSE queue
    /\ UNCHANGED <<job, allJobs, batch, fault, going, removed, left, timer>>

\* setNodePhase: a node that has ended keeps its phase.
Open(j, n) == allJobs[j] # <<>> /\ n \in DOMAIN allJobs[j] /\ allJobs[j][n] = "pending"
setNodePhase(j, nodes, phase) ==
    [n \in DOMAIN allJobs[j] |-> IF n \in nodes /\ allJobs[j][n] = "pending" THEN phase ELSE allJobs[j][n]]

\* deleteFault, and the end of a fault, whose taint the fault controller has lifted.
deleteFault(n) == going' = IF fault[n] = None THEN going ELSE going \cup {n}
FaultGone(n) ==
    /\ n \in going
    /\ going' = going \ {n} /\ fault' = [fault EXCEPT ![n] = None]
    /\ UNCHANGED <<job, allJobs, batch, using, removed, queue, timer, left>>

\* handleNodeRemovedEvent: the node fails for the jobs that have it open; its fault is
\* deleted, or stays if that call fails.
handleNodeRemovedEvent(n) ==
    LET hit == {j \in Job : ~IsEnd(j) /\ Open(j, n)}
    IN  /\ n \notin removed /\ Spend("removed")
        /\ removed' = removed \cup {n}
        /\ allJobs' = [j \in Job |-> IF j \in hit THEN setNodePhase(j, {n}, "failed") ELSE allJobs[j]]
        /\ (hit # {} /\ deleteFault(n)) \/ UNCHANGED going
        /\ queue' = queue \cup hit
        /\ using' = using \ {n}
        /\ UNCHANGED <<job, batch, fault, timer>>

-----------------------------------------------------------------------------
(* AddonJobReconciler.                                                      *)

\* getJobPhase, with the failures that are tolerated, of which one is too many.
getJobPhase(j) ==
    LET nodes == allJobs[j]
        Count(phase) == Cardinality({n \in DOMAIN nodes : nodes[n] = phase})
    IN  IF nodes = <<>> THEN "pending"
        ELSE IF Count("failed") >= 1 THEN "failed"
        ELSE IF Count("failed") + Count("succeeded") >= Cardinality(DOMAIN nodes) THEN "succeeded"
        ELSE "running"

\* setJobCompleted.
setJobCompleted(j, phase) == job' = [job EXCEPT ![j].phase = phase, ![j].finished = TRUE]

\* The end of a job that is deleted.
Stopped(j) == IF job[j].finished THEN job[j].phase ELSE "failed"
Owned(j) == {n \in Node : fault[n] = j}

\* CleanupJobRelatedResource: the listed faults of the job are deleted; one whose deletion
\* fails, and one that the cache does not show yet, is left.
CleanupJobRelatedResource(j) ==
    \/ going' = going \cup Owned(j) /\ UNCHANGED left
    \/ \E missed \in SUBSET Owned(j) :
         missed # {} /\ Spend("misses") /\ going' = going \cup (Owned(j) \ missed)

\* Mutant of delete: the faults of the job stay.
deleteKeepFaults(j) ==
    /\ job' = [job EXCEPT ![j].state = "gone", ![j].finished = TRUE, ![j].phase = Stopped(j)]
    /\ allJobs' = [allJobs EXCEPT ![j] = <<>>]
    /\ queue' = queue \ {j}
    /\ UNCHANGED <<fault, going, batch, timer, left>>

\* delete, with CleanupJobRelatedResource and removeJob; a list that fails leaves the
\* job to be tried again.
delete(j) ==
    /\ \/ /\ job' = [job EXCEPT ![j].state = "gone", ![j].finished = TRUE, ![j].phase = Stopped(j)]
          /\ CleanupJobRelatedResource(j)
          /\ allJobs' = [allJobs EXCEPT ![j] = <<>>]
          /\ queue' = queue \ {j}
       \/ /\ job' = [job EXCEPT ![j].finished = TRUE, ![j].phase = Stopped(j)]
          /\ Spend("misses") /\ UNCHANGED <<allJobs, queue, going>>
    /\ UNCHANGED <<fault, batch, timer>>

\* addJob: the nodes that exist; without any the job fails.
addJob(j) ==
    LET nodes == Range(job[j].inputs) \ removed
    IN  IF nodes = {}
        THEN /\ setJobCompleted(j, "failed") /\ queue' = queue \ {j}
             /\ UNCHANGED <<allJobs, batch, fault, timer>>
        ELSE /\ allJobs' = [allJobs EXCEPT ![j] = [n \in nodes |-> "pending"]]
             /\ job' = [job EXCEPT ![j].phase = "running"]
             /\ timer' = IF job[j].phase = "" THEN timer \cup {j} ELSE timer
             /\ UNCHANGED <<batch, fault, queue>>

\* Some targets of a batch: as many of the nodes that wait as fit.  (The code takes
\* the first of them by name.)
Targets(j) ==
    LET pending == {n \in DOMAIN allJobs[j] : allJobs[j][n] = "pending"}
    IN  {t \in SUBSET pending :
           Cardinality(t) = IF Cardinality(pending) < BatchCount THEN Cardinality(pending) ELSE BatchCount}

\* handleNodes starts: the nodes in use are listed before any is tainted.
Begin(j) ==
    \E t \in Targets(j) :
      /\ batch' = [batch EXCEPT ![j] = [using |-> IF Security THEN using ELSE {}, tries |-> 0,
                                        result |-> [n \in t |-> "none"]]]
      /\ queue' = queue \ {j}
      /\ UNCHANGED <<job, allJobs, fault, timer>>

\* observe: whether there is nothing to do but, perhaps, to note the end.
observe(j) == IsEnd(j) \/ getJobPhase(j) \in {"failed", "succeeded"}

Reconcile(j) ==
    /\ j \in queue /\ batch[j] = <<>>
    /\ \/ /\ job[j].state = "deleting" /\ delete(j)
       \/ /\ job[j].state # "deleting" /\ observe(j)
          /\ IF IsEnd(j) THEN UNCHANGED job ELSE setJobCompleted(j, getJobPhase(j))
          /\ queue' = queue \ {j}
          /\ UNCHANGED <<allJobs, batch, fault, going, timer, left>>
       \/ /\ Live(j) /\ ~observe(j) /\ job[j].timeout
          /\ setJobCompleted(j, "failed") /\ queue' = queue \ {j}
          /\ UNCHANGED <<allJobs, batch, fault, going, timer, left>>
       \/ /\ Live(j) /\ ~observe(j) /\ ~job[j].timeout
          /\ IF allJobs[j] = <<>> THEN addJob(j) ELSE Begin(j)
          /\ UNCHANGED <<going, left>>
    /\ UNCHANGED <<using, removed>>

\* backoff.Retry calls handleNode, and again after any error, for a while.
Due(j, n) ==
    /\ batch[j] # <<>> /\ n \in DOMAIN batch[j].result
    /\ \/ batch[j].result[n] = "none"
       \/ batch[j].result[n] \in {"script", "net"} /\ batch[j].tries < MaxTries

\* createFault: a fault that is there will do, be it another job's or one that is being
\* deleted.
createFault(j, n) ==
    /\ Due(j, n) /\ n \notin removed
    /\ batch' = [batch EXCEPT ![j].result[n] = IF n \in going THEN "late" ELSE "held"]
    /\ fault' = [fault EXCEPT ![n] = IF @ = None THEN j ELSE @]
    /\ UNCHANGED <<job, allJobs, going, using, removed, queue, left, timer>>

\* getAdminNode finds no node, or a call before the fault is there fails.
NotReached(j, n) ==
    /\ Due(j, n)
    /\ (n \in removed /\ UNCHANGED left) \/ (n \notin removed /\ Spend("fails"))
    /\ batch' = [batch EXCEPT ![j].result[n] = "net", ![j].tries = @ + 1]
    /\ UNCHANGED <<job, allJobs, fault, going, using, removed, queue, timer>>

\* handleNode: a node in use waits; a script that does something has its fault deleted at
\* its end; a node for which there is nothing to do is done as well.
handleNode(j, n, result) ==
    /\ batch' = [batch EXCEPT ![j].result[n] = result,
                              ![j].tries = IF result \in {"script", "net"} THEN @ + 1 ELSE @]
    /\ IF result = "ok" THEN deleteFault(n) ELSE UNCHANGED going
    /\ allJobs' = IF result \in {"ok", "nothing"} /\ allJobs[j] # <<>>
                  THEN [allJobs EXCEPT ![j] = setNodePhase(j, {n}, "succeeded")] ELSE allJobs

\* The rest of handleNode: the script, the note in the node and the fault's deletion.
Work(j, n) ==
    /\ batch[j] # <<>> /\ n \in DOMAIN batch[j].result /\ batch[j].result[n] \in {"held", "late"}
    /\ IF n \in batch[j].using THEN handleNode(j, n, "inuse") /\ UNCHANGED left
       ELSE \/ \E result \in {"ok", "nothing"} : handleNode(j, n, result) /\ UNCHANGED left
            \/ n \in removed /\ handleNode(j, n, "net") /\ UNCHANGED left
            \/ \E result \in {"script", "net"} : handleNode(j, n, result) /\ Spend("fails")
    /\ UNCHANGED <<job, fault, using, removed, queue, timer>>

\* The errors a goroutine may find: its own, or what another one has
\* written to the variable they share.
Failed(result, m) == result[m] \in {"script", "net"}
Seen(result) == {Failed(result, m) : m \in DOMAIN result}

\* Mutant of End: the job is not due again.
EndOnce(j) ==
    /\ batch[j] # <<>>
    /\ LET result == batch[j].result IN
       /\ \A n \in DOMAIN result : result[n] \notin {"none", "held", "late"}
       /\ \E error \in [DOMAIN result -> BOOLEAN] :
            /\ \A n \in DOMAIN result : error[n] \in Seen(result)
            /\ allJobs' = IF allJobs[j] = <<>> THEN allJobs
                          ELSE [allJobs EXCEPT ![j] =
                                  setNodePhase(j, {n \in DOMAIN result : error[n]}, "failed")]
    /\ batch' = [batch EXCEPT ![j] = <<>>]
    /\ UNCHANGED <<job, fault, going, using, removed, queue, left, timer>>

\* The batch ends: a goroutine that finds an error lets its node fail.  The job is
\* due again.
End(j) ==
    /\ batch[j] # <<>>
    /\ LET result == batch[j].result IN
       /\ \A n \in DOMAIN result : result[n] \notin {"none", "held", "late"}
       /\ \E error \in [DOMAIN result -> BOOLEAN] :
            /\ \A n \in DOMAIN result : error[n] \in Seen(result)
            /\ allJobs' = IF allJobs[j] = <<>> THEN allJobs
                          ELSE [allJobs EXCEPT ![j] =
                                  setNodePhase(j, {n \in DOMAIN result : error[n]}, "failed")]
    /\ batch' = [batch EXCEPT ![j] = <<>>]
    /\ queue' = queue \cup {j}
    /\ UNCHANGED <<job, fault, going, using, removed, left, timer>>

\* TimeoutSecond of a job passes.
TimesOut(j) ==
    /\ Live(j) /\ ~job[j].timeout
    /\ job' = [job EXCEPT ![j].timeout = TRUE]
    /\ queue' = IF j \in timer THEN queue \cup {j} ELSE queue
    /\ timer' = timer \ {j}
    /\ UNCHANGED <<allJobs, batch, fault, going, using, removed, left>>

\* A restart: what is in memory is lost, and every job is seen as created.
Restart ==
    /\ Spend("restarts")
    /\ allJobs' = [j \in Job |-> <<>>]
    /\ batch' = [j \in Job |-> <<>>]
    /\ timer' = {}
    /\ queue' = {j \in Job : job[j].state \in {"live", "deleting"}}
    /\ UNCHANGED <<job, fault, going, using, removed>>

-----------------------------------------------------------------------------

Init ==
    /\ job = [j \in Job |-> [state |-> "new", finished |-> FALSE, timeout |-> FALSE, phase |-> "",
                             inputs |-> <<>>]]
    /\ allJobs = [j \in Job |-> <<>>] /\ batch = [j \in Job |-> <<>>]
    /\ fault = [n \in Node |-> None]
    /\ going = {} /\ using = {} /\ removed = {} /\ queue = {} /\ timer = {}
    /\ left = [fails |-> MaxFails, misses |-> MaxMisses, removed |-> MaxRemoved, work |-> MaxWork,
               restarts |-> MaxRestarts]

Step(j) == Reconcile(j) \/ End(j) \/ \E n \in Node : createFault(j, n) \/ NotReached(j, n) \/ Work(j, n)

Next ==
    \/ \E j \in Job : createJob(j) \/ deleteJob(j) \/ deleteExpiredJob(j) \/ TimesOut(j) \/ Step(j)
    \/ \E n \in Node : WorkStarts(n) \/ WorkEnds(n) \/ handleNodeRemovedEvent(n) \/ FaultGone(n)
    \/ Restart

Spec == Init /\ [][Next]_vars

-----------------------------------------------------------------------------
(* Properties.                                                              *)

\* Types of the variables.
TypeOK ==
    /\ \A j \in Job : /\ [f \in {"state", "finished", "timeout", "phase"} |-> job[j][f]] \in JobRecord
                      /\ job[j].inputs \in Seq(Node)
                      /\ Range(allJobs[j]) \subseteq NodePhase
                      /\ batch[j] # <<>> => Range(batch[j].result) \subseteq Results
    /\ fault \in [Node -> Job \cup {None}]
    /\ going \subseteq Node /\ using \subseteq Node /\ removed \subseteq Node /\ queue \subseteq Job /\ timer \subseteq Job

\* A job that is gone has left no fault but those that are being deleted, unless its
\* cleanup missed one, although nodes may have failed or been removed under it.
GoneIsClean ==
    \A j \in Job, n \in Node :
      job[j].state = "gone" /\ fault[n] = j => n \in going \/ left.misses < MaxMisses

\* Another job was made for the node as well.
Shared(j, n) == \E k \in Job \ {j} : n \in Range(job[k].inputs)

\* While the script of a job may run on a node nothing takes the fault away that createFault
\* found or made, unless the node leaves, another job has it too, or the fault was being
\* deleted already.
HeldWhileWorking ==
    \A j \in Job : batch[j] # <<>> =>
      \A n \in Node \ removed :
        n \in DOMAIN batch[j].result /\ batch[j].result[n] = "held" /\ ~Shared(j, n)
          => fault[n] # None /\ n \notin going

\* What the taints of addon jobs are for, whatever jobs, nodes and batches there are.
JobTaints == GoneIsClean /\ HeldWhileWorking
=============================================================================

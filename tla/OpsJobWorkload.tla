--------------------------- MODULE OpsJobWorkload ---------------------------
(***************************************************************************)
(* An ops job that runs as a workload of the same name: preflight checks,  *)
(* downloads and evaluations.  The reconciler creates the workload and     *)
(* watches the timeout; an event handler carries the phase of the workload *)
(* over to the job and, for an evaluation, to the task in the database,    *)
(* which the API server changes as well.                                   *)
(***************************************************************************)
EXTENDS Integers, Sequences

CONSTANTS
    Kind,           \* "preflight", "download" or "evaluation"
    MaxRestarts,    \* bound: restarts of the resource manager
    MaxLost         \* bound: events whose handler gives up

VARIABLES
    job,        \* the ops job
    wl,         \* its workload
    task,       \* its evaluation task
    events,     \* changes of the workload that the handler has not seen
    hand,       \* the handler's progress with the task: idle, or what it is about to do
    stop,       \* the progress of a stop request: idle, checked, cancelled
    queued,     \* whether the job is to be reconciled
    timer,      \* whether it will be at its timeout
    bad,        \* whether its workload can be generated, and if not, how the error counts
    late,       \* whether the timeout has passed
    left

vars == <<job, wl, task, events, hand, stop, queued, timer, bad, late, left>>

Spend(what) == left[what] > 0 /\ left' = [left EXCEPT ![what] = @ - 1]

Evaluation == Kind = "evaluation"

Object == {"none", "live", "deleting", "gone"}
JobRecord == [state : Object, phase : {"", "pending", "running", "succeeded", "failed"}, finished : BOOLEAN]
WorkloadRecord == [state : Object, phase : {"pending", "running", "succeeded", "failed"}]
TaskRecord == [status : {"none", "pending", "running", "succeeded", "failed", "cancelled"}, deleted : BOOLEAN]

NoWorkload == [state |-> "none", phase |-> "pending"]
JobEnded == job.finished \/ job.state # "live"
IsEnd(w) == w.state = "deleting" \/ w.phase \in {"succeeded", "failed"}
IsRunning(w) == w.phase = "running"

\* The workload changes and an event is on its way.
Becomes(w) ==
    /\ wl' = w
    /\ events' = IF w.state = "gone" THEN events ELSE Append(events, [old |-> wl, new |-> w])

-----------------------------------------------------------------------------
(* API server.                                                              *)

\* createOpsJob, for an evaluation with its task, whose record is rolled back if the
\* job is refused.
createOpsJob ==
    /\ job.state = "none"
    /\ \/ /\ job' = [state |-> "live", phase |-> "", finished |-> FALSE]
          /\ task' = [status |-> IF Evaluation THEN "pending" ELSE "none", deleted |-> FALSE]
          /\ queued' = TRUE
       \/ /\ job' = [job EXCEPT !.state = "gone"]
          /\ task' = [status |-> IF Evaluation THEN "pending" ELSE "none", deleted |-> TRUE]
          /\ UNCHANGED queued
    /\ UNCHANGED <<wl, events, hand, stop, timer, late, left, bad>>

DeleteJob ==
    /\ job' = IF job.state = "live" THEN [job EXCEPT !.state = "deleting"] ELSE job
    /\ queued' = (queued \/ job.state = "live")

\* deleteOpsJob and stopOpsJob: the job and its workload are deleted.
deleteOpsJob ==
    /\ job.state = "live"
    /\ DeleteJob
    /\ IF wl.state = "live" THEN Becomes([wl EXCEPT !.state = "deleting"]) ELSE UNCHANGED <<wl, events>>
    /\ UNCHANGED <<task, hand, stop, timer, late, left, bad>>

\* StopEvaluationTask checks the status, then sets it, then deletes the job.
StopEvaluationTask ==
    /\ \/ /\ stop = "idle" /\ task.status \in {"pending", "running"} /\ job.state # "none"
          /\ stop' = "checked"
          /\ UNCHANGED <<task, job, queued>>
       \/ /\ stop = "checked"
          /\ task' = [task EXCEPT !.status = "cancelled"]
          /\ stop' = "cancelled"
          /\ UNCHANGED <<job, queued>>
       \/ /\ stop = "cancelled"
          /\ DeleteJob
          /\ stop' = "done"
          /\ UNCHANGED task
    /\ UNCHANGED <<wl, events, hand, timer, late, left, bad>>

\* DeleteEvaluationTask.
DeleteEvaluationTask ==
    /\ task.status # "none" /\ ~task.deleted
    /\ DeleteJob
    /\ task' = [task EXCEPT !.deleted = TRUE]
    /\ UNCHANGED <<wl, events, hand, stop, timer, late, left, bad>>

\* deleteExpiredJob: the TTL of a finished job has passed.
deleteExpiredJob ==
    /\ job.state = "live" /\ job.finished
    /\ DeleteJob
    /\ UNCHANGED <<wl, task, events, hand, stop, timer, late, left, bad>>

-----------------------------------------------------------------------------
(* Reconciler.                                                              *)

\* setJobCompleted: only a job that has that phase already is left alone.
setJobCompleted(phase) ==
    job' = IF job.phase = phase THEN job ELSE [job EXCEPT !.phase = phase, !.finished = TRUE]

\* setJobPhase: a job that has finished is not spared.
setJobPhase(phase) == job' = [job EXCEPT !.phase = phase]

\* Mutant of delete: the workload is left to itself.
deleteAlone ==
    /\ job' = [job EXCEPT !.state = "gone", !.phase = IF job.finished THEN @ ELSE "failed", !.finished = TRUE]
    /\ UNCHANGED <<wl, events>>

\* delete: the workload is deleted too.
delete ==
    /\ job' = [job EXCEPT !.state = "gone", !.phase = IF job.finished THEN @ ELSE "failed", !.finished = TRUE]
    /\ IF wl.state = "live" THEN Becomes([wl EXCEPT !.state = "deleting"]) ELSE UNCHANGED <<wl, events>>

\* How the workload of a job may come out: it can be generated, an error of the
\* request ends the job, and any other error is tried again.
generatePreflightWorkload == {"no", "fatal", "retry"}
generateDownloadWorkload == {"no", "fatal", "retry"}
generateEvaluationWorkload == {"no", "retry"}

generateWorkload ==
    CASE Kind = "preflight" -> generatePreflightWorkload
      [] Kind = "download" -> generateDownloadWorkload
      [] OTHER -> generateEvaluationWorkload

\* Mutant of handle: the timer is not set and errors end nothing.
handleUntimed ==
    \/ /\ job.phase = ""
       /\ job' = [job EXCEPT !.phase = "pending"]
       /\ UNCHANGED <<timer, queued, wl, events>>
    \/ /\ job.phase # "" /\ wl.state \in {"live", "deleting"}
       /\ queued' = FALSE /\ UNCHANGED <<job, wl, events, timer>>
    \/ /\ job.phase # "" /\ wl.state \in {"none", "gone"} /\ bad = "no"
       /\ Becomes([state |-> "live", phase |-> "pending"])
       /\ queued' = FALSE /\ UNCHANGED <<job, timer>>

\* handle: the first call sets the phase and the timer, the next one creates the
\* workload.
handle ==
    \/ /\ job.phase = ""
       /\ job' = [job EXCEPT !.phase = "pending"]
       /\ timer' = TRUE
       /\ UNCHANGED <<queued, wl, events>>
    \/ /\ job.phase # "" /\ wl.state \in {"live", "deleting"}
       /\ queued' = FALSE /\ UNCHANGED <<job, wl, events, timer>>
    \/ /\ job.phase # "" /\ wl.state \in {"none", "gone"} /\ bad = "no"
       /\ Becomes([state |-> "live", phase |-> "pending"])
       /\ queued' = FALSE /\ UNCHANGED <<job, timer>>
    \/ /\ job.phase # "" /\ wl.state \in {"none", "gone"} /\ bad = "fatal"
       /\ setJobCompleted("failed")
       /\ queued' = FALSE /\ UNCHANGED <<wl, events, timer>>
    \/ /\ job.phase # "" /\ wl.state \in {"none", "gone"} /\ bad = "retry"
       /\ UNCHANGED <<job, queued, wl, events, timer>>

Reconcile ==
    /\ queued
    /\ \/ /\ job.state = "deleting" /\ delete
          /\ queued' = FALSE /\ UNCHANGED timer
       \/ /\ job.state \notin {"deleting"} /\ JobEnded
          /\ queued' = FALSE /\ UNCHANGED <<job, wl, events, timer>>
       \/ /\ ~JobEnded /\ late
          /\ setJobCompleted("failed")
          /\ queued' = FALSE /\ UNCHANGED <<wl, events, timer>>
       \/ /\ ~JobEnded /\ ~late
          /\ handle
    /\ UNCHANGED <<task, hand, stop, late, left, bad>>

TimesOut ==
    /\ job.state = "live" /\ ~late
    /\ late' = TRUE
    /\ queued' = (queued \/ timer)
    /\ UNCHANGED <<job, wl, task, events, hand, stop, timer, left, bad>>

-----------------------------------------------------------------------------
(* The handler of workload events.                                          *)

\* Mutant of Relevant: the end of a workload that did not run is not looked at.
RelevantRan(e) ==
    e.old.state \in {"none", "gone"} \/ (IsRunning(e.old) /\ IsEnd(e.new)) \/ (~IsRunning(e.old) /\ IsRunning(e.new))

\* Which updates are handled; a creation always is.
Relevant(e) ==
    e.old.state \in {"none", "gone"} \/ (~IsEnd(e.old) /\ IsEnd(e.new)) \/ (~IsRunning(e.old) /\ IsRunning(e.new))

\* Mutant of phaseOf: a workload that was deleted has done its work.
phaseOfDeleted(w) ==
    IF IsEnd(w) THEN (IF w.phase = "failed" THEN "failed" ELSE "succeeded")
    ELSE IF IsRunning(w) THEN "running" ELSE "pending"

\* Mutant of phaseOf: a deleted workload is stopped, which is no phase of a job.
phaseOfStopped(w) ==
    IF IsEnd(w) THEN (IF w.phase \in {"succeeded", "failed"} THEN w.phase ELSE "stopped")
    ELSE IF IsRunning(w) THEN "running" ELSE "pending"

\* The phase of a job whose workload is w.
phaseOf(w) ==
    IF IsEnd(w) THEN (IF w.phase = "succeeded" THEN "succeeded" ELSE "failed")
    ELSE IF IsRunning(w) THEN "running" ELSE "pending"

\* handleWorkloadEventImpl of the base: the job follows; without success within two
\* seconds the event is dropped.
handleWorkloadEvent ==
    /\ events # <<>> /\ hand = "idle"
    /\ events' = Tail(events)
    /\ LET phase == phaseOf(Head(events).new) IN
       \/ /\ ~Relevant(Head(events))
          /\ UNCHANGED <<job, hand, left>>
       \/ /\ Relevant(Head(events))
          /\ \/ /\ job.state \notin {"live", "deleting"} /\ UNCHANGED <<job, left>>
             \/ /\ job.state \in {"live", "deleting"} /\ UNCHANGED left
                /\ IF phase \in {"succeeded", "failed"} THEN setJobCompleted(phase) ELSE setJobPhase(phase)
             \/ /\ job.state \in {"live", "deleting"} /\ UNCHANGED job
                /\ Spend("lost")
          /\ hand' = IF Evaluation THEN phase ELSE "idle"
    /\ UNCHANGED <<wl, task, stop, queued, timer, late, bad>>

\* The rest of it for an evaluation: the status follows, where a failure is not noted
\* if the task is found to be cancelled.
handleEvaluationEvent ==
    /\ \/ /\ hand \in {"pending", "running", "succeeded", "unless cancelled"}
          /\ task' = [task EXCEPT !.status = IF hand = "unless cancelled" THEN "failed" ELSE hand]
          /\ hand' = "idle"
       \/ /\ hand = "failed"
          /\ hand' = IF task.status = "cancelled" THEN "idle" ELSE "unless cancelled"
          /\ UNCHANGED task
    /\ UNCHANGED <<job, wl, events, stop, queued, timer, late, left, bad>>

-----------------------------------------------------------------------------
(* The workload.                                                            *)

Runs == wl.state = "live" /\ wl.phase = "pending" /\ Becomes([wl EXCEPT !.phase = "running"])

\* It ends by itself or, once it runs, because its own timeout, which is that of the
\* job, has passed.
Ends ==
    /\ wl.state = "live" /\ wl.phase = "running"
    /\ \E p \in {"succeeded", "failed"} : (late => p = "failed") /\ Becomes([wl EXCEPT !.phase = p])

\* The TTL of a workload, or the end of the job that owns it.
IsDeleted ==
    /\ wl.state = "live" /\ (wl.phase \in {"succeeded", "failed"} \/ job.state = "gone")
    /\ Becomes([wl EXCEPT !.state = "deleting"])

Goes == wl.state = "deleting" /\ Becomes([wl EXCEPT !.state = "gone"])

WorkloadStep == (Runs \/ Ends \/ IsDeleted \/ Goes) /\ UNCHANGED <<job, task, hand, stop, queued, timer, late, left, bad>>

\* A restart: events and the timer are lost, a workload and a job that exist are
\* seen as new.
Restart ==
    /\ Spend("restarts")
    /\ events' = IF wl.state \in {"live", "deleting"} THEN <<[old |-> NoWorkload, new |-> wl]>> ELSE <<>>
    /\ hand' = "idle" /\ timer' = FALSE
    /\ queued' = (job.state \in {"live", "deleting"})
    /\ UNCHANGED <<job, wl, task, stop, late, bad>>

-----------------------------------------------------------------------------

Init ==
    /\ job = [state |-> "none", phase |-> "", finished |-> FALSE]
    /\ wl = NoWorkload
    /\ task = [status |-> "none", deleted |-> FALSE]
    /\ events = <<>> /\ hand = "idle" /\ stop = "idle"
    /\ queued = FALSE /\ timer = FALSE /\ late = FALSE /\ bad \in generateWorkload
    /\ left = [restarts |-> MaxRestarts, lost |-> MaxLost]

Handler == handleWorkloadEvent \/ handleEvaluationEvent

Next ==
    \/ createOpsJob \/ deleteOpsJob \/ StopEvaluationTask \/ DeleteEvaluationTask
    \/ deleteExpiredJob \/ Reconcile \/ TimesOut \/ Handler \/ WorkloadStep \/ Restart

Spec == Init /\ [][Next]_vars

-----------------------------------------------------------------------------
(* Properties.                                                              *)

\* Types of the variables.
TypeOK ==
    /\ job \in JobRecord /\ wl \in WorkloadRecord /\ task \in TaskRecord
    /\ \A i \in DOMAIN events : {events[i].old, events[i].new} \subseteq WorkloadRecord
    /\ hand \in {"idle", "pending", "running", "succeeded", "failed", "unless cancelled"}
    /\ stop \in {"idle", "checked", "cancelled", "done"}
    /\ {queued, timer, late} \subseteq BOOLEAN

\* A job, and an evaluation, that succeeded had a workload that succeeded, whatever
\* was deleted, stopped, timed out or restarted on the way.
SuccessIsReal == (job.phase = "succeeded" \/ task.status = "succeeded") => wl.phase = "succeeded"

\* The job is over; nothing is left of its workload.
Over == job.finished \/ job.state = "gone"
NoWorkloadLeft == wl.state \in {"none", "gone"}

\* The evaluation is under way; it has come to an end in the database.
Evaluating == wl.state = "live" /\ task.status \in {"pending", "running"}
Evaluated == task.deleted \/ task.status \in {"succeeded", "failed", "cancelled"}

\* What is fair of the environment: a workload that runs ends, one that is deleted goes.
WorkloadEnds == Ends /\ UNCHANGED <<job, task, hand, stop, queued, timer, late, left, bad>>
WorkloadGoes == Goes /\ UNCHANGED <<job, task, hand, stop, queued, timer, late, left, bad>>
=============================================================================

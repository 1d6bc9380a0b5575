-------------------------- MODULE WorkloadLifecycle --------------------------
(***************************************************************************)
(* The life of one workload in the job-manager: scheduled, dispatched to a  *)
(* data cluster, observed, failed over or preempted, rescheduled, and       *)
(* finally ended or deleted.                                                *)
(*                                                                         *)
(* Five controllers of one process share the workload.  They read it from   *)
(* one informer cache, which lags behind the API server, and write it in    *)
(* two ways: guarded by the resource version they read (status patches and  *)
(* updates, the preemption mark, the finalizer), or as an unguarded merge   *)
(* patch of annotations and labels.  Each action is at most one write to    *)
(* the API server or to the data cluster, so every interleaving of the      *)
(* controllers between two writes is a behaviour.                           *)
(*                                                                         *)
(* A guarded write succeeds when the stored workload equals the snapshot.   *)
(* Versions that differ in no modelled field are not told apart: a conflict *)
(* between two of them only delays a retry that computes the same write.    *)
(***************************************************************************)
EXTENDS Naturals, Sequences, FiniteSets, ResourceMessage

CONSTANTS
    None,
    MaxRetry,            \* Spec.MaxRetry
    Application,         \* IsApplication: deployments and stateful sets
    EphemeralRunner,     \* IsCICDEphemeralRunner
    RayJob,              \* its object may say that it was stopped
    DisableFailover,     \* the disable-failover annotation
    HasTimeout,          \* Spec.Timeout is set
    HasJobPort,          \* the kinds generateJobPort assigns a port to
    MaxCount,            \* bound: dispatches of the workload
    MaxLag,              \* bound: versions the cache may lag behind
    MaxEvents,           \* bound: undelivered events of the data cluster
    MaxPreempts,         \* bound: preemptions
    MaxFaults,           \* bound: node faults under the workload
    MaxExternal,         \* bound: objects deleted behind the system's back
    MaxCrashes,          \* bound: restarts of the job-manager
    UserDeletes,         \* whether the user may delete the workload
    TTLPasses            \* bound: whether an ended workload's time to live runs out

ASSUME LifecycleAssumption ==
    /\ {MaxRetry, MaxCount, MaxLag, MaxEvents, MaxPreempts, MaxFaults,
        MaxExternal, MaxCrashes} \subseteq Nat
    /\ {Application, EphemeralRunner, RayJob, DisableFailover, HasTimeout,
        HasJobPort, UserDeletes, TTLPasses} \subseteq BOOLEAN

VARIABLES
    wl,                  \* the workload in the API server, or None
    watch,               \* its versions on their way to the informer
    cache,               \* the version in the informer cache
    due,                 \* controllers with a queued reconcile request
    obj,                 \* its object in the data cluster, or None
    events,              \* object events on their way to the syncer
    mail,                \* the syncer's mailbox for the object (module Mailbox)
    kpc, ksnap,          \* scheduler: markAsScheduled
    xsnap,               \* scheduler: the workload delete found without objects
    dpc, dsnap,          \* dispatcher
    fpc, fsnap,          \* failover
    spc, ssnap,          \* syncer: handleJob
    smsg, sstat,         \* syncer: the message and the object status it read
    tpc,                 \* TTL controller
    budget               \* what is left of the bounds on the environment, and
                         \* the restarts so far

mark   == <<kpc, ksnap>>
sched  == <<kpc, ksnap, xsnap>>
disp   == <<dpc, dsnap>>
fail   == <<fpc, fsnap>>
sync   == <<spc, ssnap, smsg, sstat>>
api    == <<wl, watch>>
vars   == <<wl, watch, cache, due, obj, events, mail, kpc, ksnap, xsnap, dpc, dsnap,
            fpc, fsnap, spc, ssnap, smsg, sstat, tpc, budget>>

-----------------------------------------------------------------------------
(* Workloads.                                                               *)

Counts == Nat

Phase == {"new", "Pending", "Running", "NotReady", "Succeeded", "Failed", "Stopped"}

CondType == {"AdminScheduled", "AdminDispatched", "AdminFailover", "K8sFailed"}

Workload ==
    [phase : Phase, conds : SUBSET (CondType \X Counts), sched : BOOLEAN,
     disp : BOOLEAN, preempted : BOOLEAN, cnt : Counts, started : BOOLEAN,
     deleting : BOOLEAN]

Fresh ==
    [phase |-> "new", conds |-> {}, sched |-> FALSE, disp |-> FALSE,
     preempted |-> FALSE, cnt |-> 0, started |-> FALSE, deleting |-> FALSE]

IsWorkloadPhaseEnded(p) == p \in {"Succeeded", "Failed", "Stopped"}

IsEnd(w) == IsWorkloadPhaseEnded(w.phase) \/ w.deleting

IsTimeout(w) == HasTimeout /\ w.started

AddCond(w, type, n) == [w EXCEPT !.conds = @ \cup {<<type, n>>}]

\* What markAsScheduled and markAsDispatched write to the status: the condition
\* of the coming attempt, and the phase of a workload that has none yet.
Mark(w, type) ==
    [AddCond(w, type, w.cnt + 1) EXCEPT !.phase = IF @ = "new" THEN "Pending" ELSE @]

Marked(w, type) == <<type, w.cnt + 1>> \in w.conds

-----------------------------------------------------------------------------
(* The API server and the informer.                                         *)

\* The stored workload becomes w (None: it is gone); a write that changes
\* nothing makes no version.
Store(w) ==
    IF w = wl THEN UNCHANGED api
    ELSE /\ Len(watch) < MaxLag
         /\ wl' = w
         /\ watch' = Append(watch, w)

\* Mutant of Guarded: a patch without the resource version.
Unguarded(snap, w) == Store(w)

\* A write guarded by the resource version of snap.
Guarded(snap, w) == wl = snap /\ Store(w)

Conflict(snap) == wl # snap

FindFailedCondition(w) == <<"K8sFailed", w.cnt>> \in w.conds

shouldDispatch(w) == ~IsEnd(w) /\ w.sched /\ ~w.disp

isDisableFailover(w) ==
    \/ DisableFailover
    \/ ~w.disp \/ IsEnd(w)
    \/ ~w.preempted /\ (MaxRetry = 0 \/ w.cnt > MaxRetry)

isFailoverNeeded(w) ==
    ~isDisableFailover(w) /\ (w.preempted \/ FindFailedCondition(w))

\* Create predicates: what a controller queues for a workload it sees first.
Created(w) ==
    {c \in {"dispatch", "failover"} :
        \/ c = "dispatch" /\ shouldDispatch(w)
        \/ c = "failover" /\ isFailoverNeeded(w)}

\* Update predicates: only a change from "no" to "yes" queues a request.
Updated(old, new) == Created(new) \ Created(old)

DeliverWatch ==
    /\ watch # <<>>
    /\ cache' = Head(watch)
    /\ watch' = Tail(watch)
    /\ due' = IF cache = None \/ cache' = None THEN due
              ELSE due \cup Updated(cache, cache')
    /\ UNCHANGED <<wl, obj, events, mail, sched, disp, fail, sync, tpc, budget>>

-----------------------------------------------------------------------------
(* The data cluster.                                                        *)

Object == [cnt : Counts, st : {"Pending", "Running", "Succeeded", "Stopped", "Failed"}, deleting : BOOLEAN]

Snapshot == Workload \cup {None}
Msg == Message(Counts)
Status == {"Pending", "Running", "Succeeded", "Stopped", "Failed", "Deleted"}

\* None is the absence of a workload, an object, a message and a status.
ASSUME NoneAssumption == None \notin Workload \cup Object \cup Msg \cup Status

Emit(action, n) ==
    /\ Len(events) < MaxEvents
    /\ events' = Append(events, [action |-> action, cnt |-> n])

\* DeleteObject: foreground deletion by name, whatever object has that name now.
DeleteObject ==
    IF obj = None \/ obj.deleting THEN UNCHANGED <<obj, events>>
    ELSE /\ obj' = [obj EXCEPT !.deleting = TRUE]
         /\ Emit("deleting", obj.cnt)

\* The operator of the data cluster moves the object on.  "Running" stands for
\* every status that is neither pending nor final.
ObjectChanges ==
    /\ obj # None /\ ~obj.deleting
    /\ \E st \in (CASE obj.st = "Pending" -> {"Running", "Failed"}
                    [] obj.st = "Running" -> {"Succeeded", "Failed"} \cup (IF RayJob THEN {"Stopped"} ELSE {})
                    [] OTHER -> {}) :
         obj' = [obj EXCEPT !.st = st]
    /\ Emit("update", obj.cnt)
    /\ UNCHANGED <<api, cache, due, mail, sched, disp, fail, sync, tpc, budget>>

\* Foreground deletion ends: the pods first, then the object.
ObjectGone ==
    /\ obj # None /\ obj.deleting
    /\ obj' = None
    /\ Emit("delete", obj.cnt)
    /\ UNCHANGED <<api, cache, due, mail, sched, disp, fail, sync, tpc, budget>>

ExternalDelete ==
    /\ budget.external > 0
    /\ obj # None /\ ~obj.deleting
    /\ DeleteObject
    /\ budget' = [budget EXCEPT !.external = @ - 1]
    /\ UNCHANGED <<api, cache, due, mail, sched, disp, fail, sync, tpc>>

\* handleResource and KeyedController.stage
DeliverEvent ==
    /\ events # <<>>
    /\ mail' = IF mail = None THEN Head(events)
               ELSE mergeResourceMessage(mail, Head(events))
    /\ events' = Tail(events)
    /\ UNCHANGED <<api, cache, due, obj, sched, disp, fail, sync, tpc, budget>>

-----------------------------------------------------------------------------
(* The scheduler.  Which queued workload fits is the scheduling policy's     *)
(* business: here it may be chosen at any time.                             *)

\* scheduleWorkloads picks the workload from its list of the cache.
SchedPick ==
    /\ kpc = "idle"
    /\ cache # None /\ ~IsEnd(cache) /\ ~cache.sched
    /\ cache.cnt < MaxCount
    /\ kpc' = "status" /\ ksnap' = cache
    /\ UNCHANGED <<api, cache, due, obj, events, mail, xsnap, disp, fail, sync, tpc, budget>>

\* markAsScheduled: updateStatus under ConflictRetry, which reads the workload
\* again and does not ask again whether it is ended or scheduled already.
SchedStatus ==
    /\ kpc = "status"
    /\ \/ /\ Marked(ksnap, "AdminScheduled")
          /\ kpc' = "annotate" /\ ksnap' = None
          /\ UNCHANGED api
       \/ /\ ~Marked(ksnap, "AdminScheduled")
          /\ Guarded(ksnap, Mark(ksnap, "AdminScheduled"))
          /\ kpc' = "annotate" /\ ksnap' = None
       \/ /\ ~Marked(ksnap, "AdminScheduled")
          /\ Conflict(ksnap)
          /\ \/ cache # None /\ ksnap' = cache /\ kpc' = kpc
             \/ ksnap' = None /\ kpc' = "idle"
          /\ UNCHANGED api
    /\ UNCHANGED <<cache, due, obj, events, mail, xsnap, disp, fail, sync, tpc, budget>>

\* The unguarded patch that sets the scheduled annotation.
SchedAnnotate ==
    /\ kpc = "annotate"
    /\ IF wl = None THEN UNCHANGED api ELSE Store([wl EXCEPT !.sched = TRUE])
    /\ kpc' = "idle" /\ ksnap' = None
    /\ UNCHANGED <<cache, due, obj, events, mail, xsnap, disp, fail, sync, tpc, budget>>

\* preempt: a higher priority workload takes the place of this one.
Preempt ==
    /\ budget.preempts > 0
    /\ cache # None /\ ~IsEnd(cache) /\ cache.sched
    /\ Guarded(cache, [cache EXCEPT !.preempted = TRUE])
    /\ budget' = [budget EXCEPT !.preempts = @ - 1]
    /\ UNCHANGED <<cache, due, obj, events, mail, sched, disp, fail, sync, tpc>>

\* Mutant of SchedDelete: it waits for the object to go and does not delete it.
SchedDeleteWaits ==
    /\ xsnap = None
    /\ cache # None /\ cache.deleting
    /\ obj = None /\ xsnap' = cache
    /\ UNCHANGED <<api, cache, due, obj, events, mail, mark, disp, fail, sync, tpc, budget>>

\* delete: remove the objects that DeleteObjectsByWorkload lists and come back.
SchedDelete ==
    /\ xsnap = None
    /\ cache # None /\ cache.deleting
    /\ \/ obj # None /\ DeleteObject /\ UNCHANGED xsnap
       \/ obj = None /\ xsnap' = cache /\ UNCHANGED <<obj, events>>
    /\ UNCHANGED <<api, cache, due, mail, mark, disp, fail, sync, tpc, budget>>

\* Once it listed none, delete removes the finalizer of the version it read.
SchedFinalize ==
    /\ xsnap # None
    /\ \/ Guarded(xsnap, None)
       \/ Conflict(xsnap) /\ UNCHANGED api
    /\ xsnap' = None
    /\ UNCHANGED <<cache, due, obj, events, mail, mark, disp, fail, sync, tpc, budget>>

-----------------------------------------------------------------------------
(* The dispatcher: one reconcile, up to one write per step.                 *)

\* Reconcile reads the cache; generateJobPort's patch returns the workload as
\* it is in the API server at that moment.
DispatchRead ==
    /\ dpc = "idle" /\ "dispatch" \in due
    /\ due' = due \ {"dispatch"}
    /\ IF cache = None \/ IsEnd(cache)
         THEN UNCHANGED disp
         ELSE /\ IF HasJobPort /\ ~cache.disp
                   THEN wl # None /\ dsnap' = wl
                   ELSE dsnap' = cache
              /\ dpc' = "get"
    /\ UNCHANGED <<api, cache, obj, events, mail, sched, fail, sync, tpc, budget>>

\* processWorkload looks for the object and creates it when there is none.  The
\* service or the ingress that goes with a new object may fail.
DispatchObject ==
    /\ dpc = "get"
    /\ \/ /\ obj # None
          /\ dpc' = "mark"
          /\ UNCHANGED <<obj, events>>
       \/ /\ obj = None
          /\ obj' = [cnt |-> dsnap.cnt + 1, st |-> "Pending", deleting |-> FALSE]
          /\ Emit("add", dsnap.cnt + 1)
          /\ dpc' \in {"mark", "failed"}
    /\ UNCHANGED <<api, cache, due, dsnap, mail, sched, fail, sync, tpc, budget>>

\* dispatch fails for now: the request is queued again.
DispatchRetry ==
    /\ dpc \in {"get", "failed"}
    /\ due' = due \cup {"dispatch"}
    /\ dpc' = "idle" /\ dsnap' = None
    /\ UNCHANGED <<api, cache, obj, events, mail, sched, fail, sync, tpc, budget>>

\* The reconcile fails for good, before it looked for the object (no template) or
\* after it created one: SetWorkloadFailed.
DispatchFails ==
    /\ dpc \in {"get", "failed"}
    /\ \/ Guarded(dsnap, [dsnap EXCEPT !.phase = "Failed"]) /\ UNCHANGED due
       \/ Conflict(dsnap) /\ due' = due \cup {"dispatch"} /\ UNCHANGED api
    /\ dpc' = "idle" /\ dsnap' = None
    /\ UNCHANGED <<cache, obj, events, mail, sched, fail, sync, tpc, budget>>

\* Mutant of DispatchMark: a conflict of the status update is only logged.
DispatchMarkLogs ==
    /\ dpc = "mark"
    /\ \/ /\ ~Marked(dsnap, "AdminDispatched")
          /\ Guarded(dsnap, Mark(dsnap, "AdminDispatched"))
          /\ dsnap' = Mark(dsnap, "AdminDispatched")
       \/ /\ Marked(dsnap, "AdminDispatched") \/ Conflict(dsnap)
          /\ UNCHANGED <<api, dsnap>>
    /\ dpc' = "annotate"
    /\ UNCHANGED <<cache, due, obj, events, mail, sched, fail, sync, tpc, budget>>

\* markAsDispatched, the status.
DispatchMark ==
    /\ dpc = "mark"
    /\ \/ /\ Marked(dsnap, "AdminDispatched")
          /\ dpc' = "annotate"
          /\ UNCHANGED <<api, due, dsnap>>
       \/ /\ ~Marked(dsnap, "AdminDispatched")
          /\ Guarded(dsnap, Mark(dsnap, "AdminDispatched"))
          /\ dpc' = "annotate" /\ dsnap' = Mark(dsnap, "AdminDispatched")
          /\ UNCHANGED due
       \/ /\ ~Marked(dsnap, "AdminDispatched")
          /\ Conflict(dsnap)
          /\ dpc' = "idle" /\ dsnap' = None
          /\ due' = due \cup {"dispatch"}
          /\ UNCHANGED api
    /\ UNCHANGED <<cache, obj, events, mail, sched, fail, sync, tpc, budget>>

\* Mutant of DispatchAnnotate: no check whether the attempt was counted already.
DispatchAnnotateAgain ==
    /\ dpc = "annotate"
    /\ IF wl = None THEN UNCHANGED api
       ELSE Store([wl EXCEPT !.disp = TRUE, !.cnt = dsnap.cnt + 1,
                             !.preempted = @ /\ ~dsnap.preempted])
    /\ dpc' = "idle" /\ dsnap' = None
    /\ UNCHANGED <<cache, due, obj, events, mail, sched, fail, sync, tpc, budget>>

\* markAsDispatched, the annotations: a merge patch against the snapshot, so
\* the preemption mark is removed only if the snapshot had it.
DispatchAnnotate ==
    /\ dpc = "annotate"
    /\ IF dsnap.disp \/ wl = None THEN UNCHANGED api
       ELSE Store([wl EXCEPT !.disp = TRUE, !.cnt = dsnap.cnt + 1,
                             !.preempted = @ /\ ~dsnap.preempted])
    /\ dpc' = "idle" /\ dsnap' = None
    /\ UNCHANGED <<cache, due, obj, events, mail, sched, fail, sync, tpc, budget>>

-----------------------------------------------------------------------------
(* Failover.                                                                *)

\* Reconcile, and the listing of DeleteObjectsByWorkload.
FailoverRead ==
    /\ fpc = "idle" /\ "failover" \in due
    /\ due' = due \ {"failover"}
    /\ IF cache = None \/ isDisableFailover(cache)
         THEN UNCHANGED fail
         ELSE fpc' = (IF obj = None THEN "cond" ELSE "delete") /\ fsnap' = cache
    /\ UNCHANGED <<api, cache, obj, events, mail, sched, disp, sync, tpc, budget>>

FailoverDelete ==
    /\ fpc = "delete"
    /\ DeleteObject
    /\ fpc' = "cond"
    /\ UNCHANGED <<api, cache, due, fsnap, mail, sched, disp, sync, tpc, budget>>

\* addFailoverCondition; an error queues the workload again.
FailoverMark ==
    /\ fpc = "cond"
    /\ \/ /\ <<"AdminFailover", fsnap.cnt>> \in fsnap.conds
          /\ UNCHANGED <<api, due>>
       \/ /\ <<"AdminFailover", fsnap.cnt>> \notin fsnap.conds
          /\ \/ Guarded(fsnap, AddCond(fsnap, "AdminFailover", fsnap.cnt)) /\ UNCHANGED due
             \/ Conflict(fsnap) /\ due' = due \cup {"failover"} /\ UNCHANGED api
    /\ fpc' = "idle" /\ fsnap' = None
    /\ UNCHANGED <<cache, obj, events, mail, sched, disp, sync, tpc, budget>>

\* handleFaultEvent: a node under one of the workload's pods is faulty.  The
\* request is queued even when every attempt to write the condition failed.
FaultEvent ==
    /\ budget.faults > 0
    /\ obj # None
    /\ cache # None /\ ~isDisableFailover(cache)
    /\ \/ Guarded(cache, AddCond(cache, "AdminFailover", cache.cnt))
       \/ Conflict(cache) /\ UNCHANGED api
    /\ due' = due \cup {"failover"}
    /\ budget' = [budget EXCEPT !.faults = @ - 1]
    /\ UNCHANGED <<cache, obj, events, mail, sched, disp, fail, sync, tpc>>

-----------------------------------------------------------------------------
(* The syncer: handleJob for the message it takes from the mailbox.         *)

shouldWorkloadStopRetry(n) == DisableFailover \/ MaxRetry = 0 \/ n > MaxRetry

\* Mutant of shouldTerminateWorkload: the preemption mark is not looked at.
TerminatesPreempted(w, n) == ~Application /\ shouldWorkloadStopRetry(n)

\* For the status of an object that failed or is gone.
shouldTerminateWorkload(w, n) ==
    ~Application /\ ~w.preempted /\ shouldWorkloadStopRetry(n)

\* Mutant of PhaseOf: a deleted object is not told apart from a live one.
PhaseWithoutDeleted(w, status, n) ==
    IF status = "Failed"
      THEN IF shouldTerminateWorkload(w, n) THEN "Failed" ELSE w.phase
      ELSE status

\* updateAdminWorkloadPhase
PhaseOf(w, status, n) ==
    CASE status = "Failed"  -> IF shouldTerminateWorkload(w, n) THEN "Failed" ELSE w.phase
      [] status = "Deleted" -> IF shouldTerminateWorkload(w, n)
                               THEN IF EphemeralRunner THEN "Succeeded" ELSE "Stopped"
                               ELSE IF Application THEN "NotReady" ELSE w.phase
      [] OTHER -> status

\* updateAdminWorkloadByJob: phase, condition of the message's attempt, start time.
StatusOf(w, status, n) ==
    LET v == [w EXCEPT !.phase = PhaseOf(w, status, n)]
    IN [v EXCEPT !.started = @ \/ v.phase \notin {"new", "Pending"},
                 !.conds = IF status = "Failed" THEN @ \cup {<<"K8sFailed", n>>} ELSE @]

\* updateWorkloadCondition keeps the last 30 conditions of an application, those
\* that are not modelled among them.  An attempt has at most ten, so the latest
\* attempt keeps its own.
Trimmed(w) ==
    IF Application THEN {[w EXCEPT !.conds = {c \in @ : c[2] >= n}] : n \in 0 .. w.cnt} ELSE {w}

SyncDone ==
    spc' = "idle" /\ ssnap' = None /\ smsg' = None /\ sstat' = None

\* Mutant of Restage: the message of a failed run is dropped.
RestageDrops == SyncDone /\ UNCHANGED mail

\* KeyedController.restage of the message as the handler left it.
Restage ==
    /\ mail' = IF mail = None THEN smsg ELSE mergeResourceMessage(smsg, mail)
    /\ SyncDone

\* A failed write: a conflict is retried with the same message.  When the
\* workload is gone the error counts as unrecoverable, SetWorkloadFailed finds
\* no workload either, and the message is dropped.
SyncError == IF wl = None THEN SyncDone /\ UNCHANGED mail ELSE Restage

\* take, getAdminWorkload and getK8sObjectStatus.  A message for a workload
\* that does not look dispatched stays in the mailbox (RequeueAfter).
SyncRead ==
    /\ spc = "idle" /\ mail # None
    /\ mail' = None
    /\ \/ cache = None /\ SyncDone
       \/ /\ cache # None /\ cache.disp /\ IsEnd(cache)
          /\ spc' = "decide" /\ ssnap' = cache /\ smsg' = mail /\ sstat' = None
       \/ /\ cache # None /\ cache.disp /\ ~IsEnd(cache)
          /\ spc' = "update" /\ ssnap' = cache
          /\ smsg' = IF obj = None THEN AsDeleted(mail) ELSE mail
          /\ sstat' = IF smsg'.action = "delete" THEN "Deleted" ELSE obj.st
    /\ UNCHANGED <<api, cache, due, obj, events, sched, disp, fail, tpc, budget>>

\* The status update of updateAdminWorkloadByJob, guarded by the version read.
SyncUpdate ==
    /\ spc = "update"
    /\ \E new \in Trimmed(StatusOf(ssnap, sstat, smsg.cnt)) :
         \/ /\ new = ssnap \/ wl = ssnap
            /\ new # ssnap => Guarded(ssnap, new)
            /\ new = ssnap => UNCHANGED api
            /\ spc' = "decide" /\ ssnap' = new
            /\ UNCHANGED <<mail, smsg, sstat>>
         \/ Conflict(ssnap) /\ SyncError /\ UNCHANGED api
    /\ UNCHANGED <<cache, due, obj, events, sched, disp, fail, tpc, budget>>

\* getK8sObjectStatus cannot make out the phase of the object, which is an
\* unrecoverable error: handleJob calls SetWorkloadFailed.
SyncFails ==
    /\ spc = "update" /\ sstat # "Deleted"
    /\ \/ /\ Guarded(ssnap, [ssnap EXCEPT !.phase = "Failed"])
          /\ SyncDone
          /\ UNCHANGED mail
       \/ Conflict(ssnap) /\ SyncError /\ UNCHANGED api
    /\ UNCHANGED <<cache, due, obj, events, sched, disp, fail, tpc, budget>>

\* shouldReSchedule
shouldReSchedule ==
    /\ ~IsEnd(ssnap)
    /\ \/ smsg.action = "delete"
       \/ ssnap.preempted /\ ~DisableFailover /\ obj = None

\* The rest of handleJobImpl up to reSchedule's status update: wait until a
\* deleted object (and before it, its pods) is gone, then decide.  The update
\* also clears pods, nodes and ranks, which are not modelled: a workload that
\* is pending already may have them or not, and its update fail or be skipped.
SyncDecide ==
    /\ spc = "decide"
    /\ \/ /\ smsg.action = "deleting" /\ obj # None
          /\ Restage
          /\ UNCHANGED api
       \/ /\ smsg.action = "deleting" => obj = None
          /\ ~shouldReSchedule
          /\ SyncDone
          /\ UNCHANGED <<api, mail>>
       \/ /\ smsg.action = "deleting" => obj = None
          /\ shouldReSchedule
          /\ \/ /\ ssnap.phase = "Pending"
                /\ spc' = "annotate"
                /\ UNCHANGED <<api, ssnap, smsg, sstat, mail>>
             \/ /\ ssnap.phase # "Pending"
                /\ \E new \in Trimmed([ssnap EXCEPT !.phase = "Pending"]) :
                      Guarded(ssnap, new) /\ ssnap' = new
                /\ spc' = "annotate"
                /\ UNCHANGED <<smsg, sstat, mail>>
             \/ Conflict(ssnap) /\ SyncError /\ UNCHANGED api
    /\ UNCHANGED <<cache, due, obj, events, sched, disp, fail, tpc, budget>>

\* reSchedule's unguarded patch of the annotations.
SyncAnnotate ==
    /\ spc = "annotate"
    /\ \/ /\ wl = None
          /\ SyncError
          /\ UNCHANGED api
       \/ /\ wl # None
          /\ Store([wl EXCEPT !.disp = FALSE, !.sched = @ /\ ~ssnap.sched])
          /\ SyncDone
          /\ UNCHANGED mail
    /\ UNCHANGED <<cache, due, obj, events, sched, disp, fail, tpc, budget>>

-----------------------------------------------------------------------------
(* Ends: time out, time to live, the user, and restarts of the process.      *)

Delete == IF wl = None THEN UNCHANGED api ELSE Store([wl EXCEPT !.deleting = TRUE])

\* handle: a timed out workload is stopped and then deleted.
TTLStop ==
    /\ tpc = "idle"
    /\ cache # None /\ ~IsEnd(cache) /\ IsTimeout(cache)
    /\ Guarded(cache, [cache EXCEPT !.phase = "Stopped"])
    /\ tpc' = "delete"
    /\ UNCHANGED <<cache, due, obj, events, mail, sched, disp, fail, sync, budget>>

\* handle: an ended workload is deleted when its time to live is over.
TTLDelete ==
    /\ \/ tpc = "delete"
       \/ /\ TTLPasses
          /\ tpc = "idle" /\ cache # None /\ ~cache.deleting /\ IsWorkloadPhaseEnded(cache.phase)
    /\ Delete
    /\ tpc' = "idle"
    /\ UNCHANGED <<cache, due, obj, events, mail, sched, disp, fail, sync, budget>>

UserDelete ==
    /\ UserDeletes
    /\ wl # None /\ ~wl.deleting
    /\ Delete
    /\ UNCHANGED <<cache, due, obj, events, mail, sched, disp, fail, sync, tpc, budget>>

\* The job-manager restarts: it lists workloads and objects afresh, and what it
\* had in memory, messages included, is gone.
Restart ==
    /\ budget.crashes < MaxCrashes
    /\ budget' = [budget EXCEPT !.crashes = @ + 1]
    /\ cache' = wl /\ watch' = <<>>
    /\ due' = IF wl = None THEN {} ELSE Created(wl)
    /\ events' = IF obj = None THEN <<>>
                 ELSE <<[action |-> IF obj.deleting THEN "deleting" ELSE "add", cnt |-> obj.cnt]>>
    /\ mail' = None
    /\ kpc' = "idle" /\ ksnap' = None /\ xsnap' = None
    /\ dpc' = "idle" /\ dsnap' = None
    /\ fpc' = "idle" /\ fsnap' = None
    /\ tpc' = "idle"
    /\ SyncDone
    /\ UNCHANGED <<wl, obj>>

-----------------------------------------------------------------------------
Init ==
    /\ wl = Fresh /\ cache = Fresh
    /\ watch = <<>> /\ due = {}
    /\ obj = None /\ events = <<>> /\ mail = None
    /\ kpc = "idle" /\ ksnap = None /\ xsnap = None
    /\ dpc = "idle" /\ dsnap = None
    /\ fpc = "idle" /\ fsnap = None
    /\ spc = "idle" /\ ssnap = None /\ smsg = None /\ sstat = None
    /\ tpc = "idle"
    /\ budget = [preempts |-> MaxPreempts, faults |-> MaxFaults,
                 external |-> MaxExternal, crashes |-> 0]

Scheduler  == SchedPick \/ SchedStatus \/ SchedAnnotate
Dispatcher == DispatchRead \/ DispatchObject \/ DispatchRetry \/ DispatchFails \/ DispatchMark \/ DispatchAnnotate
Failover   == FailoverRead \/ FailoverDelete \/ FailoverMark
Syncer     == SyncRead \/ SyncUpdate \/ SyncFails \/ SyncDecide \/ SyncAnnotate
TTL        == TTLStop \/ TTLDelete

Next ==
    \/ DeliverWatch \/ DeliverEvent
    \/ ObjectChanges \/ ObjectGone \/ ExternalDelete
    \/ Scheduler \/ Preempt \/ SchedDelete \/ SchedFinalize
    \/ Dispatcher
    \/ Failover \/ FaultEvent
    \/ Syncer
    \/ TTL \/ UserDelete
    \/ Restart

Spec == Init /\ [][Next]_vars

Fairness ==
    /\ WF_vars(DeliverWatch) /\ WF_vars(DeliverEvent)
    /\ WF_vars(ObjectGone)
    /\ WF_vars(SchedStatus \/ SchedAnnotate) /\ WF_vars(SchedDelete \/ SchedFinalize)
    /\ WF_vars(Dispatcher) /\ WF_vars(Failover) /\ WF_vars(Syncer)
    /\ WF_vars(TTLDelete)

FairSpec == Spec /\ Fairness

-----------------------------------------------------------------------------
(* Properties.                                                              *)

TypeOK ==
    /\ wl \in Snapshot /\ cache \in Snapshot
    /\ watch \in Seq(Snapshot)
    /\ due \subseteq {"dispatch", "failover"}
    /\ obj \in Object \cup {None}
    /\ events \in Seq(Msg) /\ mail \in Msg \cup {None}
    /\ kpc \in {"idle", "status", "annotate"} /\ ksnap \in Snapshot /\ xsnap \in Snapshot
    /\ dpc \in {"idle", "get", "failed", "mark", "annotate"} /\ dsnap \in Snapshot
    /\ fpc \in {"idle", "delete", "cond"} /\ fsnap \in Snapshot
    /\ spc \in {"idle", "update", "decide", "annotate"} /\ ssnap \in Snapshot
    /\ smsg \in Msg \cup {None}
    /\ sstat \in Status \cup {None}
    /\ tpc \in {"idle", "delete"}
    /\ budget \in [preempts : Nat, faults : Nat, external : Nat, crashes : Nat]

\* A controller in the middle of its work has a snapshot to work on, and the
\* syncer only computes a status for a workload that had not ended.
SnapshotInv ==
    /\ kpc = "status" => ksnap # None
    /\ dpc # "idle" => dsnap # None
    /\ fpc # "idle" => fsnap # None
    /\ spc # "idle" => ssnap # None /\ smsg # None
    /\ spc = "update" => sstat # None /\ ~IsEnd(ssnap)

Ended == wl # None /\ IsWorkloadPhaseEnded(wl.phase)

\* A workload in a terminal phase stays in the terminal phases: no controller
\* that started from an older snapshot puts it back to work.  This is what the
\* resource version guard of PatchWorkloadStatusFields and of the status
\* updates is for, across five writers and the unguarded annotation patches.
NoResurrection == [][Ended /\ wl' # None => Ended']_vars

\* An attempt is counted once: the dispatch count moves only with the change
\* from not dispatched to dispatched, and by one, although markAsDispatched
\* patches it without a guard and is repeated after conflicts and restarts.
CountedOnce ==
    [][wl # None /\ wl' # None /\ wl'.cnt # wl.cnt
         => wl'.cnt = wl.cnt + 1 /\ ~wl.disp /\ wl'.disp]_vars

\* The count (an annotation, patched without a guard) agrees with the status
\* (guarded) and with the data cluster: every attempt that was counted is recorded
\* as dispatched (of an application, whose old conditions are dropped, the latest),
\* and no condition and no object is of an attempt after the coming one, from
\* whatever versions markAsDispatched, the scheduler and the syncer wrote.
AttemptsRecorded ==
    wl # None =>
        /\ \A n \in 1 .. wl.cnt : ~Application \/ n = wl.cnt => <<"AdminDispatched", n>> \in wl.conds
        /\ \A c \in wl.conds : c[2] <= wl.cnt + 1
        /\ obj # None => obj.cnt <= wl.cnt + 1

\* The workload counts as running in the data cluster, but its object is gone.
LostAttempt == wl # None /\ ~IsEnd(wl) /\ wl.disp /\ obj = None

\* The syncer still has to hear or is hearing about the object.
Noticed == events # <<>> \/ mail # None \/ smsg # None

\* As long as the process lives, the loss of an object is not forgotten: while
\* the workload is alive, the last message about an object that is gone is used
\* up by reSchedule, which makes the workload not dispatched, and by nothing
\* else, whatever was coalesced, put off, retried or read from an old cache.
NoticeKept ==
    [][budget'.crashes = 0 /\ wl' # None /\ ~IsEnd(wl') /\ obj' = None /\ Noticed /\ ~Noticed'
         => ~wl'.disp]_vars

\* A preempted workload is not ended by the failure or the loss of the attempt
\* that preemption takes down, even if its retries are used up: the mark may be
\* set at any moment between the steps of the syncer.  It ends with an object that
\* had succeeded or, as Ray jobs, had been stopped.
PreemptedSurvives ==
    [][spc = "update" /\ spc' = "decide" /\ wl # None /\ wl' # None /\ wl.preempted /\ ~Ended
         => ~Ended' \/ (wl'.phase = sstat /\ sstat \in {"Succeeded", "Stopped"})]_vars

\* A lost attempt is noticed: the workload is rescheduled, dispatched anew or
\* ended, and does not count as running for ever. This is so for one loss and a
\* cache one version behind; a dispatcher that acts on an older version may mark
\* an attempt as dispatched after its loss was noticed, and nothing tells again.
Recovered == LostAttempt ~> ~LostAttempt

\* A workload that is being deleted goes away, after its object.
Deleted == wl # None /\ wl.deleting ~> wl = None
=============================================================================

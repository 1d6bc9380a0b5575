------------------------------ MODULE Scheduling ------------------------------
(***************************************************************************)
(* The scheduling policy of one workspace: which queued workloads          *)
(* scheduleWorkloads marks as scheduled, out of which quota, in which      *)
(* order, and whom it preempts.                                            *)
(*                                                                         *)
(* Resources are counted in nodes: a workload asks for Request[w] of them, *)
(* one pod each.  What happens to a workload between its being scheduled   *)
(* and its end is module WorkloadLifecycle; here it is the environment.    *)
(***************************************************************************)
EXTENDS Integers, FiniteSets, SequencesExt

CONSTANTS
    Workload,          \* the workloads of the workspace
    Nodes,             \* its nodes
    Request,           \* nodes a workload asks for
    Priority,          \* Spec.Priority
    Created,           \* order of creation, unlike for any two workloads
    Dependent,         \* workloads that depend on another one
    Timed,             \* workloads with a CronStart in the future
    HasSource,         \* whether the workspace was made from a running workload
    MayGo,             \* what may be deleted unfinished: "source", "dependency"
    Tolerant,          \* workloads with IsTolerateAll
    Pinned,            \* workloads with specified nodes
    Preempting,        \* workloads that may preempt (enabled in the workspace)
    Fifo,              \* queue policy: fifo, or balance
    Synced,            \* whether the cache has caught up when a round begins
    MaxFaults,         \* bound: nodes that become unavailable
    MaxErrors          \* bound: calls that fail, or restarts, during a round

VARIABLES
    wl,                \* the workloads in the API server
    cache,             \* the workloads in the informer cache
    up,                \* the available nodes
    msg,               \* a message for the workspace is queued
    pc,                \* where the round is
    list,              \* queued workloads it still has to consider, in order
    queue,             \* all queued workloads of the round, in order
    snap,              \* the round's copies of the workloads
    left,              \* available and total resources left
    victims,           \* workloads still to be marked as preempted
    faults,            \* node faults that may still happen
    errors,            \* failing calls that may still happen
    source,            \* the source workload of the workspace, in the cache
    dep,               \* the dependency of each workload, in the cache
    untold,            \* workloads whose ended dependency has still to be reconciled
    due                \* timed workloads whose time has come

round   == <<pc, list, queue, snap, left, victims>>
outside == <<source, dep, untold, due>>
vars    == <<wl, cache, up, msg, pc, list, queue, snap, left, victims, faults, errors,
             source, dep, untold, due>>

-----------------------------------------------------------------------------
(* Workloads and resources.                                                 *)

Record ==
    [phase : {"none", "Pending", "Running", "Ended"}, sched : BOOLEAN,
     disp : BOOLEAN, resched : BOOLEAN, preempted : BOOLEAN,
     deps : {"open", "Succeeded", "Failed"}, cond : BOOLEAN, cron : BOOLEAN,
     pods : SUBSET Nodes, position : 0 .. Cardinality(Workload)]

Absent(w) ==
    [phase |-> "none", sched |-> FALSE, disp |-> FALSE, resched |-> FALSE,
     preempted |-> FALSE, deps |-> IF w \in Dependent THEN "open" ELSE "Succeeded",
     cond |-> FALSE, cron |-> FALSE, pods |-> {}, position |-> 0]

IsDependenciesEnd(r) == r.deps # "open"

Live(r) == r.phase \in {"Pending", "Running"}

\* The two halves of getUnfinishedWorkloads.
Queued(f) == {w \in Workload : Live(f[w]) /\ ~f[w].sched}
Scheduled(f) == {w \in Workload : Live(f[w]) /\ f[w].sched}

\* What a workload holds of the nodes N: a running one its pods on them
\* (GetWorkloadResourceUsage), any other all it asks for (GetTotalResourceList).
Claim(r, w, N) == IF r.phase = "Running" THEN r.pods \cap N ELSE 1 .. Request[w]
Claims(f, S, N) == UNION {{w} \X Claim(f[w], w, N) : w \in S}

\* getLeftTotalResources: the available resources are cut off at zero.
getLeftTotalResources(f) ==
    LET avail == Cardinality(up) - Cardinality(Claims(f, Scheduled(f), up))
    IN [avail |-> IF avail < 0 THEN 0 ELSE avail,
        total |-> Cardinality(Nodes) - Cardinality(Claims(f, Scheduled(f), Nodes))]

leftFor(w) == IF w \in Tolerant THEN left.total ELSE left.avail

-----------------------------------------------------------------------------
(* Orders.                                                                  *)

isReScheduledForFailover(r) == r.resched /\ ~r.preempted

\* Mutant of WorkloadLess: the queue is ordered by time alone.
WorkloadLessByAge(f, v, w) == Created[v] < Created[w]

\* WorkloadList.Less
WorkloadLess(f, v, w) ==
    IF isReScheduledForFailover(f[v]) # isReScheduledForFailover(f[w])
      THEN isReScheduledForFailover(f[v])
    ELSE /\ ~(~IsDependenciesEnd(f[v]) /\ IsDependenciesEnd(f[w]))
         /\ \/ Priority[v] > Priority[w]
            \/ Priority[v] = Priority[w] /\ Created[v] < Created[w]

\* WorkloadWrapperSlice.Less, for the order of victims: low priority first,
\* then the large ones, then the young ones.
VictimLess(v, w) ==
    \/ Priority[v] < Priority[w]
    \/ /\ Priority[v] = Priority[w]
       /\ \/ Request[v] > Request[w]
          \/ Request[v] = Request[w] /\ Created[v] > Created[w]

\* What sort.Sort makes of a short list in whatever order the cache has it:
\* insertion sort ends when no two neighbours are the wrong way round.
Sorted(S, Less(_, _)) ==
    {s \in SetToSeqs(S) : \A i \in 1 .. Len(s) - 1 : ~Less(s[i + 1], s[i])}

Sum(f(_), S) == FoldSet(LAMBDA w, n : f(w) + n, 0, S)

\* preemptLowPriorityWorkloads: the shortest prefix of the candidates that frees
\* enough, without counting those preempted already; none if there is none.
preemptLowPriorityWorkloads(w) ==
    LET order == CHOOSE s \in Sorted(Scheduled(snap), VictimLess) : TRUE
        lower == Cardinality({v \in Scheduled(snap) : Priority[v] < Priority[w]})
        frees(v) == IF snap[v].preempted THEN 0 ELSE Request[v]
        prefix(i) == {order[j] : j \in 1 .. i}
        enough == {i \in 1 .. lower : /\ ~snap[order[i]].preempted
                                      /\ Request[w] <= leftFor(w) + Sum(frees, prefix(i))}
    IN IF w \notin Preempting \/ enough = {} THEN <<>>
       ELSE SubSeq(order, 1, CHOOSE i \in enough : \A j \in enough : i <= j)

-----------------------------------------------------------------------------
(* A round of scheduleWorkloads.                                            *)

\* Do takes the message; the lists and the left resources are computed once.
RoundStart ==
    /\ pc = "idle" /\ msg
    /\ Synced => cache = wl
    /\ msg' = FALSE
    /\ IF Queued(cache) = {} THEN UNCHANGED round
       ELSE /\ queue' \in Sorted(Queued(cache), LAMBDA v, w : WorkloadLess(cache, v, w))
            /\ list' = queue'
            /\ snap' = cache
            /\ left' = getLeftTotalResources(cache)
            /\ victims' = <<>>
            /\ pc' = "loop"
    /\ UNCHANGED <<wl, cache, up, faults, errors, outside>>

RoundEnds ==
    /\ pc' = "idle" /\ list' = <<>> /\ queue' = <<>> /\ victims' = <<>>
    /\ snap' = [w \in Workload |-> Absent(w)] /\ left' = [avail |-> 0, total |-> 0]

\* scheduleWorkloads returns an error: the message is queued again.  A restart of the
\* job manager does the same, since every workload is then seen as created.
RoundFails == RoundEnds /\ msg' = TRUE

\* Whether a workload that cannot be scheduled holds up the ones after it.
HoldsUp(w) ==
    Fifo \/ (w \notin Pinned /\ Len(list) > 1 /\ Priority[w] > Priority[list[2]])

NotScheduled(w) ==
    /\ \/ HoldsUp(w) /\ pc' = "positions" /\ UNCHANGED list
       \/ ~HoldsUp(w) /\ pc' = "loop" /\ list' = Tail(list)
    /\ victims' = <<>>
    /\ UNCHANGED <<queue, snap, left>>

\* Why a workload is passed over without holding up others: the source workload of the
\* workspace still runs, its time has not come, or what it depends on has not succeeded.
PassedOver(w) ==
    \/ source = "live"
    \/ w \in Timed \ due
    \/ snap[w].deps = "Failed"
    \/ snap[w].deps = "open" /\ dep[w] \in {"live", "leaving"}

\* The label that names the source is removed by the first workload that finds it
\* ended or gone; the error of that patch is ignored.
RemoveSourceLabel == source' \in IF source = "ended" THEN {"none", "ended"} ELSE {source}

\* checkWorkloadDependencies, when the dependency has ended and this is not recorded, or
\* it is not found: its phase is recorded, or the workload fails, by a guarded write on
\* the round's copy.
checkWorkloadDependencies ==
    /\ pc = "loop" /\ list # <<>> /\ RemoveSourceLabel
    /\ LET w == Head(list) IN
         /\ ~PassedOver(w) /\ snap[w].deps = "open"
         /\ \/ /\ wl[w] = snap[w]
               /\ wl' = [wl EXCEPT ![w] = IF dep[w] = "gone" THEN [@ EXCEPT !.phase = "Ended"]
                                          ELSE [@ EXCEPT !.deps = dep[w]]]
               /\ snap' = [snap EXCEPT ![w] = wl'[w]]
               /\ list' = IF dep[w] = "Succeeded" THEN list ELSE Tail(list)
               /\ UNCHANGED <<pc, queue, left, victims, msg>>
            \/ /\ wl[w] # snap[w] /\ RoundFails
               /\ UNCHANGED wl
    /\ UNCHANGED <<cache, up, faults, errors, dep, untold, due>>

\* The rest of canScheduleWorkload, up to its first write.
Consider ==
    /\ pc = "loop" /\ list # <<>>
    /\ LET w == Head(list)
           ready == ~PassedOver(w) /\ snap[w].deps = "Succeeded" /\ RemoveSourceLabel
       IN
         \/ /\ PassedOver(w)
            /\ list' = Tail(list)
            /\ UNCHANGED <<pc, queue, snap, left, victims, source>>
         \/ /\ ready /\ Request[w] <= leftFor(w)
            /\ pc' = "mark"
            /\ UNCHANGED <<list, queue, snap, left, victims>>
         \/ /\ ready /\ Request[w] > leftFor(w)
            /\ preemptLowPriorityWorkloads(w) # <<>>
            /\ victims' = preemptLowPriorityWorkloads(w)
            /\ pc' = "preempt"
            /\ UNCHANGED <<list, queue, snap, left>>
         \/ /\ ready /\ Request[w] > leftFor(w)
            /\ preemptLowPriorityWorkloads(w) = <<>>
            /\ NotScheduled(w)
    /\ UNCHANGED <<wl, cache, up, msg, faults, errors, dep, untold, due>>

\* preempt: one patch per victim, guarded by its version.  The error of a patch
\* that fails is dropped by canScheduleWorkload.
PreemptOne ==
    /\ pc = "preempt"
    /\ LET v == Head(victims) IN
         \/ /\ wl[v] = snap[v]
            /\ wl' = [wl EXCEPT ![v].preempted = TRUE]
            /\ snap' = [snap EXCEPT ![v].preempted = TRUE]
            /\ victims' = Tail(victims)
            /\ pc' = IF Len(victims) = 1 THEN "mark" ELSE pc
            /\ UNCHANGED <<list, queue, left>>
         \/ /\ wl[v] # snap[v]
            /\ NotScheduled(Head(list))
            /\ UNCHANGED wl
    /\ UNCHANGED <<cache, up, msg, faults, errors, outside>>

\* markAsScheduled, first half: the status is patched by its version, which is read again
\* from the cache after a conflict, a number of times; a condition that a round before
\* left behind is not written again.
UpdateStatus ==
    /\ pc = "mark"
    /\ LET w == Head(list) IN
         \/ /\ snap[w].cond \/ wl[w] = snap[w]
            /\ wl' = IF snap[w].cond THEN wl
                     ELSE [wl EXCEPT ![w].cond = TRUE, ![w].position = 0]
            /\ snap' = IF snap[w].cond THEN snap ELSE [snap EXCEPT ![w] = wl'[w]]
            /\ pc' = "annotate"
            /\ UNCHANGED <<list, queue, left, victims, msg, errors>>
         \/ /\ ~snap[w].cond /\ wl[w] # snap[w]
            /\ snap' = [snap EXCEPT ![w] = cache[w]]
            /\ UNCHANGED <<wl, pc, list, queue, left, victims, msg, errors>>
         \/ /\ ~snap[w].cond /\ wl[w] # snap[w] /\ RoundFails
            /\ UNCHANGED <<wl, errors>>
         \/ /\ errors > 0 /\ errors' = errors - 1 /\ RoundFails
            /\ UNCHANGED wl
    /\ UNCHANGED <<cache, up, faults, outside>>

Annotated(w) ==
    [wl EXCEPT ![w].sched = TRUE, ![w].resched = @ /\ ~snap[w].resched]

\* Mutant of MarkScheduled: the resources given away are not subtracted.
MarkScheduledFree ==
    /\ pc = "annotate"
    /\ LET w == Head(list) IN
         /\ wl' = Annotated(w)
         /\ snap' = [snap EXCEPT ![w] = wl'[w]]
         /\ list' = Tail(list) /\ pc' = "loop"
         /\ UNCHANGED <<queue, victims, msg, left, errors>>
    /\ UNCHANGED <<cache, up, faults, outside>>

\* markAsScheduled, second half: the annotations are patched whatever the version; if
\* that fails the workload is left with the condition and without the annotation.
MarkScheduled ==
    /\ pc = "annotate"
    /\ LET w == Head(list) IN
         \/ /\ wl' = Annotated(w)
            /\ snap' = [snap EXCEPT ![w] = wl'[w]]
            /\ left' = [avail |-> left.avail - Request[w], total |-> left.total - Request[w]]
            /\ list' = Tail(list) /\ pc' = "loop"
            /\ UNCHANGED <<queue, victims, msg, errors>>
         \/ /\ errors > 0 /\ errors' = errors - 1 /\ RoundFails
            /\ UNCHANGED wl
    /\ UNCHANGED <<cache, up, faults, outside>>

Waiting == SelectSeq(queue, LAMBDA w : Live(snap[w]) /\ ~snap[w].sched)

\* Mutant of UpdateUnScheduled: the position is added to the one before.
UpdateUnScheduledAdds ==
    /\ pc = "positions" \/ (pc = "loop" /\ list = <<>>)
    /\ wl' = [w \in Workload |->
                IF \E i \in 1 .. Len(Waiting) : Waiting[i] = w
                THEN [wl[w] EXCEPT !.position = @ + CHOOSE i \in 1 .. Len(Waiting) : Waiting[i] = w]
                ELSE wl[w]]
    /\ RoundEnds
    /\ UNCHANGED <<cache, up, msg, faults, errors, outside>>

\* updateUnScheduled: an unguarded patch of each queue position that changes.
UpdateUnScheduled ==
    /\ pc = "positions" \/ (pc = "loop" /\ list = <<>>)
    /\ wl' = [w \in Workload |->
                IF \E i \in 1 .. Len(Waiting) : Waiting[i] = w /\ snap[w].position # i
                THEN [wl[w] EXCEPT !.position = CHOOSE i \in 1 .. Len(Waiting) : Waiting[i] = w]
                ELSE wl[w]]
    /\ RoundEnds
    /\ UNCHANGED <<cache, up, msg, faults, errors, outside>>

-----------------------------------------------------------------------------
(* Triggers: relevantChangePredicate and Reconcile, handleWorkspaceEvent.    *)

\* Mutant of relevantChange: the end of a workload triggers nothing.
relevantChangeNoEnd(old, new) ==
    \/ old.phase = "none"
    \/ old.sched # new.sched
    \/ old.cron # new.cron
    \/ ~IsDependenciesEnd(old) /\ IsDependenciesEnd(new)

relevantChange(old, new) ==
    \/ old.phase = "none"
    \/ Live(old) /\ ~Live(new)
    \/ old.sched # new.sched
    \/ old.cron # new.cron
    \/ ~IsDependenciesEnd(old) /\ IsDependenciesEnd(new)

\* The informer delivers the stored version of a workload.
Deliver(w) ==
    /\ cache[w] # wl[w]
    /\ cache' = [cache EXCEPT ![w] = wl[w]]
    /\ msg' = (msg \/ relevantChange(cache[w], wl[w]))
    /\ UNCHANGED <<wl, up, round, faults, errors, outside>>

NodeChanges ==
    /\ \/ /\ faults > 0 /\ faults' = faults - 1
          /\ \E n \in up : up' = up \ {n}
       \/ \E n \in Nodes \ up : up' = up \cup {n} /\ UNCHANGED faults
    /\ msg' = TRUE
    /\ UNCHANGED <<wl, cache, round, errors, outside>>

\* The source workload ends and notifyDependentWorkspaces adds a message for the
\* workspace; nothing does when it is deleted unfinished.
SourceEnds ==
    /\ source = "live" /\ source' = "ended"
    /\ msg' = TRUE \/ ("source" \in MayGo /\ UNCHANGED msg)
    /\ UNCHANGED <<wl, cache, up, round, faults, errors, dep, untold, due>>

\* The cron job of a workload: doStart stamps one that the cache has and that has not
\* been scheduled before.
doStart(w) ==
    /\ w \in Timed \ due /\ due' = due \cup {w}
    /\ wl' = IF cache[w].phase # "none" /\ ~cache[w].sched
             THEN [wl EXCEPT ![w].cron = TRUE] ELSE wl
    /\ UNCHANGED <<cache, up, msg, round, faults, errors, source, dep, untold>>

\* The workload w depends on ends; or it is deleted, which adds a message, and is gone
\* some time after that.
DependencyChanges(w) ==
    /\ w \in Dependent
    /\ \/ /\ dep[w] \in {"live", "leaving"} /\ untold' = untold \cup {w}
          /\ \E p \in {"Succeeded", "Failed"} : dep' = [dep EXCEPT ![w] = p]
          /\ UNCHANGED msg
       \/ /\ "dependency" \in MayGo /\ dep[w] = "live" /\ dep' = [dep EXCEPT ![w] = "leaving"]
          /\ msg' = TRUE
          /\ UNCHANGED untold
       \/ /\ "dependency" \in MayGo /\ dep[w] \notin {"live", "gone"}
          /\ dep' = [dep EXCEPT ![w] = "gone"] /\ untold' = untold \ {w}
          /\ UNCHANGED msg
    /\ UNCHANGED <<wl, cache, up, round, faults, errors, source, due>>

\* updateDependentsPhase and setDependencyPhase, when the end of the dependency is
\* reconciled: a cached, unfinished dependent gets the phase, or fails with it, by a
\* guarded write; a conflict leads to another try.
setDependencyPhase(w) ==
    /\ w \in untold
    /\ IF Live(cache[w])
       THEN /\ cache[w] = wl[w]
            /\ wl' = [wl EXCEPT ![w].deps = dep[w],
                                ![w].phase = IF dep[w] = "Failed" THEN "Ended" ELSE @]
       ELSE UNCHANGED wl
    /\ untold' = untold \ {w}
    /\ msg' = TRUE
    /\ UNCHANGED <<cache, up, round, faults, errors, source, dep, due>>

-----------------------------------------------------------------------------
(* The environment: users and the controllers of WorkloadLifecycle.         *)

Submit(w) ==
    /\ wl[w].phase = "none"
    /\ wl' = [wl EXCEPT ![w].phase = "Pending"]
    /\ UNCHANGED <<cache, up, msg, round, faults, errors, outside>>

\* markAsDispatched removes a preemption mark that its snapshot of the workload
\* has; one that is set in between stays.
Dispatch(w) ==
    /\ Live(wl[w]) /\ wl[w].sched /\ ~wl[w].disp
    /\ \/ wl' = [wl EXCEPT ![w].disp = TRUE, ![w].cond = FALSE, ![w].preempted = FALSE]
       \/ wl' = [wl EXCEPT ![w].disp = TRUE, ![w].cond = FALSE]
    /\ UNCHANGED <<cache, up, msg, round, faults, errors, outside>>

Occupied == UNION {wl[w].pods : w \in Workload}

\* The data cluster places the pods when there is room for all of them.
Run(w) ==
    /\ wl[w].phase = "Pending" /\ wl[w].disp
    /\ \E P \in SUBSET (up \ Occupied) :
         /\ Cardinality(P) = Request[w]
         /\ wl' = [wl EXCEPT ![w].phase = "Running", ![w].pods = P]
    /\ UNCHANGED <<cache, up, msg, round, faults, errors, outside>>

\* Failover and reSchedule: a dispatched attempt that is preempted, or has lost
\* a node, ends up in the queue again.
Evict(w) ==
    /\ Live(wl[w]) /\ wl[w].disp
    /\ wl[w].preempted \/ ~(wl[w].pods \subseteq up)
    /\ wl' = [wl EXCEPT ![w].phase = "Pending", ![w].pods = {}, ![w].sched = FALSE,
                        ![w].disp = FALSE, ![w].resched = TRUE]
    /\ UNCHANGED <<cache, up, msg, round, faults, errors, outside>>

End(w) ==
    /\ Live(wl[w])
    /\ wl' = [wl EXCEPT ![w].phase = "Ended", ![w].pods = {}]
    /\ UNCHANGED <<cache, up, msg, round, faults, errors, outside>>

-----------------------------------------------------------------------------
Init ==
    /\ wl = [w \in Workload |-> Absent(w)] /\ cache = wl /\ snap = wl
    /\ up = Nodes
    /\ msg = FALSE
    /\ pc = "idle" /\ list = <<>> /\ queue = <<>> /\ victims = <<>>
    /\ left = [avail |-> 0, total |-> 0]
    /\ faults = MaxFaults /\ errors = MaxErrors
    /\ source = IF HasSource THEN "live" ELSE "none"
    /\ dep = [w \in Workload |-> "live"]
    /\ untold = {} /\ due = {}

Round ==
    \/ RoundStart \/ checkWorkloadDependencies \/ Consider \/ PreemptOne
    \/ UpdateStatus \/ MarkScheduled \/ UpdateUnScheduled

\* What else the scheduler's reconciler and its cron jobs do.
Triggers(w) == doStart(w) \/ setDependencyPhase(w)

Next ==
    \/ Round \/ NodeChanges \/ SourceEnds
    \/ \E w \in Workload :
         \/ Deliver(w) \/ Triggers(w) \/ DependencyChanges(w) \/ Submit(w)
         \/ Dispatch(w) \/ Run(w) \/ Evict(w) \/ End(w)

Spec == Init /\ [][Next]_vars

-----------------------------------------------------------------------------
(* Properties.                                                              *)

TypeOK ==
    /\ wl \in [Workload -> Record] /\ cache \in [Workload -> Record]
    /\ snap \in [Workload -> Record]
    /\ up \subseteq Nodes /\ msg \in BOOLEAN
    /\ pc \in {"idle", "loop", "preempt", "mark", "annotate", "positions"}
    /\ list \in Seq(Workload) /\ queue \in Seq(Workload) /\ victims \in Seq(Workload)
    /\ left \in [avail : Int, total : Int]
    /\ faults \in Nat /\ errors \in Nat
    /\ source \in {"none", "live", "ended"}
    /\ dep \in [Workload -> {"live", "leaving", "Succeeded", "Failed", "gone"}]
    /\ untold \subseteq Dependent /\ due \subseteq Timed

\* The workloads that hold resources for good: scheduled, and not on their way
\* out because of preemption.
Committed == {w \in Scheduled(wl) : ~wl[w].preempted}

\* What is scheduled and not being preempted fits into the nodes of the workspace.
NoOvercommit == Cardinality(Claims(wl, Committed, Nodes)) <= Cardinality(Nodes)

\* Who must wait for h: h is queued and ready in the round, can be placed
\* anywhere and at any time, and is neither scheduled nor ended.
Waits(h) == /\ h \in ToSet(queue) \ (Pinned \cup Timed)
            /\ Live(snap[h]) /\ snap[h].deps = "Succeeded" /\ ~snap[h].sched

\* A workload is scheduled, not for failover, before one of a higher priority.
Overtakes ==
    /\ pc = "annotate" /\ pc' = "loop"
    /\ LET w == Head(list) IN
         /\ ~wl[w].sched /\ ~isReScheduledForFailover(snap[w])
         /\ \E h \in Workload : Waits(h) /\ Priority[h] > Priority[w]

\* Everything that is there fits, and w is ready.
Room(w) ==
    /\ w \in Queued(wl) /\ wl[w].deps = "Succeeded"
    /\ source # "live" /\ w \notin Timed \ due
    /\ LET request(v) == Request[v]
       IN Sum(request, {v \in Workload : Live(wl[v])}) <= Cardinality(up)
=============================================================================

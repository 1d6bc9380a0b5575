------------------------------ MODULE PodSync ------------------------------
(* The part of the syncer that carries the pods of a workload, and the jobs of its TorchFT  *)
(* groups, into the workload's status. Every pod is a key of its own: workers that handle   *)
(* different pods of one workload run side by side, read the workload from a cache and      *)
(* write the whole list of pods. The list is kept in the object, or in the database.        *)
EXTENDS Integers, Sequences, FiniteSets, SequencesExt

CONSTANTS Kind,         \* "job", "app", "ray", "ft" or "cicd"
          PodIds,       \* the names of the pods, in their order
          Attr,         \* of each pod: the dispatch it is of, its slot, rank, group and tier,
                        \* the nodes it may run on and how it may end
          NodeIds,      \* the nodes, in the order of their addresses
          Total,        \* the pods of a complete dispatch
          MaxRetry, Sticky, Offload,
          Groups, MinGroups,   \* TorchFT: the number of groups beside the lighthouse, 0
          Moves, Restarts,     \* a pod may come back under its name, the manager may restart
          Lag           \* the cache may lag behind when a key is taken

VARIABLES pods,         \* the pods, as the informer shows them
          group,        \* TorchFT: the state of each group's job
          queue,        \* the keys that wait
          work,         \* what the worker of a key is at
          wl,           \* the workload
          cache,        \* the workload in the manager's cache
          fresh,        \* the cache is up to date
          db,           \* the rows of the workload: pods, and nodes of every dispatch
          faults,       \* the nodes with a fault that keeps other workloads away
          timer, late,  \* submitters that ended, less or more than an hour ago
          client,       \* what the syncer has for the cluster
          object        \* the dispatch whose object exists, 0 for none

vars == <<pods, group, queue, work, wl, cache, fresh, db, faults, timer, late, client, object>>

Pod == Range(PodIds)
Unused == [phase |-> "none", deleting |-> FALSE, new |-> TRUE]
GroupIds == IF Kind = "ft" THEN 0..Groups ELSE {}
Keys == Pod \union {"job"}
None == [phase |-> "none", deleting |-> FALSE]
Idle == [at |-> "idle"]
Terminated(p) == p.phase \in {"Succeeded", "Failed", "Stopped"}
Pos(x, s) == IF x \in Range(s) THEN CHOOSE i \in DOMAIN s : s[i] = x ELSE 0

----------------------------------------------------------------------------
(* The list of pods, and the nodes of a dispatch. *)

comparePodsByIPAndID(p, q) ==
    \/ Pos(p.node, NodeIds) < Pos(q.node, NodeIds)
    \/ p.node = q.node /\ Pos(p.id, PodIds) < Pos(q.id, PodIds)
sortWorkloadPods(list) ==
    LET Before(p, q) ==
            CASE Kind = "ft" -> \/ Attr[p.id].group < Attr[q.id].group
                                \/ Attr[p.id].group = Attr[q.id].group /\ comparePodsByIPAndID(p, q)
              [] Kind = "ray" -> \/ Attr[p.id].tier < Attr[q.id].tier
                                 \/ Attr[p.id].tier = Attr[q.id].tier /\ Pos(p.id, PodIds) < Pos(q.id, PodIds)
              [] OTHER -> comparePodsByIPAndID(p, q)
    IN SetToSortSeq(Range(list), Before)

\* The nodes of the dispatch c: each once, with the rank of its first pod. A history that is
\* too short grows by one.
updateWorkloadNodes(w, c) ==
    LET list == sortWorkloadPods(w.pods)
        firsts == SelectSeq(list, LAMBDA p : \A i \in DOMAIN list :
                        list[i].node = p.node => Pos(p, list) <= i)
        nodes == [i \in DOMAIN firsts |-> <<firsts[i].node, IF Kind = "ft" THEN "" ELSE Attr[firsts[i].id].rank>>]
    IN [w EXCEPT !.pods = list,
                 !.nodes = IF Len(@) < c THEN Append(@, nodes)
                           ELSE IF c > 0 THEN [@ EXCEPT ![c] = nodes] ELSE @]

\* Of several pods in one place of a Ray cluster the one that is most alive stays, the last
\* that was started if they are equal.
compareRayJobPodPriority(p, q) ==
    LET Rank(x) == CASE x.phase = "Running" -> 3 [] x.phase = "Pending" -> 2 [] OTHER -> 0
    IN \/ Rank(p) > Rank(q)
       \/ Rank(p) = Rank(q) /\ p.started /\ ~q.started
       \/ Rank(p) = Rank(q) /\ p.started = q.started /\ Pos(p.id, PodIds) > Pos(q.id, PodIds)
pruneStaleRayJobPods(list) ==
    SelectSeq(list, LAMBDA p : \A q \in Range(list) :
        (q # p /\ Attr[q.id].slot = Attr[p.id].slot) =>
            \/ ~Terminated(p) /\ Terminated(q)
            \/ Terminated(p) = Terminated(q) /\ compareRayJobPodPriority(p, q))

buildWorkloadPodInfo(p) == [id |-> p, phase |-> pods[p].phase, node |-> pods[p].node, started |-> pods[p].started]
Known(w, p) == {i \in DOMAIN w.pods : w.pods[i].id = p}

\* The workload with the pod's state in it; the same one if there is nothing to say.
updateWorkloadNodeAndPods(w, p) ==
    LET info == buildWorkloadPodInfo(p)
        old == IF Known(w, p) = {} THEN None ELSE w.pods[CHOOSE i \in Known(w, p) : TRUE]
        list == IF old = None THEN Append(w.pods, info)
                ELSE [i \in DOMAIN w.pods |-> IF w.pods[i].id = p THEN info ELSE w.pods[i]]
        kept == IF Kind = "ray" THEN pruneStaleRayJobPods(list) ELSE list
        new == [w EXCEPT !.pods = kept]
    IN IF old = info /\ info.started THEN w
       ELSE IF old = None \/ old.node # info.node \/ Len(kept) # Len(list)
            THEN updateWorkloadNodes(new, Attr[p].gen) ELSE new

isAllPodsAssigned(w) ==
    Len(w.pods) = Total /\ \A i \in DOMAIN w.pods : w.pods[i].phase # "Pending" /\ w.pods[i].node # ""
shouldWorkloadStopRetry(c) == MaxRetry <= 0 \/ c > MaxRetry
NodesOf(w, c) == {w.nodes[c][i][1] : i \in DOMAIN w.nodes[c]}
createStickyNodeFaults(w, c) ==
    IF ~isAllPodsAssigned(w) \/ ~Sticky \/ c <= 0 \/ shouldWorkloadStopRetry(c) THEN faults
    ELSE IF c = 1 THEN faults \union NodesOf(w, 1)
    ELSE (faults \union (NodesOf(w, c) \ NodesOf(w, c - 1))) \ (NodesOf(w, c - 1) \ NodesOf(w, c))

updateCICDScalingRunnerSetPhase(w, p) ==
    IF Kind # "cicd" \/ Attr[p].slot # "listener" THEN w
    ELSE [w EXCEPT !.phase = IF pods[p].phase \in {"Running", "Pending"} THEN pods[p].phase ELSE "NotReady"]

\* The pods of every node that have not ended, by what the scheduler counts.
BuildNodeUsage(w) ==
    LET Live(n, phases) == Cardinality({i \in DOMAIN w.pods : w.pods[i].node = n /\ w.pods[i].phase \in phases})
        nodes == {w.pods[i].node : i \in {j \in DOMAIN w.pods : ~Terminated(w.pods[j])}}
    IN {<<n, Live(n, {"Pending", "Running"}), Live(n, {"Running"})>> : n \in nodes}

----------------------------------------------------------------------------
(* Reading and writing the status. A write to the object needs the version that was read;   *)
(* the rows of the database are written before it, and without one.                         *)

hydrateWorkloadStatusFromDB(w) ==
    IF ~Offload THEN w
    ELSE [w EXCEPT !.pods = IF db.pods = {} THEN @
                            ELSE SetToSortSeq(db.pods, LAMBDA p, q : Pos(p.id, PodIds) < Pos(q.id, PodIds)),
                   !.nodes = IF db.nodes = <<>> THEN @ ELSE db.nodes]
getAdminWorkload == hydrateWorkloadStatusFromDB(cache)

ToWrite(k, w, then) ==
    work' = [work EXCEPT ![k] = [at |-> IF Offload THEN "pods" ELSE "patch", new |-> w, fresh |-> fresh, then |-> then]]

BatchUpsertWorkloadPods(k) ==
    LET new == Range(work[k].new.pods)
    IN /\ work[k].at = "pods"
       /\ db' = [db EXCEPT !.pods = new \union {p \in @ : \A q \in new : q.id # p.id}]
       /\ work' = [work EXCEPT ![k].at = "prune"]
DeleteWorkloadPodsNotIn(k) ==
    /\ work[k].at = "prune"
    /\ db' = [db EXCEPT !.pods = {p \in @ : \E q \in Range(work[k].new.pods) : q.id = p.id}]
    /\ work' = [work EXCEPT ![k].at = "nodes"]
UpsertWorkloadDispatchNode(k) ==
    LET new == work[k].new.nodes
    IN /\ work[k].at = "nodes"
       /\ db' = [db EXCEPT !.nodes = [i \in DOMAIN new |-> new[i]] \o SubSeq(@, Len(new) + 1, Len(@))]
       /\ work' = [work EXCEPT ![k].at = "patch"]
writeWorkloadStatusToDB(k) ==
    /\ BatchUpsertWorkloadPods(k) \/ DeleteWorkloadPodsNotIn(k) \/ UpsertWorkloadDispatchNode(k)
    /\ UNCHANGED <<pods, group, queue, wl, cache, fresh, faults, timer, late, client, object>>

\* A write makes the cache and what the other workers have read old.
Write(k, w, next) ==
    /\ wl' = w /\ fresh' = (w = wl /\ fresh)
    /\ work' = [j \in Keys |-> IF j = k THEN next
                               ELSE IF "fresh" \in DOMAIN work[j] /\ w # wl THEN [work[j] EXCEPT !.fresh = FALSE]
                               ELSE work[j]]
Guarded(k) == work[k].fresh

\* The pods and nodes of the new status; the phase only for the listener of runners.
patchWorkloadPodStatus(k) ==
    LET new == work[k].new
        stored == IF Offload THEN [wl EXCEPT !.pods = <<>>, !.nodes = <<>>, !.usage = BuildNodeUsage(new)]
                  ELSE [wl EXCEPT !.pods = new.pods, !.nodes = new.nodes]
        then == work[k].then
        removed == then \in {"gone", "force", "young"}
    IN /\ work[k].at = "patch" /\ then # "reschedule"
       /\ IF Guarded(k)
          THEN /\ Write(k, IF Kind = "cicd" /\ ~removed THEN [stored EXCEPT !.phase = new.phase] ELSE stored,
                        IF removed THEN [at |-> "delete", then |-> then] ELSE Idle)
               /\ timer' = IF then = "wait" THEN timer \union {k} ELSE timer
               /\ UNCHANGED queue
          ELSE /\ work' = [work EXCEPT ![k] = Idle] /\ queue' = queue \union {k}
               /\ UNCHANGED <<wl, fresh, timer>>
       /\ UNCHANGED <<pods, group, cache, db, faults, late, client, object>>

----------------------------------------------------------------------------
(* The handling of a pod. *)

Take(k) == k \in queue /\ work[k] = Idle /\ client = "ready" /\ (fresh \/ Lag)
Absent(p) == pods[p] \in {None, Unused}
Gone(p) == Absent(p) \/ pods[p].deleting
\* What is to be done with a pod that is gone, decided when it is taken.
DeleteStep(p) == IF Absent(p) THEN "gone" ELSE IF pods[p].old THEN "force" ELSE "young"
Same == <<pods, group, wl, cache, fresh, db, late, client, object>>

\* A pod that is deleted leaves the list of an application; in any other it is stopped,
\* unless its end is known.
removeWorkloadPod(p) ==
    LET w == getAdminWorkload
        stopped == [i \in DOMAIN w.pods |-> IF w.pods[i].id = p THEN [w.pods[i] EXCEPT !.phase = "Stopped"] ELSE w.pods[i]]
    IN /\ Take(p) /\ Gone(p) /\ queue' = queue \ {p}
       /\ IF Known(w, p) = {} \/ (Kind # "app" /\ \A i \in Known(w, p) : Terminated(w.pods[i]))
          THEN work' = [work EXCEPT ![p] = [at |-> "delete", then |-> DeleteStep(p)]]
          ELSE IF Kind = "app"
          THEN ToWrite(p, updateWorkloadNodes([w EXCEPT !.pods = SelectSeq(@, LAMBDA q : q.id # p)], w.count), DeleteStep(p))
          ELSE ToWrite(p, [w EXCEPT !.pods = stopped], DeleteStep(p))
       /\ UNCHANGED <<faults, timer>> /\ UNCHANGED Same

\* A pod that is still there a minute after its deletion is removed by force: the one that
\* has its name by now.
deletePod(p) ==
    /\ work[p].at = "delete" /\ work' = [work EXCEPT ![p] = Idle]
    /\ CASE work[p].then = "gone" -> UNCHANGED <<pods, queue>>
         [] work[p].then = "young" -> queue' = queue \union {p} /\ UNCHANGED pods
         [] work[p].then = "force" -> IF Absent(p) THEN UNCHANGED <<pods, queue>>
                                      ELSE pods' = [pods EXCEPT ![p] = None] /\ queue' = queue \union {p}
    /\ UNCHANGED <<group, wl, cache, fresh, db, faults, timer, late, client, object>>

\* A submitter that ended an hour ago fails the workload, whatever became of it.
handleRaySubmitterTimeout(w, p) ==
    Kind = "ray" /\ Attr[p].tier = 0 /\ p \in late
    /\ \E i \in Known(w, p) : w.pods[i].phase \in {"Succeeded", "Failed"}

updateAdminWorkloadByPod(p) ==
    LET w == getAdminWorkload
        new == updateCICDScalingRunnerSetPhase(updateWorkloadNodeAndPods(w, p), p)
        wait == Kind = "ray" /\ Attr[p].tier = 0 /\ pods[p].phase \in {"Succeeded", "Failed"}
    IN /\ Take(p) /\ ~Gone(p)
       /\ IF ~w.disp THEN UNCHANGED <<queue, work, faults>>       \* again after a second
          ELSE /\ queue' = queue \ {p}
               /\ IF handleRaySubmitterTimeout(w, p)
                  THEN /\ work' = [work EXCEPT ![p] = [at |-> "fail", fresh |-> fresh]]
                       /\ UNCHANGED faults
                  ELSE IF updateWorkloadNodeAndPods(w, p) = w /\ pods[p].started
                  THEN UNCHANGED <<work, faults>>
                  ELSE /\ faults' = createStickyNodeFaults(new, Attr[p].gen)
                       /\ ToWrite(p, new, IF wait THEN "wait" ELSE "done")
       /\ UNCHANGED timer /\ UNCHANGED Same

SetWorkloadFailed(p) ==
    /\ work[p].at = "fail"
    /\ IF Guarded(p) THEN Write(p, [wl EXCEPT !.phase = "Failed"], Idle) /\ UNCHANGED queue
       ELSE work' = [work EXCEPT ![p] = Idle] /\ queue' = queue \union {p} /\ UNCHANGED <<wl, fresh>>
    /\ UNCHANGED <<pods, group, cache, db, faults, timer, late, client, object>>

handlePod(p) == removeWorkloadPod(p) \/ deletePod(p) \/ updateAdminWorkloadByPod(p)

----------------------------------------------------------------------------
(* The jobs of the groups of a TorchFT workload: the phase of the workload is decided by    *)
(* the phases of its groups that were seen.                                                 *)

isTorchFTGroupFailed(torch) ==
    Groups - Cardinality({g \in 1..Groups : g \in DOMAIN torch /\ torch[g] \in {"Failed", "Stopped"}}) < MinGroups
\* The phase the groups agree on, "" for none.
handleTorchFTGroupStatus(torch, phase) ==
    IF phase = "Failed" THEN (IF isTorchFTGroupFailed(torch) THEN "Failed" ELSE "")
    ELSE IF /\ Cardinality(DOMAIN torch) > Groups
            /\ \A g \in (IF phase = "Succeeded" THEN 1 ELSE 0)..Groups : torch[g] = phase
         THEN phase ELSE ""
updateAdminWorkloadPhase(w, g, phase) ==
    LET torch == [x \in DOMAIN w.torch \union {g} |-> IF x = g THEN phase ELSE w.torch[x]]
        all == handleTorchFTGroupStatus(torch, phase)
        ends == phase \notin {"Failed", "Stopped"} \/ shouldWorkloadStopRetry(w.count)
    IN [w EXCEPT !.torch = torch, !.phase = IF all = phase /\ ends THEN phase ELSE @]

\* The messages of the groups are keys of their own; the one that is handled is any.
handleJob ==
    /\ Take("job") /\ \E g \in GroupIds :
          LET w == getAdminWorkload
              new == updateAdminWorkloadPhase(w, g, group[g].phase)
          IN /\ group[g].queued
             /\ IF w.phase \in {"Succeeded", "Failed", "Stopped"} \/ group[g].phase = "none" \/ new = w
                THEN UNCHANGED work
                ELSE work' = [work EXCEPT !["job"] = [at |-> "update", new |-> new, fresh |-> fresh, group |-> g]]
             /\ group' = [group EXCEPT ![g].queued = FALSE]
             /\ queue' = IF \E h \in GroupIds \ {g} : group[h].queued THEN queue ELSE queue \ {"job"}
    /\ UNCHANGED <<pods, wl, cache, fresh, db, faults, timer, late, client, object>>
StatusUpdate ==
    /\ work["job"].at = "update"
    /\ IF Guarded("job")
       THEN /\ Write("job", [wl EXCEPT !.torch = work["job"].new.torch, !.phase = work["job"].new.phase], Idle)
            /\ UNCHANGED <<queue, group>>
       ELSE /\ work' = [work EXCEPT !["job"] = Idle] /\ queue' = queue \union {"job"}
            /\ group' = [group EXCEPT ![work["job"].group].queued = TRUE] /\ UNCHANGED <<wl, fresh>>
    /\ UNCHANGED <<pods, cache, db, faults, timer, late, client, object>>

\* Once the object and its pods are gone the workload is prepared for its next dispatch.
reSchedule ==
    LET w == getAdminWorkload
        next == [w EXCEPT !.pods = <<>>, !.torch = <<>>, !.phase = "Pending",
                          !.nodes = IF Len(@) < w.count THEN Append(@, <<>>) ELSE @]
    IN /\ Kind # "ft" /\ client = "ready" /\ work["job"] = Idle /\ w.disp /\ w.count < MaxRetry + 1
       /\ object = 0 /\ \A p \in Pod : Absent(p)
       /\ \E p \in Pod : Attr[p].gen = w.count + 1
       /\ ToWrite("job", next, "reschedule")
       /\ UNCHANGED <<queue, faults, timer>> /\ UNCHANGED Same
persistWorkloadStatus ==
    LET new == work["job"].new
    IN /\ work["job"].at = "patch" /\ work["job"].then = "reschedule"
       /\ IF Guarded("job")
          THEN Write("job", IF Offload THEN [new EXCEPT !.pods = <<>>, !.nodes = <<>>, !.usage = BuildNodeUsage(new)] ELSE new,
                     [at |-> "release"])
          ELSE work' = [work EXCEPT !["job"] = Idle] /\ UNCHANGED <<wl, fresh>>
       /\ UNCHANGED <<pods, group, queue, cache, db, faults, timer, late, client, object>>
ReleaseWorkload ==
    /\ work["job"].at = "release" /\ Write("job", [wl EXCEPT !.disp = FALSE], Idle)
    /\ UNCHANGED <<pods, group, queue, cache, db, faults, timer, late, client, object>>

----------------------------------------------------------------------------
(* The syncer's clients. *)

\* Without a client for the cluster a message waits; the informer lists what there is.
handleCluster ==
    /\ client = "none" /\ client' = "ready"
    /\ queue' = queue \union {p \in Pod : ~Absent(p)}
    /\ UNCHANGED <<pods, group, work, wl, cache, fresh, db, faults, timer, late, object>>
\* A restart forgets the queue; pods that went meanwhile are not listed.
Restart ==
    /\ client = "ready" /\ Restarts
    /\ client' = "none" /\ queue' = {} /\ work' = [k \in Keys |-> Idle] /\ timer' = {}
    /\ fresh' = TRUE /\ cache' = wl
    /\ UNCHANGED <<pods, group, wl, db, faults, late, object>>

----------------------------------------------------------------------------
(* Pods, the dispatcher, time. *)

handleResource(p, s) ==
    /\ pods' = [pods EXCEPT ![p] = s] /\ queue' = IF client = "ready" THEN queue \union {p} ELSE queue
    /\ UNCHANGED <<group, work, wl, cache, fresh, db, faults, timer, late, client, object>>
Fresh == [phase |-> "Pending", node |-> "", started |-> FALSE, deleting |-> FALSE, old |-> FALSE]
\* A place is filled again once its pod has ended or is being deleted, in the order of PodIds.
Alive(p) == ~Absent(p) /\ ~pods[p].deleting
PodCreated(p) ==
    /\ \A q \in Pod \ {p} : (Attr[q].slot = Attr[p].slot /\ Attr[q].gen = Attr[p].gen) =>
          /\ Alive(q) => Terminated(pods[q])
          /\ Pos(q, PodIds) < Pos(p, PodIds) => pods[q] # Unused
    /\ pods[p] = Unused \/ (Moves /\ pods[p] = None)
    /\ Attr[p].gen = object /\ handleResource(p, Fresh)
PodRuns(p) ==
    /\ Alive(p) /\ pods[p].phase = "Pending"
    /\ \E n \in Attr[p].nodes : handleResource(p, [pods[p] EXCEPT !.node = n, !.phase = "Running", !.started = TRUE])
PodEnds(p) ==
    /\ Alive(p) /\ pods[p].phase = "Running"
    /\ \E s \in Attr[p].ends : handleResource(p, [pods[p] EXCEPT !.phase = s])
PodDeleted(p) == Alive(p) /\ handleResource(p, [pods[p] EXCEPT !.deleting = TRUE])
PodVanishes(p) == ~Absent(p) /\ pods[p].deleting /\ handleResource(p, None)
MinutePasses(p) ==
    /\ ~Absent(p) /\ pods[p].deleting /\ ~pods[p].old
    /\ pods' = [pods EXCEPT ![p].old = TRUE]
    /\ UNCHANGED <<group, queue, work, wl, cache, fresh, db, faults, timer, late, client, object>>
HourPasses(p) ==
    /\ p \in timer /\ timer' = timer \ {p} /\ late' = late \union {p} /\ queue' = queue \union {p}
    /\ UNCHANGED <<pods, group, work, wl, cache, fresh, db, faults, client, object>>
GroupMoves(g) ==
    /\ \E s \in {"Running", "Succeeded", "Failed", "Stopped"} :
          /\ \/ group[g].phase = "none" /\ s = "Running"
             \/ group[g].phase = "Running" /\ s # "Running"
             \/ group[g].phase \in {"Succeeded", "Failed"} /\ s = "Stopped" /\ Moves
          /\ group' = [group EXCEPT ![g] = [phase |-> s, queued |-> TRUE]]
    /\ queue' = queue \union {"job"}
    /\ UNCHANGED <<pods, work, wl, cache, fresh, db, faults, timer, late, client, object>>
Dispatch ==
    /\ ~wl.disp
    /\ LET w == [wl EXCEPT !.disp = TRUE, !.count = @ + 1]
       IN /\ wl' = w /\ fresh' = FALSE /\ object' = w.count
          /\ work' = [j \in Keys |-> IF "fresh" \in DOMAIN work[j] THEN [work[j] EXCEPT !.fresh = FALSE] ELSE work[j]]
    /\ UNCHANGED <<pods, group, queue, cache, db, faults, timer, late, client>>
ObjectDeleted ==
    /\ object # 0 /\ object' = 0
    /\ UNCHANGED <<pods, group, queue, work, wl, cache, fresh, db, faults, timer, late, client>>
CacheCatchesUp ==
    /\ ~fresh /\ fresh' = TRUE /\ cache' = wl
    /\ UNCHANGED <<pods, group, queue, work, wl, db, faults, timer, late, client, object>>

Init ==
    /\ pods = [p \in Pod |-> Unused]
    /\ group = [g \in GroupIds |-> [phase |-> "none", queued |-> FALSE]]
    /\ queue = {} /\ work = [k \in Keys |-> Idle]
    /\ wl = [disp |-> TRUE, count |-> 1, pods |-> <<>>, nodes |-> <<>>, usage |-> {}, phase |-> "Pending", torch |-> <<>>]
    /\ cache = wl /\ fresh = TRUE /\ db = [pods |-> {}, nodes |-> <<>>]
    /\ faults = {} /\ timer = {} /\ late = {} /\ client = "none" /\ object = 1

Syncer(p) == handlePod(p) \/ writeWorkloadStatusToDB(p) \/ patchWorkloadPodStatus(p) \/ SetWorkloadFailed(p)
Jobs == handleJob \/ StatusUpdate \/ writeWorkloadStatusToDB("job") \/ persistWorkloadStatus \/ ReleaseWorkload
Cluster(p) == PodCreated(p) \/ PodRuns(p) \/ PodEnds(p) \/ PodDeleted(p) \/ PodVanishes(p) \/ MinutePasses(p) \/ HourPasses(p)
Next ==
    \/ \E p \in Pod : Syncer(p) \/ Cluster(p)
    \/ Jobs \/ reSchedule \/ handleCluster \/ Restart \/ Dispatch \/ ObjectDeleted \/ CacheCatchesUp
    \/ \E g \in GroupIds : GroupMoves(g)
Spec == Init /\ [][Next]_vars

----------------------------------------------------------------------------
TypeOK ==
    /\ queue \subseteq Keys /\ faults \subseteq Range(NodeIds) /\ timer \union late \subseteq Pod
    /\ client \in {"none", "ready"} /\ wl.count \in 1..(MaxRetry + 1)
    /\ \A k \in Keys : work[k].at \in {"idle", "pods", "prune", "nodes", "patch", "delete", "fail", "update", "release"}

Stored == IF Offload THEN hydrateWorkloadStatusFromDB(wl) ELSE wl
Quiet == queue = {} /\ (\A k \in Keys : work[k] = Idle) /\ fresh /\ client = "ready" /\ wl.disp

\* When the syncer has nothing left to do, every pod is in the list as it is; of a Ray
\* cluster's, every place that runs is shown running.
PodsFollow ==
    Quiet => \A p \in Pod : (Alive(p) /\ Attr[p].gen = wl.count) =>
        IF Kind # "ray" THEN \E i \in Known(Stored, p) : Stored.pods[i] = buildWorkloadPodInfo(p)
        ELSE pods[p].phase = "Running" =>
                 \E x \in Range(Stored.pods) : Attr[x.id].slot = Attr[p].slot /\ x.phase = "Running"
\* A pod that is gone is not counted.
GoneIsNotCounted ==
    Quiet => \A p \in Pod : Absent(p) => \A i \in Known(Stored, p) : Terminated(Stored.pods[i])
\* The nodes of the dispatch are those of its pods.
NodesMatch ==
    (Quiet /\ Stored.pods # <<>>) =>
        NodesOf(Stored, wl.count) = {Stored.pods[i].node : i \in DOMAIN Stored.pods}
\* The nodes of the first dispatch are kept for the workload once all of it runs.
StickyFollows ==
    (Quiet /\ Sticky /\ wl.count = 1 /\ MaxRetry > 0 /\ isAllPodsAssigned(Stored)) => NodesOf(Stored, 1) \subseteq faults
UsageMatches == (Quiet /\ Offload) => wl.usage = BuildNodeUsage(Stored)

\* What happened in an earlier dispatch is not rewritten, and an end that was recorded stays.
Rewrites ==
    \/ \E c \in 1..(wl.count - 1) : c \in DOMAIN Stored.nodes /\ c \in DOMAIN Stored'.nodes /\ Stored'.nodes[c] # Stored.nodes[c]
    \/ \E p \in Pod : \E i \in Known(Stored, p), j \in Known(Stored', p) :
          Stored.pods[i].phase \in {"Succeeded", "Failed"} /\ Stored'.pods[j].phase # Stored.pods[i].phase

\* A TorchFT workload ends only as its groups did.
GroupsDecide ==
    /\ wl.phase = "Failed" => Cardinality({g \in 1..Groups : group[g].phase \notin {"Failed", "Stopped"}}) < MinGroups
    /\ wl.phase = "Succeeded" => \A g \in 1..Groups : group[g].phase = "Succeeded"
\* The phase of a set of runners is that of its listener.
ListenerDecides ==
    Quiet => \A p \in Pod : (Alive(p) /\ Attr[p].slot = "listener") =>
        wl.phase = IF pods[p].phase \in {"Running", "Pending"} THEN pods[p].phase ELSE "NotReady"
=============================================================================

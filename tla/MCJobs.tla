------------------------------ MODULE MCJobs ------------------------------
(***************************************************************************)
(* The scheduler's policy and the ops jobs with the bounds of the          *)
(* configurations, one scenario at a time. A behaviour picks its scenario  *)
(* at the start and keeps it; the variables of the modules that take no    *)
(* part hold no value.                                                     *)
(***************************************************************************)
EXTENDS Integers

CONSTANT Scenarios       \* the scenarios of the run

VARIABLES scenario,
    wl, cache, up, msg, pc, list, queue, snap, left, victims, faults, errors, source, dep,
    untold, due, job, allJobs, batch, fault, going, using, removed, timer, task, events, hand,
    stop, queued, bad, late, pipe, object, asked, worker, todo, ds, local, pushed, sent, boots,
    seen, node, request, kind, spec, marks, objs, svc, ing, run, store, space, flavor, now,
    edits, pods, group, work, fresh, db, client, config, file

vars == <<scenario,
          wl, cache, up, msg, pc, list, queue, snap, left, victims, faults, errors, source, dep,
          untold, due, job, allJobs, batch, fault, going, using, removed, timer, task, events,
          hand, stop, queued, bad, late, pipe, object, asked, worker, todo, ds, local, pushed,
          sent, boots, seen, node, request, kind, spec, marks, objs, svc, ing, run, store,
          space, flavor, now, edits, pods, group, work, fresh, db, client, config, file>>

Unused == "unused"

\* The workloads to schedule: a small one of low priority and two of high priority.
Ages       == [a |-> 1, b |-> 2, c |-> 3]
Priorities == [a |-> 0, b |-> 1, c |-> 1]
Sizes      == [a |-> 1, b |-> 2, c |-> 1]

\* A volume that is mounted and one that is only declared.
Volumes == {[type |-> "pfs", id |-> 1, mounted |-> TRUE], [type |-> "hostpath", id |-> 3, mounted |-> FALSE]}

\* The pods of a job and of its second dispatch, a second head, a listener and a submitter.
APod(n, s, t, on, ends) ==
    [gen |-> n, slot |-> s, rank |-> s, group |-> 1, tier |-> t, nodes |-> on, ends |-> ends]
PodAttr ==
    [p |-> APod(1, "0", 1, {"m"}, {"Failed"}), q |-> APod(1, "1", 2, {"n"}, {"Succeeded"}),
     r |-> APod(2, "0", 1, {"m", "n"}, {"Failed"}), h |-> APod(1, "0", 1, {"n"}, {}),
     l |-> APod(1, "listener", 0, {"m"}, {"Failed"}), j |-> APod(1, "s", 0, {"m"}, {"Failed"})]

\* Each kind of scope of a preflight.
Scopes ==
    {[kind |-> "node", nodes |-> <<1, 3>>, of |-> "none"], [kind |-> "host", nodes |-> <<2, 2, 1>>, of |-> "none"],
     [kind |-> "workload", nodes |-> <<2, 3>>, of |-> "w1"],
     [kind |-> "workspace", nodes |-> <<>>, of |-> "w1"], [kind |-> "cluster", nodes |-> <<>>, of |-> "none"]}

(* Workloads of every kind, as users submit them. *)
Pod(n, gpus) ==
    [replica |-> n, cpu |-> 1, mem |-> 4, gpu |-> gpus, gpuName |-> "", store |-> 0, shm |-> 0, rdma |-> 0]
NoField == [none |-> TRUE]
Submitted ==
    [name |-> "", kind |-> "", workspace |-> "w", opsJob |-> FALSE, display |-> TRUE, longName |-> FALSE,
     res |-> <<Pod(1, 8), Pod(1, 8)>>, images |-> <<"i">>, entries |-> <<[enc |-> FALSE, text |-> "run"]>>,
     env |-> <<>>, priority |-> 3, maxRetry |-> 60, supervised |-> TRUE, deps |-> {}, hostPath |-> <<"/a", "/b", "/a">>,
     readiness |-> NoField, liveness |-> NoField, service |-> NoField, secrets |-> <<"s", "gone", "s">>,
     labels |-> [team |-> "x", empty |-> ""], cron |-> <<>>, timeout |-> -1, ttl |-> -1, owner |-> "",
     parent |-> "", runner |-> "", roles |-> <<>>, multi |-> {}, framework |-> "", backend |-> "",
     scheduled |-> FALSE, dispatched |-> FALSE, noFailover |-> FALSE, sticky |-> FALSE, preempt |-> FALSE,
     cluster |-> "", flavor |-> "", envRemoved |-> {}, github |-> "", storage |-> TRUE,
     affinity |-> "", nodes |-> {}]
Submit(k, given) ==
    [f \in DOMAIN Submitted |-> IF f = "kind" THEN k ELSE IF f \in DOMAIN given THEN given[f] ELSE Submitted[f]]
Port(n) == [protocol |-> "", port |-> 0, targetPort |-> 80, nodePort |-> n,
            type |-> IF n = 0 THEN "ClusterIP" ELSE "NodePort", extends |-> <<>>]
EnvGroups(n) == [ReplicaCount |-> n, MaxReplicaCount |-> 3, MinReplicaCount |-> 1]
AllTemplates ==
    {Submit("", [cron |-> <<[at |-> 1, action |-> ""]>>, hostPath |-> <<>>]), Submit("Deployment", [service |-> Port(0)]),
     Submit("Deployment", [service |-> Port(30), readiness |-> [path |-> "/", port |-> 80, delay |-> 0]]),
     Submit("RayJob", [env |-> [RAY_JOB_ENTRYPOINT |-> "x"]]), Submit("TorchFT", [env |-> EnvGroups(2), res |-> <<Pod(1, 0), Pod(4, 8)>>]),
     Submit("MonarchJob", [env |-> [ReplicaCount |-> 2], res |-> <<Pod(2, 0), Pod(4, 4)>>]),
     Submit("Authoring", [nodes |-> {"n"}, affinity |-> "required"]), Submit("Sandbox", <<>>),
     Submit("ScaleRunnerSet", [env |-> [RESOURCES |-> [Pod(1, 1) EXCEPT !.store = 1], ENTRYPOINT |-> "e", IMAGE |-> "i",
                                        GITHUB_CONFIG_URL |-> "u", GITHUB_SECRET_ID |-> "g"]]),
     Submit("EphemeralRunner", [runner |-> "a"]), Submit("UnifiedJob", [runner |-> "a"]),
     Submit("DynamoDeployment", [res |-> <<Pod(1, 0), Pod(2, 8), Pod(1, 0)>>, multi |-> {"worker"}]),
     Submit("InferaDeployment", [res |-> <<Pod(1, 0), Pod(2, 8), Pod(2, 8)>>]),
     Submit("PyTorchJob", [opsJob |-> TRUE, owner |-> "b"])}
AllPatches ==
    {[priority |-> -1], [res |-> <<Pod(1, 8), Pod(0, 8), Pod(2, 8)>>], [res |-> <<Pod(1, 0), Pod(5, 8)>>],
     [env |-> EnvGroups(1), res |-> <<Pod(1, 0), Pod(2, 8)>>], [env |-> <<>>], [cron |-> <<[at |-> 2, action |-> "stop"]>>],
     [service |-> Port(0)], [owner |-> "b"], [labels |-> <<>>]}
AWorkspace == [replica |-> 4, gpuName |-> "amd.com/gpu", hostPaths |-> {"/b"}, imageSecrets |-> <<"s", "w">>, preempt |-> FALSE,
               maxRuntime |-> 10, scopes |-> {}, total |-> [cpu |-> 8, mem |-> 40, gpu |-> 48, store |-> 40, rdma |-> 8]]
AllSpaces == {AWorkspace, [AWorkspace EXCEPT !.preempt = TRUE, !.replica = 2, !.scopes = {"Train"}], NoField}
AFlavor == [cpu |-> 10, mem |-> 20, gpu |-> 8, store |-> 20, rdma |-> 1]
AllFlavors == {AFlavor, [AFlavor EXCEPT !.gpu = 4]}
AllKinds == {"PyTorchJob", "Deployment", "RayJob", "MonarchClient", "MonarchMesh", "Authoring", "Sandbox", "ScaleRunnerSet",
             "EphemeralRunner", "UnifiedJob", "DynamoDeployment", "InferaDeployment"}
TenPercent == [cpu |-> 10, mem |-> 10, gpu |-> 0, store |-> 10, rdma |-> 0]
\* Two workloads at a time: services, owners, runners.
PairTemplates == {t \in AllTemplates : t.kind \in {"Deployment", "ScaleRunnerSet", "EphemeralRunner", "UnifiedJob"} \/ t.owner # ""}

\* Patterns, and files with and without dates.
SomePatterns == {<<"p">>, <<"q", " ", "r">>, <<"p", ",">>}
SomeFiles ==
    {[head |-> h, rows |-> lines] :
        h \in {<<"#", "A", "D", "E">>, <<"B", "A", "D", "">>, <<"B", "A", "C", "">>},
        lines \in UNION {[1 .. n -> {<<"#", "v", "D", "E">>, <<"1", "u", "2", "">>, <<"1", "A", "D", "3">>,
                                     <<"2", "w", "4", "5">>}] : n \in 0 .. 2}}

PairPatches == {p \in AllPatches : DOMAIN p \cap {"owner", "service"} # {}}

-----------------------------------------------------------------------------
\* Three workloads ask for more than the two nodes; or two of them, with a node
\* that fails, a source and a failing call.
Quota == INSTANCE Scheduling WITH
    Workload <- {"a", "b", "c"}, Nodes <- {1, 2}, Request <- Sizes, Priority <- Priorities,
    Created <- Ages, Dependent <- {}, Timed <- {}, HasSource <- FALSE, MayGo <- {},
    Tolerant <- {}, Pinned <- {}, Preempting <- {}, Fifo <- TRUE, Synced <- TRUE,
    MaxFaults <- 0, MaxErrors <- 0

QuotaFaults == INSTANCE Scheduling WITH
    Workload <- {"b", "c"}, Nodes <- {1, 2}, Request <- Sizes, Priority <- Priorities,
    Created <- Ages, Dependent <- {}, Timed <- {}, HasSource <- TRUE, MayGo <- {"source"},
    Tolerant <- {}, Pinned <- {}, Preempting <- {}, Fifo <- TRUE, Synced <- TRUE,
    MaxFaults <- 1, MaxErrors <- 1

\* A large workload of high priority preempts a small one.
Preempt == INSTANCE Scheduling WITH
    Workload <- {"a", "b"}, Nodes <- {1, 2}, Request <- Sizes, Priority <- Priorities,
    Created <- Ages, Dependent <- {}, Timed <- {}, HasSource <- FALSE, MayGo <- {},
    Tolerant <- {}, Pinned <- {}, Preempting <- {"b"}, Fifo <- TRUE, Synced <- TRUE,
    MaxFaults <- 1, MaxErrors <- 1

\* Workloads wait for nodes, for one another, or for their time and the source
\* of the workspace.
Wakeup == INSTANCE Scheduling WITH
    Workload <- {"a", "b"}, Nodes <- {1, 2}, Request <- Sizes, Priority <- Priorities,
    Created <- Ages, Dependent <- {}, Timed <- {}, HasSource <- FALSE, MayGo <- {},
    Tolerant <- {"a"}, Pinned <- {"b"}, Preempting <- {}, Fifo <- FALSE, Synced <- TRUE,
    MaxFaults <- 1, MaxErrors <- 0

Waits == INSTANCE Scheduling WITH
    Workload <- {"a", "b"}, Nodes <- {1, 2}, Request <- Sizes, Priority <- Priorities,
    Created <- Ages, Dependent <- {"b"}, Timed <- {}, HasSource <- FALSE, MayGo <- {},
    Tolerant <- {"a"}, Pinned <- {"b"}, Preempting <- {}, Fifo <- FALSE, Synced <- TRUE,
    MaxFaults <- 0, MaxErrors <- 0

Sourced == INSTANCE Scheduling WITH
    Workload <- {"a"}, Nodes <- {1, 2}, Request <- Sizes, Priority <- Priorities,
    Created <- Ages, Dependent <- {"a"}, Timed <- {"a"}, HasSource <- TRUE,
    MayGo <- {"dependency"}, Tolerant <- {}, Pinned <- {}, Preempting <- {}, Fifo <- FALSE,
    Synced <- FALSE, MaxFaults <- 0, MaxErrors <- 0

\* Two jobs on one node.
Addons == INSTANCE OpsJobAddon WITH
    Node <- {"n1"}, Job <- {"j1", "j2"}, BatchCount <- 1, Security <- TRUE, MaxInputs <- 1,
    MaxTries <- 2, MaxMisses <- 1, MaxFails <- 1, MaxRemoved <- 1, MaxWork <- 1,
    MaxRestarts <- 1

\* One job on two nodes.
Addon == INSTANCE OpsJobAddon WITH
    Node <- {"n1", "n2"}, Job <- {"j1"}, BatchCount <- 2, Security <- TRUE, MaxInputs <- 2,
    MaxTries <- 2, MaxMisses <- 1, MaxFails <- 1, MaxRemoved <- 1, MaxWork <- 1,
    MaxRestarts <- 1

AddonEnds == INSTANCE OpsJobAddon WITH
    Node <- {"n1"}, Job <- {"j1"}, BatchCount <- 1, Security <- TRUE, MaxInputs <- 1,
    MaxTries <- 2, MaxMisses <- 1, MaxFails <- 2, MaxRemoved <- 1, MaxWork <- 2,
    MaxRestarts <- 1

\* Jobs that run a workload, with an event that is given up.
Evaluation == INSTANCE OpsJobWorkload WITH
    Kind <- "evaluation", MaxRestarts <- 0, MaxLost <- 1

Preflight == INSTANCE OpsJobWorkload WITH
    Kind <- "preflight", MaxRestarts <- 1, MaxLost <- 1

Download == INSTANCE OpsJobWorkload WITH
    Kind <- "download", MaxRestarts <- 0, MaxLost <- 1

\* A log of three pages and a part of two, with failing uploads and a restart;
\* a log too short for a part; failing reads.
Dump == INSTANCE DumpLog WITH
    Jobs <- {"j1"}, Pages <- 3, MinBatch <- 2, MaxParts <- 5, LogCap <- 2, MaxScrollErrors <- 0,
    MaxUploadErrors <- 1, MaxRestarts <- 1

DumpShort == INSTANCE DumpLog WITH
    Jobs <- {"j1"}, Pages <- 1, MinBatch <- 2, MaxParts <- 5, LogCap <- 2, MaxScrollErrors <- 0,
    MaxUploadErrors <- 1, MaxRestarts <- 1

DumpEnds == INSTANCE DumpLog WITH
    Jobs <- {"j1"}, Pages <- 2, MinBatch <- 2, MaxParts <- 5, LogCap <- 2, MaxScrollErrors <- 0,
    MaxUploadErrors <- 1, MaxRestarts <- 1

DumpErrors == INSTANCE DumpLog WITH
    Jobs <- {"j1"}, Pages <- 3, MinBatch <- 2, MaxParts <- 5, LogCap <- 2, MaxScrollErrors <- 1,
    MaxUploadErrors <- 1, MaxRestarts <- 0

\* Jobs with workers of their own, with a restart, failing calls, or a cache
\* behind the reconciler's writes.
Prewarm == INSTANCE OpsJobWorkers WITH
    Kind <- "prewarm", Nodes <- {"n1"}, Lag <- FALSE, MaxRestarts <- 1, MaxFailures <- 2

Export == INSTANCE OpsJobWorkers WITH
    Kind <- "export", Nodes <- {"n1"}, Lag <- FALSE, MaxRestarts <- 1, MaxFailures <- 2

ExportOnce == INSTANCE OpsJobWorkers WITH
    Kind <- "export", Nodes <- {"n1"}, Lag <- FALSE, MaxRestarts <- 0, MaxFailures <- 2

Reboot == INSTANCE OpsJobWorkers WITH
    Kind <- "reboot", Nodes <- {"n1", "n2"}, Lag <- FALSE, MaxRestarts <- 0, MaxFailures <- 2

RebootLag == INSTANCE OpsJobWorkers WITH
    Kind <- "reboot", Nodes <- {"n1", "n2"}, Lag <- TRUE, MaxRestarts <- 1, MaxFailures <- 1

RebootEnds == INSTANCE OpsJobWorkers WITH
    Kind <- "reboot", Nodes <- {"n1"}, Lag <- TRUE, MaxRestarts <- 1, MaxFailures <- 1

\* Three nodes in every state, in a workspace or not; or of two flavors in two
\* workspaces.
NodeStates == INSTANCE PreflightNodes WITH
    N <- 3, Workspace <- {"w1"}, Flavor <- {"f1"}, NodeState <- {"ready", "tainted", "down"},
    Scope <- Scopes, Excluded <- {{2}}, MaxReplica <- 2

NodeFlavors == INSTANCE PreflightNodes WITH
    N <- 3, Workspace <- {"w1", "w2"}, Flavor <- {"f1", "f2"}, NodeState <- {"ready"},
    Scope <- Scopes, Excluded <- {{2}}, MaxReplica <- 2

\* Two changes of a workload of any kind, with failing calls.
Object == INSTANCE JobObject WITH
    Kinds <- {"deployment", "scaleset"},
    Fields <- {"image", "entry", "shm", "prio", "replica", "env", "service", "secret"},
    Keys <- {"k"}, Volumes <- Volumes, Hostpaths <- 1, MaxGroups <- 2, MaxUpdates <- 2,
    BetweenMarks <- FALSE, Failing <- {"object", "service", "status"}

ObjectGroups == INSTANCE JobObject WITH
    Kinds <- {"job", "torchft", "monarch", "dynamo", "infera"}, Fields <- {"groups", "image"},
    Keys <- {"k"}, Volumes <- Volumes, Hostpaths <- 1, MaxGroups <- 3, MaxUpdates <- 2,
    BetweenMarks <- FALSE, Failing <- {"object", "ingress", "status"}

ObjectMarks == INSTANCE JobObject WITH
    Kinds <- {"deployment", "torchft"}, Fields <- {"image", "groups"}, Keys <- {"k"},
    Volumes <- Volumes, Hostpaths <- 1, MaxGroups <- 2, MaxUpdates <- 2, BetweenMarks <- FALSE,
    Failing <- {"mark"}

\* The admission of a workload of every kind and of its updates, or of two
\* workloads that belong together.
Admit == INSTANCE WorkloadAdmission WITH
    Names <- {"a"}, Templates <- AllTemplates, Patches <- AllPatches, Spaces <- AllSpaces,
    Flavors <- AllFlavors, Templated <- AllKinds, Reserved <- TenPercent, MaxStore <- 50,
    MaxEdits <- 2, MaxNow <- 2

AdmitPair == INSTANCE WorkloadAdmission WITH
    Names <- {"a", "b"}, Templates <- PairTemplates, Patches <- PairPatches,
    Spaces <- AllSpaces, Flavors <- AllFlavors, Templated <- AllKinds, Reserved <- TenPercent,
    MaxStore <- 50, MaxEdits <- 2, MaxNow <- 0

\* The pods of a job, of its second dispatch, of an application; the list in
\* the database; a cluster with two heads, a submitter and a restart; the
\* listener of runners; groups.
Pods == INSTANCE PodSync WITH
    Kind <- "job", PodIds <- <<"p", "q">>, Attr <- PodAttr, NodeIds <- <<"m", "n">>, Total <- 2,
    MaxRetry <- 1, Sticky <- TRUE, Offload <- FALSE, Groups <- 0, MinGroups <- 1,
    Moves <- FALSE, Restarts <- FALSE, Lag <- FALSE

PodsAgain == INSTANCE PodSync WITH
    Kind <- "job", PodIds <- <<"p", "r">>, Attr <- PodAttr, NodeIds <- <<"m", "n">>, Total <- 1,
    MaxRetry <- 2, Sticky <- TRUE, Offload <- FALSE, Groups <- 0, MinGroups <- 1,
    Moves <- FALSE, Restarts <- FALSE, Lag <- FALSE

PodsMove == INSTANCE PodSync WITH
    Kind <- "app", PodIds <- <<"p">>, Attr <- PodAttr, NodeIds <- <<"m", "n">>, Total <- 1,
    MaxRetry <- 0, Sticky <- FALSE, Offload <- FALSE, Groups <- 0, MinGroups <- 1,
    Moves <- TRUE, Restarts <- FALSE, Lag <- FALSE

PodsRows == INSTANCE PodSync WITH
    Kind <- "job", PodIds <- <<"p">>, Attr <- PodAttr, NodeIds <- <<"m", "n">>, Total <- 1,
    MaxRetry <- 0, Sticky <- FALSE, Offload <- TRUE, Groups <- 0, MinGroups <- 1,
    Moves <- FALSE, Restarts <- FALSE, Lag <- FALSE

PodsRay == INSTANCE PodSync WITH
    Kind <- "ray", PodIds <- <<"p", "h">>, Attr <- PodAttr, NodeIds <- <<"m", "n">>, Total <- 1,
    MaxRetry <- 0, Sticky <- FALSE, Offload <- FALSE, Groups <- 0, MinGroups <- 1,
    Moves <- FALSE, Restarts <- FALSE, Lag <- FALSE

PodsSubmit == INSTANCE PodSync WITH
    Kind <- "ray", PodIds <- <<"j">>, Attr <- PodAttr, NodeIds <- <<"m", "n">>, Total <- 1,
    MaxRetry <- 0, Sticky <- FALSE, Offload <- FALSE, Groups <- 0, MinGroups <- 1,
    Moves <- FALSE, Restarts <- TRUE, Lag <- TRUE

PodsCicd == INSTANCE PodSync WITH
    Kind <- "cicd", PodIds <- <<"l", "p">>, Attr <- PodAttr, NodeIds <- <<"m", "n">>,
    Total <- 2, MaxRetry <- 0, Sticky <- FALSE, Offload <- FALSE, Groups <- 0, MinGroups <- 1,
    Moves <- FALSE, Restarts <- FALSE, Lag <- FALSE

\* Settings of the collection, and result files.
WorkflowSettings == INSTANCE GithubCollection WITH
    Patterns <- SomePatterns, Files <- {}, MaxChanges <- 3

WorkflowFiles == INSTANCE GithubCollection WITH
    Patterns <- {}, Files <- SomeFiles, MaxChanges <- 3

PodsGroups == INSTANCE PodSync WITH
    Kind <- "ft", PodIds <- <<>>, Attr <- PodAttr, NodeIds <- <<"m", "n">>, Total <- 0,
    MaxRetry <- 0, Sticky <- FALSE, Offload <- FALSE, Groups <- 2, MinGroups <- 1,
    Moves <- FALSE, Restarts <- FALSE, Lag <- TRUE

-----------------------------------------------------------------------------
(* A step of a module leaves the scenario and the others alone.             *)
SchedulingOnly ==
    UNCHANGED <<scenario, job, allJobs, batch, fault, going, using, removed, timer, task, events, hand,
               stop, queued, bad, late, pipe, object, asked, worker, todo, ds, local, pushed,
               sent, boots, seen, node, request, kind, spec, marks, objs, svc, ing, run, store,
               space, flavor, now, edits, pods, group, work, fresh, db, client, config, file>>
OpsJobAddonOnly ==
    UNCHANGED <<scenario, wl, cache, up, msg, pc, list, snap, victims, faults, errors, source, dep, untold,
               due, task, events, hand, stop, queued, bad, late, pipe, object, asked, worker,
               todo, ds, local, pushed, sent, boots, seen, node, request, kind, spec, marks,
               objs, svc, ing, run, store, space, flavor, now, edits, pods, group, work, fresh,
               db, client, config, file>>
OpsJobWorkloadOnly ==
    UNCHANGED <<scenario, cache, up, msg, pc, list, queue, snap, victims, faults, errors, source, dep,
               untold, due, allJobs, batch, fault, going, using, removed, pipe, object, asked,
               worker, todo, ds, local, pushed, sent, boots, seen, node, request, kind, spec,
               marks, objs, svc, ing, run, store, space, flavor, now, edits, pods, group, work,
               fresh, db, client, config, file>>
DumpLogOnly ==
    UNCHANGED <<scenario, wl, cache, up, msg, pc, list, queue, snap, victims, faults, errors, source, dep,
               untold, due, allJobs, batch, fault, going, using, removed, timer, task, events,
               hand, stop, queued, bad, late, worker, todo, ds, local, pushed, sent, boots,
               seen, node, request, kind, spec, marks, objs, svc, ing, run, store, space,
               flavor, now, edits, pods, group, work, fresh, db, client, config, file>>
OpsJobWorkersOnly ==
    UNCHANGED <<scenario, wl, cache, up, msg, pc, list, queue, snap, victims, faults, errors, source, dep,
               untold, due, allJobs, batch, fault, going, using, removed, task, events, hand,
               stop, bad, late, pipe, object, asked, node, request, kind, spec, marks, objs,
               svc, ing, run, store, space, flavor, now, edits, pods, group, work, fresh, db,
               client, config, file>>
PreflightNodesOnly ==
    UNCHANGED <<scenario, wl, cache, up, msg, pc, list, queue, snap, left, victims, faults, errors, source,
               dep, untold, due, allJobs, batch, fault, going, using, removed, timer, task,
               events, hand, stop, queued, bad, late, pipe, object, asked, worker, todo, ds,
               local, pushed, sent, boots, seen, kind, spec, marks, objs, svc, ing, run, store,
               space, flavor, now, edits, pods, group, work, fresh, db, client, config, file>>
JobObjectOnly ==
    UNCHANGED <<scenario, wl, cache, up, msg, pc, list, queue, snap, left, victims, faults, errors, source,
               dep, untold, due, job, allJobs, batch, fault, going, using, removed, timer, task,
               events, hand, stop, bad, late, pipe, object, asked, worker, todo, ds, local,
               pushed, sent, boots, seen, node, request, store, space, flavor, now, edits, pods,
               group, work, fresh, db, client, config, file>>
WorkloadAdmissionOnly ==
    UNCHANGED <<scenario, wl, cache, up, msg, pc, list, queue, snap, left, victims, faults, errors, source,
               dep, untold, due, job, allJobs, batch, fault, going, using, removed, timer, task,
               events, hand, stop, queued, bad, late, pipe, object, asked, worker, todo, ds,
               local, pushed, sent, boots, node, request, kind, spec, marks, objs, svc, ing,
               run, pods, group, work, fresh, db, client, config, file>>
PodSyncOnly ==
    UNCHANGED <<scenario, up, msg, pc, list, snap, left, victims, errors, source, dep, untold, due, job,
               allJobs, batch, fault, going, using, removed, task, events, hand, stop, queued,
               bad, pipe, asked, worker, todo, ds, local, pushed, sent, boots, seen, node,
               request, kind, spec, marks, objs, svc, ing, run, store, space, flavor, now,
               edits, config, file>>
GithubCollectionOnly ==
    UNCHANGED <<scenario, wl, cache, up, msg, pc, list, queue, snap, left, victims, faults, errors, source,
               dep, untold, due, job, allJobs, batch, fault, going, using, removed, timer, task,
               events, hand, stop, queued, bad, late, pipe, object, asked, worker, todo, ds,
               local, pushed, sent, boots, seen, node, request, kind, spec, marks, objs, svc,
               ing, run, store, space, flavor, now, edits, pods, group, work, fresh, db, client>>

Init ==
    \/ /\ \/ scenario = "quota" /\ Quota!Init
          \/ scenario = "quotaFaults" /\ QuotaFaults!Init
          \/ scenario = "preempt" /\ Preempt!Init
          \/ scenario = "wakeup" /\ Wakeup!Init
          \/ scenario = "waits" /\ Waits!Init
          \/ scenario = "sourced" /\ Sourced!Init
       /\ job = Unused /\ allJobs = Unused /\ batch = Unused /\ fault = Unused /\ going = Unused
       /\ using = Unused /\ removed = Unused /\ timer = Unused /\ task = Unused
       /\ events = Unused /\ hand = Unused /\ stop = Unused /\ queued = Unused /\ bad = Unused
       /\ late = Unused /\ pipe = Unused /\ object = Unused /\ asked = Unused
       /\ worker = Unused /\ todo = Unused /\ ds = Unused /\ local = Unused /\ pushed = Unused
       /\ sent = Unused /\ boots = Unused /\ seen = Unused /\ node = Unused /\ request = Unused
       /\ kind = Unused /\ spec = Unused /\ marks = Unused /\ objs = Unused /\ svc = Unused
       /\ ing = Unused /\ run = Unused /\ store = Unused /\ space = Unused /\ flavor = Unused
       /\ now = Unused /\ edits = Unused /\ pods = Unused /\ group = Unused /\ work = Unused
       /\ fresh = Unused /\ db = Unused /\ client = Unused /\ config = Unused /\ file = Unused
    \/ /\ \/ scenario = "addons" /\ Addons!Init
          \/ scenario = "addon" /\ Addon!Init
          \/ scenario = "addonEnds" /\ AddonEnds!Init
       /\ wl = Unused /\ cache = Unused /\ up = Unused /\ msg = Unused /\ pc = Unused
       /\ list = Unused /\ snap = Unused /\ victims = Unused /\ faults = Unused
       /\ errors = Unused /\ source = Unused /\ dep = Unused /\ untold = Unused /\ due = Unused
       /\ task = Unused /\ events = Unused /\ hand = Unused /\ stop = Unused /\ queued = Unused
       /\ bad = Unused /\ late = Unused /\ pipe = Unused /\ object = Unused /\ asked = Unused
       /\ worker = Unused /\ todo = Unused /\ ds = Unused /\ local = Unused /\ pushed = Unused
       /\ sent = Unused /\ boots = Unused /\ seen = Unused /\ node = Unused /\ request = Unused
       /\ kind = Unused /\ spec = Unused /\ marks = Unused /\ objs = Unused /\ svc = Unused
       /\ ing = Unused /\ run = Unused /\ store = Unused /\ space = Unused /\ flavor = Unused
       /\ now = Unused /\ edits = Unused /\ pods = Unused /\ group = Unused /\ work = Unused
       /\ fresh = Unused /\ db = Unused /\ client = Unused /\ config = Unused /\ file = Unused
    \/ /\ \/ scenario = "evaluation" /\ Evaluation!Init
          \/ scenario = "preflight" /\ Preflight!Init
          \/ scenario = "download" /\ Download!Init
       /\ cache = Unused /\ up = Unused /\ msg = Unused /\ pc = Unused /\ list = Unused
       /\ queue = Unused /\ snap = Unused /\ victims = Unused /\ faults = Unused
       /\ errors = Unused /\ source = Unused /\ dep = Unused /\ untold = Unused /\ due = Unused
       /\ allJobs = Unused /\ batch = Unused /\ fault = Unused /\ going = Unused
       /\ using = Unused /\ removed = Unused /\ pipe = Unused /\ object = Unused
       /\ asked = Unused /\ worker = Unused /\ todo = Unused /\ ds = Unused /\ local = Unused
       /\ pushed = Unused /\ sent = Unused /\ boots = Unused /\ seen = Unused /\ node = Unused
       /\ request = Unused /\ kind = Unused /\ spec = Unused /\ marks = Unused /\ objs = Unused
       /\ svc = Unused /\ ing = Unused /\ run = Unused /\ store = Unused /\ space = Unused
       /\ flavor = Unused /\ now = Unused /\ edits = Unused /\ pods = Unused /\ group = Unused
       /\ work = Unused /\ fresh = Unused /\ db = Unused /\ client = Unused /\ config = Unused
       /\ file = Unused
    \/ /\ \/ scenario = "dump" /\ Dump!Init
          \/ scenario = "dumpShort" /\ DumpShort!Init
          \/ scenario = "dumpEnds" /\ DumpEnds!Init
          \/ scenario = "dumpErrors" /\ DumpErrors!Init
       /\ wl = Unused /\ cache = Unused /\ up = Unused /\ msg = Unused /\ pc = Unused
       /\ list = Unused /\ queue = Unused /\ snap = Unused /\ victims = Unused
       /\ faults = Unused /\ errors = Unused /\ source = Unused /\ dep = Unused
       /\ untold = Unused /\ due = Unused /\ allJobs = Unused /\ batch = Unused
       /\ fault = Unused /\ going = Unused /\ using = Unused /\ removed = Unused
       /\ timer = Unused /\ task = Unused /\ events = Unused /\ hand = Unused /\ stop = Unused
       /\ queued = Unused /\ bad = Unused /\ late = Unused /\ worker = Unused /\ todo = Unused
       /\ ds = Unused /\ local = Unused /\ pushed = Unused /\ sent = Unused /\ boots = Unused
       /\ seen = Unused /\ node = Unused /\ request = Unused /\ kind = Unused /\ spec = Unused
       /\ marks = Unused /\ objs = Unused /\ svc = Unused /\ ing = Unused /\ run = Unused
       /\ store = Unused /\ space = Unused /\ flavor = Unused /\ now = Unused /\ edits = Unused
       /\ pods = Unused /\ group = Unused /\ work = Unused /\ fresh = Unused /\ db = Unused
       /\ client = Unused /\ config = Unused /\ file = Unused
    \/ /\ \/ scenario = "prewarm" /\ Prewarm!Init
          \/ scenario = "export" /\ Export!Init
          \/ scenario = "exportOnce" /\ ExportOnce!Init
          \/ scenario = "reboot" /\ Reboot!Init
          \/ scenario = "rebootLag" /\ RebootLag!Init
          \/ scenario = "rebootEnds" /\ RebootEnds!Init
       /\ wl = Unused /\ cache = Unused /\ up = Unused /\ msg = Unused /\ pc = Unused
       /\ list = Unused /\ queue = Unused /\ snap = Unused /\ victims = Unused
       /\ faults = Unused /\ errors = Unused /\ source = Unused /\ dep = Unused
       /\ untold = Unused /\ due = Unused /\ allJobs = Unused /\ batch = Unused
       /\ fault = Unused /\ going = Unused /\ using = Unused /\ removed = Unused
       /\ task = Unused /\ events = Unused /\ hand = Unused /\ stop = Unused /\ bad = Unused
       /\ late = Unused /\ pipe = Unused /\ object = Unused /\ asked = Unused /\ node = Unused
       /\ request = Unused /\ kind = Unused /\ spec = Unused /\ marks = Unused /\ objs = Unused
       /\ svc = Unused /\ ing = Unused /\ run = Unused /\ store = Unused /\ space = Unused
       /\ flavor = Unused /\ now = Unused /\ edits = Unused /\ pods = Unused /\ group = Unused
       /\ work = Unused /\ fresh = Unused /\ db = Unused /\ client = Unused /\ config = Unused
       /\ file = Unused
    \/ /\ \/ scenario = "nodes" /\ NodeStates!Init
          \/ scenario = "flavors" /\ NodeFlavors!Init
       /\ wl = Unused /\ cache = Unused /\ up = Unused /\ msg = Unused /\ pc = Unused
       /\ list = Unused /\ queue = Unused /\ snap = Unused /\ left = Unused /\ victims = Unused
       /\ faults = Unused /\ errors = Unused /\ source = Unused /\ dep = Unused
       /\ untold = Unused /\ due = Unused /\ allJobs = Unused /\ batch = Unused
       /\ fault = Unused /\ going = Unused /\ using = Unused /\ removed = Unused
       /\ timer = Unused /\ task = Unused /\ events = Unused /\ hand = Unused /\ stop = Unused
       /\ queued = Unused /\ bad = Unused /\ late = Unused /\ pipe = Unused /\ object = Unused
       /\ asked = Unused /\ worker = Unused /\ todo = Unused /\ ds = Unused /\ local = Unused
       /\ pushed = Unused /\ sent = Unused /\ boots = Unused /\ seen = Unused /\ kind = Unused
       /\ spec = Unused /\ marks = Unused /\ objs = Unused /\ svc = Unused /\ ing = Unused
       /\ run = Unused /\ store = Unused /\ space = Unused /\ flavor = Unused /\ now = Unused
       /\ edits = Unused /\ pods = Unused /\ group = Unused /\ work = Unused /\ fresh = Unused
       /\ db = Unused /\ client = Unused /\ config = Unused /\ file = Unused
    \/ /\ \/ scenario = "object" /\ Object!Init
          \/ scenario = "groups" /\ ObjectGroups!Init
          \/ scenario = "marks" /\ ObjectMarks!Init
       /\ wl = Unused /\ cache = Unused /\ up = Unused /\ msg = Unused /\ pc = Unused
       /\ list = Unused /\ queue = Unused /\ snap = Unused /\ left = Unused /\ victims = Unused
       /\ faults = Unused /\ errors = Unused /\ source = Unused /\ dep = Unused
       /\ untold = Unused /\ due = Unused /\ job = Unused /\ allJobs = Unused /\ batch = Unused
       /\ fault = Unused /\ going = Unused /\ using = Unused /\ removed = Unused
       /\ timer = Unused /\ task = Unused /\ events = Unused /\ hand = Unused /\ stop = Unused
       /\ bad = Unused /\ late = Unused /\ pipe = Unused /\ object = Unused /\ asked = Unused
       /\ worker = Unused /\ todo = Unused /\ ds = Unused /\ local = Unused /\ pushed = Unused
       /\ sent = Unused /\ boots = Unused /\ seen = Unused /\ node = Unused /\ request = Unused
       /\ store = Unused /\ space = Unused /\ flavor = Unused /\ now = Unused /\ edits = Unused
       /\ pods = Unused /\ group = Unused /\ work = Unused /\ fresh = Unused /\ db = Unused
       /\ client = Unused /\ config = Unused /\ file = Unused
    \/ /\ \/ scenario = "admit" /\ Admit!Init
          \/ scenario = "admitPair" /\ AdmitPair!Init
       /\ wl = Unused /\ cache = Unused /\ up = Unused /\ msg = Unused /\ pc = Unused
       /\ list = Unused /\ queue = Unused /\ snap = Unused /\ left = Unused /\ victims = Unused
       /\ faults = Unused /\ errors = Unused /\ source = Unused /\ dep = Unused
       /\ untold = Unused /\ due = Unused /\ job = Unused /\ allJobs = Unused /\ batch = Unused
       /\ fault = Unused /\ going = Unused /\ using = Unused /\ removed = Unused
       /\ timer = Unused /\ task = Unused /\ events = Unused /\ hand = Unused /\ stop = Unused
       /\ queued = Unused /\ bad = Unused /\ late = Unused /\ pipe = Unused /\ object = Unused
       /\ asked = Unused /\ worker = Unused /\ todo = Unused /\ ds = Unused /\ local = Unused
       /\ pushed = Unused /\ sent = Unused /\ boots = Unused /\ node = Unused
       /\ request = Unused /\ kind = Unused /\ spec = Unused /\ marks = Unused /\ objs = Unused
       /\ svc = Unused /\ ing = Unused /\ run = Unused /\ pods = Unused /\ group = Unused
       /\ work = Unused /\ fresh = Unused /\ db = Unused /\ client = Unused /\ config = Unused
       /\ file = Unused
    \/ /\ \/ scenario = "pods" /\ Pods!Init
          \/ scenario = "podsAgain" /\ PodsAgain!Init
          \/ scenario = "podsMove" /\ PodsMove!Init
          \/ scenario = "podsRows" /\ PodsRows!Init
          \/ scenario = "podsRay" /\ PodsRay!Init
          \/ scenario = "podsSubmit" /\ PodsSubmit!Init
          \/ scenario = "podsCicd" /\ PodsCicd!Init
          \/ scenario = "podsGroups" /\ PodsGroups!Init
       /\ up = Unused /\ msg = Unused /\ pc = Unused /\ list = Unused /\ snap = Unused
       /\ left = Unused /\ victims = Unused /\ errors = Unused /\ source = Unused
       /\ dep = Unused /\ untold = Unused /\ due = Unused /\ job = Unused /\ allJobs = Unused
       /\ batch = Unused /\ fault = Unused /\ going = Unused /\ using = Unused
       /\ removed = Unused /\ task = Unused /\ events = Unused /\ hand = Unused
       /\ stop = Unused /\ queued = Unused /\ bad = Unused /\ pipe = Unused /\ asked = Unused
       /\ worker = Unused /\ todo = Unused /\ ds = Unused /\ local = Unused /\ pushed = Unused
       /\ sent = Unused /\ boots = Unused /\ seen = Unused /\ node = Unused /\ request = Unused
       /\ kind = Unused /\ spec = Unused /\ marks = Unused /\ objs = Unused /\ svc = Unused
       /\ ing = Unused /\ run = Unused /\ store = Unused /\ space = Unused /\ flavor = Unused
       /\ now = Unused /\ edits = Unused /\ config = Unused /\ file = Unused
    \/ /\ \/ scenario = "workflowSettings" /\ WorkflowSettings!Init
          \/ scenario = "workflowFiles" /\ WorkflowFiles!Init
       /\ wl = Unused /\ cache = Unused /\ up = Unused /\ msg = Unused /\ pc = Unused
       /\ list = Unused /\ queue = Unused /\ snap = Unused /\ left = Unused /\ victims = Unused
       /\ faults = Unused /\ errors = Unused /\ source = Unused /\ dep = Unused
       /\ untold = Unused /\ due = Unused /\ job = Unused /\ allJobs = Unused /\ batch = Unused
       /\ fault = Unused /\ going = Unused /\ using = Unused /\ removed = Unused
       /\ timer = Unused /\ task = Unused /\ events = Unused /\ hand = Unused /\ stop = Unused
       /\ queued = Unused /\ bad = Unused /\ late = Unused /\ pipe = Unused /\ object = Unused
       /\ asked = Unused /\ worker = Unused /\ todo = Unused /\ ds = Unused /\ local = Unused
       /\ pushed = Unused /\ sent = Unused /\ boots = Unused /\ seen = Unused /\ node = Unused
       /\ request = Unused /\ kind = Unused /\ spec = Unused /\ marks = Unused /\ objs = Unused
       /\ svc = Unused /\ ing = Unused /\ run = Unused /\ store = Unused /\ space = Unused
       /\ flavor = Unused /\ now = Unused /\ edits = Unused /\ pods = Unused /\ group = Unused
       /\ work = Unused /\ fresh = Unused /\ db = Unused /\ client = Unused

ScenarioInit == scenario \in Scenarios /\ Init

Next ==
    \/ /\ \/ scenario = "quota" /\ Quota!Next
          \/ scenario = "quotaFaults" /\ QuotaFaults!Next
          \/ scenario = "preempt" /\ Preempt!Next
          \/ scenario = "wakeup" /\ Wakeup!Next
          \/ scenario = "waits" /\ Waits!Next
          \/ scenario = "sourced" /\ Sourced!Next
       /\ SchedulingOnly
    \/ /\ \/ scenario = "addons" /\ Addons!Next
          \/ scenario = "addon" /\ Addon!Next
          \/ scenario = "addonEnds" /\ AddonEnds!Next
       /\ OpsJobAddonOnly
    \/ /\ \/ scenario = "evaluation" /\ Evaluation!Next
          \/ scenario = "preflight" /\ Preflight!Next
          \/ scenario = "download" /\ Download!Next
       /\ OpsJobWorkloadOnly
    \/ /\ \/ scenario = "dump" /\ Dump!Next
          \/ scenario = "dumpShort" /\ DumpShort!Next
          \/ scenario = "dumpEnds" /\ DumpEnds!Next
          \/ scenario = "dumpErrors" /\ DumpErrors!Next
       /\ DumpLogOnly
    \/ /\ \/ scenario = "prewarm" /\ Prewarm!Next
          \/ scenario = "export" /\ Export!Next
          \/ scenario = "exportOnce" /\ ExportOnce!Next
          \/ scenario = "reboot" /\ Reboot!Next
          \/ scenario = "rebootLag" /\ RebootLag!Next
          \/ scenario = "rebootEnds" /\ RebootEnds!Next
       /\ OpsJobWorkersOnly
    \/ /\ \/ scenario = "nodes" /\ NodeStates!Next
          \/ scenario = "flavors" /\ NodeFlavors!Next
       /\ PreflightNodesOnly
    \/ /\ \/ scenario = "object" /\ Object!Next
          \/ scenario = "groups" /\ ObjectGroups!Next
          \/ scenario = "marks" /\ ObjectMarks!Next
       /\ JobObjectOnly
    \/ /\ \/ scenario = "admit" /\ Admit!Next
          \/ scenario = "admitPair" /\ AdmitPair!Next
       /\ WorkloadAdmissionOnly
    \/ /\ \/ scenario = "pods" /\ Pods!Next
          \/ scenario = "podsAgain" /\ PodsAgain!Next
          \/ scenario = "podsMove" /\ PodsMove!Next
          \/ scenario = "podsRows" /\ PodsRows!Next
          \/ scenario = "podsRay" /\ PodsRay!Next
          \/ scenario = "podsSubmit" /\ PodsSubmit!Next
          \/ scenario = "podsCicd" /\ PodsCicd!Next
          \/ scenario = "podsGroups" /\ PodsGroups!Next
       /\ PodSyncOnly
    \/ /\ \/ scenario = "workflowSettings" /\ WorkflowSettings!Next
          \/ scenario = "workflowFiles" /\ WorkflowFiles!Next
       /\ GithubCollectionOnly

Spec == ScenarioInit /\ [][Next]_vars

-----------------------------------------------------------------------------
(* Fairness.                                                                *)
SchedulerDoes(A, B, C) ==
    /\ \/ scenario = "wakeup" /\ A
       \/ scenario = "waits" /\ B
       \/ scenario = "sourced" /\ C
    /\ SchedulingOnly
AddonDoes(A) == scenario = "addonEnds" /\ A /\ OpsJobAddonOnly
DumpDoes(A) == scenario = "dumpEnds" /\ A /\ DumpLogOnly
WorkloadJobDoes(E, P, D) ==
    /\ \/ scenario = "evaluation" /\ E
       \/ scenario = "preflight" /\ P
       \/ scenario = "download" /\ D
    /\ OpsJobWorkloadOnly
WorkerDoes(P, E, R) ==
    /\ \/ scenario = "prewarm" /\ P
       \/ scenario = "exportOnce" /\ E
       \/ scenario = "rebootEnds" /\ R
    /\ OpsJobWorkersOnly

\* The scheduler's rounds, the informer, the dispatcher and the eviction of what was
\* preempted keep going; no workload has to end.
SchedulerFairness ==
    /\ WF_vars(SchedulerDoes(Wakeup!Round, Waits!Round, Sourced!Round))
    /\ \A w \in {"a", "b"} : /\ WF_vars(SchedulerDoes(Wakeup!Deliver(w), Waits!Deliver(w), Sourced!Deliver("a")))
                             /\ WF_vars(SchedulerDoes(Wakeup!Dispatch(w), Waits!Dispatch(w), Sourced!Dispatch("a")))
                             /\ WF_vars(SchedulerDoes(Wakeup!Evict(w), Waits!Evict(w), Sourced!Evict("a")))
                             /\ WF_vars(SchedulerDoes(Wakeup!Triggers(w), Waits!Triggers(w), Sourced!Triggers("a")))

\* The reconcilers and workers of a job run, and time passes.
AddonFairness ==
    /\ WF_vars(AddonDoes(AddonEnds!Step("j1")))
    /\ WF_vars(AddonDoes(AddonEnds!TimesOut("j1")))

DumpFairness ==
    /\ WF_vars(DumpDoes(DumpEnds!Reconcile("j1")))
    /\ WF_vars(DumpDoes(DumpEnds!Work("j1")))
    /\ WF_vars(DumpDoes(DumpEnds!scroll("j1"))) /\ WF_vars(DumpDoes(DumpEnds!TimesOut("j1")))
    /\ WF_vars(DumpDoes(DumpEnds!waitForDumpLogJobCompletion("j1")))

\* A workload that runs ends at its timeout and one that is deleted goes; it need not
\* start to run.
WorkloadJobFairness ==
    /\ WF_vars(WorkloadJobDoes(Evaluation!Reconcile, Preflight!Reconcile, Download!Reconcile))
    /\ WF_vars(WorkloadJobDoes(Evaluation!TimesOut, Preflight!TimesOut, Download!TimesOut))
    /\ WF_vars(WorkloadJobDoes(Evaluation!deleteExpiredJob, Preflight!deleteExpiredJob, Download!deleteExpiredJob))
    /\ WF_vars(WorkloadJobDoes(Evaluation!Handler, Preflight!Handler, Download!Handler))
    /\ WF_vars(WorkloadJobDoes(Evaluation!WorkloadEnds, Preflight!WorkloadEnds, Download!WorkloadEnds))
    /\ WF_vars(WorkloadJobDoes(Evaluation!WorkloadGoes, Preflight!WorkloadGoes, Download!WorkloadGoes))

\* An image need not become ready.
WorkerFairness ==
    /\ WF_vars(WorkerDoes(Prewarm!Reconcile, ExportOnce!Reconcile, RebootEnds!Reconcile))
    /\ WF_vars(WorkerDoes(Prewarm!Work, ExportOnce!Work, RebootEnds!Work))
    /\ WF_vars(WorkerDoes(Prewarm!Sync, ExportOnce!Sync, RebootEnds!Sync))
    /\ WF_vars(WorkerDoes(Prewarm!GrowsOld, ExportOnce!GrowsOld, RebootEnds!GrowsOld))

FairSpec ==
    /\ Spec
    /\ SchedulerFairness /\ AddonFairness /\ DumpFairness /\ WorkloadJobFairness /\ WorkerFairness

-----------------------------------------------------------------------------
(* Properties.                                                              *)

TypeOK ==
    /\ scenario = "quota" => Quota!TypeOK
    /\ scenario = "addons" => Addons!TypeOK
    /\ scenario = "dumpErrors" => DumpErrors!TypeOK
    /\ scenario = "reboot" => Reboot!TypeOK
    /\ scenario = "nodes" => NodeStates!TypeOK
    /\ scenario = "object" => Object!TypeOK
    /\ scenario = "groups" => ObjectGroups!TypeOK
    /\ scenario = "admit" => Admit!TypeOK
    /\ scenario = "pods" => Pods!TypeOK
    /\ scenario = "podsGroups" => PodsGroups!TypeOK

\* The objects of a workload follow its specification, whichever calls of the dispatcher
\* fail and whenever a user changes it, but for the moment between the condition and the
\* annotation of a dispatch: at rest the object of an application, its service and its
\* groups are as specified, and every mount has its volume. The status follows the pods, if
\* the syncer takes a key with a cache that has caught up, whichever writes of its workers
\* conflict: when it has nothing left to do the list shows the pods as they are, the nodes
\* and the usage are those of the list, and a pod that is gone is not counted. Collection
\* patterns are read as they were given, and result files are kept value by value.
ObjectsFollow ==
    /\ scenario = "object" => Object!ObjectFollows /\ Object!MountsHaveVolumes
    /\ scenario = "marks" => ObjectMarks!ObjectFollows /\ ObjectMarks!GroupsFollow
    /\ scenario = "groups" => ObjectGroups!ObjectFollows /\ ObjectGroups!GroupsFollow /\ ObjectGroups!MountsHaveVolumes
    /\ scenario = "pods" => Pods!PodsFollow /\ Pods!NodesMatch /\ Pods!GoneIsNotCounted /\ Pods!StickyFollows
    /\ scenario = "podsAgain" => PodsAgain!PodsFollow /\ PodsAgain!NodesMatch /\ PodsAgain!GoneIsNotCounted
    /\ scenario = "podsMove" => PodsMove!PodsFollow /\ PodsMove!NodesMatch /\ PodsMove!GoneIsNotCounted
    /\ scenario = "podsRows" =>
         PodsRows!PodsFollow /\ PodsRows!NodesMatch /\ PodsRows!GoneIsNotCounted /\ PodsRows!UsageMatches
    /\ scenario = "podsRay" => PodsRay!PodsFollow /\ PodsRay!NodesMatch
    /\ scenario = "podsSubmit" => PodsSubmit!PodsFollow /\ PodsSubmit!NodesMatch
    /\ scenario = "podsCicd" => PodsCicd!PodsFollow /\ PodsCicd!ListenerDecides
    /\ scenario = "workflowSettings" => WorkflowSettings!PatternsAreKept
    /\ scenario = "workflowFiles" => WorkflowFiles!ValuesAreKept

\* The quota of the workspace is not given away twice: what is scheduled fits into its nodes,
\* over any number of rounds and workloads that end between them, with a node that fails and
\* what is evicted from it, a source that ends and a call that fails. This is for a workspace without
\* preemption and for rounds that begin on a cache that has caught up: on an older one the code
\* gives the same nodes away again.
NoOvercommit ==
    /\ scenario = "quota" => Quota!NoOvercommit
    /\ scenario = "quotaFaults" => QuotaFaults!NoOvercommit

\* A workload is not scheduled, unless it is for failover, while one of a higher priority that
\* is ready has to wait, in a workspace with the fifo policy and preemption, without a
\* source, whose rounds begin on a cache that has caught up. What
\* a dispatched job runs is not changed under it, and the number of nodes in the groups of
\* a fault-tolerant job never, whatever updates change its replicas and its groups. The
\* nodes of an earlier dispatch and an end that was recorded are not rewritten.
NoForbiddenStep ==
    [][/\ scenario = "preempt" => ~Preempt!Overtakes
       /\ scenario = "admit" => \A n \in {"a"} : ~Admit!Regroups(n) /\ ~Admit!Reshapes(n)
       /\ scenario = "pods" => ~Pods!Rewrites
       /\ scenario = "podsAgain" => ~PodsAgain!Rewrites]_vars

\* While its workspace and flavor are as they were when it was last admitted and its
\* resources were not changed after it was scheduled, a workload without a node port that a
\* controller has marked can be written by it, and the webhook leaves all else as it is,
\* whatever its kind and its defaults, and also if the first admission did not settle them.
Unlocked ==
    /\ scenario = "admit" => Admit!Unlocked
    /\ scenario = "admitPair" => AdmitPair!Unlocked

\* No wake-up is lost: a workload does not stay in the queue while there is room
\* for all.  What makes room (an end, an eviction, a node) has to trigger a round.
EventuallyScheduled == \A w \in {"a", "b"} :
    []<>~(\/ scenario = "wakeup" /\ Wakeup!Room(w)
          \/ scenario = "waits" /\ Waits!Room(w)
          \/ scenario = "sourced" /\ Sourced!Room("a"))

\* A job that is gone has left no fault but those that are being deleted, unless its cleanup
\* could not list or delete one or did not see it yet, although nodes fail or are removed
\* under it and the manager restarts (CleanupJobRelatedResource). While the script of a job may run on a node, nothing
\* takes the fault away that it found or made, unless another job has the node too, the
\* node leaves, or the fault was being deleted already.
JobTaints ==
    /\ scenario = "addons" => Addons!JobTaints
    /\ scenario = "addon" => Addon!JobTaints

\* What a job that succeeded reports is true. An evaluation: its workload succeeded, although
\* an event is given up. A log dump: the whole log is uploaded and there, across failing
\* uploads and a restart, if every page can be read and the log has no more parts than allowed.
\* An export: the image is in the registry, across failing calls and a restart.
\* A reboot: every node took the command, or lost its connection to it, across failing calls, a
\* restart and a lagging cache. A warm-up: no DaemonSet is left whose deletion did not fail. A
\* fault-tolerant workload ends as its groups did.
SuccessIsReal ==
    /\ scenario = "podsGroups" => PodsGroups!GroupsDecide
    /\ scenario = "evaluation" => Evaluation!SuccessIsReal
    /\ scenario = "dump" => Dump!UploadIsWhole
    /\ scenario = "dumpShort" => DumpShort!SuccessHasLog
    /\ scenario = "export" => Export!SuccessIsReal
    /\ scenario = "rebootLag" => RebootLag!SuccessIsReal
    /\ scenario = "prewarm" => Prewarm!SuccessIsClean

\* No node is rebooted twice by a job, as long as the resource manager lives and reads its own
\* writes.
\* A preflight job has suitable nodes only (in the scope, not excluded, not busy if that
\* matters, fit to be used), though they are chosen in three places; no more than asked
\* for, all of the named ones that are suitable, and all of one flavor and workspace.
JobNodesAreRight ==
    /\ scenario = "reboot" => Reboot!RebootOnce
    /\ scenario = "nodes" =>
         NodeStates!NodesAreSuitable /\ NodeStates!AtMostReplica /\ NodeStates!NamedNodesAreIn
    /\ scenario = "flavors" => NodeFlavors!NodesBelongTogether

WorkerJobs == {"evaluation", "prewarm", "exportOnce", "rebootEnds"}

\* A job comes to an end: of an add-on, although its node is in use or fails, calls fail and
\* the manager restarts; of a log dump, a warm-up or a reboot, although calls fail, the
\* reconciler reads its own writes late and the manager restarts; an evaluation with the row
\* it stands for, although its workload hangs or an event is given up, and an export,
\* both as long as the manager lives (the timers are lost with it). A worker gives up a warm-up whose job was
\* deleted, and a user that waits for a log gets an answer unless the job is deleted.
JobsEnd ==
    /\ (scenario \in WorkerJobs /\ job.state = "live") ~> (scenario \in WorkerJobs /\ Evaluation!Over)
    /\ (scenario = "addonEnds" /\ AddonEnds!Live("j1")) ~> (scenario = "addonEnds" /\ job["j1"].finished)
    /\ (scenario = "dumpEnds" /\ job["j1"].exists)
         ~> (scenario = "dumpEnds" /\ (job["j1"].finished \/ ~job["j1"].exists))
    /\ (scenario = "evaluation" /\ Evaluation!Evaluating)
         ~> (scenario = "evaluation" /\ Evaluation!Evaluated)
    /\ (scenario = "prewarm" /\ job.state = "gone")
         ~> (scenario = "prewarm" /\ worker = "idle")
    /\ (scenario = "dumpEnds" /\ asked = "waiting")
         ~> (scenario = "dumpEnds" /\ (asked # "waiting" \/ ~job["j1"].exists))

\* The workload of a job that is deleted goes with it, across a restart.
WorkloadGoes ==
    (scenario \in {"preflight", "download"} /\ job.state = "gone")
      ~> (scenario \in {"preflight", "download"} /\ Preflight!NoWorkloadLeft)
=============================================================================

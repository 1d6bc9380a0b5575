------------------------- MODULE WorkloadAdmission -------------------------
(* The admission of workloads: what the webhook makes of a workload that is created or      *)
(* updated (WorkloadMutator) and what it refuses (WorkloadValidator). Every update passes   *)
(* it, a controller's change of an annotation too, and the mutation runs again each time.   *)
(* Quantities are small naturals, 0 stands for an empty one (and for the GPU count "0").    *)
EXTENDS Integers, Sequences, FiniteSets, SequencesExt, Folds

CONSTANTS Names,        \* the workloads
          Templates,    \* what users create
          Patches,      \* what users change: records of some of a workload's fields
          Spaces,       \* the states of the workspace, None among them if it may go
          Flavors,      \* the states of the node flavor
          Templated,    \* the kinds that have templates
          Reserved,     \* what of each resource of a node is reserved, in percent
          MaxStore,     \* the largest part of a node's storage a pod may ask for, in percent
          MaxEdits, MaxNow

VARIABLES store,        \* the stored workloads
          space,        \* the workspace
          flavor,       \* the node flavor
          now,
          seen,         \* the workspace and the flavor a workload was last admitted with, and
                        \* whether its resources are as a user just gave them
          edits

vars == <<store, space, flavor, now, seen, edits>>

None == [none |-> TRUE]
High == 2
Low == 0
DefaultEphemeralStorage == 4
DefaultMaxFailover == 50
DefaultDelay == 600
Year == 3
MinPort == 1
MaxPort == 65535
\* The pod that submits a Ray job, as mutateRayJob adds it; no shared memory is set.
Submitter == [replica |-> 1, cpu |-> 1, mem |-> 2, gpu |-> 0, gpuName |-> "", store |-> 1, shm |-> 0, rdma |-> 0]

Applications == {"Deployment", "StatefulSet", "DynamoDeployment", "InferaDeployment"}
IsApplication(w) == w.kind \in Applications
Grouped == {"TorchFT", "MonarchJob"}
GetScope(w) ==
    CASE w.kind \in {"PyTorchJob", "UnifiedJob", "Job"} \union Grouped -> "Train"
      [] w.kind \in Applications -> "Infer"
      [] w.kind = "Authoring" -> "Authoring"
      [] w.kind \in {"ScaleRunnerSet", "EphemeralRunner"} -> "CICD"
      [] w.kind = "RayJob" -> "Ray"
      [] w.kind = "Sandbox" -> "Sandbox"
      [] OTHER -> ""
Put(f, k, v) == [x \in DOMAIN f \union {k} |-> IF x = k THEN v ELSE f[x]]
Default(f, k, v) == IF k \in DOMAIN f THEN f ELSE Put(f, k, v)
SumOver(s, Op(_)) == FoldLeft(LAMBDA n, x : n + Op(x), 0, s)
GetTotalReplica(w) == SumOver(w.res, LAMBDA r : r.replica)

----------------------------------------------------------------------------
(* Resources of pods and nodes. *)

Keys == {"cpu", "mem", "gpu", "store", "rdma"}
CvtToResourceList(r, n) == [k \in {key \in Keys : r[key] > 0} |-> r[k] * n]
AddResource(a, b) ==
    [k \in DOMAIN a \union DOMAIN b |->
        (IF k \in DOMAIN a THEN a[k] ELSE 0) + (IF k \in DOMAIN b THEN b[k] ELSE 0)]
IsSubResource(a, b) == \A k \in DOMAIN a : k \in DOMAIN b /\ a[k] <= b[k]
GetTotalResourceList(w) ==
    FoldLeft(LAMBDA sum, r : AddResource(sum, CvtToResourceList(r, r.replica)), <<>>, w.res)
GetPodResourceList(r) == CvtToResourceList(r, 1)
Ceil(n, percent) == (n * percent + 99) \div 100
GetAvailableResource(l) == [k \in DOMAIN l |-> l[k] - Ceil(l[k], Reserved[k])]
GetMaxEphemeralStoreQuantity(l) ==
    LET part == IF MaxStore # 0 /\ 100 - Reserved["store"] > MaxStore THEN MaxStore ELSE 100 - Reserved["store"]
    IN (l["store"] * part) \div 100

----------------------------------------------------------------------------
(* The mutation. *)

mutateResources(w) ==
    LET Fill(r) == [r EXCEPT !.gpuName = IF r.gpu # 0 /\ space # None THEN space.gpuName ELSE @,
                             !.shm = IF @ = 0 THEN r.mem \div 2 ELSE @,
                             !.store = IF @ = 0 THEN DefaultEphemeralStorage ELSE @]
        kept == SelectSeq(w.res, LAMBDA r : r.replica > 0)
    IN [w EXCEPT !.res = [i \in DOMAIN kept |-> Fill(kept[i])]]

FirstOnly(res) == IF res = <<>> THEN res ELSE <<[res[1] EXCEPT !.replica = 1]>>

mutateDeployment(w) == [w EXCEPT !.supervised = FALSE, !.maxRetry = 0, !.deps = {}]
mutateAuthoring(w) ==
    [w EXCEPT !.supervised = FALSE, !.maxRetry = 0, !.res = FirstOnly(@), !.noFailover = TRUE,
              !.entries = <<[enc |-> TRUE, text |-> "sleep infinity"]>>, !.deps = {}]
mutateCICDScaleSet(w) == [w EXCEPT !.supervised = FALSE, !.res = FirstOnly(@), !.deps = {}]
mutateSandbox(w) == [w EXCEPT !.supervised = FALSE, !.res = FirstOnly(@), !.noFailover = TRUE, !.deps = {}]

GetReplicaCount(w, key) == IF key \in DOMAIN w.env THEN w.env[key] ELSE 0
mutateTorchFT(w) ==
    LET group == GetReplicaCount(w, "ReplicaCount")
    IN [w EXCEPT !.env = Default(Default(@, "MaxReplicaCount", group), "MinReplicaCount", 1), !.noFailover = TRUE]
mutateMonarchJob(w) ==
    mutateTorchFT(IF w.res = <<>> THEN w ELSE [w EXCEPT !.res[1].replica = 1])

\* The submitter is added once: it is known by what it asks for.
IsSubmitter(r) == \A k \in {"replica", "cpu", "mem", "store"} : r[k] = Submitter[k]
\* Mutant of mutateRayJob: the pod is known by all it asks for, its shared memory too.
submitterByAll(w) ==
    IF w.res # <<>> /\ w.res[1] = Submitter
      THEN w
      ELSE [w EXCEPT !.images = IF @ = <<>> THEN @ ELSE <<@[1]>> \o @,
                     !.entries = <<[enc |-> FALSE, text |-> ""]>> \o @,
                     !.res = <<Submitter>> \o @]

mutateRayJob(w) ==
    IF w.res # <<>> /\ IsSubmitter(w.res[1])
      THEN w
      ELSE [w EXCEPT !.images = IF @ = <<>> THEN @ ELSE <<@[1]>> \o @,
                     !.entries = <<[enc |-> FALSE, text |-> ""]>> \o @,
                     !.res = <<Submitter>> \o @]

GetDynamoServiceRoles(w) ==
    CASE w.roles # <<>> -> w.roles
      [] w.roles = <<>> /\ Len(w.res) = 2 -> <<"frontend", "worker">>
      [] w.roles = <<>> /\ Len(w.res) = 3 -> <<"frontend", "worker", "planner">>
      [] OTHER -> <<>>
GetInferaServiceRoles(w) ==
    CASE w.roles # <<>> -> w.roles
      [] w.roles = <<>> /\ Len(w.res) = 2 -> <<"frontend", "worker">>
      [] w.roles = <<>> /\ Len(w.res) = 3 -> <<"frontend", "prefill", "decode">>
      [] OTHER -> <<>>
WithDefaults(w) ==
    [w EXCEPT !.framework = IF @ = "" THEN "sglang" ELSE @, !.backend = IF @ = "" THEN "nixl" ELSE @,
              !.env = Default(@, "NATS_SERVER", "nats")]
mutateDynamoDeployment(w) ==
    [WithDefaults(w) EXCEPT !.roles = GetDynamoServiceRoles(w),
        !.env = Default(Default(@, "DYN_DISCOVERY_BACKEND", "kubernetes"), "DYN_NAMESPACE", w.name)]
mutateInferaDeployment(w) == [WithDefaults(w) EXCEPT !.roles = GetInferaServiceRoles(w)]

mutateKind(w) ==
    CASE w.kind \in {"Deployment", "StatefulSet"} -> mutateDeployment(w)
      [] w.kind = "Authoring" -> mutateAuthoring(w)
      [] w.kind = "ScaleRunnerSet" -> mutateCICDScaleSet(w)
      [] w.kind = "MonarchJob" -> mutateMonarchJob(w)
      [] w.kind = "RayJob" -> mutateRayJob(w)
      [] w.kind = "TorchFT" -> mutateTorchFT(w)
      [] w.kind = "Sandbox" -> mutateSandbox(w)
      [] w.kind = "DynamoDeployment" -> mutateDynamoDeployment(w)
      [] w.kind = "InferaDeployment" -> mutateInferaDeployment(w)
      [] OTHER -> w

\* Each path once, and none that is a volume of the workspace.
mutateHostPath(w) ==
    LET vols == IF space = None THEN {} ELSE space.hostPaths
        Add(s, p) == IF p \in vols \/ Contains(s, p) THEN s ELSE Append(s, p)
    IN [w EXCEPT !.hostPath = FoldLeft(Add, <<>>, @)]
mutatePriority(w) == [w EXCEPT !.priority = IF @ > High THEN High ELSE IF @ < Low THEN Low ELSE @]
mutateEntryPoints(w) ==
    [w EXCEPT !.entries = [i \in DOMAIN @ |->
        IF w.kind = "Authoring" \/ w.opsJob \/ @[i].text = "" THEN @[i] ELSE [@[i] EXCEPT !.enc = TRUE]]]
\* The keys an update drops are remembered, for the object of the data plane.
mutateEnv(old, w) ==
    LET removed == IF old = None THEN {} ELSE DOMAIN old.env \ DOMAIN w.env
    IN [w EXCEPT !.envRemoved = IF removed = {} THEN @ ELSE removed,
                 !.github = IF "GITHUB_SECRET_ID" \in DOMAIN w.env THEN w.env["GITHUB_SECRET_ID"] ELSE @]
mutateMaxRetry(w) ==
    [w EXCEPT !.maxRetry = IF @ > DefaultMaxFailover THEN DefaultMaxFailover ELSE IF @ < 0 THEN 0 ELSE @]
\* RDMA is for workloads that use all GPUs of more than one node.
mutateRdmaResource(w) ==
    LET gpus == SelectSeq(w.res, LAMBDA r : r.gpu # 0)
        whole == \A i \in DOMAIN gpus : gpus[i].gpu = flavor.gpu
        nodes == SumOver(gpus, LAMBDA r : r.replica)
        Rdma(r) == IF nodes <= 1 \/ r.gpu = 0 \/ ~whole THEN 0 ELSE IF flavor.rdma # 0 THEN flavor.rdma ELSE 1
    IN IF w.flavor = "" THEN w ELSE [w EXCEPT !.res = [i \in DOMAIN @ |-> [@[i] EXCEPT !.rdma = Rdma(w.res[i])]]]
mutateCustomerLabels(w) ==
    [w EXCEPT !.labels = [k \in {key \in DOMAIN @ : key # "" /\ @[key] # ""} |-> @[k]]]
mutateCronJobs(w) ==
    [w EXCEPT !.cron = [i \in DOMAIN @ |-> [@[i] EXCEPT !.action = IF @ = "" THEN "start" ELSE @]]]
mutateHealthCheck(w) ==
    LET Check(c) == IF ~IsApplication(w) \/ c = None THEN None
                    ELSE [c EXCEPT !.delay = IF @ = 0 THEN DefaultDelay ELSE @]
    IN [w EXCEPT !.readiness = Check(@), !.liveness = Check(@)]
mutateService(w) ==
    IF w.service = None THEN w
    ELSE [w EXCEPT !.service.protocol = IF @ = "" THEN "TCP" ELSE @,
                   !.service.port = IF @ = 0 THEN w.service.targetPort ELSE @,
                   !.service.extends = Default(Default(@, "maxUnavailable", "25%"), "maxSurge", "25%")]
\* Secrets that exist, each once, and then those of the workspace.
mutateSecrets(w) ==
    LET Add(s, x) == IF Contains(s, x) THEN s ELSE Append(s, x)
        own == FoldLeft(Add, <<>>, SelectSeq(w.secrets, LAMBDA s : s # "gone"))
    IN [w EXCEPT !.secrets = FoldLeft(Add, own, IF space = None THEN <<"cluster">> ELSE space.imageSecrets)]
mutateStickNodes(w) ==
    [w EXCEPT !.sticky =
        /\ space # None /\ ~space.preempt
        /\ w.maxRetry > 0
        /\ w.kind \in {"PyTorchJob", "TorchFT", "RayJob"}
        /\ w.flavor # ""
        /\ \A i \in DOMAIN w.res : w.res[i].gpu = flavor.gpu /\ w.res[i].gpu # 0]

mutateCommon(old, w) ==
    LET a == mutatePriority(mutateHostPath(mutateKind(mutateResources(w))))
        b == mutateMaxRetry(mutateEnv(old, mutateEntryPoints(a)))
        c == mutateCronJobs(mutateCustomerLabels(mutateRdmaResource(b)))
    IN mutateStickNodes(mutateSecrets(mutateService(mutateHealthCheck(c))))

mutateGvk(w) == [w EXCEPT !.kind = IF @ = "" THEN "PyTorchJob" ELSE @]
\* The parent that takes the workload with it when it goes.
mutateOwnerReference(w) ==
    LET Runner(n) == store[n] # None /\ store[n].kind = "EphemeralRunner" /\ store[n].runner = w.runner
        parent ==
            CASE w.kind = "EphemeralRunner" /\ w.runner \in Names /\ store[w.runner] # None -> w.runner
              [] w.kind = "UnifiedJob" /\ \E n \in Names : Runner(n) -> CHOOSE n \in Names : Runner(n)
              [] w.kind \notin {"EphemeralRunner", "UnifiedJob"} /\ space # None -> "workspace"
              [] OTHER -> ""
    IN IF w.owner # "" THEN w ELSE [w EXCEPT !.parent = parent]
mutateMeta(w) ==
    LET v == mutateOwnerReference(w)
    IN IF space = None THEN v
       ELSE [v EXCEPT !.cluster = "c", !.flavor = "f", !.preempt = @ \/ space.preempt]
mutateTTLSeconds(w) == [w EXCEPT !.ttl = IF @ = -1 THEN 60 ELSE @]
mutateTimeout(w) ==
    [w EXCEPT !.timeout = IF @ = -1 /\ space # None /\ space.maxRuntime > 0 THEN space.maxRuntime ELSE @]

mutateOnCreation(w) == mutateTimeout(mutateCommon(None, mutateTTLSeconds(mutateMeta(mutateGvk(w)))))
mutateOnUpdate(old, w) == mutateCommon(old, w)

----------------------------------------------------------------------------
(* The validation. *)

validatePort(p) == MinPort <= p /\ p <= MaxPort
validateResource(r, w) ==
    w.workspace = "default" \/ (r.replica > 0 /\ r.cpu > 0 /\ r.mem > 0 /\ r.store > 0)

validateAuthoring(w) == w.affinity = "required" => Cardinality(w.nodes) <= 1
validateCICDScalingRunnerSet(w) ==
    /\ {"RESOURCES", "ENTRYPOINT", "IMAGE", "GITHUB_CONFIG_URL"} \subseteq DOMAIN w.env
    /\ validateResource(w.env["RESOURCES"], w)
    /\ w.storage \/ "UNIFIED_JOB_ENABLE" \notin DOMAIN w.env
\* The workers are split into groups of equal size, a size that stays.
validateReplicaCount(w, old) ==
    LET group == GetReplicaCount(w, "ReplicaCount")
        workers == w.res[2].replica
        max == GetReplicaCount(w, "MaxReplicaCount")
        min == GetReplicaCount(w, "MinReplicaCount")
    IN /\ group > 0 /\ group <= workers /\ workers % group = 0
       /\ min <= group /\ group <= max
       /\ old # None =>
            /\ max = GetReplicaCount(old, "MaxReplicaCount")
            /\ min = GetReplicaCount(old, "MinReplicaCount")
            /\ old.res[2].replica \div GetReplicaCount(old, "ReplicaCount") = workers \div group

validateTorchFT(w, old) ==
    Len(w.res) >= 2 /\ (\A i \in DOMAIN w.images : w.images[i] # "") /\ validateReplicaCount(w, old)
validateRayJob(w) ==
    /\ Len(w.res) \in 2..4 /\ Len(w.images) >= 2 /\ \A i \in DOMAIN w.images : w.images[i] # ""
    /\ "RAY_JOB_ENTRYPOINT" \in DOMAIN w.env
validateMonarchJob(w, old) ==
    Len(w.res) >= 2 /\ w.entries # <<>> /\ w.entries[1].text # "" /\ validateReplicaCount(w, old)
\* One frontend; the workers are whole, or split into as many prefills as decodes.
RolesFit(w, roles, known) ==
    LET Count(r) == Cardinality({i \in DOMAIN roles : roles[i] = r})
    IN /\ Len(w.res) \in 1..5 /\ Len(roles) = Len(w.res)
       /\ w.backend \in {"nixl", "mori", "mooncake"}
       /\ \A i \in DOMAIN roles : roles[i] \in known
       /\ Count("frontend") = 1 /\ Count("planner") <= 1
       /\ Count("worker") > 0 => Count("prefill") = 0 /\ Count("decode") = 0
       /\ Count("prefill") = Count("decode")
       /\ \A r \in w.multi : Count(r) > 0
validateDynamoDeployment(w) ==
    /\ w.framework \in {"sglang", "vllm", "trtllm"}
    /\ RolesFit(w, GetDynamoServiceRoles(w), {"frontend", "worker", "prefill", "decode", "planner", "epp"})
validateInferaDeployment(w) ==
    /\ w.framework \in {"sglang", "vllm"}
    /\ RolesFit(w, GetInferaServiceRoles(w), {"frontend", "worker", "prefill", "decode"})
validateSandbox(w) == ~w.longName

validateKind(w, old) ==
    CASE w.kind = "Authoring" -> validateAuthoring(w)
      [] w.kind = "ScaleRunnerSet" -> validateCICDScalingRunnerSet(w)
      [] w.kind = "TorchFT" -> validateTorchFT(w, old)
      [] w.kind = "RayJob" -> validateRayJob(w)
      [] w.kind = "MonarchJob" -> validateMonarchJob(w, old)
      [] w.kind = "Sandbox" -> validateSandbox(w)
      [] w.kind = "DynamoDeployment" -> validateDynamoDeployment(w)
      [] w.kind = "InferaDeployment" -> validateInferaDeployment(w)
      [] OTHER -> TRUE

validateRequiredParams(w) ==
    /\ w.display
    /\ w.cluster # "" \/ w.workspace = "default"
    /\ w.workspace # ""
    /\ w.res # <<>> /\ \A i \in DOMAIN w.res : validateResource(w.res[i], w)
validateWorkspace(w) ==
    IF space = None THEN w.opsJob
    ELSE GetTotalReplica(w) > space.replica => IsSubResource(GetTotalResourceList(w), space.total)
\* Ports of the hosts that are taken: by services, and by pods that share the host's network.
GetUsedHostPorts ==
    LET HostNetwork(w) == \E i \in DOMAIN w.res : w.res[i].rdma # 0
        Of(w) == (IF w.service = None THEN {} ELSE {w.service.nodePort} \ {0})
                 \union (IF ~HostNetwork(w) THEN {}
                         ELSE CASE w.kind = "RayJob" -> {8265, 6379, 8080}
                                [] w.kind = "MonarchJob" -> {26600}
                                [] w.kind \in {"DynamoDeployment", "InferaDeployment"} -> {8000}
                                [] OTHER -> {})
    IN UNION {Of(store[n]) : n \in {m \in Names : store[m] # None}}
validateService(w) ==
    w.service # None =>
        /\ validatePort(w.service.port) /\ validatePort(w.service.targetPort)
        /\ w.service.nodePort > 0 => validatePort(w.service.nodePort) /\ w.service.nodePort \notin GetUsedHostPorts
        /\ w.service.protocol \in {"TCP", "UDP"}
        /\ w.service.type \in {"ClusterIP", "NodePort"}
        /\ w.service.type = "NodePort" => w.service.nodePort > 0
validateHealthCheck(w) ==
    \A c \in {w.readiness, w.liveness} : c # None => c.path # "" /\ validatePort(c.port)
\* A pod fits a node, and so do its shared memory and its storage.
FitsNode(r) ==
    LET avail == GetAvailableResource(flavor)
    IN /\ IsSubResource(GetPodResourceList(r), avail)
       /\ r.shm # 0 => r.shm <= avail["mem"]
       /\ MaxStore # 0 => r.store <= GetMaxEphemeralStoreQuantity(flavor)
validateResourceEnough(w) ==
    (GetTotalReplica(w) > 0 /\ w.flavor # "") => \A i \in DOMAIN w.res : FitsNode(w.res[i])
GetWorkloadGVK(w) ==
    CASE w.kind = "TorchFT" -> {"PyTorchJob", "Deployment"}
      [] w.kind = "MonarchJob" -> {"MonarchClient", "MonarchMesh"}
      [] OTHER -> {w.kind}
validateTemplate(w) == GetWorkloadGVK(w) \subseteq Templated
\* An owner that is unknown passes.
validateOwnerWorkload(w) ==
    w.owner # "" =>
        /\ w.owner # w.name
        /\ (w.owner \in Names /\ store[w.owner] # None) =>
              store[w.owner].workspace = w.workspace /\ store[w.owner].owner # w.name

validateCommon(w, old) ==
    /\ validateKind(w, old) /\ validateRequiredParams(w) /\ validateWorkspace(w) /\ validateService(w)
    /\ validateHealthCheck(w) /\ validateResourceEnough(w) /\ validateTemplate(w) /\ validateOwnerWorkload(w)

validateImmutableFields(w, old) ==
    /\ w.workspace = old.workspace /\ w.kind = old.kind /\ w.owner = old.owner
    /\ w.kind = "ScaleRunnerSet" => ("UNIFIED_JOB_ENABLE" \in DOMAIN w.env <=> "UNIFIED_JOB_ENABLE" \in DOMAIN old.env)
validateScope(w) ==
    w.opsJob \/ (GetScope(w) # "" /\ (space = None \/ space.scopes = {} \/ GetScope(w) \in space.scopes))
\* A start lies ahead, by less than a year.
validateCronJobs(w) ==
    \A i \in DOMAIN w.cron :
        (w.cron[i].action = "start" /\ ~w.scheduled) => now < w.cron[i].at /\ w.cron[i].at < now + Year
Frozen == {"res", "images", "entries", "env", "labels", "service"}
validateSpecChanged(w, old) ==
    IsApplication(w) \/ w.kind = "ScaleRunnerSet" \/ ~w.dispatched \/ \A f \in Frozen : w[f] = old[f]

validateOnCreation(w) == validateCommon(w, None) /\ validateScope(w) /\ validateCronJobs(w)
validateOnUpdate(w, old) ==
    /\ validateImmutableFields(w, old) /\ validateCommon(w, old)
    /\ w.cron # old.cron => validateCronJobs(w)
    /\ validateSpecChanged(w, old)

----------------------------------------------------------------------------
Init ==
    /\ store = [n \in Names |-> None]
    /\ space \in Spaces \ {None} /\ flavor \in Flavors
    /\ now = 0 /\ edits = 0
    /\ seen = [n \in Names |-> <<space, flavor, FALSE>>]

Store(n, w, fresh) ==
    /\ store' = [store EXCEPT ![n] = w]
    /\ seen' = [seen EXCEPT ![n] = <<space, flavor, fresh>>]
    /\ UNCHANGED <<space, flavor, now>>

Create(n, t) ==
    LET w == mutateOnCreation([t EXCEPT !.name = n])
    IN store[n] = None /\ validateOnCreation(w) /\ Store(n, w, TRUE) /\ UNCHANGED edits

\* An update that is admitted; one that is refused changes nothing.
Admits(n, w, fresh) ==
    LET v == mutateOnUpdate(store[n], w)
    IN validateOnUpdate(v, store[n]) /\ Store(n, v, fresh)

Change(w, p) == [f \in DOMAIN w |-> IF f \in DOMAIN p THEN p[f] ELSE w[f]]
UserUpdates(n, p) ==
    /\ store[n] # None /\ edits < MaxEdits
    /\ Admits(n, Change(store[n], p), "res" \in DOMAIN p) /\ edits' = edits + 1
\* The scheduler, and then the dispatcher, mark the workload.
MarkScheduled(n) ==
    store[n] # None /\ ~store[n].scheduled /\ Admits(n, [store[n] EXCEPT !.scheduled = TRUE], FALSE) /\ UNCHANGED edits
MarkDispatched(n) ==
    /\ store[n] # None /\ store[n].scheduled /\ ~store[n].dispatched
    /\ Admits(n, [store[n] EXCEPT !.dispatched = TRUE], FALSE) /\ UNCHANGED edits
Delete(n) ==
    /\ store[n] # None /\ edits < MaxEdits /\ edits' = edits + 1
    /\ store' = [store EXCEPT ![n] = None] /\ UNCHANGED <<space, flavor, now, seen>>
PlatformChanges ==
    /\ edits < MaxEdits /\ edits' = edits + 1
    /\ \E s \in Spaces, f \in Flavors : space' = s /\ flavor' = f /\ <<s, f>> # <<space, flavor>>
    /\ UNCHANGED <<store, now, seen>>
Tick == now < MaxNow /\ now' = now + 1 /\ UNCHANGED <<store, space, flavor, seen, edits>>

Next ==
    \/ \E n \in Names, t \in Templates : Create(n, t)
    \/ \E n \in Names, p \in Patches : UserUpdates(n, p)
    \/ \E n \in Names : MarkScheduled(n) \/ MarkDispatched(n) \/ Delete(n)
    \/ PlatformChanges \/ Tick
Spec == Init /\ [][Next]_vars

----------------------------------------------------------------------------
\* What is stored is a workload of the kind that was asked for, or none.
TypeOK ==
    /\ \A n \in Names : store[n] # None =>
          /\ store[n].name = n /\ store[n].priority \in Low..High
          /\ store[n].maxRetry \in 0..DefaultMaxFailover
    /\ now \in 0..MaxNow /\ edits \in 0..MaxEdits

NoNodePort(w) == w.service = None \/ w.service.nodePort = 0

\* As long as the workspace and the flavor are as they were, a controller can write a
\* workload that it has marked, and the mutation leaves all else as it is: also a Ray job,
\* whose submitter gets its shared memory only with the first update after it was added. (A workload with a node port is locked out: the port is
\* found to be taken, by itself. A Ray job that gets new resources between its scheduling
\* and its dispatch cannot be marked as dispatched.)
Unlocked ==
    \A n \in Names :
        (store[n] # None /\ store[n].scheduled /\ NoNodePort(store[n]) /\ seen[n] = <<space, flavor, FALSE>>) =>
            mutateOnUpdate(store[n], store[n]) = store[n] /\ validateOnUpdate(store[n], store[n])

GroupSize(w) == <<w.res[2].replica, GetReplicaCount(w, "ReplicaCount")>>
\* A step that changes the number of nodes in the groups of a fault-tolerant job.
Regroups(n) ==
    /\ store[n] # None /\ store'[n] # None /\ store[n].kind \in Grouped
    /\ GroupSize(store[n])[1] * GroupSize(store'[n])[2] # GroupSize(store'[n])[1] * GroupSize(store[n])[2]
\* A step that changes what a dispatched job runs.
Reshapes(n) ==
    /\ store[n] # None /\ store'[n] # None /\ store[n].dispatched
    /\ ~IsApplication(store[n]) /\ store[n].kind # "ScaleRunnerSet"
    /\ \E f \in Frozen : store'[n][f] # store[n][f]
=============================================================================

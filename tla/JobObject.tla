------------------------------ MODULE JobObject ------------------------------
(***************************************************************************)
(* The objects of a workload in its cluster: how the dispatcher builds     *)
(* them from the specification, and how it brings changes of the           *)
(* specification to objects that exist.  A workload may have one object or *)
(* one per group, and a service and an ingress.  Users change the          *)
(* specification at any time, only some events wake the dispatcher, and    *)
(* its calls may fail.                                                     *)
(***************************************************************************)
EXTENDS Integers, FiniteSets, Sequences, SequencesExt

CONSTANTS
    Kinds,          \* kinds of workload: "deployment", "job", "scaleset", "dynamo", "infera", "torchft", "monarch"
    Fields,         \* what users change: "image", "entry", "shm", "prio", "replica", "secret", "env", "service", "groups"
    Keys,           \* names of environment variables; one of them may also be built in
    Volumes,        \* the workspace's volumes: type, id and whether they are mounted
    Hostpaths,      \* paths of the host that the workload mounts
    MaxGroups,      \* groups of a workload that has several
    MaxUpdates,     \* changes of the specification
    BetweenMarks,   \* whether users change it between the condition and the annotation of the dispatch
    Failing         \* calls that may fail: "object", "service", "ingress", "status", "mark"

VARIABLES
    kind,       \* the kind of the workload
    spec,       \* its specification, and the annotation with the variables to remove
    marks,      \* resource version; whether the condition and the annotation of the dispatch are set; failed
    objs,       \* the objects in the cluster, by group; 0 is the only one, the lighthouse or the client
    svc, ing,   \* the service and the ingress
    queued,     \* whether the workload waits for the dispatcher
    run         \* the run under way: step, what it read, the groups to go, whether it creates

vars == <<kind, spec, marks, objs, svc, ing, queued, run>>

None == "none"
Groups == 0..MaxGroups
Builtin == CHOOSE k \in Keys : TRUE
NoEnv == [k \in Keys |-> None]
IsGroups == kind \in {"torchft", "monarch"}
\* Kinds whose objects follow the specification (IsApplication, IsCICDScalingRunnerSet).
IsApplication(g) == kind \in {"deployment", "dynamo", "infera", "scaleset"} \/ (kind = "torchft" /\ g = 0)

-----------------------------------------------------------------------------
(* Building an object.                                                      *)
HighestId == Max({0} \cup {v.id : v \in Volumes})

(* Host paths are numbered after the volumes of the workspace.              *)
HostpathVolumes == {<<"hostpath", HighestId + i>> : i \in 1..Hostpaths}

buildPersistentVolumeMounts == {<<v.type, v.id>> : v \in {w \in Volumes : w.mounted}} \cup HostpathVolumes

modifyVolumeMounts(s) ==
    buildPersistentVolumeMounts \cup (IF s.shm = None THEN {} ELSE {<<"shm", 0>>})

modifyVolumes(o) == o.volumes \cup {<<v.type, v.id>> : v \in Volumes} \cup HostpathVolumes

(* Built-in variables give way to the user's.                               *)
buildEnvironment(s) == [NoEnv EXCEPT ![Builtin] = IF s.env[Builtin] = None THEN "built in" ELSE None]

modifyEnv(o, s) == [k \in Keys |-> IF o.env[k] = None THEN buildEnvironment(s)[k] ELSE o.env[k]]

initializeObject(o, s) ==
    [o EXCEPT !.mounts = modifyVolumeMounts(s), !.volumes = modifyVolumes(o), !.env = modifyEnv(o, s)]

updateContainerEnv(o, s) ==
    [k \in Keys |-> IF s.env[k] # None THEN s.env[k] ELSE IF k \in s.removed THEN None ELSE o.env[k]]

(* A size that is taken back leaves the volume as it is.                    *)
updateSharedMemory(o, s) ==
    IF s.shm = None THEN o
    ELSE [o EXCEPT !.shm = s.shm, !.volumes = @ \cup {<<"shm", 0>>}]

updateContainers(o, s) == [o EXCEPT !.image = s.image, !.entry = s.entry, !.env = updateContainerEnv(o, s), !.flags = {}]

updateReplica(o, n) == [o EXCEPT !.replica = n, !.instances = n]

updatePriorityClass(o, s) == [o EXCEPT !.prio = s.prio]

updateCICDScaleSet(o, s) == IF kind = "scaleset" THEN [o EXCEPT !.secret = s.secret] ELSE o

applyWorkloadSpecToObject(o, s, n) ==
    LET sized == updateReplica(updateCICDScaleSet(o, s), n)
    IN  updatePriorityClass(updateSharedMemory(updateContainers(sized, s), s), s)

(* A role on several nodes becomes one instance with a flag per node group. *)
appendSglangMultinodeArgs(o) ==
    IF o.replica > 1
    THEN [o EXCEPT !.flags = @ \cup {"--nnodes"}, !.nodes = o.replica, !.instances = 1]
    ELSE o

normalizeDynamoDGD(o) == IF kind = "dynamo" THEN appendSglangMultinodeArgs(o) ELSE o
normalizeInferaIDEP(o) == IF kind = "infera" THEN appendSglangMultinodeArgs(o) ELSE o

Template ==
    [image |-> "template", entry |-> "template", shm |-> None, prio |-> "template", replica |-> 0, secret |-> "template",
     env |-> NoEnv, flags |-> {}, nodes |-> 1, instances |-> 0, volumes |-> {}, mounts |-> {}]

(* The size of each part: a group has its share of the nodes.               *)
generateTorchFTWorker(s) == s.replica \div s.groups
generateMonarchMesh(s) == s.replica \div s.groups
generateLighthouse == 1
generateMonarchClient == 1

SizeOf(s, g) ==
    CASE ~IsGroups -> s.replica
      [] kind = "torchft" /\ g = 0 -> generateLighthouse
      [] kind = "torchft" -> generateTorchFTWorker(s)
      [] g = 0 -> generateMonarchClient
      [] OTHER -> generateMonarchMesh(s)

generateK8sObject(s, g) ==
    LET o == initializeObject(applyWorkloadSpecToObject(Template, s, SizeOf(s, g)), s)
    IN  normalizeInferaIDEP(normalizeDynamoDGD(o))

-----------------------------------------------------------------------------
(* Whether an object differs from the specification.  The lighthouse always *)
(* does: its images are compared with those of the whole workload.          *)
GetResources(o) == o.instances
GetImages(o) == o.image
GetCommands(o) == o.entry
GetMemoryStorageSize(o) == o.shm
GetEnv(o) == o.env
GetPriorityClassName(o) == o.prio

isResourceChanged(o, s, g) == GetResources(o) # SizeOf(s, g)
isImagesChanged(o, s, g) == GetImages(o) # s.image \/ (kind = "torchft" /\ g = 0)
isEntrypointChanged(o, s) == GetCommands(o) # s.entry
isSharedMemoryChanged(o, s) == GetMemoryStorageSize(o) # s.shm
isEnvChanged(o, s) == s.removed # {} \/ \E k \in Keys : s.env[k] # None /\ GetEnv(o)[k] # s.env[k]
isPriorityClassChanged(o, s) == GetPriorityClassName(o) # s.prio
isGithubSecretChanged(o, s) == kind = "scaleset" /\ o.secret # s.secret

Changed(o, s, g) ==
    \/ isResourceChanged(o, s, g) \/ isImagesChanged(o, s, g) \/ isEntrypointChanged(o, s) \/ isSharedMemoryChanged(o, s)
    \/ isEnvChanged(o, s) \/ isPriorityClassChanged(o, s) \/ isGithubSecretChanged(o, s)

-----------------------------------------------------------------------------
FirstSpec ==
    [image |-> "a", entry |-> "a", shm |-> None, prio |-> "a", replica |-> MaxGroups, secret |-> "a",
     env |-> [k \in Keys |-> "a"], removed |-> {}, service |-> None, groups |-> 1]

Values ==
    [image |-> {"a", "b"}, entry |-> {"a", "b"}, shm |-> {None, "a", "b"}, prio |-> {"a", "b"}, secret |-> {"a", "b"},
     replica |-> 1..(MaxGroups + 1), env |-> [Keys -> {None, "a", "b"}], removed |-> SUBSET Keys,
     service |-> {None, "cluster", "node"}, groups |-> 1..MaxGroups]

IsSpec(s) == DOMAIN s = DOMAIN Values /\ \A f \in DOMAIN Values : s[f] \in Values[f]

NoObject == [Template EXCEPT !.image = None]

TypeOK ==
    /\ kind \in Kinds /\ IsSpec(spec)
    /\ marks.cond \in BOOLEAN /\ marks.dispatched \in BOOLEAN /\ marks.failed \in BOOLEAN /\ marks.rv \in 0..MaxUpdates
    /\ DOMAIN objs = Groups
    /\ svc \in {None, "cluster", "node"} /\ ing \in BOOLEAN /\ queued \in BOOLEAN
    /\ IsSpec(run.spec) /\ run.left \in Seq(Groups)
    /\ run.step \in {"idle", "part", "service", "ingress", "status", "mark", "sync", "clear"}

Init ==
    /\ kind \in Kinds
    /\ spec \in {[FirstSpec EXCEPT !.service = v] :
                   v \in IF "service" \in Fields THEN {None, "cluster"} ELSE {None}}
    /\ marks = [rv |-> 0, cond |-> FALSE, dispatched |-> FALSE, failed |-> FALSE]
    /\ objs = [g \in Groups |-> NoObject]
    /\ svc = None /\ ing = FALSE
    /\ queued = TRUE
    /\ run = [step |-> "idle", spec |-> FirstSpec, rv |-> 0, left |-> <<>>, creates |-> FALSE]

Exists(g) == objs[g] # NoObject
Fails(call) == call \in Failing

-----------------------------------------------------------------------------
(* A user changes one field; the admission hook notes the variables that    *)
(* are gone, in place of the ones it noted before.                          *)
mutateEnv(old, new) ==
    LET gone == {k \in Keys : old.env[k] # None /\ new.env[k] = None}
    IN  [new EXCEPT !.removed = IF gone = {} THEN old.removed ELSE gone]

(* A change wakes the dispatcher once the workload is dispatched.           *)
relevantChangePredicate(old, new) == marks.dispatched /\ (old # new \/ new.removed # {})

UserUpdates ==
    /\ marks.rv < MaxUpdates
    /\ run.step = "mark" => marks.dispatched \/ BetweenMarks
    /\ \E f \in Fields : \E v \in Values[f] \ {spec[f]} :
         LET new == mutateEnv(spec, [spec EXCEPT ![f] = v])
         IN  /\ spec' = new
             /\ queued' = (queued \/ relevantChangePredicate(spec, new))
    /\ marks' = [marks EXCEPT !.rv = @ + 1]
    /\ UNCHANGED <<kind, objs, svc, ing, run>>

-----------------------------------------------------------------------------
(* A run of the dispatcher.                                                 *)
Goto(s) == run' = [run EXCEPT !.step = s]
Requeue == Goto("idle") /\ queued' = TRUE /\ UNCHANGED <<marks, objs, svc, ing>>
\* An error that cannot be repaired ends the workload (IsUnrecoverableError).
SetWorkloadFailed == marks' = [marks EXCEPT !.failed = TRUE] /\ Goto("idle") /\ UNCHANGED <<objs, svc, ing, queued>>

(* The lighthouse comes first, the client last.                             *)
PartsOf(s) ==
    CASE kind = "torchft" -> <<0>> \o [i \in 1..s.groups |-> i]
      [] kind = "monarch" -> [i \in 1..s.groups |-> i] \o <<0>>
      [] OTHER -> <<0>>

Workers == {g \in 1..MaxGroups : Exists(g)}

scaleDownTorchFTWorkers(n) ==
    IF Cardinality(Workers) <= n THEN objs
    ELSE [g \in Groups |-> IF g > n THEN NoObject ELSE objs[g]]

Reconcile ==
    /\ queued /\ run.step = "idle"
    /\ \/ /\ marks.failed
          /\ queued' = FALSE /\ UNCHANGED <<objs, run>>
       \/ /\ ~marks.failed
          /\ queued' = FALSE
          /\ objs' = IF kind = "torchft" THEN scaleDownTorchFTWorkers(spec.groups) ELSE objs
          /\ run' = [run EXCEPT !.step = "part", !.spec = spec, !.rv = marks.rv, !.left = PartsOf(spec)]
       \/ /\ ~marks.failed /\ kind = "torchft" /\ Fails("object")
          /\ UNCHANGED <<objs, queued, run>>
    /\ UNCHANGED <<kind, spec, marks, svc, ing>>

Part == Head(run.left)

(* The next part, or the mark on the workload as a whole.                   *)
NextPart ==
    CASE IsGroups /\ Len(run.left) > 1 -> [run EXCEPT !.step = "part", !.left = Tail(@)]
      [] IsGroups \/ run.creates -> [run EXCEPT !.step = "status"]
      [] OTHER -> [run EXCEPT !.step = "idle"]

processWorkload ==
    /\ run.step = "part" /\ Exists(Part)
    /\ run' = IF ~IsGroups THEN [run EXCEPT !.step = "status", !.creates = FALSE]
              ELSE IF IsApplication(Part) THEN [run EXCEPT !.step = "sync", !.creates = FALSE]
              ELSE NextPart
    /\ UNCHANGED <<kind, spec, marks, objs, svc, ing, queued>>

dispatch ==
    /\ run.step = "part" /\ ~Exists(Part)
    /\ \/ /\ objs' = [objs EXCEPT ![Part] = generateK8sObject(run.spec, Part)]
          /\ run' = [run EXCEPT !.step = "service", !.creates = TRUE]
          /\ UNCHANGED <<marks, svc, ing, queued>>
       \/ Fails("object") /\ (Requeue \/ SetWorkloadFailed)
    /\ UNCHANGED <<kind, spec>>

(* Only the part that serves has a service: the lighthouse always has one.  *)
ServiceOf == IF kind = "torchft" /\ Part = 0 THEN "cluster"
             ELSE IF IsGroups THEN svc
             ELSE run.spec.service

createService == IF svc = None THEN ServiceOf ELSE svc
updateService == ServiceOf

(* A node port that is taken ends the workload.                             *)
Service ==
    /\ run.step = "service"
    /\ \/ /\ svc' = IF run.creates THEN createService ELSE updateService
          /\ Goto("ingress") /\ UNCHANGED <<marks, objs, ing, queued>>
       \/ /\ Fails("service") /\ ServiceOf # svc
          /\ IF ServiceOf = "node" THEN SetWorkloadFailed ELSE Requeue
    /\ UNCHANGED <<kind, spec>>

createIngress == ing \/ ServiceOf # None
updateIngress == ServiceOf # None

Ingress ==
    /\ run.step = "ingress"
    /\ \/ /\ ing' = IF run.creates THEN createIngress ELSE updateIngress
          /\ run' = NextPart /\ UNCHANGED <<marks, objs, svc, queued>>
       \/ Fails("ingress") /\ Requeue
    /\ UNCHANGED <<kind, spec>>

\* Mutant: the condition is set whatever has changed.
markUnconditionally ==
    /\ run.step = "status"
    /\ marks' = [marks EXCEPT !.cond = TRUE]
    /\ Goto("mark") /\ UNCHANGED <<kind, spec, objs, svc, ing, queued>>

(* The condition is only set on the version of the workload that was read.  *)
markAsDispatchedStatus ==
    /\ run.step = "status"
    /\ \/ /\ marks.cond \/ marks.rv = run.rv
          /\ marks' = [marks EXCEPT !.cond = TRUE]
          /\ Goto("mark") /\ UNCHANGED <<objs, svc, ing, queued>>
       \/ /\ ~marks.cond /\ (marks.rv # run.rv \/ Fails("status"))
          /\ Requeue
    /\ UNCHANGED <<kind, spec>>

(* The annotation is set on whatever is there, and the run goes on with it. *)
AfterMark == IF ~run.creates /\ ~IsGroups /\ IsApplication(0) THEN "sync" ELSE "idle"

markAsDispatched ==
    /\ run.step = "mark"
    /\ \/ /\ marks.dispatched
          /\ Goto(AfterMark) /\ UNCHANGED <<spec, marks, objs, svc, ing, queued>>
       \/ /\ ~marks.dispatched
          /\ marks' = [marks EXCEPT !.dispatched = TRUE]
          /\ spec' = [spec EXCEPT !.removed = {}]
          /\ run' = [run EXCEPT !.step = AfterMark, !.spec = [spec EXCEPT !.removed = {}]]
          /\ UNCHANGED <<objs, svc, ing, queued>>
       \/ ~marks.dispatched /\ Fails("mark") /\ Requeue /\ UNCHANGED spec
    /\ UNCHANGED kind

(* An object that differs is brought up to date; Dynamo's are left alone.   *)
syncWorkloadToObject ==
    /\ run.step = "sync"
    /\ IF kind = "dynamo" \/ ~Changed(objs[Part], run.spec, Part)
       THEN Goto("service") /\ UNCHANGED <<marks, objs, svc, ing, queued>>
       ELSE \/ /\ objs' = [objs EXCEPT ![Part] = applyWorkloadSpecToObject(@, run.spec, SizeOf(run.spec, Part))]
               /\ Goto("clear") /\ UNCHANGED <<marks, svc, ing, queued>>
            \/ Fails("object") /\ Requeue
    /\ UNCHANGED <<kind, spec>>

(* The note of removed variables goes, if there was one, and the run goes   *)
(* on with the workload as it is now.  The lighthouse is no workload of its *)
(* own: the call finds nothing, which ends the whole workload.              *)
RemoveNote ==
    /\ run.step = "clear"
    /\ \/ /\ ~IsGroups
          /\ spec' = IF run.spec.removed # {} THEN [spec EXCEPT !.removed = {}] ELSE spec
          /\ run' = [run EXCEPT !.step = "service", !.spec = spec']
          /\ UNCHANGED <<marks, objs, svc, ing, queued>>
       \/ IsGroups /\ SetWorkloadFailed /\ UNCHANGED spec
       \/ Fails("mark") /\ Requeue /\ UNCHANGED spec
    /\ UNCHANGED kind

Dispatcher ==
    \/ Reconcile \/ processWorkload \/ dispatch \/ Service \/ Ingress \/ markAsDispatchedStatus
    \/ markAsDispatched \/ syncWorkloadToObject \/ RemoveNote

Next == UserUpdates \/ Dispatcher

Spec == Init /\ [][Next]_vars

-----------------------------------------------------------------------------
Quiet == ~queued /\ run.step = "idle" /\ ~marks.failed

(* At rest the object of an application shows every change of the           *)
(* specification: no change falls between the run that creates the object   *)
(* and the mark from which on changes wake the dispatcher, and no field     *)
(* that changes is left out of the comparison or of the update.             *)
Agrees(o, s) ==
    /\ o.image = s.image /\ o.entry = s.entry /\ o.prio = s.prio
    /\ s.shm # None => o.shm = s.shm
    /\ \A k \in Keys : s.env[k] # None => o.env[k] = s.env[k]
    /\ kind = "scaleset" => o.secret = s.secret

ObjectFollows ==
    Quiet => /\ marks.dispatched
             /\ kind \in {"deployment", "scaleset"} =>
                  Agrees(objs[0], spec) /\ objs[0].instances = spec.replica /\ svc = spec.service /\ ing = (svc # None)

(* At rest a workload with groups has the groups it asks for and no other.  *)
GroupsFollow ==
    Quiet => /\ kind = "torchft" => Workers = 1..spec.groups /\ Exists(0) /\ svc = "cluster"
             /\ kind = "monarch" => 1..spec.groups \subseteq Workers /\ Exists(0)

(* Whatever a container mounts is a volume of the pod, numbered alike when  *)
(* the volumes and when the mounts are built; a role keeps what it was      *)
(* given for its nodes.                                                     *)
MountsHaveVolumes ==
    \A g \in Groups : Exists(g) =>
        /\ objs[g].mounts \subseteq objs[g].volumes
        /\ kind = "dynamo" /\ objs[g].replica > 1 =>
             "--nnodes" \in objs[g].flags /\ objs[g].instances = 1 /\ objs[g].nodes = objs[g].replica

=============================================================================

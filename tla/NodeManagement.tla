---------------------------- MODULE NodeManagement ----------------------------
(***************************************************************************)
(* How a machine becomes a node of a cluster and leaves it again.  A user  *)
(* sets the cluster of the admin node; the node controller runs a          *)
(* scale-up or a scale-down pod, watches its phase and whether the         *)
(* Kubernetes node is there, and writes the result into the status of the  *)
(* admin node.  A second controller copies labels of the Kubernetes node   *)
(* back from a queue of its events.  Pods outlive the decision that made   *)
(* them, and the machine itself reboots or dies.                           *)
(***************************************************************************)
EXTENDS Naturals

CONSTANTS
    HostIsName,      \* whether the machine's hostname is the name of the admin node
    MaxUser,         \* bound: requests of users
    MaxFailures,     \* bound: pods that fail although the machine is well
    MaxHangs,        \* bound: pods that run longer than podManagementTimeout
    MaxLost,         \* bound: Kubernetes nodes deleted behind the controller's back
    MaxKubeletDown,  \* bound: kubelets that stop on a machine that is still reachable
    MaxDeaths        \* bound: machines that stop for good

VARIABLES
    node,            \* the admin node
    k8s,             \* the Kubernetes node
    up, down,        \* the scale-up and the scale-down pod
    machine,         \* the machine itself: "up", "booting" or "dead"
    messages,        \* events of the Kubernetes node that wait in the second controller
    queued, timer,   \* the node is to be reconciled, now and after some time
    left

vars == <<node, k8s, up, down, machine, messages, queued, timer, left>>

Phases == {"none", "ready", "managing", "managed", "managedFailed",
           "unmanaging", "unmanaged", "unmanagedFailed"}

\* The admin node: its cluster as asked for, as labelled and as noted in the
\* status, the two phases of the status, and whether a workspace labels it.
NodeRecord ==
    [spec : BOOLEAN, label : BOOLEAN, cluster : BOOLEAN, phase : Phases,
     ready : BOOLEAN, workspace : BOOLEAN]
K8sRecord == [there : BOOLEAN, ready : BOOLEAN, label : BOOLEAN]
PodRecord == [phase : {"none", "running", "succeeded", "failed"}, old : BOOLEAN]

NoNode == [there |-> FALSE, ready |-> FALSE, label |-> FALSE]
NoPod == [phase |-> "none", old |-> FALSE]
NewPod == [phase |-> "running", old |-> FALSE]
Spend(what) == left[what] > 0 /\ left' = [left EXCEPT ![what] = @ - 1]

-----------------------------------------------------------------------------
(* Users and the machine.                                                   *)

\* processClusterNode: a node is added; it is only removed from the cluster its
\* label names.  A node to be removed first leaves its workspace.
processClusterNode(add) ==
    /\ node.spec # add
    /\ add \/ node.label
    /\ Spend("user")
    /\ node' = [node EXCEPT !.spec = add]
    /\ queued' = TRUE
    /\ UNCHANGED <<k8s, up, down, machine, messages, timer>>

\* retryNodes: the pods are deleted for the controller to make them again.
retryNodes ==
    /\ up # NoPod \/ down # NoPod
    /\ Spend("user")
    /\ up' = NoPod /\ down' = NoPod /\ queued' = TRUE
    /\ UNCHANGED <<node, k8s, machine, messages, timer>>

\* A workspace takes the node, and gives it back when the node is to go.
Bind ==
    /\ node.spec /\ node.phase = "managed" /\ k8s.label /\ ~node.workspace
    /\ node' = [node EXCEPT !.workspace = TRUE]
    /\ queued' = TRUE
    /\ UNCHANGED <<k8s, up, down, machine, messages, timer, left>>

Unbind ==
    /\ ~node.spec /\ node.workspace
    /\ node' = [node EXCEPT !.workspace = FALSE]
    /\ queued' = TRUE
    /\ UNCHANGED <<k8s, up, down, machine, messages, timer, left>>

\* The Kubernetes node goes; its event is of interest if it carries the label.
K8sGone == /\ k8s' = NoNode
           /\ messages' = IF k8s.label THEN messages \cup {"deleted"} ELSE messages

K8sLost ==
    /\ k8s.there /\ Spend("lost") /\ K8sGone
    /\ UNCHANGED <<node, up, down, machine, queued, timer>>

KubeletStops ==
    /\ k8s.there /\ k8s.ready /\ Spend("kubelet")
    /\ k8s' = [k8s EXCEPT !.ready = FALSE]
    /\ UNCHANGED <<node, up, down, machine, messages, queued, timer>>

Dies ==
    /\ machine # "dead" /\ Spend("deaths")
    /\ machine' = "dead"
    /\ k8s' = [k8s EXCEPT !.ready = FALSE]
    /\ UNCHANGED <<node, up, down, messages, queued, timer>>

Boots ==
    /\ machine = "booting"
    /\ machine' = "up"
    /\ k8s' = [k8s EXCEPT !.ready = k8s.there]
    /\ UNCHANGED <<node, up, down, messages, queued, timer, left>>

-----------------------------------------------------------------------------
(* The pods, which run the playbooks of kubespray.                          *)

PodFails(pod, forFree) ==
    /\ IF forFree THEN UNCHANGED left ELSE Spend("failures")
    /\ pod' = [pod EXCEPT !.phase = "failed"]

\* The scale-up pod lets the machine join before it comes to its end.
UpJoins ==
    /\ up.phase = "running" /\ machine = "up" /\ ~k8s.there
    /\ k8s' = [there |-> TRUE, ready |-> TRUE, label |-> FALSE]
    /\ UNCHANGED <<node, up, down, machine, messages, queued, timer, left>>

UpEnds ==
    /\ up.phase = "running"
    /\ \/ /\ k8s.there
          /\ up' = [up EXCEPT !.phase = "succeeded"]
          /\ UNCHANGED left
       \/ ~k8s.there /\ PodFails(up, machine # "up")
    /\ queued' = TRUE
    /\ UNCHANGED <<node, k8s, down, machine, messages, timer>>

\* The scale-down pod removes the Kubernetes node; it may fail on a machine that
\* is not well.
DownEnds ==
    /\ down.phase = "running"
    /\ \/ /\ machine = "up"
          /\ down' = [down EXCEPT !.phase = "succeeded"]
          /\ K8sGone /\ UNCHANGED left
       \/ PodFails(down, machine # "up" \/ ~k8s.ready) /\ UNCHANGED <<k8s, messages>>
    /\ queued' = TRUE
    /\ UNCHANGED <<node, up, machine, timer>>

\* A pod passes podManagementTimeout: one that takes too long, or one that has
\* ended and that the controller, which knows of its end, has kept.
PodAges(pod) ==
    /\ pod.phase # "none" /\ ~pod.old
    /\ IF pod.phase = "running" THEN Spend("hangs") ELSE ~queued /\ UNCHANGED left
    /\ pod' = [pod EXCEPT !.old = TRUE]
    /\ UNCHANGED <<node, k8s, machine, messages, queued, timer>>

UpAges == PodAges(up) /\ UNCHANGED down
DownAges == PodAges(down) /\ UNCHANGED up

-----------------------------------------------------------------------------
(* NodeK8sReconciler: labels of the Kubernetes node come back.              *)

\* Mutant of handleNodeUnmanaged: the message is queued again under an action that
\* no handler knows.
handleNodeUnmanagedRequeue ==
    /\ node' = [node EXCEPT !.label = FALSE, !.workspace = FALSE]
    /\ messages' = (messages \ {"deleted"}) \cup {"unknown"}
    /\ queued' = TRUE

\* handleNodeUnmanaged with deleteConcernedMeta.
handleNodeUnmanaged ==
    /\ node' = [node EXCEPT !.label = FALSE, !.workspace = FALSE]
    /\ messages' = messages \ {"deleted"}
    /\ queued' = (queued \/ node.label \/ node.workspace)

\* handleNodeUpdate with syncK8sMetadata, from the Kubernetes node as it is now; a
\* node that is gone is retried.
handleNodeUpdate ==
    /\ k8s.there
    /\ node' = [node EXCEPT !.label = k8s.label]
    /\ messages' = messages \ {"update"}
    /\ queued' = (queued \/ node.label # k8s.label)

Message ==
    /\ \/ "deleted" \in messages /\ handleNodeUnmanaged
       \/ "update" \in messages /\ handleNodeUpdate
    /\ UNCHANGED <<k8s, up, down, machine, timer, left>>

-----------------------------------------------------------------------------
(* NodeReconciler.                                                          *)

IsManaged == node.phase = "managed" /\ node.label

\* getK8sNode: nothing is looked up for a node without a cluster, neither in its
\* spec nor in its label.
Visible == k8s.there /\ (node.spec \/ node.label)

\* observe, observeCluster: nothing is left to do.
observeCluster ==
    /\ node.spec = node.label
    /\ IF node.spec THEN IsManaged /\ Visible /\ k8s.label ELSE ~node.cluster /\ ~Visible

\* syncMachineStatus: the machine is reached over ssh, or not.
syncMachineStatus(sync) == [node EXCEPT !.ready = IF sync THEN machine = "up" ELSE @]

\* cleanupTimeoutPods: while a pod is waited for, the old ones are deleted.
cleanupTimeoutPods(pod) ==
    IF node.phase \in {"managing", "unmanaging"} /\ pod.old THEN NoPod ELSE pod

\* What a reconcile ends with: later, again at once after an error, or for good.
Later == queued' = FALSE /\ timer' = TRUE
Again == queued' = TRUE /\ UNCHANGED timer

\* syncOrCreateScaleUpPod on the node n and the pod p; a machine that cannot be
\* reset gets no pod.
syncOrCreateScaleUpPod(n, p) ==
    \/ /\ p = NoPod /\ machine # "up"
       /\ node' = [node EXCEPT !.ready = n.ready] /\ up' = p /\ Again
    \/ /\ p = NoPod /\ machine = "up"
       /\ up' = NewPod /\ node' = [n EXCEPT !.phase = "managing"] /\ Later
    \/ /\ p # NoPod
       /\ up' = p /\ Later
       /\ node' = [n EXCEPT !.phase = CASE p.phase = "succeeded" -> @
                                        [] p.phase = "failed" -> "managedFailed"
                                        [] OTHER -> "managing"]

\* syncClusterStatus: a node that is not managed yet is authorized and noted.
syncClusterStatus(n) == IF IsManaged THEN n ELSE [n EXCEPT !.cluster = TRUE, !.phase = "ready"]

\* Mutant of manage: the label of the Kubernetes node is not written.
manageUnlabelled(n, u, d) ==
    /\ down' = d
    /\ \/ ~n.ready /\ node' = n /\ up' = u /\ UNCHANGED <<k8s, messages>> /\ Later
       \/ /\ n.ready /\ k8s.there
          /\ node' = [n EXCEPT !.label = TRUE, !.cluster = TRUE, !.phase = "managed"]
          /\ up' = NoPod /\ UNCHANGED <<k8s, messages>> /\ Later
       \/ /\ n.ready /\ ~k8s.there
          /\ syncOrCreateScaleUpPod([n EXCEPT !.cluster = TRUE, !.phase = "ready"], u)
          /\ UNCHANGED <<k8s, messages>>

\* manage: a machine that cannot be reached waits; syncClusterStatus notes the
\* cluster; a Kubernetes node that is there is labelled and makes the node
\* managed, with the scale-up pod deleted; otherwise there is a pod to look at.
manage(n, u, d) ==
    /\ down' = d
    /\ \/ ~n.ready /\ node' = n /\ up' = u /\ UNCHANGED <<k8s, messages>> /\ Later
       \/ /\ n.ready /\ IsManaged /\ k8s.there /\ k8s.label
          /\ node' = n /\ up' = u /\ UNCHANGED <<k8s, messages>> /\ Later
       \/ /\ n.ready /\ ~IsManaged /\ machine # "up"
          /\ node' = [n EXCEPT !.ready = FALSE] /\ up' = u /\ UNCHANGED <<k8s, messages>> /\ Later
       \/ /\ n.ready /\ k8s.there /\ ~(IsManaged /\ k8s.label) /\ (IsManaged \/ machine = "up")
          /\ k8s' = [k8s EXCEPT !.label = TRUE]
          /\ messages' = IF k8s.label THEN messages ELSE messages \cup {"update"}
          /\ IF machine = "up"     \* modifyResolvConf and installAddons need ssh
             THEN /\ node' = [n EXCEPT !.label = TRUE, !.cluster = TRUE, !.phase = "managed"]
                  /\ up' = NoPod /\ Later
             ELSE node' = n /\ up' = u /\ Again
       \/ /\ n.ready /\ ~k8s.there /\ (IsManaged \/ machine = "up")
          /\ syncOrCreateScaleUpPod(syncClusterStatus(n), u)
          /\ UNCHANGED <<k8s, messages>>

\* syncOrCreateScaleDownPod: the pod is looked for by the machine's hostname and
\* labelled with the name of the node.  Before it is created a lock is removed
\* over ssh.  A failed one leads to a forced deletion of a node that is not ready.
syncOrCreateScaleDownPod(n, d) ==
    LET found == d # NoPod /\ HostIsName
        unmanaging == [n EXCEPT !.phase = "unmanaging"]
    IN  \/ /\ ~found /\ (machine # "up" \/ d # NoPod)
           /\ node' = [node EXCEPT !.ready = n.ready] /\ down' = d
           /\ UNCHANGED <<k8s, messages>> /\ Again
        \/ /\ ~found /\ machine = "up" /\ d = NoPod
           /\ node' = unmanaging /\ down' = NewPod
           /\ UNCHANGED <<k8s, messages>> /\ Later
        \/ /\ found /\ d.phase = "failed" /\ ~k8s.ready
           /\ K8sGone /\ node' = unmanaging /\ down' = d /\ Later
        \/ /\ found /\ ~(d.phase = "failed" /\ ~k8s.ready)
           /\ node' = IF d.phase = "failed" THEN [n EXCEPT !.phase = "unmanagedFailed"] ELSE unmanaging
           /\ down' = d /\ UNCHANGED <<k8s, messages>> /\ Later

\* Mutant of unmanage: the workspace is not waited for.
unmanageBound(n, u, d) ==
    \/ /\ ~Visible
       /\ node' = [n EXCEPT !.cluster = FALSE, !.phase = "unmanaged", !.ready = FALSE]
       /\ down' = NoPod /\ up' = u
       /\ machine' = IF machine = "up" THEN "booting" ELSE machine
       /\ UNCHANGED <<k8s, messages>> /\ Later
    \/ /\ Visible /\ up' = NoPod
       /\ syncOrCreateScaleDownPod(n, d)
       /\ UNCHANGED machine

\* unmanage: once the Kubernetes node is gone the scale-down pod is deleted, the
\* status is reset and the machine rebooted.  Before that, the scale-up pod is
\* deleted and the scale-down pod looked at.
unmanage(n, u, d) ==
    \/ /\ n.workspace
       /\ node' = n /\ up' = u /\ down' = d
       /\ UNCHANGED <<k8s, messages, machine>> /\ Later
    \/ /\ ~n.workspace /\ ~Visible
       /\ node' = [n EXCEPT !.cluster = FALSE, !.phase = "unmanaged", !.ready = FALSE]
       /\ down' = NoPod /\ up' = u
       /\ machine' = IF machine = "up" THEN "booting" ELSE machine
       /\ UNCHANGED <<k8s, messages>> /\ Later
    \/ /\ ~n.workspace /\ Visible /\ ~(n.cluster \/ k8s.label)
       /\ node' = n /\ up' = u /\ down' = d
       /\ UNCHANGED <<k8s, messages, machine>> /\ Later
    \/ /\ ~n.workspace /\ Visible /\ (n.cluster \/ k8s.label)
       /\ up' = NoPod
       /\ syncOrCreateScaleDownPod(n, d)
       /\ UNCHANGED machine

\* cleanupNodeAfterUnmanage: the labels go, once the machine is back.
cleanupNodeAfterUnmanage(n, u, d) ==
    /\ node' = IF n.ready THEN [n EXCEPT !.label = FALSE, !.workspace = FALSE] ELSE n
    /\ up' = u /\ down' = d
    /\ UNCHANGED <<k8s, messages, machine>> /\ Later

\* processNodeManagement.
processNodeManagement(n, u, d) ==
    \/ n.spec /\ manage(n, u, d) /\ UNCHANGED machine
    \/ ~n.spec /\ (n.cluster \/ Visible) /\ unmanage(n, u, d)
    \/ ~n.spec /\ ~n.cluster /\ ~Visible /\ cleanupNodeAfterUnmanage(n, u, d)

\* Reconcile: the machine is checked when it was not ready or not for long.
Reconcile ==
    /\ queued
    /\ \E sync \in BOOLEAN :
         /\ ~node.ready => sync
         /\ \/ /\ ~sync /\ observeCluster
               /\ queued' = FALSE
               /\ UNCHANGED <<node, k8s, up, down, machine, messages, timer>>
            \/ /\ sync \/ ~observeCluster
               /\ processNodeManagement(syncMachineStatus(sync), cleanupTimeoutPods(up),
                                        cleanupTimeoutPods(down))
    /\ UNCHANGED left

\* A delayed reconcile is due.
Due ==
    /\ timer
    /\ timer' = FALSE /\ queued' = TRUE
    /\ UNCHANGED <<node, k8s, up, down, machine, messages, left>>

-----------------------------------------------------------------------------

Init ==
    /\ node = [spec |-> FALSE, label |-> FALSE, cluster |-> FALSE, phase |-> "none",
               ready |-> FALSE, workspace |-> FALSE]
    /\ k8s = NoNode /\ up = NoPod /\ down = NoPod
    /\ machine = "up"
    /\ messages = {} /\ queued = TRUE /\ timer = FALSE
    /\ left = [user |-> MaxUser, failures |-> MaxFailures, hangs |-> MaxHangs, lost |-> MaxLost,
               kubelet |-> MaxKubeletDown, deaths |-> MaxDeaths]

Environment == \/ \E add \in BOOLEAN : processClusterNode(add)
               \/ retryNodes \/ Bind \/ K8sLost \/ KubeletStops \/ Dies

System == UpJoins \/ UpEnds \/ DownEnds \/ UpAges \/ DownAges \/ Unbind \/ Boots \/ Message \/ Reconcile \/ Due

Next == Environment \/ System

Spec == Init /\ [][Next]_vars

-----------------------------------------------------------------------------
(* Properties.                                                              *)

\* Types of the variables.
TypeOK ==
    /\ node \in NodeRecord /\ k8s \in K8sRecord
    /\ up \in PodRecord /\ down \in PodRecord
    /\ machine \in {"up", "booting", "dead"}
    /\ messages \subseteq {"deleted", "update"}
    /\ queued \in BOOLEAN /\ timer \in BOOLEAN

\* A node that was added is managed, with its Kubernetes node known as one of the
\* cluster, or has failed to be; a node that was removed has no Kubernetes node, no
\* cluster and no label, or has failed to leave.
AtRest ==
    IF node.spec
    THEN (IsManaged /\ k8s.there /\ k8s.label) \/ node.phase = "managedFailed"
    ELSE (~node.cluster /\ ~node.label /\ ~k8s.there) \/ node.phase = "unmanagedFailed"

\* A workspace holds no node that is reported as unmanaged.
UnmanagedIsFree == node.phase = "unmanaged" => ~node.workspace
=============================================================================

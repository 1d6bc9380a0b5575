----------------------------- MODULE ClusterPlane -----------------------------
(***************************************************************************)
(* A cluster of the control plane: its nodes are prepared by a pod that    *)
(* runs Kubespray, its credentials are fetched over SSH, clients are kept  *)
(* for it and a few objects are put into it; on deletion a second pod      *)
(* resets the machine and the nodes are released.  The name of a cluster   *)
(* that is gone may be used again while the garbage collector is still     *)
(* behind.                                                                 *)
(***************************************************************************)
EXTENDS Integers, FiniteSets

CONSTANTS
    MaxUid,         \* clusters created under the name, one after the other
    Cicd,           \* whether runner roles are kept in the cluster
    Forward,        \* whether requests are forwarded to the cluster
    Lag,            \* whether the garbage collector may be behind a new cluster of the name
    Patient,        \* whether users delete a cluster only once it has taken in its nodes
    Budget          \* failing calls, failing installers, times the machine is down, restarts

VARIABLES
    cluster,    \* uid, state, phase and whether it has credentials
    run,        \* the reconciler: step, the cluster as it knows it, nodes to release, the one at hand
    queued,     \* whether the cluster waits for the reconciler
    pods,       \* the installer pods, by action: owner and phase
    machine,    \* the machine of the control plane: whether it is up, and what is installed
    node,       \* the nodes: cluster of the specification, label and status
    clients,    \* whether the manager has clients of the cluster
    plane,      \* what has been put into the cluster
    front,      \* owners of the endpoints, the service and what forwards to them; 0 is none
    left        \* what is left of the budget

vars == <<cluster, run, queued, pods, machine, node, clients, plane, front, left>>

Nodes == {"control", "worker"}
Roles == {"role", "binding", "monarch"}
Things == {"priority", "secrets", "dns"} \cup Roles
Phases == {"none", "creating", "created", "creationFailed", "ready", "deleting", "deleted", "deleteFailed"}
NoPod == [uid |-> 0, phase |-> "none"]
Unbound == [spec |-> FALSE, label |-> FALSE, managed |-> FALSE]

TypeOK ==
    /\ cluster \in [uid : 0..MaxUid, state : {"gone", "live", "deleting"}, phase : Phases, data : BOOLEAN]
    /\ run.step \in {"idle", "cleanup", "delete", "clearStatus", "plane", "client", "priority", "secrets", "roles",
                     "forward", "dns"}
    /\ run.todo \subseteq Nodes /\ run.now \in Nodes
    /\ pods \in [{"create", "reset"} -> [uid : 0..MaxUid, phase : {"none", "running", "succeeded", "failed"}]]
    /\ machine \in [up : BOOLEAN, kube : {"none", "installed", "broken"}]
    /\ node \in [Nodes -> [spec : BOOLEAN, label : BOOLEAN, managed : BOOLEAN]]
    /\ queued \in BOOLEAN /\ clients \in BOOLEAN /\ plane \subseteq Things
    /\ front \in [{"endpoints", "service", "forward"} -> 0..MaxUid]

Init ==
    /\ cluster = [uid |-> 0, state |-> "gone", phase |-> "none", data |-> FALSE]
    /\ run = [step |-> "idle", view |-> cluster, todo |-> {}, now |-> "control"]
    /\ queued = FALSE /\ clients = FALSE /\ plane = {}
    /\ pods = [a \in {"create", "reset"} |-> NoPod]
    /\ machine \in [up : {TRUE}, kube : {"none", "installed"}]
    /\ node = [n \in Nodes |-> Unbound]
    /\ front = [f \in {"endpoints", "service", "forward"} |-> 0]
    /\ left = Budget

Spend(what) == left[what] > 0 /\ left' = [left EXCEPT ![what] = @ - 1]
Reachable == machine.up /\ machine.kube = "installed"
InFront == {front[f] : f \in DOMAIN front} \cup {pods[a].uid : a \in DOMAIN pods}

-----------------------------------------------------------------------------
(* Requests of users.                                                       *)
validateNodesReady == machine.up

createCluster ==
    /\ cluster.state = "gone" /\ cluster.uid < MaxUid /\ validateNodesReady
    /\ Lag \/ InFront = {0}
    /\ cluster' = [uid |-> cluster.uid + 1, state |-> "live", phase |-> "none", data |-> FALSE]
    /\ queued' = TRUE
    /\ UNCHANGED <<run, pods, machine, node, clients, plane, front, left>>

deleteCluster ==
    /\ cluster.state = "live"
    /\ Patient => node["control"].label /\ node["worker"].spec = node["worker"].label
    /\ cluster' = [cluster EXCEPT !.state = "deleting"]
    /\ queued' = TRUE
    /\ UNCHANGED <<run, pods, machine, node, clients, plane, front, left>>

processClusterNode ==
    /\ cluster.state = "live" \/ (cluster.state = "deleting" /\ ~Patient)
    /\ cluster.phase = "ready" /\ ~node["worker"].spec
    /\ node' = [node EXCEPT !["worker"].spec = TRUE]
    /\ UNCHANGED <<cluster, run, queued, pods, machine, clients, plane, front, left>>

(* The node controller labels a node once it is part of the cluster.        *)
manage(n) ==
    /\ node[n].spec /\ ~node[n].label /\ clients /\ Reachable
    /\ node' = [node EXCEPT ![n].label = TRUE, ![n].managed = TRUE]
    /\ UNCHANGED <<cluster, run, queued, pods, machine, clients, plane, front, left>>

-----------------------------------------------------------------------------
(* The reconciler.                                                          *)
View == run.view
Deleting == View.state = "deleting"
IsReady == View.phase = "ready"
IsInDeletion == View.phase \in {"deleting", "deleted"}

Reconcile ==
    /\ queued /\ run.step = "idle"
    /\ queued' = FALSE
    /\ run' = IF cluster.state = "gone" THEN run
              ELSE [run EXCEPT !.step = "cleanup", !.view = cluster, !.todo = {}]
    /\ UNCHANGED <<cluster, pods, machine, node, clients, plane, front, left>>

Goto(s) == run' = [run EXCEPT !.step = s]

(* An error ends the run, and the cluster is tried again.                   *)
Retry == /\ Goto("idle") /\ queued' = TRUE
         /\ UNCHANGED <<cluster, pods, machine, node, clients, plane, front>>
Failure(s) == run.step = s /\ Spend("calls") /\ Retry

(* What a deletion takes out of the cluster.                                *)
deletePriorityClass == {"priority"}
deleteAllImageSecrets == {"secrets"}
deleteDataPlaneClusterRole == Roles

cleanupClusterResources ==
    /\ run.step = "cleanup"
    /\ LET cleans == Deleting /\ ~IsInDeletion /\ clients
       IN  \/ /\ cleans => Reachable
              /\ plane' = IF cleans THEN plane \ (deletePriorityClass \cup deleteAllImageSecrets \cup deleteDataPlaneClusterRole) ELSE plane
              /\ run' = IF View.phase = "deleted"
                        THEN [run EXCEPT !.step = "delete", !.todo = {n \in Nodes : node[n].label}]
                        ELSE [run EXCEPT !.step = "plane"]
              /\ UNCHANGED <<cluster, queued, pods, machine, node, clients, front>>
           \/ cleans /\ ~Reachable /\ Retry
    /\ UNCHANGED left

(* The nodes with the cluster's label are released one by one, the          *)
(* specification before the status; then the clients and the cluster go.    *)
resetNodesOfCluster(n) ==
    /\ run.step = "delete" /\ n \in run.todo
    /\ node' = [node EXCEPT ![n].spec = FALSE, ![n].label = FALSE]
    /\ run' = [run EXCEPT !.step = "clearStatus", !.todo = @ \ {n}, !.now = n]
    /\ UNCHANGED <<cluster, queued, pods, machine, clients, plane, front, left>>

clearStatus ==
    /\ run.step = "clearStatus"
    /\ node' = [node EXCEPT ![run.now].managed = FALSE]
    /\ Goto("delete")
    /\ UNCHANGED <<cluster, queued, pods, machine, clients, plane, front, left>>

delete ==
    /\ run.step = "delete" /\ run.todo = {}
    /\ clients' = FALSE
    /\ cluster' = [cluster EXCEPT !.state = "gone"]
    /\ Goto("idle")
    /\ UNCHANGED <<queued, pods, machine, node, plane, front, left>>

(* Every change of the status comes back as an event.                       *)
SetPhase(p) ==
    /\ cluster' = [cluster EXCEPT !.phase = p]
    /\ run' = [run EXCEPT !.step = "client", !.view.phase = p]
    /\ queued' = (queued \/ p # cluster.phase)

(* The control plane node belongs to the cluster as long as it lives.       *)
patchKubeControlPlanNodes == IF Deleting THEN node ELSE [node EXCEPT !["control"].spec = TRUE]

shouldFetchKubeConfig == View.phase \in {"none", "created"} /\ ~View.data

(* The credentials are read over SSH; a machine without them has none yet.  *)
(* The service in front of the cluster is created once.                     *)
guaranteeService ==
    [f \in DOMAIN front |-> IF f # "forward" /\ front[f] = 0 THEN View.uid ELSE front[f]]

fetchConfigFromSSH == Reachable

fetchProvisionedClusterKubeConfig ==
    /\ shouldFetchKubeConfig /\ fetchConfigFromSSH
    /\ front' = guaranteeService
    /\ cluster' = [cluster EXCEPT !.phase = "ready", !.data = TRUE]
    /\ run' = [run EXCEPT !.view.phase = "ready", !.view.data = TRUE, !.step = IF Deleting THEN "plane" ELSE "client"]
    /\ queued' = TRUE
    /\ UNCHANGED pods

guaranteeControllerPlane == Deleting \/ View.phase \in {"none", "creating", "creationFailed"}

PhaseOf(pod, running, succeeded, failed) ==
    CASE pod.phase = "succeeded" -> succeeded [] pod.phase = "failed" -> failed [] OTHER -> running

updatePodStatus(pod) == SetPhase(PhaseOf(pod, "creating", "created", "creationFailed"))
updateResetPhase(pod) == SetPhase(PhaseOf(pod, "deleting", "deleted", "deleteFailed"))

generateWorkerPod == [uid |-> View.uid, phase |-> "running"]

(* A pod that an earlier cluster of the name left is deleted first.         *)
handleExistingPod ==
    /\ pods["create"].phase # "none"
    /\ IF pods["create"].uid = View.uid
       THEN updatePodStatus(pods["create"]) /\ UNCHANGED pods
       ELSE pods' = [pods EXCEPT !["create"] = NoPod] /\ Goto("client") /\ queued' = TRUE /\ UNCHANGED cluster
    /\ UNCHANGED front

createNewWorkerPod ==
    /\ pods["create"].phase = "none"
    /\ pods' = [pods EXCEPT !["create"] = generateWorkerPod]
    /\ updatePodStatus(generateWorkerPod) /\ UNCHANGED front

(* The installer needs every machine of the control plane.                  *)
generateHosts == machine.up

createControlPlanePod == ~Deleting /\ generateHosts /\ (handleExistingPod \/ createNewWorkerPod)

(* Without its machine, or if it never came up, a cluster is given up.      *)
(* Otherwise a pod resets the machine; the label of the cluster's name      *)
(* finds one that is there already.                                         *)
handleResetPodCreation ==
    LET pod == IF pods["reset"].phase = "none" THEN generateWorkerPod ELSE pods["reset"]
    IN  pods' = [pods EXCEPT !["reset"] = pod] /\ updateResetPhase(pod)

reset ==
    /\ Deleting /\ UNCHANGED front
    /\ \/ /\ ~generateHosts \/ View.phase = "creationFailed"
          /\ SetPhase("deleted") /\ UNCHANGED pods
       \/ generateHosts /\ View.phase # "creationFailed" /\ handleResetPodCreation

(* Pods that succeeded go after an hour.                                    *)
clearPods ==
    /\ ~guaranteeControllerPlane
    /\ \/ UNCHANGED pods
       \/ pods' = [a \in DOMAIN pods |-> IF pods[a].phase = "succeeded" THEN NoPod ELSE pods[a]]
    /\ Goto("client") /\ UNCHANGED <<cluster, queued, front>>

\* A file that cannot be read counts as one that is not there.
NoConfig ==
    \/ ~shouldFetchKubeConfig /\ UNCHANGED left
    \/ shouldFetchKubeConfig /\ machine.up /\ machine.kube # "installed" /\ UNCHANGED left
    \/ shouldFetchKubeConfig /\ Reachable /\ Spend("calls")

guaranteeClusterControlPlane ==
    /\ run.step = "plane"
    /\ node' = patchKubeControlPlanNodes
    /\ \/ fetchProvisionedClusterKubeConfig /\ UNCHANGED left
       \/ NoConfig /\ ((guaranteeControllerPlane /\ (reset \/ createControlPlanePod)) \/ clearPods)
       \/ /\ ~machine.up /\ (shouldFetchKubeConfig \/ (guaranteeControllerPlane /\ ~Deleting))
          /\ Goto("idle") /\ queued' = TRUE
          /\ UNCHANGED <<cluster, pods, front, left>>
    /\ UNCHANGED <<machine, clients, plane>>

(* What a ready cluster gets, in this order.                                *)
After(s) ==
    CASE s = "client" -> "priority" [] s = "priority" -> "secrets" [] s = "secrets" -> "roles"
      [] s = "roles" -> "forward" [] s = "forward" -> "dns" [] OTHER -> "idle"

Guarantee(s, applies, needs) ==
    /\ run.step = s
    /\ applies => needs
    /\ Goto(After(s))
    /\ UNCHANGED <<cluster, queued, pods, machine, node, left>>

Cannot(s, applies, needs) == run.step = s /\ applies /\ ~needs /\ Retry /\ UNCHANGED left

guaranteeClientFactory ==
    \/ /\ Guarantee("client", IsReady /\ ~clients, Reachable)
       /\ clients' = (clients \/ IsReady) /\ UNCHANGED <<plane, front>>
    \/ Cannot("client", IsReady /\ ~clients, Reachable)

Puts(s, things, applies) ==
    \/ /\ Guarantee(s, applies, clients /\ Reachable)
       /\ plane' = IF applies THEN plane \cup things ELSE plane
       /\ UNCHANGED <<clients, front>>
    \/ Cannot(s, applies, clients /\ Reachable)

guaranteePriorityClass == Puts("priority", {"priority"}, IsReady)
guaranteeAllImageSecrets == Puts("secrets", {"secrets"}, IsReady)
guaranteeDataPlaneClusterRole == Puts("roles", Roles, Cicd)
guaranteeNodeLocalDNS == Puts("dns", {"dns"}, IsReady)

(* What forwards to the cluster takes its addresses from the endpoints.     *)
guaranteeForwardEndpoints ==
    \/ /\ Guarantee("forward", Forward, front["endpoints"] # 0)
       /\ front' = [front EXCEPT !["forward"] = IF Forward /\ @ = 0 THEN View.uid ELSE @]
       /\ UNCHANGED <<clients, plane>>
    \/ Cannot("forward", Forward, front["endpoints"] # 0)

-----------------------------------------------------------------------------
(* Installers, the garbage collector, the machine and restarts.             *)
CreateEnds ==
    /\ pods["create"].phase = "running" /\ machine.up
    /\ \/ /\ pods' = [pods EXCEPT !["create"].phase = "succeeded"]
          /\ machine' = [machine EXCEPT !.kube = "installed"] /\ UNCHANGED left
       \/ /\ pods' = [pods EXCEPT !["create"].phase = "failed"]
          /\ machine' = [machine EXCEPT !.kube = "broken"] /\ Spend("installs")
    /\ queued' = TRUE
    /\ UNCHANGED <<cluster, run, node, clients, plane, front>>

ResetEnds ==
    /\ pods["reset"].phase = "running" /\ machine.up
    /\ \/ /\ pods' = [pods EXCEPT !["reset"].phase = "succeeded"]
          /\ machine' = [machine EXCEPT !.kube = "none"] /\ plane' = {} /\ UNCHANGED left
       \/ /\ pods' = [pods EXCEPT !["reset"].phase = "failed"]
          /\ Spend("installs") /\ UNCHANGED <<machine, plane>>
    /\ queued' = TRUE
    /\ UNCHANGED <<cluster, run, node, clients, front>>

Owned(uid) == uid = cluster.uid /\ cluster.state # "gone"

CollectGarbage ==
    /\ \E uid \in InFront \ {0} : ~Owned(uid)
    /\ pods' = [a \in DOMAIN pods |-> IF Owned(pods[a].uid) THEN pods[a] ELSE NoPod]
    /\ front' = [f \in DOMAIN front |-> IF Owned(front[f]) THEN front[f] ELSE 0]
    /\ queued' = TRUE
    /\ UNCHANGED <<cluster, run, machine, node, clients, plane, left>>

MachineFails ==
    /\ machine.up /\ Spend("downs")
    /\ machine' = [machine EXCEPT !.up = FALSE]
    /\ UNCHANGED <<cluster, run, queued, pods, node, clients, plane, front>>

MachineRecovers ==
    /\ ~machine.up
    /\ machine' = [machine EXCEPT !.up = TRUE]
    /\ UNCHANGED <<cluster, run, queued, pods, node, clients, plane, front, left>>

Restart ==
    /\ Spend("restarts")
    /\ run' = [run EXCEPT !.step = "idle"]
    /\ clients' = FALSE /\ queued' = TRUE
    /\ UNCHANGED <<cluster, pods, machine, node, plane, front>>

Fails == \E s \in {"cleanup", "delete", "clearStatus", "plane", "client", "forward"} : Failure(s)

Reconciler ==
    \/ Reconcile \/ cleanupClusterResources \/ (\E n \in Nodes : resetNodesOfCluster(n)) \/ clearStatus \/ delete
    \/ guaranteeClusterControlPlane \/ guaranteeClientFactory \/ guaranteePriorityClass \/ guaranteeAllImageSecrets
    \/ guaranteeDataPlaneClusterRole \/ guaranteeForwardEndpoints \/ guaranteeNodeLocalDNS

Users == createCluster \/ deleteCluster \/ processClusterNode

Next ==
    \/ Users \/ Reconciler \/ Fails
    \/ (\E n \in Nodes : manage(n)) \/ CreateEnds \/ ResetEnds \/ CollectGarbage
    \/ MachineFails \/ MachineRecovers \/ Restart

Spec == Init /\ [][Next]_vars

-----------------------------------------------------------------------------
Quiet == ~queued /\ run.step = "idle"

(* A cluster that is ready and at rest can be used: there are clients, the  *)
(* objects are in it, and its own endpoints and forwarding are in front.    *)
ReadyIsUsable ==
    Quiet /\ cluster.state = "live" /\ cluster.phase = "ready" =>
        /\ clients
        /\ {"priority", "secrets", "dns"} \subseteq plane
        /\ front["endpoints"] = cluster.uid /\ front["service"] = cluster.uid
        /\ Cicd => Roles \subseteq plane
        /\ Forward => front["forward"] = cluster.uid

(* The nodes that the cluster had taken in are not bound to it once it is   *)
(* gone, and show no status unless a call failed or the manager restarted:  *)
(* a node whose label is gone is not found again to clear its status.       *)
Undisturbed == left.calls = Budget.calls /\ left.restarts = Budget.restarts

GoneIsFree ==
    cluster.state = "gone" /\ Patient =>
        \A n \in Nodes : /\ ~node[n].spec /\ ~node[n].label
                         /\ Undisturbed => ~node[n].managed

(* A machine that is up is reset before its cluster goes.                   *)
GoesInstalled == cluster.state # "gone" /\ cluster'.state = "gone" /\ cluster.data /\ machine.kube = "installed"

(* A cluster that is being set up, and one that is being deleted and whose  *)
(* machine can be reset.                                                    *)
Installing == cluster.state = "live" /\ cluster.phase \in {"none", "creating", "created"}
Leaving == cluster.state = "deleting" /\ cluster.phase # "deleteFailed"

=============================================================================

---------------------------- MODULE NodeRequests ----------------------------
(* The requests for nodes and their flavors: creation, patches, batches and lists, what the *)
(* webhooks make of a node, and the way of its labels and annotations to the Kubernetes     *)
(* node, which is told by notes of what to add and to remove.                               *)
EXTENDS Integers, Sequences, FiniteSets, SequencesExt

CONSTANTS Creations, Patches,   \* requests
          Specs,                \* what a flavor may be
          MaxRequests, MaxEdits,
          MaxTries,             \* of a patch that conflicts
          Overlap,              \* requests, reconciliations and edits of flavors may overlap
          Populations, Queries, \* lists: the nodes there may be, and what is asked for
          PageSize

VARIABLES node,      \* the node, in the management cluster
          k8s,       \* the node in its own cluster
          flavors,
          faults,    \* the monitors with a fault of the node
          patch,     \* the patch that is on its way
          rec,       \* the node as the reconciler has read it
          left,      \* requests and edits to come
          reply,     \* of the last patch
          list       \* the pages that were fetched

vars == <<node, k8s, flavors, faults, patch, rec, left, reply, list>>

NoNode == [exists |-> FALSE]
NoFlavor == [exists |-> FALSE]
Nothing == [at |-> "idle"]
System == {"flavor", "gpu"}                 \* labels with the prefix of the system
With(f, k, v) == [x \in DOMAIN f \union {k} |-> IF x = k THEN v ELSE f[x]]
Without(f, k) == [x \in DOMAIN f \ {k} |-> f[x]]
At(f, k) == IF k \in DOMAIN f THEN f[k] ELSE ""

----------------------------------------------------------------------------
(* Flavors. *)

generateNodeFlavor(s) ==
    IF s.rootDisk > 0 /\ s.store = 0 THEN [s EXCEPT !.store = s.rootDisk * s.rootCount] ELSE s
MutateFlavor(s) == IF s.gpu = 0 THEN [s EXCEPT !.gpuName = ""] ELSE s
ValidFlavor(s) ==
    /\ s.cpu > 0 /\ s.mem > 0 /\ s.store >= 0
    /\ s.gpuName # "" => s.gpuName = "amd.com/gpu" /\ s.gpu > 0
    /\ s.rootDisk # 0 => s.rootDisk > 0 /\ s.rootCount > 0
Keep == UNCHANGED <<node, k8s, faults, patch, rec, reply, list>>
createNodeFlavor(f) ==
    /\ ~flavors[f].exists /\ left.edits > 0
    /\ \E s \in Specs :
          LET new == MutateFlavor(generateNodeFlavor(s))
          IN /\ ValidFlavor(new)
             /\ flavors' = [flavors EXCEPT ![f] = [exists |-> TRUE, spec |-> new]]
    /\ left' = [left EXCEPT !.edits = @ - 1] /\ Keep
\* A patch changes the fields that differ and defaults nothing; nodes see it at their next
\* update.
patchNodeFlavor(f) ==
    /\ flavors[f].exists /\ left.edits > 0 /\ (Overlap \/ patch = Nothing)
    /\ \E s \in Specs : /\ ValidFlavor(s) /\ s # flavors[f].spec
                        /\ flavors' = [flavors EXCEPT ![f].spec = s]
    /\ left' = [left EXCEPT !.edits = @ - 1] /\ Keep
\* Whether a node has the flavor is not asked.
deleteNodeFlavor(f) ==
    /\ flavors[f].exists /\ left.edits > 0 /\ Overlap
    /\ flavors' = [flavors EXCEPT ![f] = NoFlavor]
    /\ left' = [left EXCEPT !.edits = @ - 1] /\ Keep

----------------------------------------------------------------------------
(* The webhooks of a node. *)

MaxRecommendedStorage == 2
mutateLabels(n) == IF n.flavor = "" THEN n ELSE [n EXCEPT !.labels = With(@, "flavor", n.flavor)]
mutateByNodeFlavor(n) ==
    LET f == At(n.labels, "flavor")
        spec == flavors[f].spec
        gpus == IF spec.gpuName # "" THEN With(n.labels, "gpu", ToString(spec.gpu)) ELSE Without(n.labels, "gpu")
        disk == IF spec.store = 0 THEN n.disk
                ELSE IF spec.store > MaxRecommendedStorage THEN MaxRecommendedStorage ELSE spec.store
    IN IF f = "" \/ ~flavors[f].exists THEN n ELSE [n EXCEPT !.labels = gpus, !.disk = disk]
mutateTaints(n) == IF n.cluster = "" THEN [n EXCEPT !.taints = <<>>] ELSE n
mutateCommon(n) == mutateTaints(mutateByNodeFlavor(mutateLabels(n)))

\* A node without a name has that of its address.
mutateOnCreation(n) ==
    mutateCommon([n EXCEPT !.host = IF @ = "" THEN n.ip ELSE @, !.port = IF @ = 0 THEN 22 ELSE @])
\* A count of GPUs or a disk that changed is to be carried over: the notes that were there
\* are replaced.
mutateOnUpdate(n, old) ==
    LET m == mutateCommon(n)
    IN [m EXCEPT !.toLabel = IF At(m.labels, "gpu") # At(old.labels, "gpu") THEN [gpu |-> "add"] ELSE @,
                 !.toNote = IF m.disk # old.disk THEN {"disk"} ELSE @]

validateNodeTaints(n) == \A i, j \in DOMAIN n.taints : n.taints[i] = n.taints[j] => i = j
validateNodeSpec(n) ==
    /\ n.flavor # "" /\ flavors[n.flavor].exists
    /\ n.secret /\ n.ip # "" /\ n.port > 0 /\ validateNodeTaints(n)
validateImmutableFields(n, old) ==
    /\ n.host = old.host /\ (old.cluster # "" /\ n.cluster # "") => n.cluster = old.cluster
    /\ n.ip # old.ip => ~old.plane

\* A write to the node, by the version that was read or, as a merge, by any.
Admitted(n) == validateNodeSpec(mutateOnUpdate(n, node)) /\ validateImmutableFields(n, node)
Stored(n) == [mutateOnUpdate(n, node) EXCEPT !.ver = node.ver + 1]

----------------------------------------------------------------------------
(* Creation and patches. *)

getAdminNodeFlavor(f) == f # "" /\ flavors[f].exists
createNode ==
    /\ ~node.exists /\ \E r \in Creations :
          LET n == mutateOnCreation(r)
          IN /\ getAdminNodeFlavor(r.flavor) /\ r.ip # "" /\ validateNodeSpec(n) /\ node' = n
    /\ UNCHANGED <<k8s, flavors, faults, patch, rec, left, reply, list>>

getNodeCustomerLabels(labels) == [k \in DOMAIN labels \ System |-> labels[k]]
generateNodeLabelAction(n, r) ==
    LET old == getNodeCustomerLabels(n.labels)
        gone == DOMAIN old \ DOMAIN r.labels
        new == {k \in DOMAIN r.labels : k \notin DOMAIN old \/ old[k] # r.labels[k]}
    IN IF "labels" \notin DOMAIN r THEN <<>>
       ELSE [k \in gone \union new |-> IF k \in gone THEN "remove" ELSE "add"]
Relabelled(n, r) ==
    IF "labels" \notin DOMAIN r THEN n.labels
    ELSE [k \in (DOMAIN n.labels \cap System) \union DOMAIN r.labels |->
             IF k \in DOMAIN r.labels THEN r.labels[k] ELSE n.labels[k]]
\* A key gets the prefix once more at every call.
GenerateTaintKey(t) == [t EXCEPT !.prefix = @ + 1]
TaintsOf(r) == [i \in DOMAIN r.taints |-> GenerateTaintKey(r.taints[i])]
\* The faults whose taints are not asked for any more.
deleteRelatedFaults(n, taints) ==
    IF n.cluster = "" THEN {}
    ELSE {n.taints[i].id : i \in {j \in DOMAIN n.taints : n.taints[j] \notin Range(taints)}}
KeySet(s) == {<<s[i].prefix, s[i].id>> : i \in DOMAIN s}

\* The patch is applied to the copy of the node; a second try finds its own changes there.
applyNodePatch ==
    LET n == patch.node
        r == patch.req
        action == generateNodeLabelAction(n, r)
        taints == IF "taints" \in DOMAIN r THEN TaintsOf(r) ELSE n.taints
        tainted == KeySet(taints) # KeySet(n.taints)
        reflavored == "flavor" \in DOMAIN r /\ r.flavor # n.flavor
        moved == "ip" \in DOMAIN r /\ r.ip # n.ip
        ported == "port" \in DOMAIN r /\ r.port > 0 /\ r.port # n.port
        actions == IF reflavored THEN With(action, "flavor", "add") ELSE action
        new == [n EXCEPT !.labels = Relabelled(n, r), !.taints = IF tainted THEN taints ELSE @,
                         !.flavor = IF reflavored THEN r.flavor ELSE @,
                         !.ip = IF moved THEN r.ip ELSE @, !.port = IF ported THEN r.port ELSE @,
                         !.toLabel = IF actions # <<>> THEN actions ELSE @]
    IN /\ patch.at = "apply"
       /\ faults' = IF "taints" \in DOMAIN r THEN faults \ deleteRelatedFaults(n, taints) ELSE faults
       /\ IF reflavored /\ ~getAdminNodeFlavor(r.flavor)
          THEN patch' = Nothing /\ reply' = [ok |-> FALSE]
          ELSE IF action = <<>> /\ ~tainted /\ ~reflavored /\ ~moved /\ ~ported
          THEN patch' = Nothing /\ reply' = [ok |-> TRUE, req |-> patch.asked]
          ELSE /\ patch' = [patch EXCEPT !.at = "update", !.node = new,
                                         !.req = IF "taints" \in DOMAIN r THEN [r EXCEPT !.taints = taints] ELSE r]
               /\ UNCHANGED reply
       /\ UNCHANGED <<node, k8s, flavors, rec, left, list>>

observeLabelAction == node.toLabel = <<>>
observeAnnotationAction == node.toNote = {}
observe == observeLabelAction /\ observeAnnotationAction /\ k8s.exists
getAdminNode == node.exists
patchNode(r) ==
    /\ getAdminNode /\ patch = Nothing /\ left.requests > 0 /\ (Overlap \/ (rec = Nothing /\ observe))
    /\ patch' = [at |-> "apply", node |-> node, req |-> r, asked |-> r, try |-> 1]
    /\ left' = [left EXCEPT !.requests = @ - 1] /\ reply' = [ok |-> FALSE]
    /\ UNCHANGED <<node, k8s, flavors, faults, rec, list>>
\* After a conflict the node that is read again is dropped.
Reread == patch.node
updateNode ==
    /\ patch.at = "update"
    /\ IF patch.node.ver # node.ver
       THEN /\ IF patch.try < MaxTries
               THEN patch' = [patch EXCEPT !.at = "apply", !.node = Reread, !.try = @ + 1] /\ UNCHANGED reply
               ELSE patch' = Nothing /\ reply' = [ok |-> FALSE]
            /\ UNCHANGED node
       ELSE /\ patch' = Nothing
            /\ IF Admitted(patch.node) THEN node' = Stored(patch.node) /\ reply' = [ok |-> TRUE, req |-> patch.asked]
               ELSE UNCHANGED node /\ reply' = [ok |-> FALSE]
    /\ UNCHANGED <<k8s, flavors, faults, rec, left, list>>

----------------------------------------------------------------------------
(* The reconciler carries labels and annotations over. *)

ReadNode ==
    /\ node.exists /\ rec = Nothing /\ ~observe /\ (Overlap \/ patch = Nothing)
    /\ rec' = [at |-> IF k8s.exists THEN "update" ELSE "sync", node |-> node]
    /\ UNCHANGED <<node, k8s, flavors, faults, patch, left, reply, list>>
\* When the node joins all of its labels are written, and none removed.
syncLabelsToK8sNode ==
    /\ rec.at = "sync"
    /\ k8s' = [exists |-> TRUE, labels |-> rec.node.labels, disk |-> rec.node.disk]
    /\ rec' = Nothing
    /\ UNCHANGED <<node, flavors, faults, patch, left, reply, list>>
updateK8sNodeByAction(labels, action, from) ==
    LET gone == {k \in DOMAIN action : action[k] = "remove"}
    IN [k \in (DOMAIN labels \union DOMAIN action) \ gone |->
           IF k \in DOMAIN action THEN At(from, k) ELSE labels[k]]
updateK8sNode ==
    /\ rec.at = "update"
    /\ k8s' = [k8s EXCEPT !.labels = updateK8sNodeByAction(@, rec.node.toLabel, rec.node.labels),
                          !.disk = IF "disk" \in rec.node.toNote THEN rec.node.disk ELSE @]
    /\ rec' = [rec EXCEPT !.at = "clear"]
    /\ UNCHANGED <<node, flavors, faults, patch, left, reply, list>>
\* The notes that are there are removed, also newer ones; the webhook may write another.
ClearActions ==
    /\ rec.at = "clear" /\ rec' = Nothing
    /\ LET n == [node EXCEPT !.toLabel = IF rec.node.toLabel # <<>> THEN <<>> ELSE @,
                             !.toNote = IF rec.node.toNote # {} THEN {} ELSE @]
       IN IF Admitted(n) THEN node' = Stored(n) ELSE UNCHANGED node
    /\ UNCHANGED <<k8s, flavors, faults, patch, left, reply, list>>

----------------------------------------------------------------------------
(* Lists of nodes. *)

buildNodeLabelSelector(n, q) == q.workspace \in {"any", n.workspace} /\ q.flavor \in {"any", n.flavor}
CheckAvailable(n) == n.ready /\ ~n.tainted
nodeContributesAvailable(n) == CheckAvailable(n) /\ n.spaceFlavor \in {"", n.flavor}
\* What is free on a node that counts: a tenth is kept back.
NonNegative(x) == IF x < 0 THEN 0 ELSE x
Kept(x) == (x + 9) \div 10
cvtToNodeResponseItem(n) ==
    IF nodeContributesAvailable(n) THEN NonNegative(n.total - Kept(n.total) - n.used) ELSE 0
sortNodes(S, q) ==
    LET Before(m, n) ==
            IF q.sortBy = "name" THEN (IF q.desc THEN m.id > n.id ELSE m.id < n.id)
            ELSE LET a == cvtToNodeResponseItem(m)
                     b == cvtToNodeResponseItem(n)
                 IN IF a = b THEN m.id < n.id ELSE IF q.desc THEN a > b ELSE a < b
    IN SetToSortSeq(S, Before)
listNodeByQuery(nodes, q) ==
    sortNodes({n \in nodes : /\ buildNodeLabelSelector(n, q) /\ q.user \in n.readers
                             /\ q.available \in {"any", IF CheckAvailable(n) THEN "yes" ELSE "no"}}, q)
Page(s, from) == IF from > Len(s) THEN <<>> ELSE SubSeq(s, from + 1, IF from + PageSize > Len(s) THEN Len(s) ELSE from + PageSize)
\* A user asks for page after page until one is empty.
listNode ==
    LET all == listNodeByQuery(list.nodes, list.query)
        page == Page(all, Len(list.seen))
    IN /\ ~list.done
       /\ list' = [list EXCEPT !.seen = @ \o page, !.done = page = <<>>]
       /\ UNCHANGED <<node, k8s, flavors, faults, patch, rec, left, reply>>

----------------------------------------------------------------------------
Init ==
    /\ node = NoNode /\ k8s = [exists |-> FALSE]
    /\ flavors = [f \in {"f", "g"} |-> NoFlavor]
    /\ faults = {"a", "b"} /\ patch = Nothing /\ rec = Nothing
    /\ left = [requests |-> MaxRequests, edits |-> MaxEdits]
    /\ reply = [ok |-> FALSE]
    /\ \E p \in Populations, q \in Queries : list = [nodes |-> p, query |-> q, seen |-> <<>>, done |-> p = {}]

Next ==
    \/ \E f \in {"f", "g"} : createNodeFlavor(f) \/ patchNodeFlavor(f) \/ deleteNodeFlavor(f)
    \/ createNode \/ \E r \in Patches : patchNode(r)
    \/ applyNodePatch \/ updateNode
    \/ ReadNode \/ syncLabelsToK8sNode \/ updateK8sNode \/ ClearActions
    \/ listNode
Spec == Init /\ [][Next]_vars

----------------------------------------------------------------------------
TypeOK ==
    /\ patch.at \in {"idle", "apply", "update"} /\ rec.at \in {"idle", "sync", "update", "clear"}
    /\ faults \subseteq {"a", "b"} /\ left.requests \in 0..MaxRequests /\ left.edits \in 0..MaxEdits

AtRest == node.exists /\ k8s.exists /\ patch = Nothing /\ rec = Nothing /\ observe
\* The labels of the Kubernetes node are those of the node.
LabelsFollow ==
    AtRest => /\ \A k \in DOMAIN node.labels \union DOMAIN k8s.labels : At(k8s.labels, k) = At(node.labels, k)
              /\ DOMAIN getNodeCustomerLabels(k8s.labels) = DOMAIN getNodeCustomerLabels(node.labels)
              /\ k8s.disk = node.disk
\* A patch that is reported done is done.
PatchIsReal ==
    (reply.ok /\ patch = Nothing) =>
        /\ "labels" \in DOMAIN reply.req => getNodeCustomerLabels(node.labels) = reply.req.labels
        /\ "taints" \in DOMAIN reply.req => KeySet(node.taints) = KeySet(TaintsOf(reply.req))
        /\ "flavor" \in DOMAIN reply.req => node.flavor = reply.req.flavor
\* A key has the prefix once, however often a patch is tried.
KeysProper == node.exists => \A i \in DOMAIN node.taints : node.taints[i].prefix = 1
\* The pages hold the nodes that match, each once and in order.
PagesCover ==
    list.done =>
        /\ \A n \in list.nodes : (/\ list.query.workspace \in {"any", n.workspace} /\ list.query.flavor \in {"any", n.flavor}
                                  /\ list.query.user \in n.readers
                                  /\ list.query.available \in {"any", IF n.ready /\ ~n.tainted THEN "yes" ELSE "no"})
               <=> \E i \in DOMAIN list.seen : list.seen[i] = n
        /\ \A i, j \in DOMAIN list.seen : list.seen[i] = list.seen[j] => i = j
=============================================================================

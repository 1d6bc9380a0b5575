--------------------------- MODULE PreflightNodes ---------------------------
(***************************************************************************)
(* Which nodes a preflight job is given: the API server turns the scope of *)
(* the request into node inputs, the mutating webhook drops some of them   *)
(* and labels the job, the validating webhook accepts or refuses it.       *)
(***************************************************************************)
EXTENDS Integers, Sequences, FiniteSets, SequencesExt

CONSTANTS
    N,              \* nodes 1..N, listed in this order
    Workspace, Flavor,
    NodeState,      \* states of nodes: ready, tainted, down
    Scope,          \* scopes of requests: a kind and the nodes named, in order
    Excluded,       \* sets of nodes that requests exclude
    MaxReplica

Node == 1..N

VARIABLES
    node,       \* the nodes: workspace, flavor, state and whether a workload uses them
    request,
    job         \* the job: whether accepted, its nodes, its workspace

vars == <<node, request, job>>

NoWorkspace == "none"
Removed == 0    \* an input whose value was emptied
NoRequest == [scope |-> [kind |-> "none", nodes |-> <<>>], excluded |-> {}, security |-> FALSE,
              tolerate |-> FALSE, replica |-> 0, workspace |-> NoWorkspace]
NoJob == [state |-> "none", nodes |-> <<>>, workspace |-> NoWorkspace]

Listed(S) == SelectSeq([i \in Node |-> i], LAMBDA n : n \in S)

-----------------------------------------------------------------------------
(* API server.                                                              *)

GetNodesOfWorkspaces(w) == Listed({n \in Node : node[n].workspace = w})
GetNodesOfCluster == [i \in Node |-> i]

\* getNodesOfWorkload: the nodes of the last dispatch.
getNodesOfWorkload(s) == s.nodes

\* The workspace that all of the nodes have, if there is one.
CommonWorkspace(ns, otherwise) ==
    LET ws == {node[n].workspace : n \in ns} \ {NoWorkspace}
    IN IF Cardinality(ws) = 1 /\ \A n \in ns : node[n].workspace \in ws THEN CHOOSE w \in ws : TRUE ELSE otherwise

\* generateOpsJobNodesInput: the inputs, the label of the workspace, and whether nodes
\* are named.  Of named nodes the excluded ones are emptied, of others left out.
generateOpsJobNodesInput(r) ==
    LET s == r.scope
        kept(ns) == SelectSeq(ns, LAMBDA n : n \notin r.excluded)
        emptied(ns) == [i \in DOMAIN ns |-> IF ns[i] \in r.excluded THEN Removed ELSE ns[i]]
    IN CASE s.kind = "node" -> [inputs |-> emptied(s.nodes), specified |-> TRUE,
                                workspace |-> CommonWorkspace(ToSet(kept(s.nodes)), r.workspace)]
         [] s.kind = "host" -> [inputs |-> kept(s.nodes), specified |-> TRUE,
                                workspace |-> CommonWorkspace(ToSet(kept(s.nodes)), r.workspace)]
         [] s.kind = "workload" -> [inputs |-> kept(getNodesOfWorkload(s)), specified |-> TRUE, workspace |-> s.of]
         [] s.kind = "workspace" -> [inputs |-> kept(GetNodesOfWorkspaces(s.of)), specified |-> FALSE, workspace |-> s.of]
         [] OTHER -> [inputs |-> kept(GetNodesOfCluster), specified |-> FALSE, workspace |-> r.workspace]

\* A cluster-wide job has no workspace.
Refused(r) == r.scope.kind = "cluster" /\ r.workspace # NoWorkspace

\* Mutant of excludeBusyNodes: only named nodes are looked at.
excludeBusyFirst(inputs, workspace) ==
    [i \in DOMAIN inputs |-> IF i = 1 /\ inputs[i] # Removed /\ node[inputs[i]].busy THEN Removed ELSE inputs[i]]

\* excludeBusyNodes: workloads of the job's workspace are looked at, or all of them.
excludeBusyNodes(inputs, workspace) ==
    LET using == {n \in Node : node[n].busy /\ workspace \in {NoWorkspace, node[n].workspace}}
    IN [i \in DOMAIN inputs |-> IF inputs[i] \in using THEN Removed ELSE inputs[i]]

\* Mutant of cutToReplica: one more is kept.
cutToReplicaPlus(inputs, replica) ==
    [i \in DOMAIN inputs |-> IF replica > 0 /\ i > replica + 1 THEN Removed ELSE inputs[i]]

\* The inputs after the first replica ones are emptied.
cutToReplica(inputs, replica) ==
    [i \in DOMAIN inputs |-> IF replica > 0 /\ i > replica THEN Removed ELSE inputs[i]]

\* Mutant of generatePreflightNodesInput: the replica counts for named nodes as well.
generateCut(r) ==
    LET g == generateOpsJobNodesInput(r)
        idle == IF r.security THEN excludeBusyNodes(g.inputs, g.workspace) ELSE g.inputs
    IN [g EXCEPT !.inputs = cutToReplica(idle, r.replica)]

\* generatePreflightNodesInput: the replica is for jobs without named nodes.
generatePreflightNodesInput(r) ==
    LET g == generateOpsJobNodesInput(r)
        idle == IF r.security THEN excludeBusyNodes(g.inputs, g.workspace) ELSE g.inputs
    IN [g EXCEPT !.inputs = cutToReplica(idle, IF g.specified THEN 0 ELSE r.replica)]

-----------------------------------------------------------------------------
(* Webhooks.                                                                *)

\* removeDuplicates: an emptied input, and one equal to the one before, are dropped.
removeDuplicates(inputs) ==
    LET given == SelectSeq(inputs, LAMBDA n : n # Removed)
        keep == {i \in DOMAIN given : i > 1 => given[i] # given[i - 1]}
    IN [i \in 1..Cardinality(keep) |-> given[SetToSortSeq(keep, <)[i]]]

\* Mutant of filterUnhealthyNodes: a job that tolerates everything gets every node.
filterTainted(inputs, tolerate) ==
    SelectSeq(inputs, LAMBDA n : tolerate \/ node[n].state = "ready")

\* filterUnhealthyNodes.
filterUnhealthyNodes(inputs, tolerate) ==
    SelectSeq(inputs, LAMBDA n : node[n].state = "ready" \/ (tolerate /\ node[n].state = "tainted"))

\* Mutant of validateNodes: the workspace is not looked at.
validateFlavors(inputs, workspace) == \A i, k \in DOMAIN inputs : node[inputs[i]].flavor = node[inputs[k]].flavor

\* validateNodes: the workspace of the job, one flavor (and one cluster).
validateNodes(inputs, workspace) ==
    \A i \in DOMAIN inputs :
        /\ workspace \in {NoWorkspace, node[inputs[i]].workspace}
        /\ \A k \in DOMAIN inputs : node[inputs[i]].flavor = node[inputs[k]].flavor

\* Mutant of validateRequiredParams: a job without nodes will do.
validateNothing(inputs) == TRUE

\* validateRequiredParams: some node is left.
validateRequiredParams(inputs) == inputs # <<>>

createOpsJob(r) ==
    LET g == generatePreflightNodesInput(r)
        inputs == filterUnhealthyNodes(removeDuplicates(g.inputs), r.tolerate)
    IN IF Refused(r) \/ ~validateRequiredParams(inputs) \/ ~validateNodes(inputs, g.workspace)
       THEN [NoJob EXCEPT !.state = "refused"]
       ELSE [state |-> "accepted", nodes |-> inputs, workspace |-> g.workspace]

-----------------------------------------------------------------------------

Request ==
    [scope : Scope, excluded : Excluded, security : BOOLEAN, tolerate : BOOLEAN,
     replica : -1..MaxReplica, workspace : Workspace \cup {NoWorkspace}]

Init ==
    /\ \E ws \in [Node -> Workspace], fl \in [Node -> Flavor], st \in [Node -> NodeState],
          busy \in SUBSET Node :
          node = [n \in Node |-> [workspace |-> ws[n], flavor |-> fl[n], state |-> st[n], busy |-> n \in busy]]
    /\ request = NoRequest /\ job = NoJob

Submit(r) ==
    /\ job.state = "none"
    /\ request' = r
    /\ job' = createOpsJob(r)
    /\ UNCHANGED node

Next == \E r \in Request : Submit(r)

Spec == Init /\ [][Next]_vars

-----------------------------------------------------------------------------
(* Properties.                                                              *)

\* The nodes that the request may mean.
InScope(n) ==
    CASE request.scope.kind = "workspace" -> node[n].workspace = request.scope.of
      [] request.scope.kind = "cluster" -> TRUE
      [] OTHER -> n \in ToSet(request.scope.nodes)

\* The nodes that a job may have: in the scope, not excluded, not busy if that matters,
\* and fit to be used.
Suitable ==
    {n \in Node : /\ InScope(n) /\ n \notin request.excluded
                  /\ request.security => ~node[n].busy
                  /\ node[n].state = "ready" \/ (request.tolerate /\ node[n].state = "tainted")}

\* Types of the variables.
TypeOK ==
    /\ job.state \in {"none", "accepted", "refused"}
    /\ job.nodes \in Seq(Node) /\ (job.state = "accepted") = (job.nodes # <<>>)

\* A job has suitable nodes only, though they are chosen in three places.
NodesAreSuitable == ToSet(job.nodes) \subseteq Suitable

\* They are of one flavor and, if the job is of a workspace, of that workspace.
NodesBelongTogether ==
    \A i, k \in DOMAIN job.nodes :
        /\ node[job.nodes[i]].flavor = node[job.nodes[k]].flavor
        /\ job.workspace # NoWorkspace => node[job.nodes[i]].workspace = job.workspace

\* A job on a workspace or a cluster has no more nodes than asked for.
AtMostReplica ==
    request.scope.kind \in {"workspace", "cluster"} /\ request.replica > 0 => Len(job.nodes) <= request.replica

\* Named nodes that are suitable are all in the job.
NamedNodesAreIn ==
    request.scope.kind \in {"node", "host", "workload"} /\ job.state = "accepted" => Suitable \subseteq ToSet(job.nodes)
=============================================================================

---------------------------- MODULE WorkspaceNodes ----------------------------
(***************************************************************************)
(* How nodes are bound to workspaces and released again.  A workspace asks *)
(* for a number of nodes (its replica) or for named ones (its nodes-action *)
(* annotation); the workspace controller writes the workspace into the     *)
(* nodes' specs and remembers in memory which nodes it waits for (its      *)
(* expectations); the node controller carries the spec over to the label   *)
(* of the Kubernetes node, and from there it comes back as the label of    *)
(* the admin node, which ends the wait.  Nodes are read from a cache.      *)
(***************************************************************************)
EXTENDS Integers, Sequences, FiniteSets, SequencesExt

CONSTANTS
    Node, Workspace,
    MaxReplica,        \* bound: the replica a user asks for
    MaxUser,           \* bound: requests of users on workspaces
    MaxNodeDeletes,    \* bound: deletions of nodes
    MaxErrors,         \* bound: API errors
    MaxWork,           \* bound: workloads that start on a node
    MaxRestarts        \* bound: restarts of the resource manager

VARIABLES
    seen, pending,     \* the cached admin nodes, and the stream of newer versions
    klabel,            \* the workspace label of each Kubernetes node
    busy,              \* the nodes some workload runs on
    ws,                \* the workspaces
    planned,           \* what each has in the data plane
    expectations,      \* the nodes each workspace waits for, in memory
    queue, later,      \* workspaces to reconcile, now and after nodeWait
    left               \* what remains of the bounds

vars == <<seen, pending, klabel, busy, ws, planned, expectations, queue, later, left>>
nodeVars == <<seen, pending, klabel, busy>>

None == "none"
Actions == {"add", "remove"}

\* A workspace: its replica, the current replica of its status, and its
\* annotations for an action on nodes and for forcing it.
WorkspaceRecord ==
    [state : {"new", "live", "deleting", "gone"}, replica : 0 .. MaxReplica + Cardinality(Node),
     current : 0 .. Cardinality(Node), action : Actions, nodes : SUBSET Node, forced : BOOLEAN]
NodeRecord ==
    [spec : Workspace \cup {None}, label : Workspace \cup {None}, state : {"live", "deleting", "gone"}]

\* What the data plane holds for a workspace, in the order it is created in, and
\* in the order it is taken apart.
Creation == <<"namespace", "pv", "pvc", "serviceaccount">>
Removal == <<"pv", "pvc", "serviceaccount", "namespace">>

\* The versions of a node that a process with a cache of its own may read, and
\* the node as stored.
Newer(n) == SelectSeq(pending, LAMBDA e : e.node = n)
Views(n) == {seen[n]} \cup {Newer(n)[i].version : i \in DOMAIN Newer(n)}
Stored(n) == IF Newer(n) = <<>> THEN seen[n] ELSE Newer(n)[Len(Newer(n))].version
Event(n, version) == [node |-> n, version |-> version]
Spend(what) == left[what] > 0 /\ left' = [left EXCEPT ![what] = @ - 1]

-----------------------------------------------------------------------------
(* Nodes.                                                                   *)

observe(exp, w, n) == IF w = None THEN exp ELSE [exp EXCEPT ![w] = @ \ {n}]

\* Mutant of handleNodeEvent: only the workspace the node has now is told.
handleNodeEventNew(n) ==
    LET old == seen[n]
        new == Head(pending).version
        told == IF new.state = "gone" \/ old.label # new.label THEN {new.label} ELSE {}
    IN  /\ expectations' = [w \in Workspace |->
              IF w \in told THEN expectations[w] \ {n} ELSE expectations[w]]
        /\ queue' = queue \cup (told \ {None})

\* handleNodeEvent: the workspaces of the label before and after are told, and
\* the label's workspace when the node goes.
handleNodeEvent(n) ==
    LET old == seen[n]
        new == Head(pending).version
    IN  IF new.state = "gone"
        THEN /\ expectations' = observe(expectations, new.label, n)
             /\ queue' = queue \cup ({new.label} \ {None})
        ELSE IF old.label # new.label
        THEN /\ expectations' = observe(observe(expectations, old.label, n), new.label, n)
             /\ queue' = queue \cup ({old.label, new.label} \ {None})
        ELSE /\ UNCHANGED expectations
             /\ queue' = IF old.state # new.state THEN queue \cup ({new.label} \ {None}) ELSE queue

\* The next version of a node reaches the cache, and with it the handler.
NodeEvent(n) ==
    /\ pending # <<>> /\ Head(pending).node = n
    /\ handleNodeEvent(n)
    /\ seen' = [seen EXCEPT ![n] = Head(pending).version]
    /\ pending' = Tail(pending)
    /\ UNCHANGED <<klabel, busy, ws, planned, later, left>>

\* NodeReconciler: observeWorkspace compares spec and label, and
\* updateK8sNodeWorkspace sets the label of the Kubernetes node.
NodeReconcile(n) ==
    /\ seen[n].state = "live"
    /\ seen[n].spec # seen[n].label
    /\ klabel[n] # seen[n].spec
    /\ klabel' = [klabel EXCEPT ![n] = seen[n].spec]
    /\ UNCHANGED <<seen, pending, busy, ws, planned, expectations, queue, later, left>>

\* NodeK8sReconciler: the label comes back; an outdated node would conflict.
SyncLabel(n) ==
    /\ Newer(n) = <<>> /\ seen[n].state = "live"
    /\ seen[n].label # klabel[n]
    /\ pending' = Append(pending, Event(n, [seen[n] EXCEPT !.label = klabel[n]]))
    /\ UNCHANGED <<seen, klabel, busy, ws, planned, expectations, queue, later, left>>

\* NodeReconciler.delete: the finalizer of a deleted node is removed.
NodeGoes(n) ==
    /\ seen[n].state = "deleting" /\ Stored(n).state = "deleting"
    /\ pending' = Append(pending, Event(n, [Stored(n) EXCEPT !.state = "gone"]))
    /\ UNCHANGED <<seen, klabel, busy, ws, planned, expectations, queue, later, left>>

\* A workload starts on a node of its workspace, and ends.
WorkStarts(n) ==
    /\ Stored(n).state = "live" /\ klabel[n] # None /\ n \notin busy
    /\ Spend("work")
    /\ busy' = busy \cup {n}
    /\ UNCHANGED <<seen, pending, klabel, ws, planned, expectations, queue, later>>

WorkEnds(n) ==
    /\ n \in busy
    /\ busy' = busy \ {n}
    /\ UNCHANGED <<seen, pending, klabel, ws, planned, expectations, queue, later, left>>

-----------------------------------------------------------------------------
(* Requests on workspaces, and the webhooks they pass.                      *)

\* A name is used once: a workspace that takes the name of one just deleted would
\* meet labels that still are on their way.
createWorkspace(w) ==
    /\ ws[w].state = "new" /\ Spend("user")
    /\ \E r \in 0 .. MaxReplica :
         ws' = [ws EXCEPT ![w] = [state |-> "live", replica |-> r, current |-> 0,
                                  action |-> "add", nodes |-> {}, forced |-> FALSE]]
    /\ queue' = queue \cup {w}
    /\ UNCHANGED <<seen, pending, klabel, busy, planned, expectations, later>>

deleteWorkspace(w) ==
    /\ ws[w].state = "live" /\ Spend("user")
    /\ ws' = [ws EXCEPT ![w].state = "deleting"]
    /\ queue' = queue \cup {w}
    /\ UNCHANGED <<seen, pending, klabel, busy, planned, expectations, later>>

\* validateNodesAction, on the nodes as the webhook reads them: an added node is
\* free; a removed one is the workspace's own and not in use, unless forced.
validateNodesAction(w, action, nodes, forced, view) ==
    /\ \A n \in nodes : view[n].state # "gone"
    /\ action = "add" => \A n \in nodes : view[n].spec = None
    /\ action = "remove" =>
         /\ \A n \in nodes : view[n].spec = w
         /\ forced \/ nodes \cap busy = {}

\* Mutant of mutateNodesAction: the replica is not kept from falling below zero.
mutateNodesActionBelow(w, action, wanted, forced, view) ==
    LET nodes == {n \in wanted : view[n].spec # IF action = "add" THEN w ELSE None}
        replica == ws[w].replica + IF action = "add" THEN Cardinality(nodes) ELSE -Cardinality(nodes)
    IN  /\ nodes # {} /\ ws[w].nodes = {}
        /\ validateNodesAction(w, action, nodes, forced, view)
        /\ ws' = [ws EXCEPT ![w].replica = replica, ![w].action = action,
                            ![w].nodes = nodes, ![w].forced = forced \/ @]
        /\ queue' = queue \cup {w}

\* mutateNodesAction: the actions that have an effect, and the replica they lead
\* to; an action under way is only confirmed.
mutateNodesAction(w, action, wanted, forced, view) ==
    LET nodes == {n \in wanted : view[n].spec # IF action = "add" THEN w ELSE None}
        count == Cardinality(nodes)
        replica == IF action = "add" THEN ws[w].replica + count
                   ELSE IF ws[w].replica > count THEN ws[w].replica - count ELSE 0
        same == ws[w].action = action /\ ws[w].nodes = nodes
    IN  /\ nodes # {} /\ wanted # ws[w].nodes
        /\ ws[w].nodes = {} \/ same
        /\ validateNodesAction(w, action, nodes, forced, view)
        /\ ws' = [ws EXCEPT ![w].replica = replica, ![w].action = action,
                            ![w].nodes = nodes, ![w].forced = forced \/ @]
        /\ queue' = queue \cup {w}

\* updateWorkspaceNodesAction: a user names nodes to add or to remove.
updateWorkspaceNodesAction(w) ==
    /\ ws[w].state = "live" /\ Spend("user")
    /\ \E action \in Actions, wanted \in SUBSET Node, forced \in BOOLEAN,
          view \in [Node -> UNION {Views(n) : n \in Node}] :
         /\ \A n \in Node : view[n] \in Views(n)
         /\ mutateNodesAction(w, action, wanted, forced, view)
         /\ ws'[w].replica <= MaxReplica
    /\ UNCHANGED <<seen, pending, klabel, busy, planned, expectations, later>>

\* mutateScaleDown: a replica below the current one becomes an action that removes
\* idle nodes, if there are enough of them.
mutateScaleDown(w, r, view) ==
    IF r >= ws[w].replica \/ r >= ws[w].current
    THEN ws' = [ws EXCEPT ![w].replica = r]
    ELSE \E nodes \in SUBSET {n \in Node : view[n].label = w /\ view[n].state = "live" /\ n \notin busy} :
           /\ Cardinality(nodes) = ws[w].current - r
           /\ ws[w].nodes = {} \/ (ws[w].action = "remove" /\ ws[w].nodes = nodes)
           /\ validateNodesAction(w, "remove", nodes, ws[w].forced, view)
           /\ ws' = [ws EXCEPT ![w].replica = r, ![w].action = "remove", ![w].nodes = nodes]

\* patchWorkspace to another replica.
patchWorkspace(w) ==
    /\ ws[w].state = "live" /\ Spend("user")
    /\ \E r \in (0 .. MaxReplica) \ {ws[w].replica}, view \in [Node -> UNION {Views(n) : n \in Node}] :
         /\ \A n \in Node : view[n] \in Views(n)
         /\ mutateScaleDown(w, r, view)
    /\ queue' = queue \cup {w}
    /\ UNCHANGED <<seen, pending, klabel, busy, planned, expectations, later>>

\* deleteNode, forced: a node of a workspace is first taken out of it.
deleteNode(n) ==
    /\ Stored(n).state = "live" /\ Spend("nodes")
    /\ LET w == Stored(n).spec IN
       \/ w = None /\ UNCHANGED <<ws, queue>>
       \/ /\ w # None /\ ws[w].state = "live"
          /\ mutateNodesAction(w, "remove", {n}, TRUE, [m \in Node |-> Stored(m)])
    /\ pending' = Append(pending, Event(n, [Stored(n) EXCEPT !.state = "deleting"]))
    /\ UNCHANGED <<seen, klabel, busy, planned, expectations, later>>

-----------------------------------------------------------------------------
(* WorkspaceReconciler.                                                     *)

\* Mutant of patchAllowed: the webhook does not protect a bound node.
patchAllowedAny(n, target) == Stored(n).state # "gone"

\* The node's webhook, validateImmutableFields: a bound node is not moved; it does
\* not look at a node under deletion.
patchAllowed(n, target) ==
    /\ Stored(n).state # "gone"
    /\ Stored(n).state = "deleting" \/ Stored(n).spec \in {None, target} \/ target = None

\* updateNodesBinding: the workspace is to wait for all the nodes, and then for
\* those alone whose patch goes through, which are ok.  The patches are concurrent.
updateNodesBinding(w, nodes, target, ok) ==
    LET allowed == {n \in nodes : seen[n].spec # target /\ patchAllowed(n, target)}
    IN  /\ ok \in SUBSET allowed
        /\ IF ok = allowed THEN UNCHANGED left ELSE Spend("errors")
        /\ expectations' = IF nodes = {} THEN expectations ELSE [expectations EXCEPT ![w] = ok]
        /\ \E events \in SetToSeqs({Event(n, [Stored(n) EXCEPT !.spec = target]) :
                                     n \in {m \in ok : Stored(m).spec # target}}) :
             pending' = pending \o events

\* Whether every patch that was tried went through.
Bound(nodes, target, ok) == {n \in nodes : seen[n].spec # target} = ok

\* deleteDataPlaneResources; an error leaves the last of them.
deleteDataPlaneResources(w) ==
    \E k \in 0 .. Len(Removal) :
      /\ k < Len(Removal) => left["errors"] > 0
      /\ planned' = [planned EXCEPT ![w] = @ \ Range(SubSeq(Removal, 1, k))]

\* Mutant of delete: it does not wait for the nodes.
deleteNoWait(w) ==
    \E ok \in SUBSET Node :
      /\ updateNodesBinding(w, {n \in Node : seen[n].spec = w /\ seen[n].state # "gone"}, None, ok)
      /\ ws' = [ws EXCEPT ![w].state = "gone"] /\ planned' = [planned EXCEPT ![w] = {}]
      /\ queue' = queue \ {w} /\ UNCHANGED later

\* delete: unbinds the nodes, waits until they are, then takes the data plane
\* apart, piece by piece, and lets the workspace go.
delete(w) ==
    LET nodes == {n \in Node : seen[n].spec = w /\ seen[n].state # "gone"}
    IN  \E ok \in SUBSET Node :
          /\ updateNodesBinding(w, nodes, None, ok)
          /\ \/ /\ ~Bound(nodes, None, ok)
                /\ UNCHANGED <<ws, planned, queue>>
             \/ /\ Bound(nodes, None, ok) /\ expectations'[w] # {}
                /\ queue' = queue \ {w} /\ UNCHANGED <<ws, planned>>
             \/ /\ Bound(nodes, None, ok) /\ expectations'[w] = {}
                /\ deleteDataPlaneResources(w)
                /\ IF planned'[w] = {}
                   THEN ws' = [ws EXCEPT ![w].state = "gone"] /\ queue' = queue \ {w}
                   ELSE UNCHANGED <<ws, queue>>
          /\ UNCHANGED later

\* processNodesAction: the nodes that still have to change.
processNodesAction(w) ==
    {n \in ws[w].nodes : /\ seen[n].state = "live"
                         /\ IF ws[w].action = "remove" THEN seen[n].spec # None ELSE seen[n].spec # w}

\* syncWorkspace: the current replica counts the nodes with the label.
syncWorkspace(w) == Cardinality({n \in Node : seen[n].label = w /\ seen[n].state = "live"})

Idle(w) == {n \in Node : seen[n].label = w /\ seen[n].state = "live" /\ n \notin busy}
Free == {n \in Node : seen[n].state = "live" /\ seen[n].spec = None /\ seen[n].label = None}
Least(a, b) == IF a < b THEN a ELSE b

\* scaleDown and scaleUp, by count nodes or as many as there are; what is missing
\* is waited for.
scaleDown(w, count) ==
    \E nodes \in SUBSET Idle(w), ok \in SUBSET Node :
      /\ Cardinality(nodes) = Least(count, Cardinality(Idle(w)))
      /\ updateNodesBinding(w, nodes, None, ok)
      /\ queue' = IF Bound(nodes, None, ok) THEN queue \ {w} ELSE queue
      /\ later' = IF Bound(nodes, None, ok) /\ Cardinality(nodes) < count THEN later \cup {w} ELSE later

scaleUp(w, count) ==
    \E nodes \in SUBSET Free, ok \in SUBSET Node :
      /\ Cardinality(nodes) = Least(count, Cardinality(Free))
      /\ updateNodesBinding(w, nodes, w, ok)
      /\ queue' = IF Bound(nodes, w, ok) THEN queue \ {w} ELSE queue
      /\ later' = IF nodes = {} THEN later \cup {w} ELSE later

\* Mutant of processWorkspace: it does not wait for its expectations.
processWorkspaceNoWait(w) ==
    LET current == syncWorkspace(w)
        replica == ws[w].replica
    IN  /\ ws[w].nodes = {}
        /\ ws' = [ws EXCEPT ![w].current = current]
        /\ IF current > replica THEN scaleDown(w, current - replica)
           ELSE IF current < replica THEN scaleUp(w, replica - current)
           ELSE queue' = queue \ {w} /\ UNCHANGED <<pending, expectations, later, left>>

\* processWorkspace.
processWorkspace(w) ==
    LET current == syncWorkspace(w)
        replica == ws[w].replica
        target == IF ws[w].action = "add" THEN w ELSE None
    IN  \/ /\ expectations[w] # {}
           /\ queue' = queue \ {w}
           /\ UNCHANGED <<pending, ws, expectations, later, left>>
        \/ /\ expectations[w] = {} /\ processNodesAction(w) # {}
           /\ \E ok \in SUBSET Node :
                /\ updateNodesBinding(w, processNodesAction(w), target, ok)
                /\ queue' = IF Bound(processNodesAction(w), target, ok) THEN queue \ {w} ELSE queue
           /\ UNCHANGED <<ws, later>>
        \/ /\ expectations[w] = {} /\ processNodesAction(w) = {}
           /\ ws' = [ws EXCEPT ![w].nodes = {}, ![w].action = "add", ![w].current = current,
                               ![w].forced = IF ws[w].nodes = {} THEN @ ELSE FALSE]
           /\ IF current > replica THEN scaleDown(w, current - replica)
              ELSE IF current < replica THEN scaleUp(w, replica - current)
              ELSE queue' = queue \ {w} /\ UNCHANGED <<pending, expectations, later, left>>

\* guaranteeDataPlaneResources, in order; an error leaves the first of them.
guaranteeDataPlaneResources(w, k) ==
    planned' = [planned EXCEPT ![w] = @ \cup Range(SubSeq(Creation, 1, k))]

Reconcile(w) ==
    /\ w \in queue
    /\ \/ /\ ws[w].state = "gone"
          /\ queue' = queue \ {w}
          /\ UNCHANGED <<pending, ws, planned, expectations, later, left>>
       \/ ws[w].state = "deleting" /\ delete(w)
       \/ /\ ws[w].state = "live" /\ Spend("errors")
          /\ \E k \in 0 .. Len(Creation) - 1 : guaranteeDataPlaneResources(w, k)
          /\ UNCHANGED <<pending, ws, expectations, queue, later>>
       \/ /\ ws[w].state = "live"
          /\ guaranteeDataPlaneResources(w, Len(Creation))
          /\ processWorkspace(w)
    /\ UNCHANGED <<seen, klabel, busy>>

\* A workspace that waited nodeWait is due again.
Due(w) ==
    /\ w \in later
    /\ later' = later \ {w} /\ queue' = queue \cup {w}
    /\ UNCHANGED <<seen, pending, klabel, busy, ws, planned, expectations, left>>

\* The resource manager restarts: what is in memory is lost, the cache is read
\* anew and every workspace and node comes as created.
Restart ==
    /\ Spend("restarts")
    /\ seen' = [n \in Node |-> Stored(n)]
    /\ pending' = <<>>
    /\ expectations' = [w \in Workspace |-> {}]
    /\ queue' = {w \in Workspace : ws[w].state \notin {"new", "gone"}}
    /\ later' = {}
    /\ UNCHANGED <<klabel, busy, ws, planned>>

-----------------------------------------------------------------------------

Init ==
    /\ seen = [n \in Node |-> [spec |-> None, label |-> None, state |-> "live"]]
    /\ pending = <<>>
    /\ klabel = [n \in Node |-> None]
    /\ busy = {}
    /\ ws = [w \in Workspace |-> [state |-> "new", replica |-> 0, current |-> 0,
                                  action |-> "add", nodes |-> {}, forced |-> FALSE]]
    /\ planned = [w \in Workspace |-> {}]
    /\ expectations = [w \in Workspace |-> {}]
    /\ queue = {} /\ later = {}
    /\ left = [user |-> MaxUser, nodes |-> MaxNodeDeletes, errors |-> MaxErrors,
               work |-> MaxWork, restarts |-> MaxRestarts]

User == \/ \E w \in Workspace : \/ createWorkspace(w) \/ deleteWorkspace(w)
                                \/ updateWorkspaceNodesAction(w) \/ patchWorkspace(w)
        \/ \E n \in Node : deleteNode(n) \/ WorkStarts(n)

System == \/ \E n \in Node : NodeEvent(n) \/ NodeReconcile(n) \/ SyncLabel(n) \/ NodeGoes(n) \/ WorkEnds(n)
          \/ \E w \in Workspace : Reconcile(w) \/ Due(w)

Next == User \/ System \/ Restart

Spec == Init /\ [][Next]_vars

-----------------------------------------------------------------------------
(* Properties.                                                              *)

\* Types of the variables.
TypeOK ==
    /\ seen \in [Node -> NodeRecord]
    /\ \A n \in Node : Views(n) \subseteq NodeRecord
    /\ klabel \in [Node -> Workspace \cup {None}]
    /\ busy \subseteq Node
    /\ ws \in [Workspace -> WorkspaceRecord]
    /\ planned \in [Workspace -> SUBSET Range(Creation)]
    /\ expectations \in [Workspace -> SUBSET Node]
    /\ queue \subseteq Workspace /\ later \subseteq Workspace

SpecNodes(w) == {n \in Node : Stored(n).spec = w /\ Stored(n).state = "live"}

\* A step that binds more nodes to workspace w than its replica, without an action
\* that names them.
OverBinds(w) ==
    /\ ws[w].nodes = {} /\ Cardinality(SpecNodes(w)') > Cardinality(SpecNodes(w))
    /\ Cardinality(SpecNodes(w)') > ws[w].replica

\* A workspace that is gone has left no node bound to it and nothing in the data
\* plane.
GoneIsClean ==
    \A w \in Workspace : ws[w].state = "gone" => SpecNodes(w) = {} /\ planned[w] = {}

\* A node passes from one workspace to another.
Moves(n) ==
    Stored(n).spec # None /\ Stored(n).state = "live" /\ (Stored(n)').spec \notin {None, Stored(n).spec}

\* What a workspace that is at rest has: no action left, and the nodes it asked
\* for, unless there are no more free ones or those it has to give up are in use.
Settled(w) ==
    ws[w].state = "live" =>
      /\ ws[w].nodes = {} /\ expectations[w] = {}
      /\ \/ Cardinality(SpecNodes(w)) = ws[w].replica
         \/ Cardinality(SpecNodes(w)) < ws[w].replica /\ Free = {}
=============================================================================

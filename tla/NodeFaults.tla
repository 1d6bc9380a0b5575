------------------------------ MODULE NodeFaults ------------------------------
(***************************************************************************)
(* How a condition of a Kubernetes node becomes a Fault, the Fault a taint *)
(* of the admin node, and that taint a taint of the Kubernetes node, and   *)
(* how each of them goes away again.  Three controllers take part: the one *)
(* that watches Kubernetes nodes (its messages carry the conditions before *)
(* the change), the fault controller and the node controller, the last two *)
(* reading admin nodes from a cache.  One node, one monitor.               *)
(***************************************************************************)
EXTENDS Integers, Sequences

CONSTANTS
    Kind,              \* "primus": a condition of the node agent, present or absent;
                       \* "k8s": a standard one, always present with a status
    AutoRepair,        \* IsAutoRepair of the monitor's configuration
    CacheLags,         \* whether the fault controller may read an outdated node
    MaxRetryCount,     \* tries of a fault after its first
    MaxErrors,         \* bound: API errors
    MaxChanges,        \* bound: changes of the hardware
    MaxUser,           \* bound: changes a user makes
    MaxRestarts        \* bound: restarts of the resource manager

VARIABLES
    bad,               \* whether the node is at fault
    k8s,               \* the Kubernetes node
    queue, delayed,    \* messages about it, and those that wait for another try
    seen,              \* the cached admin node
    pending,           \* its newer versions that have not reached the cache
    fault, retries,    \* the Fault object and its retry-count annotation
    faultQ, nodeQ,     \* whether the fault, the node, is to be reconciled
    armed,             \* whether a periodic reconcile of the node is under way
    due,               \* whether the machine's status is due for a check
    conf,              \* whether the fault configuration has the monitor
    left               \* what remains of the bounds

vars == <<bad, k8s, queue, delayed, seen, pending, fault, retries, faultQ, nodeQ,
          armed, due, conf, left>>

K8sNode == [exists : BOOLEAN, cond : BOOLEAN, taint : BOOLEAN]
AdminNode == [managed : BOOLEAN, taint : BOOLEAN, scond : BOOLEAN, staint : BOOLEAN]
Message == [action : {"add", "update", "unmanaged"}, old : BOOLEAN]

\* The admin node as stored; a write with a resource version needs the cache to
\* hold that.
Admin == IF pending = <<>> THEN seen ELSE pending[Len(pending)]
Fresh == pending = <<>>
Write(n) == pending' = IF n = Admin THEN pending ELSE Append(pending, n)
Spend(what) == left[what] > 0 /\ left' = [left EXCEPT ![what] = @ - 1]

-----------------------------------------------------------------------------
(* The Kubernetes node and its informer.                                    *)

\* An event of the informer, for a node as it was before.
Enqueue(msg) == queue' = Append(queue, msg)
Updated(old) == [action |-> "update", old |-> old]
Added == [action |-> "add", old |-> FALSE]

HardwareChanges ==
    /\ Spend("changes")
    /\ bad' = ~bad
    /\ UNCHANGED <<k8s, queue, delayed, seen, pending, fault, retries, faultQ, nodeQ, armed, due, conf>>

Unreported == k8s.exists /\ k8s.cond # bad

\* The node agent, or the kubelet, reports.
Report ==
    /\ Unreported
    /\ k8s' = [k8s EXCEPT !.cond = bad]
    /\ Enqueue(Updated(k8s.cond))
    /\ UNCHANGED <<bad, delayed, seen, pending, fault, retries, faultQ, nodeQ, armed, due, conf, left>>

NodeLeaves ==
    /\ k8s.exists /\ ~Admin.managed
    /\ k8s' = [exists |-> FALSE, cond |-> FALSE, taint |-> FALSE]
    /\ Enqueue([action |-> "unmanaged", old |-> k8s.cond])
    /\ UNCHANGED <<bad, delayed, seen, pending, fault, retries, faultQ, nodeQ, armed, due, conf, left>>

NodeJoins ==
    /\ ~k8s.exists /\ Admin.managed
    /\ k8s' = [k8s EXCEPT !.exists = TRUE]
    /\ Enqueue(Added)
    /\ UNCHANGED <<bad, delayed, seen, pending, fault, retries, faultQ, nodeQ, armed, due, conf, left>>

-----------------------------------------------------------------------------
(* NodeK8sReconciler.                                                       *)

\* createFault: one that exists, be it under deletion, is left alone.
CreateFault ==
    IF fault = "none" THEN fault' = "live" /\ faultQ' = TRUE /\ retries' = 0
    ELSE UNCHANGED <<fault, faultQ, retries>>

\* deleteFault: the finalizer keeps it until the fault controller is done.
DeleteFault ==
    IF fault = "live" THEN fault' = "deleting" /\ faultQ' = TRUE /\ UNCHANGED retries
    ELSE UNCHANGED <<fault, faultQ, retries>>

\* Mutant of processFault: a fault is not deleted when its condition goes.
processFaultNoDelete(node, msg) ==
    IF conf /\ node.scond # msg.old /\ node.scond /\ node.managed THEN CreateFault
    ELSE UNCHANGED <<fault, faultQ, retries>>

\* processFault, on the status just written and the message's old conditions; a
\* message without any finds every condition that is present changed.  A fault that is
\* not to be repaired automatically outlives its condition (generateFaultOnDeletion).
processFault(node, msg) ==
    IF ~conf \/ ~(node.scond # msg.old \/ (msg.action = "add" /\ Kind = "k8s"))
      THEN UNCHANGED <<fault, faultQ, retries>>
    ELSE IF node.scond
      THEN IF node.managed THEN CreateFault ELSE UNCHANGED <<fault, faultQ, retries>>
    ELSE IF AutoRepair THEN DeleteFault
    ELSE UNCHANGED <<fault, faultQ, retries>>

\* Mutant of Do: the status is written whatever the version.
DoBlind(msg) ==
    LET node == IF msg.action = "unmanaged"
                THEN [seen EXCEPT !.scond = FALSE, !.staint = FALSE]
                ELSE [seen EXCEPT !.scond = k8s.cond, !.staint = k8s.taint]
    IN  /\ Write(node)
        /\ IF msg.action = "unmanaged" THEN UNCHANGED <<fault, faultQ, retries>>
           ELSE processFault(node, msg)
        /\ UNCHANGED <<delayed, left>>

\* Do, for one message: the admin node's status is set to what the Kubernetes
\* node says, and the fault follows.
Do(msg) ==
    LET node == IF msg.action = "unmanaged"
                THEN [seen EXCEPT !.scond = FALSE, !.staint = FALSE]
                ELSE [seen EXCEPT !.scond = k8s.cond, !.staint = k8s.taint]
    IN  \/ \* the Kubernetes node is not found: not retried
           /\ msg.action # "unmanaged" /\ ~k8s.exists
           /\ UNCHANGED <<delayed, pending, fault, faultQ, retries, left>>
        \/ \* the status of an outdated node conflicts: tried again later
           /\ msg.action = "unmanaged" \/ k8s.exists
           /\ ~Fresh /\ node # seen
           /\ delayed' = delayed \cup {msg}
           /\ UNCHANGED <<pending, fault, faultQ, retries, left>>
        \/ /\ msg.action = "unmanaged" \/ k8s.exists
           /\ Fresh \/ node = seen
           /\ IF node = seen THEN UNCHANGED pending ELSE Write(node)
           /\ \/ /\ msg.action = "unmanaged"
                 /\ UNCHANGED <<delayed, fault, faultQ, retries, left>>
              \/ /\ msg.action # "unmanaged"
                 /\ processFault(node, msg)
                 /\ UNCHANGED <<delayed, left>>
              \/ \* the API fails after the status was written
                 /\ msg.action # "unmanaged" /\ Spend("errors")
                 /\ delayed' = delayed \cup {msg}
                 /\ UNCHANGED <<fault, faultQ, retries>>

TakeMessage ==
    /\ queue # <<>>
    /\ queue' = Tail(queue)
    /\ Do(Head(queue))
    /\ UNCHANGED <<bad, k8s, seen, nodeQ, armed, due, conf>>

\* A delayed message comes back behind the newer ones.
Requeue ==
    /\ \E msg \in delayed : delayed' = delayed \ {msg} /\ queue' = Append(queue, msg)
    /\ UNCHANGED <<bad, k8s, seen, pending, fault, retries, faultQ, nodeQ, armed, due, conf, left>>

-----------------------------------------------------------------------------
(* FaultReconciler.                                                         *)

\* handleNodeEvent and the node controller's predicates, on the next version:
\* leaving the cluster deletes the fault, changed taints have it looked at.
NodeEvent ==
    /\ pending # <<>>
    /\ seen' = Head(pending) /\ pending' = Tail(pending)
    /\ IF seen.managed /\ ~seen'.managed THEN DeleteFault
       ELSE /\ faultQ' = (faultQ \/ (seen'.staint # seen.staint /\ fault # "none"))
            /\ UNCHANGED <<fault, retries>>
    /\ nodeQ' = (nodeQ \/ seen'.taint # seen.taint \/ seen'.managed # seen.managed)
    /\ UNCHANGED <<bad, k8s, queue, delayed, armed, due, conf, left>>

\* Mutant of Retry: one try too many.
RetryOnceMore ==
    IF retries <= MaxRetryCount
    THEN retries' = retries + 1 /\ faultQ' = TRUE /\ UNCHANGED fault
    ELSE /\ faultQ' = FALSE
         /\ fault' = IF fault = "deleting" THEN "none" ELSE fault
         /\ UNCHANGED retries

\* retry: once more in a while, or not at all; after the last try a deleted
\* fault loses its finalizer.
Retry ==
    IF retries < MaxRetryCount
    THEN retries' = retries + 1 /\ faultQ' = TRUE /\ UNCHANGED fault
    ELSE /\ faultQ' = FALSE
         /\ fault' = IF fault = "deleting" THEN "none" ELSE fault
         /\ UNCHANGED retries

FinishFault ==
    /\ faultQ' = FALSE
    /\ fault' = IF fault = "deleting" THEN "none" ELSE fault
    /\ UNCHANGED retries

\* Mutant of Reconcile: a deleted fault leaves its taint.
ReconcileKeepsTaint ==
    /\ faultQ /\ (CacheLags \/ Fresh)
    /\ LET node == [seen EXCEPT !.taint = TRUE] IN
         IF fault = "live" /\ seen.managed /\ node # seen
         THEN \/ Fresh /\ Write(node) /\ FinishFault /\ UNCHANGED left
              \/ ~Fresh /\ Retry /\ UNCHANGED <<pending, left>>
              \/ Spend("errors") /\ Retry /\ UNCHANGED pending
         ELSE FinishFault /\ UNCHANGED <<pending, left>>
    /\ UNCHANGED <<bad, k8s, queue, delayed, seen, nodeQ, armed, due, conf>>

\* Reconcile: taintNode or removeNodeTaint, then the phase or the finalizer.
Reconcile ==
    /\ faultQ /\ (CacheLags \/ Fresh)
    /\ LET node == [seen EXCEPT !.taint = (fault = "live")] IN
         IF fault # "none" /\ node # seen /\ (fault = "live" => seen.managed)
         THEN \/ Fresh /\ Write(node) /\ FinishFault /\ UNCHANGED left
              \/ ~Fresh /\ Retry /\ UNCHANGED <<pending, left>>
              \/ Spend("errors") /\ Retry /\ UNCHANGED pending
         ELSE FinishFault /\ UNCHANGED <<pending, left>>
    /\ UNCHANGED <<bad, k8s, queue, delayed, seen, nodeQ, armed, due, conf>>

-----------------------------------------------------------------------------
(* NodeReconciler, as far as taints and conditions go.                      *)

\* observeTaints: nothing to do, as far as the cached status tells.
Observed == seen.taint = seen.staint

\* Mutant of clearConditions: conditions are left alone.
clearConditionsNot == k8s.cond

\* clearConditions: a condition of the agent without a fault is removed.
clearConditions == k8s.cond /\ ~(Kind = "primus" /\ fault = "none")

\* A reconcile that finds nothing changed does not ask for the next one.
ReconcileNode ==
    /\ nodeQ /\ nodeQ' = FALSE
    /\ IF Observed /\ ~due THEN UNCHANGED <<k8s, queue, armed, due>>
       ELSE /\ k8s' = IF k8s.exists /\ seen.managed
                      THEN [k8s EXCEPT !.taint = seen.taint, !.cond = clearConditions]
                      ELSE k8s
            /\ IF k8s' = k8s THEN UNCHANGED queue ELSE Enqueue(Updated(k8s.cond))
            /\ armed' = TRUE
            /\ due' \in {FALSE, due}   \* the machine's status may have changed
    /\ UNCHANGED <<bad, delayed, seen, pending, fault, retries, faultQ, conf, left>>

\* The reconcile that machineCheckInterval asks for; half an hour is longer
\* than reports and messages take.
Tick ==
    /\ armed /\ queue = <<>> /\ delayed = {} /\ Fresh /\ ~Unreported
    /\ armed' = FALSE /\ nodeQ' = TRUE /\ due' = TRUE
    /\ UNCHANGED <<bad, k8s, queue, delayed, seen, pending, fault, retries, faultQ, conf, left>>

-----------------------------------------------------------------------------
(* Users, and restarts.                                                     *)

\* A node leaves its cluster (the webhook clears its taints) or enters it.
UserManages ==
    /\ Spend("user")
    /\ Write([Admin EXCEPT !.managed = ~@, !.taint = FALSE])
    /\ UNCHANGED <<bad, k8s, queue, delayed, seen, fault, retries, faultQ, nodeQ, armed, due, conf>>

UserDeletesFault ==
    /\ Spend("user") /\ fault = "live"
    /\ DeleteFault
    /\ UNCHANGED <<bad, k8s, queue, delayed, seen, pending, nodeQ, armed, due, conf>>

\* handleConfigmapEvent: a monitor taken out of the configuration loses its
\* faults; one put in is not looked at.
UserConfigures ==
    /\ Spend("user")
    /\ conf' = ~conf
    /\ IF conf THEN DeleteFault ELSE UNCHANGED <<fault, faultQ, retries>>
    /\ UNCHANGED <<bad, k8s, queue, delayed, seen, pending, nodeQ, armed, due>>

\* The resource manager restarts: messages are lost, every object is new to it.
\* A fault that does not fit the stored conditions or the configuration goes.
Restart ==
    /\ Spend("restarts")
    /\ seen' = Admin /\ pending' = <<>> /\ delayed' = {}
    /\ queue' = IF k8s.exists THEN <<Added>> ELSE <<>>
    /\ fault' = IF fault = "live" /\ ((Kind = "primus" /\ ~Admin.scond) \/ ~conf)
                THEN "deleting" ELSE fault
    /\ faultQ' = (fault # "none") /\ nodeQ' = TRUE /\ armed' = FALSE
    /\ UNCHANGED <<bad, k8s, retries, due, conf>>

-----------------------------------------------------------------------------
Init ==
    /\ bad = FALSE /\ k8s = [exists |-> TRUE, cond |-> FALSE, taint |-> FALSE]
    /\ queue = <<>> /\ delayed = {}
    /\ seen = [managed |-> TRUE, taint |-> FALSE, scond |-> FALSE, staint |-> FALSE]
    /\ pending = <<>> /\ fault = "none" /\ retries = 0
    /\ faultQ = FALSE /\ nodeQ = FALSE /\ armed = TRUE /\ due = FALSE /\ conf = TRUE
    /\ left = [errors |-> MaxErrors, changes |-> MaxChanges, user |-> MaxUser,
               restarts |-> MaxRestarts]

Next ==
    \/ HardwareChanges \/ Report \/ NodeLeaves \/ NodeJoins
    \/ TakeMessage \/ Requeue \/ NodeEvent \/ Reconcile
    \/ ReconcileNode
    \/ Tick \/ UserManages \/ UserDeletesFault \/ UserConfigures \/ Restart

Spec == Init /\ [][Next]_vars

-----------------------------------------------------------------------------
(* Properties.                                                              *)

TypeOK ==
    /\ bad \in BOOLEAN /\ k8s \in K8sNode
    /\ queue \in Seq(Message) /\ delayed \subseteq Message
    /\ seen \in AdminNode /\ pending \in Seq(AdminNode)
    /\ fault \in {"none", "live", "deleting"} /\ retries \in 0 .. MaxRetryCount
    /\ faultQ \in BOOLEAN /\ nodeQ \in BOOLEAN /\ armed \in BOOLEAN /\ due \in BOOLEAN
    /\ conf \in BOOLEAN

\* Nothing is left of a fault; a fault that shows.
Clean == fault = "none" /\ ~Admin.taint /\ ~k8s.taint
Shown == fault = "live" /\ k8s.taint

\* The taint of the admin node belongs to a fault.
Owned == Admin.taint => fault # "none"

\* The admin node loses its taint.
Untainted == Admin.taint /\ ~Admin'.taint

\* A node in its cluster loses its taint only when the fault is being deleted.
TaintKept == [][Untainted => fault = "deleting" \/ ~Admin'.managed]_vars

\* A taint is left without its fault although the fault controller's cache holds the
\* stored node and the fault may be tried again.
Orphans == Owned /\ ~Owned' /\ Fresh /\ retries < MaxRetryCount

\* A taint loses its fault only to a fault controller that is behind or gives up.
TaintFreed == [][~Orphans]_vars
=============================================================================

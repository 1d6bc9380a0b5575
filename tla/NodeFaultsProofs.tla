--------------------------- MODULE NodeFaultsProofs ---------------------------
(***************************************************************************)
(* Faults and taints, for either kind of condition and any number of       *)
(* changes, errors, requests and restarts.                                 *)
(*                                                                         *)
(* A managed node loses its taint only while its fault is being deleted    *)
(* (TaintStays): although the fault controller decides on outdated nodes,  *)
(* what it writes it writes to the stored version.  The invariant it needs *)
(* is that a node outside its cluster has no taint (Out).                  *)
(*                                                                         *)
(* A taint is left without a fault in two ways only (TaintLifted): the     *)
(* fault controller decides on a node that is behind the stored one, or    *)
(* gives up after its last try.  Both happen in the code (README); nothing  *)
(* else parts the two, whatever messages, users and restarts do.           *)
(***************************************************************************)
EXTENDS NodeFaults, TLAPS

Typed ==
    /\ seen \in AdminNode /\ pending \in Seq(AdminNode)
    /\ k8s \in K8sNode /\ bad \in BOOLEAN

Phases == fault \in {"none", "live", "deleting"}

Out == ~Admin.managed => ~Admin.taint

-----------------------------------------------------------------------------
(* The stored node.                                                         *)

\* The stored node is of the type of nodes.
LEMMA AdminType == Typed => Admin \in AdminNode
BY DEF Typed, Admin

\* What is written is what is stored.
LEMMA Written ==
    ASSUME Typed, NEW n \in AdminNode, Write(n), seen' = seen
    PROVE  Admin' = n /\ pending' \in Seq(AdminNode)
<1>1. CASE n = Admin
  BY <1>1 DEF Write, Admin, Typed
<1>2. CASE n # Admin
  <2>1. pending' = Append(pending, n)
    BY <1>2 DEF Write
  <2>2. pending' \in Seq(AdminNode) /\ Len(pending') = Len(pending) + 1 /\ pending'[Len(pending) + 1] = n
    BY <2>1 DEF Typed
  <2>3. pending' # <<>>
    BY <2>2 DEF Typed
  <2> QED BY <2>2, <2>3 DEF Admin
<1> QED BY <1>1, <1>2

\* The cache catching up changes nothing that is stored.
LEMMA Delivered ==
    ASSUME Typed, pending # <<>>, seen' = Head(pending), pending' = Tail(pending)
    PROVE  Admin' = Admin /\ seen' \in AdminNode /\ pending' \in Seq(AdminNode)
<1>1. seen' \in AdminNode /\ pending' \in Seq(AdminNode) /\ Len(pending') = Len(pending) - 1
  BY DEF Typed
<1>2. Admin = pending[Len(pending)] /\ Len(pending) \in Nat /\ Len(pending) >= 1
  BY DEF Admin, Typed
<1>3. CASE Len(pending) = 1
  <2>1. pending' = <<>> /\ seen' = pending[1]
    BY <1>1, <1>3 DEF Typed
  <2> QED BY <1>1, <1>2, <1>3, <2>1 DEF Admin
<1>4. CASE Len(pending) > 1
  <2>1. \A i \in 1 .. Len(pending) - 1 : Tail(pending)[i] = pending[i + 1]
    BY DEF Typed
  <2>2. Len(pending) - 1 \in 1 .. Len(pending) - 1 /\ (Len(pending) - 1) + 1 = Len(pending)
    BY <1>2, <1>4
  <2>3. Tail(pending)[Len(pending) - 1] = pending[Len(pending)]
    BY <2>1, <2>2
  <2>4. pending'[Len(pending')] = pending[Len(pending)]
    <3>1. pending'[Len(pending) - 1] = pending[Len(pending)]
      BY <2>3
    <3> QED BY <1>1, <3>1
  <2>5. pending' # <<>>
    <3>1. Len(pending') = Len(pending) - 1 /\ Len(pending) > 1 /\ Len(pending) \in Nat
      BY <1>1, <1>2, <1>4
    <3>2. Len(<<>>) = 0
      OBVIOUS
    <3>3. Len(pending) - 1 # 0
      BY <3>1
    <3> QED BY <3>1, <3>2, <3>3, Zenon
  <2>6. Admin' = pending'[Len(pending')]
    BY <2>5, Zenon DEF Admin
  <2> QED BY <1>1, <1>2, <2>4, <2>6, Zenon
<1>5. Len(pending) = 1 \/ Len(pending) > 1
  BY <1>2
<1> QED BY <1>1, <1>3, <1>4, <1>5

\* A restart reads what is stored.
LEMMA Reread ==
    ASSUME Typed, seen' = Admin, pending' = <<>>
    PROVE  Admin' = Admin /\ seen' \in AdminNode /\ pending' \in Seq(AdminNode)
BY AdminType DEF Admin

-----------------------------------------------------------------------------
(* What a step does to the stored node.                                     *)

\* A step leaves the node's cluster and its taint alone, writes the taint of the
\* fault, or is a user's.
Stays == Admin'.managed = Admin.managed /\ Admin'.taint = Admin.taint
Judged == /\ Admin'.managed = Admin.managed
          /\ \/ fault = "live" /\ Admin.managed /\ Admin'.taint
             \/ fault = "deleting" /\ ~Admin'.taint
Moved == Admin'.managed = ~Admin.managed /\ ~Admin'.taint

\* A version of a node that differs in its status alone.
LEMMA StatusWritten ==
    ASSUME NEW n \in AdminNode, NEW b \in BOOLEAN, NEW c \in BOOLEAN
    PROVE  /\ [n EXCEPT !.scond = b, !.staint = c] \in AdminNode
           /\ [n EXCEPT !.scond = b, !.staint = c].managed = n.managed
           /\ [n EXCEPT !.scond = b, !.staint = c].taint = n.taint
BY DEF AdminNode

\* NodeK8sReconciler writes the status, to the version it read.
LEMMA DoStep ==
    ASSUME Typed, NEW msg, Do(msg), UNCHANGED <<seen, k8s, bad>>
    PROVE  Typed' /\ Stays
<1> DEFINE node == IF msg.action = "unmanaged"
                   THEN [seen EXCEPT !.scond = FALSE, !.staint = FALSE]
                   ELSE [seen EXCEPT !.scond = k8s.cond, !.staint = k8s.taint]
<1>1. node \in AdminNode /\ node.managed = seen.managed /\ node.taint = seen.taint
  <2>1. seen \in AdminNode /\ k8s.cond \in BOOLEAN /\ k8s.taint \in BOOLEAN
    BY DEF Typed, K8sNode
  <2> QED BY <2>1, StatusWritten
<1> HIDE DEF node
<1>2. \/ UNCHANGED pending
      \/ Fresh /\ Write(node)
  BY DEF Do, node
<1>3. CASE UNCHANGED pending
  BY <1>3 DEF Typed, Stays, Admin
<1>4. CASE Fresh /\ Write(node)
  <2>1. Admin' = node /\ pending' \in Seq(AdminNode)
    BY <1>1, <1>4, Written
  <2>2. Admin = seen
    BY <1>4 DEF Fresh, Admin
  <2> QED BY <1>1, <2>1, <2>2 DEF Stays, Typed
<1> QED BY <1>2, <1>3, <1>4

\* The fault controller writes what the fault says, to the stored version alone.
LEMMA ReconcileStep == ASSUME Typed, Phases, Reconcile PROVE Typed' /\ (Stays \/ Judged)
<1> DEFINE node == [seen EXCEPT !.taint = (fault = "live")]
<1>1. node \in AdminNode /\ node.managed = seen.managed /\ node.taint = (fault = "live")
  BY DEF Typed, AdminNode
<1>2. UNCHANGED <<seen, k8s, bad>>
  BY DEF Reconcile
<1>3. \/ UNCHANGED pending
      \/ /\ Fresh /\ Write(node) /\ fault # "none" /\ (fault = "live" => seen.managed)
  BY DEF Reconcile
<1>4. CASE UNCHANGED pending
  BY <1>2, <1>4 DEF Typed, Stays, Admin
<1>5. CASE Fresh /\ Write(node) /\ fault # "none" /\ (fault = "live" => seen.managed)
  <2>1. Admin' = node /\ pending' \in Seq(AdminNode)
    BY <1>1, <1>2, <1>5, Written
  <2>2. Admin = seen
    BY <1>5 DEF Fresh, Admin
  <2> QED BY <1>1, <1>2, <1>5, <2>1, <2>2 DEF Judged, Typed, Phases
<1> QED BY <1>3, <1>4, <1>5

\* The states of the fault.
LEMMA PhasesStep == Phases /\ Next => Phases'
<1> USE DEF Phases
<1>1. CreateFault \/ DeleteFault \/ Retry \/ FinishFault \/ UNCHANGED fault => (Phases => Phases')
  BY DEF CreateFault, DeleteFault, Retry, FinishFault
<1>2. TakeMessage => CreateFault \/ DeleteFault \/ UNCHANGED fault
  BY DEF TakeMessage, Do, processFault
<1>3. NodeEvent \/ UserDeletesFault \/ UserConfigures => DeleteFault \/ UNCHANGED fault
  BY DEF NodeEvent, UserDeletesFault, UserConfigures
<1>4. Reconcile => Retry \/ FinishFault
  BY DEF Reconcile
<1>5. Restart /\ Phases => Phases'
  BY DEF Restart
<1>6. HardwareChanges \/ Report \/ NodeLeaves \/ NodeJoins \/ Requeue \/ ReconcileNode \/ Tick \/ UserManages
        => UNCHANGED fault
  BY DEF HardwareChanges, Report, NodeLeaves, NodeJoins, Requeue, ReconcileNode, Tick, UserManages
<1> QED BY <1>1, <1>2, <1>3, <1>4, <1>5, <1>6 DEF Next

\* Every step.
LEMMA NodeStep == ASSUME Typed, Phases, Next PROVE Typed' /\ (Stays \/ Judged \/ Moved)
<1>1. CASE TakeMessage
  BY <1>1, DoStep DEF TakeMessage
<1>2. CASE NodeEvent
  BY <1>2, Delivered DEF NodeEvent, Typed, Stays
<1>3. CASE Reconcile
  BY <1>3, ReconcileStep
<1>4. CASE UserManages
  <2>1. Admin \in AdminNode
    BY AdminType
  <2>2. /\ [Admin EXCEPT !.managed = ~@, !.taint = FALSE] \in AdminNode
        /\ [Admin EXCEPT !.managed = ~@, !.taint = FALSE].managed = ~Admin.managed
        /\ [Admin EXCEPT !.managed = ~@, !.taint = FALSE].taint = FALSE
    BY <2>1 DEF AdminNode
  <2>3. UNCHANGED <<seen, k8s, bad>> /\ Write([Admin EXCEPT !.managed = ~@, !.taint = FALSE])
    BY <1>4 DEF UserManages
  <2>4. /\ Admin' = [Admin EXCEPT !.managed = ~@, !.taint = FALSE]
        /\ pending' \in Seq(AdminNode)
    BY <2>2, <2>3, Written
  <2> QED BY <2>2, <2>3, <2>4 DEF Typed, Moved
<1>5. CASE Restart
  BY <1>5, Reread DEF Restart, Typed, Stays
<1>6. CASE \/ HardwareChanges \/ Report \/ NodeLeaves \/ NodeJoins \/ Requeue \/ ReconcileNode \/ Tick
           \/ UserDeletesFault \/ UserConfigures
  <2>1. UNCHANGED <<seen, pending>>
    BY <1>6 DEF HardwareChanges, Report, NodeLeaves, NodeJoins, Requeue, ReconcileNode, Tick,
                UserDeletesFault, UserConfigures
  <2>2. k8s' \in K8sNode
    <3>1. CASE Report \/ NodeLeaves \/ NodeJoins
      <4>1. \/ k8s' = [k8s EXCEPT !.cond = bad]
            \/ k8s' = [exists |-> FALSE, cond |-> FALSE, taint |-> FALSE]
            \/ k8s' = [k8s EXCEPT !.exists = TRUE]
        BY <3>1 DEF Report, NodeLeaves, NodeJoins
      <4>2. [exists |-> FALSE, cond |-> FALSE, taint |-> FALSE] \in K8sNode
        BY DEF K8sNode
      <4>3. [k8s EXCEPT !.cond = bad] \in K8sNode /\ [k8s EXCEPT !.exists = TRUE] \in K8sNode
        BY DEF Typed, K8sNode
      <4> QED BY <4>1, <4>2, <4>3
    <3>2. CASE ReconcileNode
      <4>1. seen.taint \in BOOLEAN /\ clearConditions \in BOOLEAN /\ k8s \in K8sNode
        BY DEF Typed, AdminNode, K8sNode, clearConditions
      <4>2. k8s' = k8s \/ k8s' = [k8s EXCEPT !.taint = seen.taint, !.cond = clearConditions]
        BY <3>2 DEF ReconcileNode
      <4> HIDE DEF clearConditions
      <4> QED BY <4>1, <4>2 DEF K8sNode
    <3>3. CASE HardwareChanges \/ Requeue \/ Tick \/ UserDeletesFault \/ UserConfigures
      BY <3>3 DEF HardwareChanges, Requeue, Tick, UserDeletesFault, UserConfigures, Typed
    <3> QED BY <1>6, <3>1, <3>2, <3>3
  <2>3. bad' \in BOOLEAN
    BY <1>6 DEF HardwareChanges, Report, NodeLeaves, NodeJoins, Requeue, ReconcileNode, Tick,
                UserDeletesFault, UserConfigures, Typed
  <2> QED BY <2>1, <2>2, <2>3 DEF Typed, Stays, Admin
<1> QED BY <1>1, <1>2, <1>3, <1>4, <1>5, <1>6 DEF Next

\* The beginning.
LEMMA Begin == Init => Typed /\ Phases /\ ~Admin.taint
<1> SUFFICES ASSUME Init PROVE Typed /\ Phases /\ ~Admin.taint
  OBVIOUS
<1>1. seen \in AdminNode /\ ~seen.taint
  BY DEF Init, AdminNode
<1>2. k8s \in K8sNode
  BY DEF Init, K8sNode
<1>3. pending = <<>> /\ bad = FALSE /\ fault = "none"
  BY DEF Init
<1>4. pending \in Seq(AdminNode)
  BY <1>3
<1> QED BY <1>1, <1>2, <1>3, <1>4 DEF Typed, Phases, Admin

-----------------------------------------------------------------------------
\* A node in its cluster loses its taint only when its fault is being deleted,
\* although NodeK8sReconciler and the fault controller act on nodes that are
\* outdated and on messages that are late.
THEOREM TaintStays == Spec => TaintKept
<1> DEFINE I == Typed /\ Phases /\ Out
<1>1. Init => I
  BY Begin DEF Out
<1>2. I /\ [Next]_vars => I' /\ (Untainted => fault = "deleting" \/ ~Admin'.managed)
  <2> SUFFICES ASSUME I, [Next]_vars
               PROVE  I' /\ (Untainted => fault = "deleting" \/ ~Admin'.managed)
    OBVIOUS
  <2>1. CASE Next
    <3>1. Typed' /\ Phases' /\ (Stays \/ Judged \/ Moved)
      BY <2>1, PhasesStep, NodeStep
    <3>2. Admin \in AdminNode
      BY AdminType
    <3>3. Admin' \in AdminNode
      <4>1. seen' \in AdminNode /\ pending' \in Seq(AdminNode)
        BY <3>1 DEF Typed
      <4> QED BY <4>1 DEF Admin
    <3> QED BY <3>1, <3>2, <3>3 DEF Out, Stays, Judged, Moved, Untainted, AdminNode
  <2>2. CASE UNCHANGED vars
    BY <2>2 DEF vars, Typed, Phases, Out, Admin, Untainted
  <2> QED BY <2>1, <2>2
<1> QED BY <1>1, <1>2, PTL DEF Spec, TaintKept

-----------------------------------------------------------------------------
(* Faults that end.                                                         *)

Kept == fault # "none" => fault' # "none"

\* No step but the fault controller's ends a fault.
LEMMA OthersStep == ASSUME Phases, Next, ~Reconcile PROVE Kept
<1>1. CASE TakeMessage
  <2>1. CreateFault \/ DeleteFault \/ UNCHANGED fault
    BY <1>1 DEF TakeMessage, Do, processFault
  <2> QED BY <2>1 DEF CreateFault, DeleteFault, Kept
<1>2. CASE NodeEvent \/ UserDeletesFault \/ UserConfigures
  BY <1>2 DEF NodeEvent, UserDeletesFault, UserConfigures, DeleteFault, Kept
<1>3. CASE Restart
  BY <1>3 DEF Restart, Kept
<1>4. CASE \/ HardwareChanges \/ Report \/ NodeLeaves \/ NodeJoins \/ Requeue \/ ReconcileNode \/ Tick
           \/ UserManages
  BY <1>4 DEF HardwareChanges, Report, NodeLeaves, NodeJoins, Requeue, ReconcileNode, Tick, UserManages, Kept
<1> QED BY <1>1, <1>2, <1>3, <1>4 DEF Next

\* The fault controller that sees the stored node and has a try left ends a fault only
\* when its taint is gone.
LEMMA EndsClean ==
    ASSUME Typed, Phases, Owned, Reconcile, Fresh, retries < MaxRetryCount
    PROVE  Owned'
<1> DEFINE node == [seen EXCEPT !.taint = (fault = "live")]
<1>1. node \in AdminNode /\ node.managed = seen.managed /\ node.taint = (fault = "live")
  BY DEF Typed, AdminNode
<1>2. UNCHANGED seen /\ pending = <<>> /\ Admin = seen
  BY DEF Reconcile, Fresh, Admin
<1>3. \/ fault # "none" /\ Write(node) /\ FinishFault
      \/ Retry /\ UNCHANGED pending
      \/ /\ fault = "none" \/ node = seen \/ fault = "live"
         /\ FinishFault /\ UNCHANGED pending
  BY <1>2 DEF Reconcile, Fresh
<1>4. CASE fault # "none" /\ Write(node) /\ FinishFault
  <2>1. Admin' = node
    BY <1>1, <1>2, <1>4, Written
  <2> QED BY <1>1, <1>4, <2>1 DEF Owned, FinishFault, Phases
<1>5. CASE Retry /\ UNCHANGED pending
  <2>1. UNCHANGED fault
    BY <1>5 DEF Retry
  <2> QED BY <1>2, <1>5, <2>1 DEF Owned, Admin
<1>6. CASE /\ fault = "none" \/ node = seen \/ fault = "live"
           /\ FinishFault /\ UNCHANGED pending
  <2>1. Admin' = Admin
    BY <1>2, <1>6 DEF Admin
  <2>2. fault = "deleting" => ~seen.taint
    BY <1>1, <1>6
  <2> QED BY <1>2, <1>6, <2>1, <2>2 DEF Owned, FinishFault, Phases
<1> QED BY <1>3, <1>4, <1>5, <1>6

\* A taint of the admin node is left without a fault only by a fault controller whose
\* cached node is behind the stored one (removeNodeTaint) or that has used up its tries
\* (retry): messages, restarts, users and the deletion of faults may come in any order
\* and never part the two.
THEOREM TaintLifted == Spec => TaintFreed
<1> DEFINE I == Typed /\ Phases
<1>1. Init => I
  BY Begin
<1>2. I /\ [Next]_vars => I' /\ ~Orphans
  <2> SUFFICES ASSUME I, [Next]_vars PROVE I' /\ ~Orphans
    OBVIOUS
  <2>1. CASE Next
    <3>1. Typed' /\ Phases' /\ (Stays \/ Judged \/ Moved)
      BY <2>1, PhasesStep, NodeStep
    <3>2. CASE Reconcile
      BY <3>1, <3>2, EndsClean DEF Orphans
    <3>3. CASE ~Reconcile
      <4>1. Kept
        BY <2>1, <3>3, OthersStep
      <4>2. Owned => Owned'
        BY <3>1, <4>1 DEF Owned, Kept, Stays, Judged, Moved
      <4> QED BY <3>1, <4>2 DEF Orphans
    <3> QED BY <3>2, <3>3
  <2>2. CASE UNCHANGED vars
    BY <2>2 DEF vars, Typed, Phases, Orphans, Owned, Admin
  <2> QED BY <2>1, <2>2
<1> QED BY <1>1, <1>2, PTL DEF Spec, TaintFreed
=============================================================================

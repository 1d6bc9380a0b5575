----------------------- MODULE WorkloadLifecycleProofs -----------------------
(***************************************************************************)
(* The workload lifecycle, for any bounds and any kind of workload: type    *)
(* correctness; an ended workload stays ended; the loss of the object is    *)
(* not forgotten while it matters; an attempt is counted once, and the      *)
(* count agrees with the conditions and the data cluster; a preempted       *)
(* workload survives the status update.                                     *)
(*                                                                          *)
(* All rest on Inv, the types of what the controllers hold.  The loss needs *)
(* the order of the versions in the informer's cache (HistInv), that none   *)
(* of them has ended (LiveInv), and where the deletion is (NoticeInv); the  *)
(* count needs how far the version of a reconcile can be behind (CountInv), *)
(* and its record that no version is ahead of what is stored (RecordInv).   *)
(***************************************************************************)
EXTENDS WorkloadLifecycle, TLAPS

(* Operators.                                                               *)

\* Every way a controller changes a workload yields a workload.
LEMMA WorkloadUpdates ==
    ASSUME NEW w \in Workload
    PROVE  /\ \A p \in Phase : [w EXCEPT !.phase = p] \in Workload
           /\ [w EXCEPT !.sched = TRUE] \in Workload
           /\ [w EXCEPT !.preempted = TRUE] \in Workload
           /\ [w EXCEPT !.deleting = TRUE] \in Workload
           /\ \A t \in CondType, n \in Nat : AddCond(w, t, n) \in Workload
           /\ \A t \in CondType : Mark(w, t) \in Workload
           /\ \A v \in Workload : [w EXCEPT !.disp = TRUE, !.cnt = v.cnt + 1,
                                     !.preempted = @ /\ ~v.preempted] \in Workload
           /\ \A v \in Workload : [w EXCEPT !.disp = FALSE, !.sched = @ /\ ~v.sched] \in Workload
<1> USE DEF Workload, Counts
<1>1. \A t \in CondType, n \in Nat : AddCond(w, t, n) \in Workload
  BY DEF AddCond
<1>2. \A t \in CondType : Mark(w, t) \in Workload
  BY <1>1 DEF Mark, Phase
<1>3. \A p \in Phase : [w EXCEPT !.phase = p] \in Workload
  OBVIOUS
<1>4. [w EXCEPT !.sched = TRUE] \in Workload
  OBVIOUS
<1>5. [w EXCEPT !.preempted = TRUE] \in Workload
  OBVIOUS
<1>6. [w EXCEPT !.deleting = TRUE] \in Workload
  OBVIOUS
<1>7. ASSUME NEW v \in Workload
      PROVE  [w EXCEPT !.disp = TRUE, !.cnt = v.cnt + 1,
                       !.preempted = @ /\ ~v.preempted] \in Workload
  <2>1. ASSUME NEW n \in Nat, NEW b \in BOOLEAN
        PROVE  [w EXCEPT !.disp = TRUE, !.cnt = n, !.preempted = b] \in Workload
    OBVIOUS
  <2>2. v.cnt + 1 \in Nat /\ (w.preempted /\ ~v.preempted) \in BOOLEAN
    OBVIOUS
  <2> HIDE DEF Workload
  <2> QED
    BY <2>1, <2>2, Zenon
<1>8. ASSUME NEW v \in Workload
      PROVE  [w EXCEPT !.disp = FALSE, !.sched = @ /\ ~v.sched] \in Workload
  OBVIOUS
<1> HIDE DEF Workload
<1> QED
  BY <1>1, <1>2, <1>3, <1>4, <1>5, <1>6, <1>7, <1>8

\* What the syncer makes of a workload and the status of its object.
LEMMA StatusType ==
    ASSUME NEW w \in Workload, NEW n \in Nat, NEW st \in Status
    PROVE  StatusOf(w, st, n) \in Workload
<1> DEFINE v == [w EXCEPT !.phase = PhaseOf(w, st, n)]
           b == v.started \/ v.phase \notin {"new", "Pending"}
           c == IF st = "Failed" THEN v.conds \cup {<<"K8sFailed", n>>} ELSE v.conds
<1>1. PhaseOf(w, st, n) \in Phase
  BY DEF PhaseOf, Workload, Phase, Status
<1>2. v \in Workload
  BY <1>1, WorkloadUpdates
<1>3. b \in BOOLEAN /\ c \in SUBSET (CondType \X Counts)
  BY <1>2 DEF Workload, CondType, Counts
<1>4. StatusOf(w, st, n) = [v EXCEPT !.started = b, !.conds = c]
  BY Zenon DEF StatusOf
<1> HIDE DEF v, b, c
<1> QED
  BY <1>2, <1>3, <1>4 DEF Workload

\* Dropping old conditions leaves the rest of the workload as it is.
LEMMA TrimmedType ==
    ASSUME NEW w \in Workload, NEW v \in Trimmed(w)
    PROVE  /\ v \in Workload
           /\ v.phase = w.phase /\ v.disp = w.disp /\ v.cnt = w.cnt /\ v.deleting = w.deleting
           /\ v.conds \subseteq w.conds
           /\ \A c \in w.conds : ~Application \/ c[2] >= w.cnt => c \in v.conds
<1>1. CASE ~Application
  BY <1>1 DEF Trimmed
<1>2. CASE Application
  <2>1. PICK n \in 0 .. w.cnt : v = [w EXCEPT !.conds = {c \in @ : c[2] >= n}]
    BY <1>2 DEF Trimmed
  <2>2. w.cnt \in Nat /\ n \in Nat /\ n <= w.cnt
    BY DEF Workload, Counts
  <2>3. v \in Workload /\ v.conds = {c \in w.conds : c[2] >= n}
    BY <2>1 DEF Workload
  <2>4. v.phase = w.phase /\ v.disp = w.disp /\ v.cnt = w.cnt /\ v.deleting = w.deleting
    BY <2>1 DEF Workload
  <2>5. \A c \in w.conds : c[2] \in Nat
    BY DEF Workload, Counts
  <2> QED
    BY <1>2, <2>2, <2>3, <2>4, <2>5
<1> QED
  BY <1>1, <1>2

\* A write leaves a workload, or nothing, in the API server and in the watch.
LEMMA StoreType ==
    ASSUME wl \in Snapshot, watch \in Seq(Snapshot), NEW w \in Snapshot, Store(w)
    PROVE  wl' \in Snapshot /\ watch' \in Seq(Snapshot)
BY DEF Store, api

\* Merging messages, and the deletion that a message becomes.
LEMMA MergeType ==
    ASSUME NEW m \in Msg, NEW n \in Msg
    PROVE  mergeResourceMessage(m, n) \in Msg /\ AsDeleted(m) \in Msg
BY DEF mergeResourceMessage, AsDeleted, Msg, Message, Action

\* What the syncer is told about the object.
LEMMA EmitType ==
    ASSUME NEW a \in Action, NEW n \in Nat, events \in Seq(Msg), Emit(a, n)
    PROVE  events' \in Seq(Msg)
BY DEF Emit, Msg, Message, Counts

\* Deleting the object, and telling the syncer about it.
LEMMA DeleteObjectType ==
    ASSUME obj \in Object \cup {None}, events \in Seq(Msg), DeleteObject
    PROVE  obj' \in Object \cup {None} /\ events' \in Seq(Msg)
<1>1. CASE obj = None \/ obj.deleting
  BY <1>1 DEF DeleteObject
<1>2. CASE ~(obj = None \/ obj.deleting)
  <2>1. obj \in Object /\ obj' = [obj EXCEPT !.deleting = TRUE] /\ Emit("deleting", obj.cnt)
    BY <1>2 DEF DeleteObject
  <2>2. obj' \in Object /\ obj.cnt \in Nat
    BY <2>1 DEF Object, Counts
  <2> QED
    BY <2>1, <2>2, EmitType DEF Action
<1> QED
  BY <1>1, <1>2

\* A message put back merges with the one that came meanwhile.
LEMMA RestageType ==
    ASSUME smsg \in Msg, mail \in Msg \cup {None}, Restage
    PROVE  /\ mail' \in Msg
           /\ spc' = "idle" /\ ssnap' = None /\ smsg' = None /\ sstat' = None
BY MergeType DEF Restage, SyncDone

\* A failed write of the syncer leaves it idle.
LEMMA SyncErrorType ==
    ASSUME smsg \in Msg, mail \in Msg \cup {None}, SyncError
    PROVE  /\ mail' \in Msg \cup {None}
           /\ spc' = "idle" /\ ssnap' = None /\ smsg' = None /\ sstat' = None
BY RestageType DEF SyncError, SyncDone

-----------------------------------------------------------------------------
(* The type invariant, with what it needs to know about the snapshots.      *)

Inv == TypeOK /\ SnapshotInv

\* One step of the controllers or their environment keeps the invariant.
LEMMA TypeStep ==
    ASSUME Inv, [Next]_vars
    PROVE  Inv'
<1> USE NoneAssumption
<1>1. CASE DeliverWatch
  <2>1. cache' \in Snapshot /\ watch' \in Seq(Snapshot)
    BY <1>1 DEF Inv, TypeOK, DeliverWatch
  <2>2. due' \subseteq {"dispatch", "failover"}
    BY <1>1 DEF Inv, TypeOK, DeliverWatch, Updated, Created
  <2> QED
    BY <1>1, <2>1, <2>2 DEF Inv, DeliverWatch, TypeOK, SnapshotInv, sched, disp, fail, sync
<1>2. CASE DeliverEvent
  <2>1. Head(events) \in Msg /\ Tail(events) \in Seq(Msg)
    BY <1>2 DEF Inv, TypeOK, DeliverEvent
  <2>2. mail' \in Msg
    BY <1>2, <2>1, MergeType DEF Inv, TypeOK, DeliverEvent
  <2> QED
    BY <1>2, <2>1, <2>2 DEF Inv, DeliverEvent, TypeOK, SnapshotInv, api, sched, disp, fail, sync
<1>3. CASE ObjectChanges
  BY <1>3, EmitType DEF Inv, ObjectChanges, TypeOK, SnapshotInv, Object, Counts, Action, api, sched, disp, fail, sync
<1>4. CASE ObjectGone
  BY <1>4, EmitType DEF Inv, ObjectGone, TypeOK, SnapshotInv, Object, Counts, Action, api, sched, disp, fail, sync
<1>5. CASE ExternalDelete
  <2>1. obj' \in Object \cup {None} /\ events' \in Seq(Msg)
    BY <1>5, DeleteObjectType DEF Inv, ExternalDelete, TypeOK
  <2> QED
    <3>1. budget' \in [preempts : Nat, faults : Nat, external : Nat, crashes : Nat]
      BY <1>5 DEF Inv, TypeOK, ExternalDelete
    <3>2. UNCHANGED <<api, cache, due, mail, sched, disp, fail, sync, tpc>>
      BY <1>5 DEF ExternalDelete
    <3> QED
      BY <2>1, <3>1, <3>2 DEF Inv, TypeOK, SnapshotInv, IsEnd, api, sched, disp, fail, sync
<1>6. CASE SchedPick
  BY <1>6 DEF Inv, SchedPick, TypeOK, SnapshotInv, api, disp, fail, sync
<1>7. CASE SchedStatus
  <2>1. UNCHANGED api \/ \E w \in Snapshot : Store(w)
    BY <1>7, WorkloadUpdates DEF Inv, TypeOK, SnapshotInv, Snapshot, SchedStatus, Guarded, CondType
  <2>2. wl' \in Snapshot /\ watch' \in Seq(Snapshot)
    BY <2>1, StoreType DEF Inv, TypeOK, api
  <2> QED
    BY <1>7, <2>2 DEF Inv, SchedStatus, TypeOK, SnapshotInv, Snapshot, disp, fail, sync
<1>8. CASE SchedAnnotate
  <2>1. UNCHANGED api \/ \E w \in Snapshot : Store(w)
    BY <1>8, WorkloadUpdates DEF Inv, TypeOK, SnapshotInv, Snapshot, SchedAnnotate
  <2>2. wl' \in Snapshot /\ watch' \in Seq(Snapshot)
    BY <2>1, StoreType DEF Inv, TypeOK, api
  <2> QED
    BY <1>8, <2>2 DEF Inv, SchedAnnotate, TypeOK, SnapshotInv, Snapshot, disp, fail, sync
<1>9. CASE Preempt
  <2>1. UNCHANGED api \/ \E w \in Snapshot : Store(w)
    BY <1>9, WorkloadUpdates DEF Inv, TypeOK, SnapshotInv, Snapshot, Preempt, Guarded
  <2>2. wl' \in Snapshot /\ watch' \in Seq(Snapshot)
    BY <2>1, StoreType DEF Inv, TypeOK, api
  <2> QED
    BY <1>9, <2>2 DEF Inv, Preempt, TypeOK, SnapshotInv, sched, disp, fail, sync
<1>10. CASE SchedDelete
  <2>1. xsnap' \in Snapshot /\ obj' \in Object \cup {None} /\ events' \in Seq(Msg)
    BY <1>10, DeleteObjectType DEF Inv, TypeOK, SchedDelete
  <2> QED
    BY <1>10, <2>1 DEF Inv, SchedDelete, TypeOK, SnapshotInv, mark, api, disp, fail, sync
<1>11. CASE DispatchRead
  BY <1>11 DEF Inv, DispatchRead, TypeOK, SnapshotInv, Snapshot, api, sched, disp, fail, sync
<1>12. CASE DispatchObject
  <2>1. dsnap.cnt + 1 \in Nat
    BY <1>12 DEF Inv, TypeOK, SnapshotInv, DispatchObject, Snapshot, Workload, Counts
  <2>2. obj' \in Object \cup {None} /\ events' \in Seq(Msg)
    <3>1. CASE obj # None
      BY <1>12, <3>1 DEF Inv, TypeOK, DispatchObject
    <3>2. CASE obj = None
      <4>1. /\ obj' = [cnt |-> dsnap.cnt + 1, st |-> "Pending", deleting |-> FALSE]
            /\ Emit("add", dsnap.cnt + 1)
        BY <1>12, <3>2 DEF DispatchObject
      <4>2. obj' \in Object
        BY <2>1, <4>1 DEF Object, Counts
      <4> QED
        BY <2>1, <4>1, <4>2, EmitType DEF Inv, TypeOK, Action
    <3> QED
      BY <3>1, <3>2
  <2> QED
    BY <1>12, <2>2 DEF Inv, DispatchObject, TypeOK, SnapshotInv, api, sched, fail, sync
<1>13. CASE DispatchFails
  <2>1. UNCHANGED api \/ \E w \in Snapshot : Store(w)
    BY <1>13, WorkloadUpdates DEF Inv, TypeOK, SnapshotInv, Snapshot, DispatchFails, Guarded, Phase
  <2>2. wl' \in Snapshot /\ watch' \in Seq(Snapshot)
    BY <2>1, StoreType DEF Inv, TypeOK, api
  <2> QED
    BY <1>13, <2>2 DEF Inv, DispatchFails, TypeOK, SnapshotInv, Snapshot, sched, fail, sync
<1>14. CASE DispatchMark
  <2>1. UNCHANGED api \/ \E w \in Snapshot : Store(w)
    BY <1>14, WorkloadUpdates DEF Inv, TypeOK, SnapshotInv, Snapshot, DispatchMark, Guarded, CondType
  <2>2. wl' \in Snapshot /\ watch' \in Seq(Snapshot)
    BY <2>1, StoreType DEF Inv, TypeOK, api
  <2> QED
    <3>1. Mark(dsnap, "AdminDispatched") \in Workload
      BY <1>14, WorkloadUpdates DEF Inv, TypeOK, SnapshotInv, Snapshot, DispatchMark, CondType
    <3>2. dsnap' \in Snapshot /\ (dpc' # "idle" => dsnap' # None)
      BY <1>14, <3>1 DEF Inv, TypeOK, SnapshotInv, Snapshot, DispatchMark
    <3>3. due' \subseteq {"dispatch", "failover"} /\ dpc' \in {"idle", "annotate"}
      BY <1>14 DEF Inv, TypeOK, DispatchMark
    <3>4. UNCHANGED <<cache, obj, events, mail, sched, fail, sync, tpc, budget>>
      BY <1>14 DEF DispatchMark
    <3> QED
      BY <2>2, <3>2, <3>3, <3>4 DEF Inv, TypeOK, SnapshotInv, IsEnd, sched, fail, sync
<1>15. CASE DispatchAnnotate
  <2>1. UNCHANGED api \/ \E w \in Snapshot : Store(w)
    <3>1. dsnap \in Workload
      BY <1>15 DEF Inv, TypeOK, SnapshotInv, Snapshot, DispatchAnnotate
    <3>2. ASSUME wl # None
          PROVE  [wl EXCEPT !.disp = TRUE, !.cnt = dsnap.cnt + 1,
                            !.preempted = @ /\ ~dsnap.preempted] \in Workload
      BY <3>1, <3>2, WorkloadUpdates, Zenon DEF Inv, TypeOK, Snapshot
    <3> QED
      BY <1>15, <3>2 DEF Snapshot, DispatchAnnotate
  <2>2. wl' \in Snapshot /\ watch' \in Seq(Snapshot)
    BY <2>1, StoreType DEF Inv, TypeOK, api
  <2> QED
    BY <1>15, <2>2 DEF Inv, DispatchAnnotate, TypeOK, SnapshotInv, Snapshot, sched, fail, sync
<1>16. CASE FailoverRead
  BY <1>16 DEF Inv, FailoverRead, TypeOK, SnapshotInv, Snapshot, api, sched, disp, fail, sync
<1>17. CASE FailoverDelete
  BY <1>17, DeleteObjectType DEF Inv, FailoverDelete, TypeOK, SnapshotInv, api, sched, disp, sync
<1>18. CASE FailoverMark
  <2>1. UNCHANGED api \/ \E w \in Snapshot : Store(w)
    <3>1. fsnap \in Workload /\ fsnap.cnt \in Nat
      BY <1>18 DEF Inv, TypeOK, SnapshotInv, Snapshot, FailoverMark, Workload, Counts
    <3>2. AddCond(fsnap, "AdminFailover", fsnap.cnt) \in Snapshot
      BY <3>1, WorkloadUpdates DEF Snapshot, CondType
    <3> QED
      BY <1>18, <3>2 DEF FailoverMark, Guarded, api
  <2>2. wl' \in Snapshot /\ watch' \in Seq(Snapshot)
    BY <2>1, StoreType DEF Inv, TypeOK, api
  <2>3. due' \subseteq {"dispatch", "failover"}
    BY <1>18 DEF Inv, TypeOK, FailoverMark
  <2>4. /\ UNCHANGED <<cache, obj, events, mail, sched, disp, sync, tpc, budget>>
        /\ fpc' = "idle" /\ fsnap' = None
    BY <1>18 DEF FailoverMark
  <2> QED
    BY <2>2, <2>3, <2>4 DEF Inv, TypeOK, SnapshotInv, Snapshot, IsEnd, sched, disp, sync
<1>19. CASE FaultEvent
  <2>1. UNCHANGED api \/ \E w \in Snapshot : Store(w)
    <3>1. cache \in Workload /\ cache.cnt \in Nat
      BY <1>19 DEF Inv, TypeOK, Snapshot, FaultEvent, Workload, Counts
    <3>2. AddCond(cache, "AdminFailover", cache.cnt) \in Snapshot
      BY <3>1, WorkloadUpdates DEF Snapshot, CondType
    <3> QED
      BY <1>19, <3>2 DEF FaultEvent, Guarded, api
  <2>2. wl' \in Snapshot /\ watch' \in Seq(Snapshot)
    BY <2>1, StoreType DEF Inv, TypeOK, api
  <2>3. /\ due' \subseteq {"dispatch", "failover"}
        /\ budget' \in [preempts : Nat, faults : Nat, external : Nat, crashes : Nat]
    BY <1>19 DEF Inv, TypeOK, FaultEvent
  <2>4. UNCHANGED <<cache, obj, events, mail, sched, disp, fail, sync, tpc>>
    BY <1>19 DEF FaultEvent
  <2> QED
    BY <2>2, <2>3, <2>4 DEF Inv, TypeOK, SnapshotInv, IsEnd, sched, disp, fail, sync
<1>20. CASE SyncRead
  <2>1. CASE cache = None /\ SyncDone
    BY <1>20, <2>1 DEF Inv, SyncRead, TypeOK, SnapshotInv, SyncDone, api, sched, disp, fail
  <2>2. CASE cache # None /\ cache.disp /\ IsEnd(cache) /\ spc' = "decide"
             /\ ssnap' = cache /\ smsg' = mail /\ sstat' = None
    BY <1>20, <2>2 DEF Inv, SyncRead, TypeOK, SnapshotInv, api, sched, disp, fail
  <2>3. CASE /\ cache # None /\ cache.disp /\ ~IsEnd(cache)
             /\ spc' = "update" /\ ssnap' = cache
             /\ smsg' = IF obj = None THEN AsDeleted(mail) ELSE mail
             /\ sstat' = IF smsg'.action = "delete" THEN "Deleted" ELSE obj.st
    <3>1. mail \in Msg
      BY <1>20 DEF Inv, TypeOK, SyncRead
    <3>2. smsg' \in Msg /\ smsg' # None
      BY <2>3, <3>1, MergeType
    <3>3. obj = None => smsg'.action = "delete"
      BY <2>3, <3>1 DEF AsDeleted, Msg, Message
    <3>4. obj # None => obj.st \in Status
      BY DEF Inv, TypeOK, Object, Status
    <3>5. sstat' \in Status /\ sstat' # None
      BY <2>3, <3>3, <3>4 DEF Status
    <3>6. ~IsEnd(ssnap)'
      BY <2>3 DEF IsEnd
    <3> QED
      BY <1>20, <2>3, <3>2, <3>5, <3>6 DEF Inv, SyncRead, TypeOK, SnapshotInv, api, sched, disp, fail
  <2> QED
    BY <1>20, <2>1, <2>2, <2>3 DEF SyncRead
<1>21. CASE SyncUpdate
  <2>0. PICK new \in Trimmed(StatusOf(ssnap, sstat, smsg.cnt)) :
               \/ /\ new = ssnap \/ wl = ssnap
                  /\ new # ssnap => Guarded(ssnap, new)
                  /\ new = ssnap => UNCHANGED api
                  /\ spc' = "decide" /\ ssnap' = new
                  /\ UNCHANGED <<mail, smsg, sstat>>
               \/ Conflict(ssnap) /\ SyncError /\ UNCHANGED api
    BY <1>21 DEF SyncUpdate
  <2>1. ssnap \in Workload /\ sstat \in Status /\ smsg \in Msg /\ smsg.cnt \in Nat
    BY <1>21 DEF Inv, TypeOK, SnapshotInv, Snapshot, SyncUpdate, Msg, Message, Counts
  <2>2. new \in Workload
    BY <2>0, <2>1, StatusType, TrimmedType
  <2>3. CASE /\ new = ssnap \/ wl = ssnap
             /\ new # ssnap => Guarded(ssnap, new)
             /\ new = ssnap => UNCHANGED api
             /\ spc' = "decide" /\ ssnap' = new
             /\ UNCHANGED <<mail, smsg, sstat>>
    <3>1. wl' \in Snapshot /\ watch' \in Seq(Snapshot)
      BY <2>2, <2>3, StoreType DEF Inv, TypeOK, Guarded, Snapshot, api
    <3> QED
      BY <1>21, <2>1, <2>2, <2>3, <3>1 DEF Inv, SyncUpdate, TypeOK, SnapshotInv, Snapshot, sched, disp, fail
  <2>4. CASE Conflict(ssnap) /\ SyncError /\ UNCHANGED api
    BY <1>21, <2>1, <2>4, SyncErrorType DEF Inv, SyncUpdate, TypeOK, SnapshotInv, Snapshot, api, sched, disp, fail
  <2> QED
    BY <2>0, <2>3, <2>4
<1>22. CASE SyncDecide
  <2>0. \A new \in Trimmed([ssnap EXCEPT !.phase = "Pending"]) : new \in Workload
    BY <1>22, WorkloadUpdates, TrimmedType DEF Inv, TypeOK, SnapshotInv, Snapshot, SyncDecide, Phase
  <2>1. UNCHANGED api \/ \E w \in Snapshot : Store(w)
    BY <1>22, <2>0 DEF Snapshot, SyncDecide, Guarded
  <2>2. wl' \in Snapshot /\ watch' \in Seq(Snapshot)
    BY <2>1, StoreType DEF Inv, TypeOK, api
  <2> QED
    <3>1. ssnap \in Workload /\ smsg \in Msg
      BY <1>22 DEF Inv, TypeOK, SnapshotInv, Snapshot, SyncDecide
    <3>3. CASE Restage
      BY <1>22, <2>2, <3>1, <3>3, RestageType DEF Inv, SyncDecide, TypeOK, SnapshotInv, Snapshot, sched, disp, fail
    <3>4. CASE SyncDone /\ UNCHANGED mail
      BY <1>22, <2>2, <3>4 DEF Inv, SyncDecide, TypeOK, SnapshotInv, Snapshot, SyncDone, sched, disp, fail
    <3>5. CASE /\ spc' = "annotate" /\ UNCHANGED <<smsg, sstat, mail>>
               /\ ssnap' \in {ssnap} \cup Trimmed([ssnap EXCEPT !.phase = "Pending"])
      <4>1. ssnap' \in Workload
        BY <2>0, <3>1, <3>5
      <4> QED
        BY <1>22, <2>2, <3>1, <3>5, <4>1 DEF Inv, SyncDecide, TypeOK, SnapshotInv, Snapshot, sched, disp, fail
    <3>6. CASE SyncError
      BY <1>22, <2>2, <3>1, <3>6, SyncErrorType DEF Inv, SyncDecide, TypeOK, SnapshotInv, Snapshot, sched, disp, fail
    <3> QED
      BY <1>22, <3>3, <3>4, <3>5, <3>6 DEF SyncDecide
<1>23. CASE SyncAnnotate
  <2>1. UNCHANGED api \/ \E w \in Snapshot : Store(w)
    <3>1. ssnap \in Workload
      BY <1>23 DEF Inv, TypeOK, SnapshotInv, Snapshot, SyncAnnotate
    <3>2. ASSUME wl # None
          PROVE  [wl EXCEPT !.disp = FALSE, !.sched = @ /\ ~ssnap.sched] \in Workload
      BY <3>1, <3>2, WorkloadUpdates, Zenon DEF Inv, TypeOK, Snapshot
    <3> QED
      BY <1>23, <3>2 DEF Snapshot, SyncAnnotate
  <2>2. wl' \in Snapshot /\ watch' \in Seq(Snapshot)
    BY <2>1, StoreType DEF Inv, TypeOK, api
  <2> QED
    <3>1. smsg \in Msg
      BY <1>23 DEF Inv, TypeOK, SnapshotInv, SyncAnnotate
    <3>2. CASE SyncError
      BY <1>23, <2>2, <3>1, <3>2, SyncErrorType DEF Inv, SyncAnnotate, TypeOK, SnapshotInv, Snapshot, sched, disp, fail
    <3>3. CASE SyncDone /\ UNCHANGED mail
      BY <1>23, <2>2, <3>3 DEF Inv, SyncAnnotate, TypeOK, SnapshotInv, Snapshot, SyncDone, sched, disp, fail
    <3> QED
      BY <1>23, <3>2, <3>3 DEF SyncAnnotate
<1>24. CASE TTLStop
  <2>1. UNCHANGED api \/ \E w \in Snapshot : Store(w)
    BY <1>24, WorkloadUpdates DEF Inv, TypeOK, SnapshotInv, Snapshot, TTLStop, Guarded, Phase
  <2>2. wl' \in Snapshot /\ watch' \in Seq(Snapshot)
    BY <2>1, StoreType DEF Inv, TypeOK, api
  <2> QED
    BY <1>24, <2>2 DEF Inv, TTLStop, TypeOK, SnapshotInv, sched, disp, fail, sync
<1>25. CASE TTLDelete
  <2>1. UNCHANGED api \/ \E w \in Snapshot : Store(w)
    BY <1>25, WorkloadUpdates DEF Inv, TypeOK, SnapshotInv, Snapshot, TTLDelete, Delete
  <2>2. wl' \in Snapshot /\ watch' \in Seq(Snapshot)
    BY <2>1, StoreType DEF Inv, TypeOK, api
  <2> QED
    BY <1>25, <2>2 DEF Inv, TTLDelete, TypeOK, SnapshotInv, sched, disp, fail, sync
<1>26. CASE UserDelete
  <2>1. UNCHANGED api \/ \E w \in Snapshot : Store(w)
    BY <1>26, WorkloadUpdates DEF Inv, TypeOK, SnapshotInv, Snapshot, UserDelete, Delete
  <2>2. wl' \in Snapshot /\ watch' \in Seq(Snapshot)
    BY <2>1, StoreType DEF Inv, TypeOK, api
  <2> QED
    BY <1>26, <2>2 DEF Inv, UserDelete, TypeOK, SnapshotInv, sched, disp, fail, sync
<1>27. CASE Restart
  <2>1. due' \subseteq {"dispatch", "failover"}
    BY <1>27 DEF Restart, Created
  <2>2. events' \in Seq(Msg)
    <3>1. ASSUME obj # None
          PROVE  [action |-> IF obj.deleting THEN "deleting" ELSE "add", cnt |-> obj.cnt] \in Msg
      BY <3>1 DEF Inv, TypeOK, Object, Msg, Message, Action
    <3> QED
      BY <1>27, <3>1 DEF Restart
  <2>3. budget' \in [preempts : Nat, faults : Nat, external : Nat, crashes : Nat]
    BY <1>27 DEF Inv, TypeOK, Restart
  <2> QED
    BY <1>27, <2>1, <2>2, <2>3 DEF Inv, Restart, TypeOK, SnapshotInv, Snapshot, SyncDone
<1>28. CASE SyncFails
  <2>1. ssnap \in Workload /\ smsg \in Msg
    BY <1>28 DEF Inv, TypeOK, SnapshotInv, Snapshot, SyncFails
  <2>2. [ssnap EXCEPT !.phase = "Failed"] \in Workload
    BY <2>1, WorkloadUpdates DEF Phase
  <2>3. CASE Guarded(ssnap, [ssnap EXCEPT !.phase = "Failed"]) /\ SyncDone /\ UNCHANGED mail
    <3>1. wl' \in Snapshot /\ watch' \in Seq(Snapshot)
      BY <2>2, <2>3, StoreType DEF Inv, TypeOK, Guarded, Snapshot
    <3> QED
      BY <1>28, <2>3, <3>1 DEF Inv, SyncFails, TypeOK, SnapshotInv, Snapshot, SyncDone, sched, disp, fail
  <2>4. CASE Conflict(ssnap) /\ SyncError /\ UNCHANGED api
    BY <1>28, <2>1, <2>4, SyncErrorType DEF Inv, SyncFails, TypeOK, SnapshotInv, Snapshot, api, sched, disp, fail
  <2> QED
    BY <1>28, <2>3, <2>4 DEF SyncFails
<1>29. CASE DispatchRetry
  <2>1. due' \subseteq {"dispatch", "failover"}
    BY <1>29 DEF Inv, TypeOK, DispatchRetry
  <2> QED
    BY <1>29, <2>1 DEF Inv, DispatchRetry, TypeOK, SnapshotInv, Snapshot, api, sched, fail, sync
<1>31. CASE SchedFinalize
  <2>1. UNCHANGED api \/ \E w \in Snapshot : Store(w)
    BY <1>31 DEF Snapshot, SchedFinalize, Guarded
  <2>2. wl' \in Snapshot /\ watch' \in Seq(Snapshot)
    BY <2>1, StoreType DEF Inv, TypeOK, api
  <2> QED
    BY <1>31, <2>2 DEF Inv, SchedFinalize, TypeOK, SnapshotInv, Snapshot, mark, disp, fail, sync
<1>30. CASE UNCHANGED vars
  BY <1>30 DEF Inv, vars, TypeOK, SnapshotInv, IsEnd, IsWorkloadPhaseEnded
<1> QED
  BY <1>1, <1>2, <1>3, <1>4, <1>5, <1>6, <1>7, <1>8, <1>9, <1>10, <1>11, <1>12, <1>13, <1>14,
     <1>15, <1>16, <1>17, <1>18, <1>19, <1>20, <1>21, <1>22, <1>23, <1>24, <1>25, <1>26, <1>27, <1>28, <1>29, <1>30, <1>31
     DEF Next, Scheduler, Dispatcher, Failover, Syncer, TTL

\* The initial state has the invariant.
LEMMA TypeInit == Init => Inv
<1> SUFFICES ASSUME Init PROVE Inv
  OBVIOUS
<1>1. Fresh \in Workload
  BY DEF Fresh, Workload, Phase, Counts
<1>2. budget \in [preempts : Nat, faults : Nat, external : Nat, crashes : Nat]
  BY LifecycleAssumption DEF Init
<1> QED
  BY <1>1, <1>2 DEF Init, Inv, TypeOK, SnapshotInv, Snapshot

\* Type correctness: whatever the five controllers, the data cluster, the user
\* and a restart do, every snapshot is a workload some version of the API
\* server held or computed from it, and every message one the syncer can merge.
THEOREM TypeCorrect == Spec => []TypeOK
<1>1. Inv => TypeOK
  BY DEF Inv
<1> QED
  BY <1>1, TypeInit, TypeStep, PTL DEF Spec

-----------------------------------------------------------------------------
(* An ended workload stays ended.                                           *)

\* What is stored is the workload from then on.
LEMMA StoreWrites ==
    ASSUME NEW w, Store(w)
    PROVE  wl' = w
BY DEF Store, api

\* The writes that do not touch the phase of a workload, or only a missing one.
LEMMA PhaseKept ==
    ASSUME NEW w \in Workload, NEW n, NEW t
    PROVE  /\ [w EXCEPT !.sched = TRUE].phase = w.phase
           /\ [w EXCEPT !.preempted = TRUE].phase = w.phase
           /\ [w EXCEPT !.deleting = TRUE].phase = w.phase
           /\ AddCond(w, t, n).phase = w.phase
           /\ w.phase # "new" => Mark(w, t).phase = w.phase
BY DEF Workload, AddCond, Mark

\* Of all steps, those that write a phase start from a workload that had not
\* ended, or write an ended phase.
LEMMA EndedStep ==
    ASSUME Inv, [Next]_vars, Ended, wl' # None
    PROVE  Ended'
<1>1. wl \in Workload /\ IsWorkloadPhaseEnded(wl.phase) /\ wl.phase # "new"
  BY DEF Inv, TypeOK, Snapshot, Ended, IsWorkloadPhaseEnded
<1>2. ASSUME wl'.phase = wl.phase PROVE Ended'
  BY <1>1, <1>2 DEF Ended
<1>3. ASSUME UNCHANGED wl PROVE Ended'
  BY <1>2, <1>3
<1> USE DEF api
<1>4. CASE SchedStatus
  BY <1>1, <1>2, <1>3, <1>4, StoreWrites, PhaseKept DEF SchedStatus, Guarded
<1>5. CASE SchedAnnotate
  BY <1>1, <1>2, <1>3, <1>5, StoreWrites, PhaseKept DEF SchedAnnotate
<1>6. CASE Preempt
  BY <1>1, <1>2, <1>3, <1>6, StoreWrites, PhaseKept DEF Preempt, Guarded
<1>7. CASE SchedDelete \/ SchedFinalize
  BY <1>3, <1>7, StoreWrites DEF SchedDelete, SchedFinalize, Guarded
<1>8. CASE DispatchFails
  BY <1>1, <1>3, <1>8, StoreWrites DEF DispatchFails, Guarded, Ended, IsWorkloadPhaseEnded, Workload
<1>9. CASE DispatchMark
  BY <1>1, <1>2, <1>3, <1>9, StoreWrites, PhaseKept DEF DispatchMark, Guarded
<1>10. CASE DispatchAnnotate
  <2> DEFINE new == [wl EXCEPT !.disp = TRUE, !.cnt = dsnap.cnt + 1,
                               !.preempted = @ /\ ~dsnap.preempted]
  <2>1. new.phase = wl.phase
    BY <1>1 DEF Workload
  <2>2. UNCHANGED api \/ Store(new)
    BY <1>10 DEF DispatchAnnotate
  <2> HIDE DEF new
  <2> QED
    BY <1>2, <1>3, <2>1, <2>2, StoreWrites
<1>11. CASE FailoverMark
  BY <1>1, <1>2, <1>3, <1>11, StoreWrites, PhaseKept DEF FailoverMark, Guarded
<1>12. CASE FaultEvent
  BY <1>1, <1>2, <1>3, <1>12, StoreWrites, PhaseKept DEF FaultEvent, Guarded
<1>13. CASE SyncUpdate
  <2>1. wl # ssnap
    BY <1>1, <1>13 DEF Inv, SnapshotInv, SyncUpdate, IsEnd
  <2> QED
    BY <1>3, <1>13, <2>1 DEF SyncUpdate, Guarded
<1>14. CASE SyncDecide
  <2>1. CASE UNCHANGED api
    BY <1>3, <2>1
  <2>2. CASE shouldReSchedule /\ wl = ssnap
    BY <1>1, <2>2 DEF shouldReSchedule, IsEnd
  <2> QED
    BY <1>14, <2>1, <2>2 DEF SyncDecide, Guarded
<1>15. CASE SyncAnnotate
  <2> DEFINE new == [wl EXCEPT !.disp = FALSE, !.sched = @ /\ ~ssnap.sched]
  <2>1. new.phase = wl.phase
    BY <1>1 DEF Workload
  <2>2. UNCHANGED api \/ Store(new)
    BY <1>15 DEF SyncAnnotate
  <2> HIDE DEF new
  <2> QED
    BY <1>2, <1>3, <2>1, <2>2, StoreWrites
<1>16. CASE TTLStop
  BY <1>1, <1>16 DEF TTLStop, Guarded, IsEnd
<1>17. CASE TTLDelete \/ UserDelete
  BY <1>1, <1>2, <1>3, <1>17, StoreWrites, PhaseKept DEF TTLDelete, UserDelete, Delete
<1>18. CASE DeliverWatch \/ DeliverEvent \/ ObjectChanges \/ ObjectGone \/ ExternalDelete \/ SchedPick
  BY <1>3, <1>18 DEF DeliverWatch, DeliverEvent, ObjectChanges, ObjectGone, ExternalDelete, SchedPick
<1>19. CASE DispatchRead \/ DispatchObject \/ DispatchRetry \/ FailoverRead \/ FailoverDelete \/ SyncRead \/ Restart
  BY <1>3, <1>19 DEF DispatchRead, DispatchObject, DispatchRetry, FailoverRead, FailoverDelete, SyncRead, Restart
<1>20. CASE UNCHANGED vars
  BY <1>3, <1>20 DEF vars
<1>21. CASE SyncFails
  <2>1. wl # ssnap
    BY <1>1, <1>21 DEF Inv, SnapshotInv, SyncFails, IsEnd
  <2> QED
    BY <1>3, <1>21, <2>1 DEF SyncFails, Guarded
<1> QED
  BY <1>4, <1>5, <1>6, <1>7, <1>8, <1>9, <1>10, <1>11, <1>12, <1>13, <1>14, <1>15, <1>16,
     <1>17, <1>18, <1>19, <1>20, <1>21
     DEF Next, Scheduler, Dispatcher, Failover, Syncer, TTL

\* No controller revives an ended workload: for any number of retries, any lag
\* of the informer cache and any number of restarts, a workload in a terminal
\* phase leaves the terminal phases only by being removed.
THEOREM EndedForGood == Spec => NoResurrection
<1>1. Inv /\ [Next]_vars => [Ended /\ wl' # None => Ended']_vars
  BY EndedStep
<1> QED
  BY <1>1, TypeInit, TypeStep, PTL DEF Spec, NoResurrection

-----------------------------------------------------------------------------
(* The versions of the workload, and which step may write what.             *)

Working == wl # None /\ ~IsEnd(wl)

\* The versions the informer cache shows and will show, the oldest first.
Versions == 0 .. Len(watch)
Ver(i) == IF i = 0 THEN cache ELSE watch[i]

\* The last version is the stored one, and a workload that is gone stays gone.
HistInv ==
    /\ Ver(Len(watch)) = wl
    /\ wl # None => \A i \in Versions : Ver(i) # None

\* The conditions of v that nobody has dropped are still there in w.
Keeps(v, w) == \A c \in v.conds : ~Application \/ c[2] >= w.cnt => c \in w.conds

\* A write by anyone but markAsDispatched: it neither counts nor dispatches the
\* workload, keeps its conditions and marks no attempt as dispatched.
Kept(w) ==
    /\ w.cnt = wl.cnt /\ (w.disp => wl.disp)
    /\ Keeps(wl, w)
    /\ \A n \in Nat : <<"AdminDispatched", n>> \in w.conds => <<"AdminDispatched", n>> \in wl.conds
    /\ wl.deleting => w.deleting

\* A store changes nothing, or adds one version behind the others.
LEMMA StoreVersions ==
    ASSUME Inv, NEW w, Store(w), cache' = cache
    PROVE  \/ w = wl /\ watch' = watch
           \/ /\ w # wl /\ Len(watch') = Len(watch) + 1
              /\ \A i \in Versions' : Ver(i)' = IF i \in Versions THEN Ver(i) ELSE w
<1>1. watch \in Seq(Snapshot)
  BY DEF Inv, TypeOK
<1>2. CASE w = wl
  BY <1>2 DEF Store, api
<1>3. CASE w # wl /\ watch' = Append(watch, w)
  <2>1. Len(watch') = Len(watch) + 1 /\ watch'[Len(watch) + 1] = w
    BY <1>1, <1>3
  <2>2. \A i \in 1 .. Len(watch) : watch'[i] = watch[i]
    BY <1>1, <1>3
  <2> QED
    BY <1>1, <1>3, <2>1, <2>2 DEF Ver, Versions
<1> QED
  BY <1>2, <1>3 DEF Store

\* A delivery drops the oldest version.
LEMMA DeliverVersions ==
    ASSUME Inv, DeliverWatch
    PROVE  /\ Len(watch) > 0 /\ Len(watch') = Len(watch) - 1
           /\ \A i \in Versions' : i + 1 \in Versions /\ Ver(i)' = Ver(i + 1)
BY DEF DeliverWatch, Ver, Versions, Inv, TypeOK

\* The ways the controllers change a workload, one by one.
LEMMA KeptUpdates ==
    ASSUME wl \in Workload
    PROVE  /\ \A p \in Phase : Kept([wl EXCEPT !.phase = p])
           /\ Kept([wl EXCEPT !.sched = TRUE])
           /\ Kept([wl EXCEPT !.preempted = TRUE])
           /\ Kept([wl EXCEPT !.deleting = TRUE])
           /\ Kept(AddCond(wl, "AdminFailover", wl.cnt))
           /\ Kept(Mark(wl, "AdminScheduled"))
           /\ \A b \in BOOLEAN : Kept([wl EXCEPT !.disp = FALSE, !.sched = b])
           /\ \A st \in Status, n \in Nat : \A w \in Trimmed(StatusOf(wl, st, n)) : Kept(w)
           /\ \A w \in Trimmed([wl EXCEPT !.phase = "Pending"]) : Kept(w)
<1> USE DEF Workload, Kept, Keeps, AddCond, Counts
<1>1. \A p \in Phase : Kept([wl EXCEPT !.phase = p])
  OBVIOUS
<1>2. Kept([wl EXCEPT !.sched = TRUE])
  OBVIOUS
<1>3. Kept([wl EXCEPT !.preempted = TRUE])
  OBVIOUS
<1>4. Kept([wl EXCEPT !.deleting = TRUE])
  OBVIOUS
<1>5. Kept(AddCond(wl, "AdminFailover", wl.cnt))
  OBVIOUS
<1>6. Kept(Mark(wl, "AdminScheduled"))
  BY DEF Mark
<1>7. \A b \in BOOLEAN : Kept([wl EXCEPT !.disp = FALSE, !.sched = b])
  OBVIOUS
<1>8. ASSUME NEW st \in Status, NEW n \in Nat
      PROVE  Kept(StatusOf(wl, st, n)) /\ StatusOf(wl, st, n).cnt = wl.cnt
  BY DEF StatusOf
<1>9. ASSUME NEW v \in Workload, Kept(v), NEW w \in Trimmed(v)
      PROVE  Kept(w)
  <2>1. /\ w.disp = v.disp /\ w.cnt = v.cnt /\ w.deleting = v.deleting /\ w.conds \subseteq v.conds
        /\ \A c \in v.conds : ~Application \/ c[2] >= v.cnt => c \in w.conds
    BY <1>9, TrimmedType
  <2> QED
    BY <1>9, <2>1
<1>10. [wl EXCEPT !.phase = "Pending"] \in Workload /\ Kept([wl EXCEPT !.phase = "Pending"])
  BY <1>1 DEF Phase
<1>11. \A st \in Status, n \in Nat : StatusOf(wl, st, n) \in Workload
  BY StatusType
<1> HIDE DEF Workload, Kept, Keeps, AddCond, Counts
<1> QED
  BY <1>1, <1>2, <1>3, <1>4, <1>5, <1>6, <1>7, <1>8, <1>9, <1>10, <1>11

\* Whoever else writes the workload writes one of these, and only to one that is there.
LEMMA Writes ==
    ASSUME Inv, [Next]_vars, ~DispatchMark, ~DispatchAnnotate, ~DeliverWatch, ~Restart
    PROVE  /\ cache' = cache
           /\ UNCHANGED api \/ \E w \in Snapshot : Store(w) /\ wl # None /\ (w # None => Kept(w))
<1> DEFINE Goal == /\ cache' = cache
                   /\ \/ UNCHANGED api
                      \/ \E w \in Snapshot : Store(w) /\ wl # None /\ (w # None => Kept(w))
<1> USE NoneAssumption DEF Snapshot
<1>1. wl \in Workload \cup {None}
  BY DEF Inv, TypeOK
<1>2. CASE SchedStatus
  BY <1>1, <1>2, KeptUpdates, WorkloadUpdates DEF SchedStatus, Guarded, CondType, Inv, SnapshotInv
<1>3. CASE SchedAnnotate
  BY <1>1, <1>3, KeptUpdates, WorkloadUpdates DEF SchedAnnotate
<1>4. CASE Preempt
  BY <1>1, <1>4, KeptUpdates, WorkloadUpdates DEF Preempt, Guarded
<1>5. CASE SchedDelete \/ SchedFinalize
  BY <1>1, <1>5 DEF SchedDelete, SchedFinalize, Guarded
<1>6. CASE DispatchFails
  BY <1>1, <1>6, KeptUpdates, WorkloadUpdates DEF DispatchFails, Guarded, Phase, Inv, SnapshotInv
<1>7. CASE FailoverMark
  <2>1. CASE UNCHANGED api
    BY <1>7, <2>1 DEF FailoverMark
  <2>2. CASE Guarded(fsnap, AddCond(fsnap, "AdminFailover", fsnap.cnt))
    <3>1. wl = fsnap /\ wl \in Workload /\ wl.cnt \in Nat
      BY <1>1, <1>7, <2>2 DEF FailoverMark, Guarded, Inv, SnapshotInv, Workload, Counts
    <3>2. AddCond(wl, "AdminFailover", wl.cnt) \in Workload
      BY <3>1, WorkloadUpdates DEF CondType
    <3> QED
      BY <1>7, <2>2, <3>1, <3>2, KeptUpdates DEF FailoverMark, Guarded
  <2> QED
    BY <1>7, <2>1, <2>2 DEF FailoverMark, api
<1>8. CASE FaultEvent
  <2>1. CASE UNCHANGED api
    BY <1>8, <2>1 DEF FaultEvent
  <2>2. CASE Guarded(cache, AddCond(cache, "AdminFailover", cache.cnt))
    <3>1. wl = cache /\ wl \in Workload /\ wl.cnt \in Nat
      BY <1>1, <1>8, <2>2 DEF FaultEvent, Guarded, Workload, Counts
    <3>2. AddCond(wl, "AdminFailover", wl.cnt) \in Workload
      BY <3>1, WorkloadUpdates DEF CondType
    <3> QED
      BY <1>8, <2>2, <3>1, <3>2, KeptUpdates DEF FaultEvent, Guarded
  <2> QED
    BY <1>8, <2>1, <2>2 DEF FaultEvent, api
<1>9. CASE SyncUpdate
  <2>1. ssnap \in Workload /\ sstat \in Status /\ smsg.cnt \in Nat
    BY <1>9 DEF SyncUpdate, Inv, TypeOK, SnapshotInv, Msg, Message, Counts
  <2>2. \A new \in Trimmed(StatusOf(ssnap, sstat, smsg.cnt)) : new \in Workload /\ (wl = ssnap => Kept(new))
    BY <2>1, StatusType, TrimmedType, KeptUpdates
  <2>3. /\ cache' = cache
        /\ UNCHANGED api \/ \E new \in Trimmed(StatusOf(ssnap, sstat, smsg.cnt)) : Guarded(ssnap, new)
    BY <1>9 DEF SyncUpdate
  <2> QED
    BY <2>1, <2>2, <2>3 DEF Guarded
<1>10. CASE SyncFails
  BY <1>1, <1>10, KeptUpdates, WorkloadUpdates DEF SyncFails, Guarded, Phase, Inv, SnapshotInv
<1>11. CASE SyncDecide
  <2>1. /\ cache' = cache
        /\ \/ UNCHANGED api
           \/ \E new \in Trimmed([ssnap EXCEPT !.phase = "Pending"]) : Guarded(ssnap, new)
    BY <1>11 DEF SyncDecide
  <2>2. ssnap \in Workload /\ [ssnap EXCEPT !.phase = "Pending"] \in Workload
    BY <1>11, WorkloadUpdates DEF SyncDecide, Inv, TypeOK, SnapshotInv, Phase
  <2>3. \A new \in Trimmed([ssnap EXCEPT !.phase = "Pending"]) : new \in Workload /\ (wl = ssnap => Kept(new))
    BY <2>2, TrimmedType, KeptUpdates
  <2> QED
    BY <2>1, <2>2, <2>3 DEF Guarded
<1>12. CASE SyncAnnotate
  <2> DEFINE new == [wl EXCEPT !.disp = FALSE, !.sched = @ /\ ~ssnap.sched]
  <2>1. cache' = cache /\ (UNCHANGED api \/ (wl # None /\ Store(new)))
    BY <1>12 DEF SyncAnnotate
  <2>2. ssnap \in Workload
    BY <1>12 DEF Inv, TypeOK, SnapshotInv, SyncAnnotate
  <2>3. ASSUME wl # None PROVE new \in Workload /\ Kept(new)
    <3>1. wl \in Workload /\ (wl.sched /\ ~ssnap.sched) \in BOOLEAN
      BY <1>1, <2>3
    <3>2. new \in Workload
      BY <2>2, <3>1, WorkloadUpdates
    <3>3. Kept(new)
      BY <3>1, KeptUpdates, Zenon
    <3> QED
      BY <3>2, <3>3
  <2> HIDE DEF new
  <2> QED
    BY <2>1, <2>3
<1>13. CASE TTLStop
  BY <1>1, <1>13, KeptUpdates, WorkloadUpdates DEF TTLStop, Guarded, Phase
<1>14. CASE TTLDelete \/ UserDelete
  BY <1>1, <1>14, KeptUpdates, WorkloadUpdates DEF TTLDelete, UserDelete, Delete
<1>15. CASE DeliverEvent \/ ObjectChanges \/ ObjectGone \/ ExternalDelete \/ SchedPick
  BY <1>15 DEF DeliverEvent, ObjectChanges, ObjectGone, ExternalDelete, SchedPick
<1>16. CASE DispatchRead \/ DispatchObject \/ DispatchRetry \/ FailoverRead \/ FailoverDelete \/ SyncRead
  BY <1>16 DEF DispatchRead, DispatchObject, DispatchRetry, FailoverRead, FailoverDelete, SyncRead
<1>17. CASE UNCHANGED vars
  BY <1>17 DEF vars, api
<1> QED
  BY <1>2, <1>3, <1>4, <1>5, <1>6, <1>7, <1>8, <1>9, <1>10, <1>11, <1>12, <1>13, <1>14, <1>15,
     <1>16, <1>17 DEF Next, Scheduler, Dispatcher, Failover, Syncer, TTL

\* What markAsDispatched writes.
LEMMA DispatchWrites ==
    ASSUME Inv, DispatchMark \/ DispatchAnnotate
    PROVE  /\ cache' = cache /\ UNCHANGED <<ssnap, spc>>
           /\ \/ UNCHANGED api
              \/ \E w \in Snapshot : /\ Store(w) /\ wl # None /\ w # None
                                     /\ wl.conds \subseteq w.conds /\ w.deleting = wl.deleting
<1> USE NoneAssumption DEF Snapshot
<1>1. wl \in Workload \cup {None} /\ dsnap \in Workload
  BY DEF Inv, TypeOK, SnapshotInv, DispatchMark, DispatchAnnotate
<1>2. CASE DispatchMark
  <2>1. cache' = cache /\ UNCHANGED <<ssnap, spc>>
    BY <1>2 DEF DispatchMark, sync
  <2>2. Mark(dsnap, "AdminDispatched") \in Workload
    BY <1>1, WorkloadUpdates DEF CondType
  <2>3. /\ dsnap.conds \subseteq Mark(dsnap, "AdminDispatched").conds
        /\ Mark(dsnap, "AdminDispatched").deleting = dsnap.deleting
    BY <1>1 DEF Workload, Mark, AddCond
  <2>4. UNCHANGED api \/ Guarded(dsnap, Mark(dsnap, "AdminDispatched"))
    BY <1>2 DEF DispatchMark
  <2> QED
    BY <1>1, <2>1, <2>2, <2>3, <2>4 DEF Guarded
<1>3. CASE DispatchAnnotate
  <2> DEFINE new == [wl EXCEPT !.disp = TRUE, !.cnt = dsnap.cnt + 1,
                               !.preempted = @ /\ ~dsnap.preempted]
  <2>1. cache' = cache /\ UNCHANGED <<ssnap, spc>>
    BY <1>3 DEF DispatchAnnotate, sync
  <2>2. UNCHANGED api \/ (wl # None /\ Store(new))
    BY <1>3 DEF DispatchAnnotate
  <2>3. ASSUME wl # None
        PROVE  new \in Workload /\ new.conds = wl.conds /\ new.deleting = wl.deleting
    <3>1. new \in Workload
      BY <1>1, <2>3, WorkloadUpdates, Zenon
    <3> QED
      BY <1>1, <2>3, <3>1 DEF Workload
  <2> HIDE DEF new
  <2> QED
    BY <2>1, <2>2, <2>3
<1> QED
  BY <1>2, <1>3

\* Every write in one form: to a workload that is there, or by nobody.
LEMMA AnyWrite ==
    ASSUME Inv, [Next]_vars, ~DeliverWatch, ~Restart
    PROVE  /\ cache' = cache
           /\ \/ UNCHANGED api
              \/ \E w \in Snapshot : /\ Store(w) /\ wl # None
                                     /\ w # None => (wl.deleting => w.deleting)
<1>1. CASE DispatchMark \/ DispatchAnnotate
  BY <1>1, DispatchWrites
<1>2. CASE ~DispatchMark /\ ~DispatchAnnotate
  BY <1>2, Writes DEF Kept
<1> QED
  BY <1>1, <1>2

\* The versions stay in order, and the last one stays the stored one.
LEMMA HistStep ==
    ASSUME Inv, HistInv, [Next]_vars
    PROVE  HistInv'
<1>0. watch \in Seq(Snapshot) /\ watch' \in Seq(Snapshot) /\ Len(watch) \in Nat /\ Len(watch') \in Nat
  BY TypeStep DEF Inv, TypeOK
<1>1. CASE DeliverWatch
  <2>1. wl' = wl /\ \A i \in Versions' : i + 1 \in Versions /\ Ver(i)' = Ver(i + 1)
    BY <1>1, DeliverVersions DEF DeliverWatch
  <2>2. \A n \in Nat : n = Len(watch') => Ver(n)' = Ver(n + 1) /\ n + 1 = Len(watch)
    BY <1>0, <1>1, <2>1, DeliverVersions DEF Versions
  <2> QED
    BY <1>0, <2>1, <2>2 DEF HistInv
<1>2. CASE Restart
  BY <1>0, <1>2 DEF Restart, HistInv, Ver, Versions
<1>3. CASE ~DeliverWatch /\ ~Restart
  <2>1. CASE UNCHANGED api
    BY <1>3, <2>1, AnyWrite DEF HistInv, Ver, Versions, api
  <2>2. ASSUME NEW w \in Snapshot, Store(w), wl # None
        PROVE  HistInv'
    <3>1. wl' = w /\ cache' = cache
      BY <1>3, <2>2, StoreWrites, AnyWrite
    <3>2. CASE w = wl /\ watch' = watch
      BY <3>1, <3>2 DEF HistInv, Ver, Versions
    <3>3. CASE /\ w # wl /\ Len(watch') = Len(watch) + 1
               /\ \A i \in Versions' : Ver(i)' = IF i \in Versions THEN Ver(i) ELSE w
      BY <1>0, <2>2, <3>1, <3>3 DEF HistInv, Versions
    <3> QED
      BY <2>2, <3>1, <3>2, <3>3, StoreVersions
  <2> QED
    BY <1>3, <2>1, <2>2, AnyWrite
<1> QED
  BY <1>1, <1>2, <1>3

\* A workload that is ended, deleted or gone does not come back to work.
LEMMA WorkingBefore ==
    ASSUME Inv, [Next]_vars, Working'
    PROVE  Working
<1>1. Ended => Ended'
  BY EndedStep DEF Working
<1>2. wl # None /\ (wl.deleting => wl'.deleting)
  <2>1. CASE DeliverWatch \/ Restart \/ UNCHANGED api
    BY <2>1 DEF DeliverWatch, Restart, Working, api
  <2>2. ASSUME NEW w \in Snapshot, Store(w), wl # None, w # None => (wl.deleting => w.deleting)
        PROVE  wl # None /\ (wl.deleting => wl'.deleting)
    BY <2>2, StoreWrites DEF Working
  <2> QED
    BY <2>1, <2>2, AnyWrite
<1> QED
  BY <1>1, <1>2 DEF Working, Ended, IsEnd

-----------------------------------------------------------------------------
(* The loss of an object is not forgotten.                                  *)

\* As long as the workload is at work, so was every version of it that the
\* cache or the syncer can have.
LiveInv ==
    Working => /\ \A i \in Versions : Ver(i) # None /\ ~IsEnd(Ver(i))
               /\ spc # "idle" => ~IsEnd(ssnap)

\* The object is gone: the newest message about it is a deletion, wherever it is.
NoticeInv ==
    budget.crashes = 0 /\ Working /\ obj = None =>
        /\ events # <<>> => events[Len(events)].action = "delete"
        /\ events = <<>> /\ mail # None => mail.action = "delete"
        /\ events = <<>> /\ mail = None /\ smsg # None => smsg.action = "delete"

\* The snapshot of the syncer is a version of the cache or what it stored itself.
LEMMA SyncSnapshot ==
    ASSUME Inv, HistInv, LiveInv, [Next]_vars, Working', ~DeliverWatch, ~Restart
    PROVE  spc' # "idle" => ~IsEnd(ssnap')
<1> SUFFICES ASSUME spc' # "idle" PROVE ~IsEnd(ssnap')
  OBVIOUS
<1>1. Working /\ cache # None /\ ~IsEnd(cache) /\ (spc # "idle" => ~IsEnd(ssnap))
  <2>1. 0 \in Versions /\ Ver(0) = cache
    BY DEF Versions, Ver, Inv, TypeOK
  <2> QED
    BY <2>1, WorkingBefore DEF LiveInv
<1>2. CASE SyncRead
  BY <1>1, <1>2 DEF SyncRead, SyncDone
<1>3. CASE SyncUpdate
  <2>1. ASSUME NEW new, ssnap' = new, spc = "update", new = ssnap \/ Guarded(ssnap, new)
        PROVE  ~IsEnd(ssnap')
    <3>1. CASE new = ssnap
      BY <1>1, <2>1, <3>1
    <3>2. CASE Guarded(ssnap, new)
      <4>1. wl' = new
        BY <3>2, StoreWrites DEF Guarded
      <4> QED
        BY <2>1, <4>1 DEF Working
    <3> QED
      BY <2>1, <3>1, <3>2
  <2>2. CASE SyncError
    BY <2>2 DEF SyncError, Restage, SyncDone
  <2> QED
    BY <1>3, <2>1, <2>2 DEF SyncUpdate
<1>4. CASE SyncDecide
  <2>1. CASE Restage \/ SyncDone \/ SyncError
    BY <2>1 DEF SyncError, Restage, SyncDone
  <2>2. CASE UNCHANGED ssnap /\ spc = "decide"
    BY <1>1, <2>2
  <2>3. CASE \E new : Guarded(ssnap, new) /\ ssnap' = new
    BY <2>3, StoreWrites DEF Guarded, Working
  <2> QED
    BY <1>4, <2>1, <2>2, <2>3 DEF SyncDecide
<1>5. CASE SyncFails
  BY <1>1, <1>5 DEF SyncFails, SyncError, Restage, SyncDone
<1>6. CASE SyncAnnotate
  BY <1>1, <1>6 DEF SyncAnnotate, SyncError, Restage, SyncDone
<1>7. CASE UNCHANGED <<spc, ssnap>>
  BY <1>1, <1>7
<1>8. CASE DeliverEvent \/ ObjectChanges \/ ObjectGone \/ ExternalDelete \/ SchedPick \/ SchedStatus
  BY <1>7, <1>8 DEF DeliverEvent, ObjectChanges, ObjectGone, ExternalDelete, SchedPick, SchedStatus, sync
<1>9. CASE SchedAnnotate \/ Preempt \/ SchedDelete \/ SchedFinalize \/ Dispatcher
  BY <1>7, <1>9 DEF SchedAnnotate, Preempt, SchedDelete, SchedFinalize, Dispatcher, DispatchRead, DispatchObject,
                    DispatchRetry, DispatchFails, DispatchMark, DispatchAnnotate, sync
<1>10. CASE Failover \/ FaultEvent \/ TTL \/ UserDelete \/ UNCHANGED vars
  BY <1>7, <1>10 DEF Failover, FailoverRead, FailoverDelete, FailoverMark, FaultEvent, TTL, TTLStop,
                     TTLDelete, UserDelete, sync, vars
<1> QED
  BY <1>2, <1>3, <1>4, <1>5, <1>6, <1>8, <1>9, <1>10 DEF Next, Scheduler, Syncer

\* No version of a workload at work has ended: every step.
LEMMA LiveStep ==
    ASSUME Inv, HistInv, LiveInv, [Next]_vars
    PROVE  LiveInv'
<1> SUFFICES ASSUME Working' PROVE LiveInv'
  BY DEF LiveInv
<1>0. /\ Working /\ HistInv' /\ Len(watch) \in Nat /\ Len(watch') \in Nat
      /\ \A i \in Versions : Ver(i) # None /\ ~IsEnd(Ver(i))
      /\ spc # "idle" => ~IsEnd(ssnap)
  BY WorkingBefore, HistStep, TypeStep DEF LiveInv, Inv, TypeOK
<1>1. CASE DeliverWatch
  <2>1. \A i \in Versions' : Ver(i)' # None /\ ~IsEnd(Ver(i)')
    BY <1>0, <1>1, DeliverVersions
  <2>2. UNCHANGED <<spc, ssnap>>
    BY <1>1 DEF DeliverWatch, sync
  <2> QED
    BY <1>0, <2>1, <2>2 DEF LiveInv, IsEnd
<1>2. CASE Restart
  <2>1. spc' = "idle" /\ \A i \in Versions' : Ver(i)' = wl'
    BY <1>2 DEF Restart, SyncDone, Versions, Ver
  <2> QED
    BY <2>1 DEF LiveInv, Working, IsEnd
<1>3. CASE ~DeliverWatch /\ ~Restart
  <2>1. \A i \in Versions' : Ver(i)' # None /\ ~IsEnd(Ver(i)')
    <3>1. CASE UNCHANGED api
      BY <1>0, <1>3, <3>1, AnyWrite DEF Ver, Versions, api
    <3>2. ASSUME NEW w \in Snapshot, Store(w)
          PROVE  \A i \in Versions' : Ver(i)' # None /\ ~IsEnd(Ver(i)')
      <4>1. wl' = w /\ cache' = cache /\ w # None /\ ~IsEnd(w)
        BY <1>3, <3>2, StoreWrites, AnyWrite DEF Working
      <4>2. CASE w = wl /\ watch' = watch
        BY <1>0, <4>1, <4>2 DEF Ver, Versions
      <4>3. CASE \A i \in Versions' : Ver(i)' = IF i \in Versions THEN Ver(i) ELSE w
        BY <1>0, <4>1, <4>3
      <4> QED
        BY <3>2, <4>1, <4>2, <4>3, StoreVersions
    <3> QED
      BY <1>3, <3>1, <3>2, AnyWrite
  <2> QED
    BY <1>3, <2>1, SyncSnapshot DEF LiveInv, IsEnd
<1> QED
  BY <1>1, <1>2, <1>3

\* The messages when nobody emits, delivers, takes or puts back one.
LEMMA QuietNotice ==
    ASSUME Inv, NoticeInv, [Next]_vars, UNCHANGED <<events, mail, smsg>>, obj' = None => obj = None, ~Restart
    PROVE  NoticeInv'
<1> SUFFICES ASSUME budget'.crashes = 0, Working', obj' = None PROVE NoticeInv'
  BY DEF NoticeInv
<1>1. budget.crashes = 0
  <2>1. budget' = budget \/ \E n : \/ budget' = [budget EXCEPT !.preempts = n]
                                   \/ budget' = [budget EXCEPT !.faults = n]
                                   \/ budget' = [budget EXCEPT !.external = n]
    BY DEF Next, vars, DeliverWatch, DeliverEvent, ObjectChanges, ObjectGone, ExternalDelete, Scheduler, SchedPick,
           SchedStatus, SchedAnnotate, Preempt, SchedDelete, SchedFinalize, Dispatcher, DispatchRead, DispatchObject,
           DispatchRetry, DispatchFails, DispatchMark, DispatchAnnotate, Failover, FailoverRead,
           FailoverDelete, FailoverMark, FaultEvent, Syncer, SyncRead, SyncUpdate, SyncFails, SyncDecide,
           SyncAnnotate, TTL, TTLStop, TTLDelete, UserDelete
  <2> QED
    BY <2>1 DEF Inv, TypeOK
<1> QED
  BY <1>1, WorkingBefore DEF NoticeInv

\* The newest message about a lost object is a deletion: every step.
LEMMA NoticeStep ==
    ASSUME Inv, HistInv, LiveInv, NoticeInv, [Next]_vars
    PROVE  NoticeInv'
<1> SUFFICES ASSUME budget'.crashes = 0, Working', obj' = None PROVE NoticeInv'
  BY DEF NoticeInv
<1> USE NoneAssumption
<1>0. /\ Working /\ wl # None /\ cache # None /\ ~IsEnd(cache)
      /\ events \in Seq(Msg) /\ mail \in Msg \cup {None} /\ smsg \in Msg \cup {None}
  <2>1. 0 \in Versions /\ Ver(0) = cache
    BY DEF Versions, Ver, Inv, TypeOK
  <2> QED
    BY <2>1, WorkingBefore DEF LiveInv, Working, Inv, TypeOK
<1>1. CASE Restart
  <2>1. budget'.crashes = budget.crashes + 1 /\ budget.crashes \in Nat
    BY <1>1 DEF Restart, Inv, TypeOK
  <2> QED
    BY <2>1
<1>2. CASE ObjectGone
  <2>1. obj.cnt \in Nat /\ Emit("delete", obj.cnt)
    BY <1>2 DEF ObjectGone, Inv, TypeOK, Object, Counts
  <2>2. events' # <<>> /\ events'[Len(events')].action = "delete"
    BY <1>0, <2>1 DEF Emit
  <2> QED
    BY <2>2 DEF NoticeInv
<1>3. CASE DeliverEvent
  <2>1. /\ events # <<>> /\ events' = Tail(events) /\ UNCHANGED <<obj, smsg, budget>>
        /\ mail' = IF mail = None THEN Head(events) ELSE mergeResourceMessage(mail, Head(events))
    BY <1>3 DEF DeliverEvent, sync
  <2>2. events[Len(events)].action = "delete"
    BY <1>0, <2>1 DEF NoticeInv
  <2>3. ASSUME events' # <<>> PROVE events'[Len(events')].action = "delete"
    BY <1>0, <2>1, <2>2, <2>3
  <2>4. ASSUME events' = <<>> PROVE mail' # None /\ mail'.action = "delete"
    <3>0. Len(events) = 1 /\ Head(events) \in Msg /\ Head(events) = events[1]
      <4>0. Tail(events) = <<>> /\ events # <<>>
        BY <2>1, <2>4
      <4>1. Len(Tail(events)) = 0
        BY <4>0
      <4>2. Len(events) \in Nat /\ Len(events) # 0
        BY <1>0, <4>0
      <4> QED
        BY <1>0, <4>0, <4>1, <4>2
    <3>1. Head(events).action = "delete" /\ Head(events) \in Msg
      BY <2>2, <3>0
    <3> QED
      BY <1>0, <2>1, <3>1 DEF mergeResourceMessage
  <2> QED
    BY <2>3, <2>4 DEF NoticeInv
<1>4. CASE SyncRead
  <2>1. obj = None /\ budget' = budget /\ events' = events /\ mail' = None /\ mail # None
    BY <1>4 DEF SyncRead
  <2>2. smsg' = AsDeleted(mail)
    BY <1>0, <1>4, <2>1 DEF SyncRead
  <2>3. smsg'.action = "delete"
    BY <1>0, <2>1, <2>2 DEF AsDeleted, Msg, Message
  <2> QED
    BY <1>0, <2>1, <2>3 DEF NoticeInv
<1>5. CASE SyncUpdate \/ SyncFails \/ SyncDecide \/ SyncAnnotate
  <2>1. obj = None /\ budget' = budget /\ events' = events
    BY <1>5 DEF SyncUpdate, SyncFails, SyncDecide, SyncAnnotate
  <2>2. smsg \in Msg
    BY <1>0, <1>5 DEF SyncUpdate, SyncFails, SyncDecide, SyncAnnotate, Inv, SnapshotInv
  <2>3. CASE UNCHANGED <<mail, smsg>>
    BY <1>0, <2>1, <2>3 DEF NoticeInv
  <2>4. CASE SyncDone /\ UNCHANGED mail
    BY <1>0, <2>1, <2>4 DEF NoticeInv, SyncDone
  <2>5. CASE Restage
    <3>1. smsg' = None /\ mail' = IF mail = None THEN smsg ELSE mergeResourceMessage(smsg, mail)
      BY <2>5 DEF Restage, SyncDone
    <3>2. ASSUME events = <<>> PROVE mail'.action = "delete" /\ mail' # None
      BY <1>0, <2>1, <2>2, <3>1, <3>2 DEF NoticeInv, mergeResourceMessage
    <3> QED
      BY <1>0, <2>1, <3>1, <3>2 DEF NoticeInv
  <2> QED
    BY <1>5, <2>3, <2>4, <2>5 DEF SyncUpdate, SyncFails, SyncDecide, SyncAnnotate, SyncError
<1>6. CASE DeliverWatch \/ SchedPick \/ SchedStatus \/ SchedAnnotate \/ Preempt \/ SchedFinalize
  BY <1>1, <1>6, QuietNotice DEF DeliverWatch, SchedPick, SchedStatus, SchedAnnotate, Preempt, SchedFinalize, sync
<1>7. CASE ObjectChanges
  BY <1>7 DEF ObjectChanges, Inv, TypeOK, Object
<1>8. CASE SchedDelete \/ FailoverDelete \/ ExternalDelete
  <2>1. DeleteObject \/ UNCHANGED <<obj, events>>
    BY <1>8 DEF SchedDelete, FailoverDelete, ExternalDelete
  <2>2. UNCHANGED <<obj, events>>
    BY <2>1 DEF DeleteObject, Inv, TypeOK, Object
  <2> QED
    BY <1>1, <1>8, <2>2, QuietNotice DEF SchedDelete, FailoverDelete, ExternalDelete, sync
<1>9. CASE DispatchObject
  <2>0. dsnap.cnt + 1 \in Nat
    BY <1>9 DEF DispatchObject, Inv, TypeOK, SnapshotInv, Snapshot, Workload, Counts
  <2>1. obj # None
    <3>1. [cnt |-> dsnap.cnt + 1, st |-> "Pending", deleting |-> FALSE] \in Object
      BY <2>0 DEF Object, Counts
    <3> QED
      BY <1>9, <3>1 DEF DispatchObject
  <2> QED
    BY <1>9, <2>1 DEF DispatchObject
<1>10. CASE DispatchRead \/ DispatchRetry \/ DispatchFails \/ DispatchMark \/ DispatchAnnotate
  BY <1>1, <1>10, QuietNotice DEF DispatchRead, DispatchRetry, DispatchFails, DispatchMark, DispatchAnnotate, sync
<1>11. CASE FailoverRead \/ FailoverMark \/ FaultEvent \/ TTLStop \/ TTLDelete \/ UserDelete \/ UNCHANGED vars
  BY <1>1, <1>11, QuietNotice
     DEF FailoverRead, FailoverMark, FaultEvent, TTLStop, TTLDelete, UserDelete, sync, vars
<1> QED
  BY <1>1, <1>2, <1>3, <1>4, <1>5, <1>6, <1>7, <1>8, <1>9, <1>10, <1>11
     DEF Next, Scheduler, Dispatcher, Failover, Syncer, TTL

\* Who uses up the last message about a lost object reschedules the workload.
LEMMA NoticeUsed ==
    ASSUME Inv, HistInv, LiveInv, NoticeInv, [Next]_vars,
           budget'.crashes = 0, Working', obj' = None, Noticed, ~Noticed'
    PROVE  ~wl'.disp
<1> USE NoneAssumption
<1>0. /\ Working /\ wl # None /\ cache # None /\ ~IsEnd(cache) /\ (spc # "idle" => ~IsEnd(ssnap))
      /\ events \in Seq(Msg) /\ mail \in Msg \cup {None} /\ smsg \in Msg \cup {None}
  <2>1. 0 \in Versions /\ Ver(0) = cache
    BY DEF Versions, Ver, Inv, TypeOK
  <2> QED
    BY <2>1, WorkingBefore DEF LiveInv, Working, Inv, TypeOK
<1>1. events' = <<>> /\ mail' = None /\ smsg' = None /\ (events # <<>> \/ mail # None \/ smsg # None)
  BY DEF Noticed
<1>2. CASE SyncAnnotate
  <2>1. smsg \in Msg
    BY <1>0, <1>2 DEF SyncAnnotate, Inv, SnapshotInv
  <2>2. Store([wl EXCEPT !.disp = FALSE, !.sched = @ /\ ~ssnap.sched])
    BY <1>0, <1>2 DEF SyncAnnotate
  <2>3. [wl EXCEPT !.disp = FALSE, !.sched = @ /\ ~ssnap.sched].disp = FALSE
    BY <1>0 DEF Inv, TypeOK, Snapshot, Workload
  <2> QED
    BY <2>2, <2>3, StoreWrites
<1>3. CASE SyncDecide
  <2>1. smsg \in Msg /\ mail' = mail /\ events' = events /\ budget' = budget /\ obj = None
    <3>1. ~Restage
      <4>1. smsg \in Msg
        BY <1>0, <1>3 DEF SyncDecide, Inv, SnapshotInv
      <4> QED
        BY <1>0, <1>1, <4>1, MergeType DEF Restage
    <3> QED
      BY <1>0, <1>3, <3>1 DEF SyncDecide, SyncError, Inv, SnapshotInv
  <2>2. smsg.action = "delete"
    BY <1>0, <1>1, <2>1 DEF NoticeInv
  <2>3. shouldReSchedule
    BY <1>0, <1>3, <2>2 DEF shouldReSchedule, SyncDecide
  <2>4. UNCHANGED smsg \/ SyncError
    BY <1>3, <2>1, <2>2, <2>3 DEF SyncDecide
  <2>5. ~SyncError
    BY <1>0, <1>1, <2>1, MergeType DEF SyncError, Restage
  <2> QED
    BY <1>1, <2>1, <2>4, <2>5
<1>4. CASE SyncUpdate \/ SyncFails
  <2>1. smsg \in Msg
    BY <1>0, <1>4 DEF SyncUpdate, SyncFails, Inv, SnapshotInv
  <2>2. ~SyncError
    BY <1>0, <1>1, <2>1, MergeType DEF SyncError, Restage
  <2>3. CASE SyncUpdate
    BY <1>1, <2>1, <2>2, <2>3 DEF SyncUpdate
  <2>4. CASE SyncFails
    <3>1. Guarded(ssnap, [ssnap EXCEPT !.phase = "Failed"])
      BY <2>2, <2>4 DEF SyncFails
    <3>2. wl \in Workload /\ wl' = [wl EXCEPT !.phase = "Failed"]
      BY <1>0, <3>1, StoreWrites DEF Guarded, Inv, TypeOK, Snapshot
    <3> QED
      BY <3>2 DEF Working, IsEnd, IsWorkloadPhaseEnded, Workload
  <2> QED
    BY <1>4, <2>3, <2>4
<1>5. CASE SyncRead
  BY <1>0, <1>1, <1>5, MergeType DEF SyncRead
<1>6. CASE DeliverEvent
  <2>1. Head(events) \in Msg
    BY <1>0, <1>6 DEF DeliverEvent
  <2>2. mail' \in Msg
    BY <1>0, <1>6, <2>1, MergeType DEF DeliverEvent
  <2> QED
    BY <1>1, <2>2
<1>7. CASE Restart
  <2>1. budget'.crashes = budget.crashes + 1 /\ budget.crashes \in Nat
    BY <1>7 DEF Restart, Inv, TypeOK
  <2> QED
    BY <2>1
<1>8. CASE ObjectChanges \/ ObjectGone \/ ExternalDelete \/ SchedDelete \/ FailoverDelete \/ DispatchObject
  <2>1. UNCHANGED <<mail, smsg>>
    BY <1>8 DEF ObjectChanges, ObjectGone, ExternalDelete, SchedDelete, FailoverDelete, DispatchObject, sync
  <2>2. events' = events \/ \E m : events' = Append(events, m)
    BY <1>8 DEF ObjectChanges, ObjectGone, ExternalDelete, SchedDelete, FailoverDelete, DispatchObject,
                DeleteObject, Emit
  <2> QED
    BY <1>0, <1>1, <2>1, <2>2
<1>9. CASE DeliverWatch \/ SchedPick \/ SchedStatus \/ SchedAnnotate \/ Preempt \/ SchedFinalize
  BY <1>1, <1>9 DEF DeliverWatch, SchedPick, SchedStatus, SchedAnnotate, Preempt, SchedFinalize, sync
<1>10. CASE DispatchRead \/ DispatchRetry \/ DispatchFails \/ DispatchMark \/ DispatchAnnotate
  BY <1>1, <1>10 DEF DispatchRead, DispatchRetry, DispatchFails, DispatchMark, DispatchAnnotate, sync
<1>11. CASE FailoverRead \/ FailoverMark \/ FaultEvent \/ TTLStop \/ TTLDelete \/ UserDelete \/ UNCHANGED vars
  BY <1>1, <1>11 DEF FailoverRead, FailoverMark, FaultEvent, TTLStop, TTLDelete, UserDelete, sync, vars
<1> QED
  BY <1>2, <1>3, <1>4, <1>5, <1>6, <1>7, <1>8, <1>9, <1>10, <1>11
     DEF Next, Scheduler, Dispatcher, Failover, Syncer, TTL

\* The beginning.
LEMMA NoticeInit == Init => HistInv /\ LiveInv /\ NoticeInv
<1> SUFFICES ASSUME Init PROVE HistInv /\ LiveInv /\ NoticeInv
  OBVIOUS
<1>1. Fresh # None
  <2>1. Fresh \in Workload
    BY DEF Fresh, Workload, Phase, Counts
  <2> QED
    BY <2>1, NoneAssumption
<1>2. Versions = {0} /\ Ver(0) = wl /\ ~IsEnd(wl)
  BY DEF Init, Versions, Ver, Fresh, IsEnd, IsWorkloadPhaseEnded
<1> QED
  BY <1>1, <1>2 DEF Init, HistInv, LiveInv, NoticeInv, Ver

\* The loss of an object is not forgotten, for any lag of the cache, any number of
\* undelivered events and any faults, as long as the job-manager does not restart:
\* only reSchedule uses up the last message about it.
THEOREM LossRemembered == Spec => NoticeKept
<1>1. Inv /\ HistInv /\ LiveInv /\ NoticeInv /\ [Next]_vars
        => [budget'.crashes = 0 /\ wl' # None /\ ~IsEnd(wl') /\ obj' = None /\ Noticed /\ ~Noticed'
              => ~wl'.disp]_vars
  BY NoticeUsed DEF Working
<1> QED
  BY <1>1, TypeInit, TypeStep, NoticeInit, HistStep, LiveStep, NoticeStep, PTL DEF Spec, NoticeKept

-----------------------------------------------------------------------------
(* An attempt is counted once.  Without a job port the dispatcher works on a *)
(* version of the cache, and two reconciles may count from the same one; the  *)
(* invariant says that this version is never more than one attempt behind.    *)

\* No attempt after the n-th is marked as dispatched.
MarksUpTo(n) == \A k \in Nat : <<"AdminDispatched", k>> \in wl.conds => k <= n

\* The coming attempt of v is marked, not dispatched, and not counted yet: then
\* nobody else has dispatched the workload.
Uncounted(v) == ~v.disp /\ Marked(v, "AdminDispatched") /\ wl.cnt = v.cnt => ~wl.disp

\* With a job port the dispatcher works on the stored workload, and nobody else
\* counts or dispatches it.
PortInv ==
    HasJobPort /\ wl # None /\ dpc # "idle" /\ ~dsnap.disp => wl.cnt = dsnap.cnt /\ ~wl.disp

CacheInv ==
    ~HasJobPort /\ wl # None =>
        /\ \A i, j \in Versions : i <= j => Ver(i).cnt <= Ver(j).cnt
        /\ wl.cnt <= cache.cnt + 1
        /\ MarksUpTo(cache.cnt + 1)
        /\ \A i \in Versions : Keeps(Ver(i), wl) /\ Uncounted(Ver(i))

DispatchInv ==
    ~HasJobPort /\ wl # None /\ dpc # "idle" =>
        /\ dsnap.cnt <= cache.cnt /\ wl.cnt <= dsnap.cnt + 1
        /\ MarksUpTo(dsnap.cnt + 1)
        /\ Uncounted(dsnap)

MarkInv == dpc = "annotate" => Marked(dsnap, "AdminDispatched")

CountInv == PortInv /\ CacheInv /\ DispatchInv /\ MarkInv

\* The types the counting argument needs.
LEMMA CountTypes ==
    ASSUME Inv, HistInv
    PROVE  /\ Len(watch) \in Nat /\ 0 \in Versions /\ Len(watch) \in Versions
           /\ Ver(0) = cache /\ Ver(Len(watch)) = wl
           /\ wl # None => wl \in Workload /\ wl.cnt \in Nat
           /\ wl # None => \A i \in Versions : Ver(i) \in Workload /\ Ver(i).cnt \in Nat
           /\ dpc # "idle" => dsnap \in Workload /\ dsnap.cnt \in Nat
<1>1. watch \in Seq(Snapshot) /\ wl \in Snapshot /\ cache \in Snapshot /\ dsnap \in Snapshot
  BY DEF Inv, TypeOK
<1>2. Len(watch) \in Nat /\ \A i \in Versions : Ver(i) \in Snapshot
  BY <1>1 DEF Versions, Ver
<1>3. \A w \in Workload : w.cnt \in Nat
  BY DEF Workload, Counts
<1> QED
  BY <1>1, <1>2, <1>3 DEF HistInv, Versions, Ver, Snapshot, Inv, SnapshotInv

\* A step that leaves the cache and the dispatcher alone, or ends the
\* reconcile, and writes, if anything, what everybody may write.
LEMMA CountKept ==
    ASSUME Inv, HistInv, CountInv, [Next]_vars, ~DispatchMark, ~DispatchAnnotate, ~DeliverWatch, ~Restart,
           UNCHANGED <<dpc, dsnap>> \/ dpc' = "idle"
    PROVE  CountInv'
<1> USE CountTypes
<1>0. cache' = cache /\ Inv' /\ HistInv'
  BY Writes, HistStep, TypeStep
<1>1. CASE UNCHANGED api
  BY <1>0, <1>1 DEF CountInv, PortInv, CacheInv, DispatchInv, MarkInv, MarksUpTo, Uncounted, Marked, Versions, Ver, api
<1>2. ASSUME NEW w \in Snapshot, Store(w), wl # None, w # None => Kept(w)
      PROVE  CountInv'
  <2>1. wl' = w
    BY <1>2, StoreWrites
  <2>2. MarkInv'
    BY DEF CountInv, MarkInv, Marked
  <2>3. SUFFICES ASSUME w # None PROVE PortInv' /\ CacheInv' /\ DispatchInv'
    BY <2>1, <2>2 DEF CountInv, PortInv, CacheInv, DispatchInv
  <2>4. /\ w.cnt = wl.cnt /\ (w.disp => wl.disp) /\ Keeps(wl, w)
        /\ \A n \in Nat : <<"AdminDispatched", n>> \in w.conds => <<"AdminDispatched", n>> \in wl.conds
    BY <1>2, <2>3 DEF Kept
  <2>5. PortInv'
    BY <1>2, <2>1, <2>4 DEF CountInv, PortInv
  <2>6. ASSUME ~HasJobPort PROVE DispatchInv'
    BY <1>0, <1>2, <2>1, <2>4, <2>6 DEF CountInv, DispatchInv, MarksUpTo, Uncounted, Marked
  <2>7. ASSUME ~HasJobPort PROVE CacheInv'
    <3>1. /\ \A i, j \in Versions : i <= j => Ver(i).cnt <= Ver(j).cnt
          /\ wl.cnt <= cache.cnt + 1
          /\ MarksUpTo(cache.cnt + 1)
          /\ \A i \in Versions : Keeps(Ver(i), wl) /\ Uncounted(Ver(i))
      BY <1>2, <2>7 DEF CountInv, CacheInv
    <3>2. wl'.cnt <= cache'.cnt + 1 /\ MarksUpTo(cache.cnt + 1)'
      BY <1>0, <2>1, <2>4, <3>1 DEF MarksUpTo
    <3>3. CASE w = wl /\ watch' = watch
      BY <1>0, <2>1, <2>4, <3>1, <3>2, <3>3 DEF CacheInv, Versions, Ver, Uncounted
    <3>4. CASE /\ Len(watch') = Len(watch) + 1
               /\ \A i \in Versions' : Ver(i)' = IF i \in Versions THEN Ver(i) ELSE w
      <4>1. \A i \in Versions' : i \in Versions \/ i = Len(watch')
        BY <3>4 DEF Versions
      <4>2. \A i \in Versions : Ver(i).cnt <= wl.cnt
        BY <3>1 DEF Versions
      <4>3. \A i, j \in Versions' : i <= j => Ver(i)'.cnt <= Ver(j)'.cnt
        BY <2>4, <3>1, <3>4, <4>1, <4>2 DEF Versions
      <4>4. \A i \in Versions' : Keeps(Ver(i)', wl')
        BY <2>1, <2>4, <3>1, <3>4 DEF Keeps
      <4>5. \A i \in Versions' : ~Ver(i)'.disp /\ Marked(Ver(i)', "AdminDispatched") /\ wl'.cnt = Ver(i)'.cnt => ~wl'.disp
        <5>1. \A i \in Versions : ~Ver(i).disp /\ Marked(Ver(i), "AdminDispatched") /\ wl.cnt = Ver(i).cnt => ~wl.disp
          BY <3>1 DEF Uncounted
        <5> QED
          BY <2>1, <2>4, <3>4, <5>1
      <4> QED
        BY <3>2, <4>3, <4>4, <4>5 DEF CacheInv, Uncounted, Marked
    <3> QED
      BY <1>0, <1>2, <3>3, <3>4, StoreVersions
  <2> QED
    BY <2>5, <2>6, <2>7 DEF CacheInv, DispatchInv
<1> QED
  BY <1>1, <1>2, Writes

\* The cache part alone: every step but markAsDispatched, deliveries and restarts.
LEMMA CacheKept ==
    ASSUME Inv, HistInv, CountInv, [Next]_vars, UNCHANGED <<api, cache>>
    PROVE  CacheInv'
BY DEF CountInv, CacheInv, MarksUpTo, Uncounted, Marked, Versions, Ver, api

\* The informer moves on by one version.
LEMMA CountDelivered ==
    ASSUME Inv, HistInv, CountInv, DeliverWatch
    PROVE  CountInv'
<1> USE CountTypes
<1>1. wl' = wl /\ UNCHANGED <<dpc, dsnap>>
  BY DEF DeliverWatch, disp
<1>2. PortInv' /\ MarkInv'
  BY <1>1 DEF CountInv, PortInv, MarkInv, Marked
<1>3. ASSUME ~HasJobPort, wl # None PROVE CacheInv' /\ DispatchInv'
  <2>1. /\ \A i, j \in Versions : i <= j => Ver(i).cnt <= Ver(j).cnt
        /\ wl.cnt <= cache.cnt + 1
        /\ MarksUpTo(cache.cnt + 1)
        /\ \A i \in Versions : Keeps(Ver(i), wl) /\ Uncounted(Ver(i))
    BY <1>3 DEF CountInv, CacheInv
  <2>2. \A i \in Versions' : i + 1 \in Versions /\ Ver(i)' = Ver(i + 1)
    BY DeliverVersions
  <2>3. 1 \in Versions /\ cache' = Ver(1) /\ cache.cnt <= cache'.cnt /\ cache'.cnt \in Nat /\ cache.cnt \in Nat
    <3>1. 0 \in Versions' /\ Ver(0)' = cache'
      BY DeliverVersions DEF Versions, Ver
    <3>2. 0 + 1 \in Versions /\ cache' = Ver(0 + 1)
      BY <2>2, <3>1
    <3> QED
      BY <1>3, <2>1, <3>2
  <2>4. \A i, j \in Versions' : i <= j => Ver(i)'.cnt <= Ver(j)'.cnt
    BY <2>1, <2>2 DEF Versions
  <2>5. \A i \in Versions' : Keeps(Ver(i)', wl') /\ Uncounted(Ver(i))'
    BY <1>1, <2>1, <2>2 DEF Uncounted, Marked
  <2>6. wl'.cnt <= cache'.cnt + 1 /\ MarksUpTo(cache.cnt + 1)'
    BY <1>1, <1>3, <2>1, <2>3 DEF MarksUpTo
  <2>7. CacheInv'
    BY <2>4, <2>5, <2>6 DEF CacheInv
  <2>8. DispatchInv'
    BY <1>1, <1>3, <2>3 DEF CountInv, DispatchInv, MarksUpTo, Uncounted, Marked
  <2> QED
    BY <2>7, <2>8
<1> QED
  BY <1>1, <1>2, <1>3 DEF CountInv, CacheInv, DispatchInv

\* A restart: the cache is the stored workload.
LEMMA CountRestarted ==
    ASSUME Inv, HistInv, CountInv, Restart
    PROVE  CountInv'
<1> USE CountTypes
<1>1. wl' = wl /\ cache' = wl /\ dpc' = "idle" /\ \A i \in Versions' : Ver(i)' = wl
  BY DEF Restart, Versions, Ver
<1>2. ASSUME ~HasJobPort, wl # None PROVE CacheInv'
  <2>1. cache.cnt <= wl.cnt /\ MarksUpTo(cache.cnt + 1) /\ cache.cnt \in Nat
    BY <1>2 DEF CountInv, CacheInv, Versions
  <2>2. MarksUpTo(cache.cnt + 1)'
    BY <1>1, <1>2, <2>1 DEF MarksUpTo
  <2> QED
    BY <1>1, <1>2, <2>2 DEF CacheInv, Uncounted, Keeps
<1> QED
  BY <1>1, <1>2 DEF CountInv, PortInv, CacheInv, DispatchInv, MarkInv

\* The dispatcher takes its snapshot.
LEMMA CountRead ==
    ASSUME Inv, HistInv, CountInv, [Next]_vars, DispatchRead
    PROVE  CountInv'
<1> USE CountTypes
<1>1. UNCHANGED <<wl, watch, cache>> /\ MarkInv' /\ CacheInv'
  BY CacheKept DEF DispatchRead, MarkInv, CountInv, Marked, api, disp
<1>2. CASE UNCHANGED disp
  BY <1>1, <1>2 DEF CountInv, PortInv, DispatchInv, MarksUpTo, Uncounted, Marked, disp
<1>3. CASE HasJobPort /\ ~cache.disp /\ dsnap' = wl
  BY <1>1, <1>3 DEF CountInv, PortInv, DispatchInv
<1>4. CASE ~(HasJobPort /\ ~cache.disp) /\ dsnap' = cache
  <2>1. PortInv'
    BY <1>1, <1>4 DEF PortInv
  <2>2. ASSUME ~HasJobPort, wl # None PROVE DispatchInv'
    <3>1. /\ wl.cnt <= cache.cnt + 1 /\ cache.cnt \in Nat
          /\ MarksUpTo(cache.cnt + 1) /\ Uncounted(cache)
      BY <2>2 DEF CountInv, CacheInv
    <3> QED
      BY <1>1, <1>4, <2>2, <3>1 DEF DispatchInv, MarksUpTo, Uncounted, Marked
  <2> QED
    BY <1>1, <2>1, <2>2 DEF CountInv, DispatchInv
<1> QED
  BY <1>2, <1>3, <1>4 DEF DispatchRead

\* markAsDispatched marks the coming attempt of the version it read.
LEMMA CountMarked ==
    ASSUME Inv, HistInv, CountInv, [Next]_vars, DispatchMark
    PROVE  CountInv'
<1> USE CountTypes
<1>0. cache' = cache /\ dpc = "mark" /\ dsnap \in Workload /\ dsnap.cnt \in Nat
  BY DEF DispatchMark
<1>1. CASE UNCHANGED api /\ dpc' = "annotate" /\ UNCHANGED dsnap /\ Marked(dsnap, "AdminDispatched")
  BY <1>0, <1>1, CacheKept DEF CountInv, PortInv, DispatchInv, MarkInv, MarksUpTo, Uncounted, Marked, api
<1>2. CASE UNCHANGED api /\ dpc' = "idle"
  BY <1>0, <1>2, CacheKept DEF CountInv, PortInv, DispatchInv, MarkInv, api
<1>3. CASE /\ Guarded(dsnap, Mark(dsnap, "AdminDispatched"))
           /\ dpc' = "annotate" /\ dsnap' = Mark(dsnap, "AdminDispatched")
  <2> DEFINE new == Mark(dsnap, "AdminDispatched")
  <2>1. wl = dsnap /\ Store(new) /\ wl' = new /\ dsnap' = new
    BY <1>3, StoreWrites DEF Guarded
  <2>2. /\ new.cnt = wl.cnt /\ new.disp = wl.disp
        /\ new.conds = wl.conds \cup {<<"AdminDispatched", wl.cnt + 1>>}
    BY <1>0, <2>1 DEF Mark, AddCond, Workload
  <2>3. wl # None /\ wl' # None
    BY <1>0, <2>1, WorkloadUpdates, NoneAssumption DEF CondType
  <2> HIDE DEF new
  <2>4. MarkInv'
    BY <2>1, <2>2 DEF MarkInv, Marked
  <2>5. PortInv'
    BY <1>0, <2>1, <2>2, <2>3 DEF CountInv, PortInv
  <2>6. ASSUME ~HasJobPort PROVE CacheInv' /\ DispatchInv'
    <3>1. /\ \A i, j \in Versions : i <= j => Ver(i).cnt <= Ver(j).cnt
          /\ wl.cnt <= cache.cnt + 1 /\ cache.cnt \in Nat
          /\ MarksUpTo(cache.cnt + 1)
          /\ \A i \in Versions : Keeps(Ver(i), wl) /\ Uncounted(Ver(i))
      BY <2>3, <2>6 DEF CountInv, CacheInv
    <3>2. dsnap.cnt <= cache.cnt /\ MarksUpTo(dsnap.cnt + 1)
      BY <1>0, <2>3, <2>6 DEF CountInv, DispatchInv
    <3>3. MarksUpTo(cache.cnt + 1)' /\ MarksUpTo(dsnap.cnt + 1)'
      BY <1>0, <2>1, <2>2, <3>1, <3>2 DEF MarksUpTo
    <3>4. DispatchInv'
      BY <1>0, <2>1, <2>2, <3>2, <3>3 DEF DispatchInv, Uncounted
    <3>5. CASE new = wl /\ watch' = watch
      BY <1>0, <2>1, <3>1, <3>3, <3>4, <3>5 DEF CacheInv, Versions, Ver, Uncounted
    <3>6. CASE /\ Len(watch') = Len(watch) + 1
               /\ \A i \in Versions' : Ver(i)' = IF i \in Versions THEN Ver(i) ELSE new
      <4>1. \A i \in Versions' : i \in Versions \/ i = Len(watch')
        BY <3>6 DEF Versions
      <4>2. \A i \in Versions : Ver(i).cnt <= wl.cnt
        BY <3>1 DEF Versions
      <4>3. \A i, j \in Versions' : i <= j => Ver(i)'.cnt <= Ver(j)'.cnt
        BY <2>2, <2>3, <3>1, <3>6, <4>1, <4>2 DEF Versions
      <4>4. \A i \in Versions' : Keeps(Ver(i)', wl')
        BY <2>1, <2>2, <3>1, <3>6 DEF Keeps
      <4>5. \A i \in Versions' : ~Ver(i)'.disp /\ Marked(Ver(i)', "AdminDispatched") /\ wl'.cnt = Ver(i)'.cnt => ~wl'.disp
        <5>1. \A i \in Versions : ~Ver(i).disp /\ Marked(Ver(i), "AdminDispatched") /\ wl.cnt = Ver(i).cnt => ~wl.disp
          BY <3>1 DEF Uncounted
        <5> QED
          BY <2>1, <2>2, <3>6, <5>1
      <4>6. wl'.cnt <= cache'.cnt + 1
        BY <1>0, <2>1, <2>2, <3>1
      <4> QED
        BY <3>3, <3>4, <4>3, <4>4, <4>5, <4>6 DEF CacheInv, Uncounted, Marked
    <3> QED
      BY <1>0, <2>1, <3>5, <3>6, StoreVersions
  <2> QED
    BY <2>4, <2>5, <2>6 DEF CountInv, CacheInv, DispatchInv
<1> QED
  BY <1>1, <1>2, <1>3 DEF DispatchMark

\* markAsDispatched counts the attempt.
LEMMA CountAnnotated ==
    ASSUME Inv, HistInv, CountInv, [Next]_vars, DispatchAnnotate
    PROVE  /\ CountInv'
           /\ wl # None /\ wl' # None /\ wl'.cnt # wl.cnt => wl'.cnt = wl.cnt + 1 /\ ~wl.disp /\ wl'.disp
<1> USE CountTypes
<1>0. cache' = cache /\ dpc = "annotate" /\ dpc' = "idle" /\ dsnap \in Workload /\ dsnap.cnt \in Nat
  BY DEF DispatchAnnotate
<1>1. CASE UNCHANGED api
  BY <1>0, <1>1, CacheKept DEF CountInv, PortInv, DispatchInv, MarkInv, api
<1>2. CASE ~dsnap.disp /\ wl # None /\ ~UNCHANGED api
  <2> DEFINE new == [wl EXCEPT !.disp = TRUE, !.cnt = dsnap.cnt + 1,
                               !.preempted = @ /\ ~dsnap.preempted]
  <2>1. Store(new) /\ wl' = new
    BY <1>2, StoreWrites DEF DispatchAnnotate
  <2>2. new.disp = TRUE /\ new.cnt = dsnap.cnt + 1 /\ new.conds = wl.conds
    BY <1>2 DEF Workload
  <2>3. Marked(dsnap, "AdminDispatched")
    BY <1>0 DEF CountInv, MarkInv
  <2> HIDE DEF new
  <2>4. dsnap.cnt <= wl.cnt /\ wl.cnt <= dsnap.cnt + 1 /\ (wl.cnt = dsnap.cnt => ~wl.disp)
    <3>1. CASE HasJobPort
      BY <1>0, <1>2, <3>1 DEF CountInv, PortInv
    <3>2. CASE ~HasJobPort
      <4>1. cache.cnt <= wl.cnt /\ cache.cnt \in Nat
        BY <1>2, <3>2 DEF CountInv, CacheInv, Versions
      <4> QED
        BY <1>0, <1>2, <2>3, <3>2, <4>1 DEF CountInv, DispatchInv, Uncounted
    <3> QED
      BY <3>1, <3>2
  <2>5. ASSUME ~HasJobPort PROVE CacheInv'
    <3>1. /\ \A i, j \in Versions : i <= j => Ver(i).cnt <= Ver(j).cnt
          /\ wl.cnt <= cache.cnt + 1 /\ cache.cnt \in Nat
          /\ MarksUpTo(cache.cnt + 1)
          /\ \A i \in Versions : Keeps(Ver(i), wl) /\ Uncounted(Ver(i))
      BY <1>2, <2>5 DEF CountInv, CacheInv
    <3>2. dsnap.cnt <= cache.cnt /\ MarksUpTo(dsnap.cnt + 1)
      BY <1>0, <1>2, <2>5 DEF CountInv, DispatchInv
    <3>3. MarksUpTo(cache.cnt + 1)' /\ wl'.cnt <= cache'.cnt + 1
      BY <1>0, <2>1, <2>2, <3>1, <3>2 DEF MarksUpTo
    <3>4. \A v \in Workload : Keeps(v, wl) /\ v.cnt = dsnap.cnt + 1 => ~Marked(v, "AdminDispatched")
      <4> TAKE v \in Workload
      <4> HAVE Keeps(v, wl) /\ v.cnt = dsnap.cnt + 1
      <4>1. dsnap.cnt + 2 \in Nat /\ <<"AdminDispatched", dsnap.cnt + 2>> \notin wl.conds
        BY <1>0, <3>2 DEF MarksUpTo
      <4>2. v.cnt + 1 = dsnap.cnt + 2
        BY <1>0
      <4>3. <<"AdminDispatched", dsnap.cnt + 2>>[2] >= wl.cnt
        BY <1>0, <1>2, <2>4
      <4> QED
        BY <4>1, <4>2, <4>3 DEF Marked, Keeps
    <3>5. CASE /\ Len(watch') = Len(watch) + 1
               /\ \A i \in Versions' : Ver(i)' = IF i \in Versions THEN Ver(i) ELSE new
      <4>1. \A i \in Versions' : i \in Versions \/ i = Len(watch')
        BY <3>5 DEF Versions
      <4>2. \A i \in Versions : Ver(i).cnt <= wl.cnt
        BY <1>2, <3>1 DEF Versions
      <4>3. \A i, j \in Versions' : i <= j => Ver(i)'.cnt <= Ver(j)'.cnt
        <5> TAKE i, j \in Versions'
        <5> HAVE i <= j
        <5>1. CASE j \in Versions
          <6>1. i \in Versions
            BY <5>1 DEF Versions
          <6> QED
            BY <3>1, <3>5, <5>1, <6>1
        <5>2. CASE j \notin Versions
          <6>1. Ver(j)' = new /\ Ver(i)' \in {new, Ver(i)}
            BY <3>5, <5>2
          <6>2. CASE i \in Versions
            <7>1. Ver(i)' = Ver(i) /\ Ver(i).cnt <= wl.cnt /\ Ver(i).cnt \in Nat
              BY <1>2, <3>5, <4>2, <6>2
            <7> QED
              BY <1>0, <1>2, <2>2, <2>4, <6>1, <7>1
          <6>3. CASE i \notin Versions
            BY <1>0, <2>2, <3>5, <6>1, <6>3
          <6> QED
            BY <6>2, <6>3
        <5> QED
          BY <5>1, <5>2
      <4>4. \A i \in Versions' : Keeps(Ver(i)', wl')
        <5> TAKE i \in Versions'
        <5>1. CASE i \in Versions
          <6>1. Ver(i)' = Ver(i) /\ Ver(i) \in Workload /\ Keeps(Ver(i), wl)
            BY <1>2, <3>1, <3>5, <5>1
          <6>2. \A c \in Ver(i).conds : c[2] \in Nat
            BY <6>1 DEF Workload, Counts
          <6>3. wl'.conds = wl.conds /\ wl.cnt <= wl'.cnt /\ wl.cnt \in Nat /\ wl'.cnt \in Nat
            BY <1>0, <1>2, <2>1, <2>2, <2>4
          <6> QED
            BY <6>1, <6>2, <6>3 DEF Keeps
        <5>2. CASE i \notin Versions
          BY <2>1, <3>5, <5>2 DEF Keeps
        <5> QED
          BY <5>1, <5>2
      <4>5. \A i \in Versions' : ~(~Ver(i)'.disp /\ Marked(Ver(i)', "AdminDispatched") /\ wl'.cnt = Ver(i)'.cnt)
        <5> TAKE i \in Versions'
        <5>1. CASE i \in Versions
          BY <1>2, <2>1, <2>2, <3>1, <3>4, <3>5, <5>1
        <5>2. CASE i \notin Versions
          BY <2>2, <3>5, <5>2
        <5> QED
          BY <5>1, <5>2
      <4> QED
        BY <3>3, <4>3, <4>4, <4>5 DEF CacheInv, Uncounted, Marked
    <3> QED
      BY <1>0, <1>2, <2>1, <3>5, StoreVersions DEF api
  <2>6. CountInv'
    BY <1>0, <2>5 DEF CountInv, PortInv, CacheInv, DispatchInv, MarkInv
  <2> QED
    BY <1>0, <1>2, <2>1, <2>2, <2>4, <2>6
<1> QED
  BY <1>1, <1>2 DEF DispatchAnnotate

\* Every step keeps the counts in order and counts an attempt once.
LEMMA CountStep ==
    ASSUME Inv, HistInv, CountInv, [Next]_vars
    PROVE  /\ CountInv'
           /\ wl # None /\ wl' # None /\ wl'.cnt # wl.cnt => wl'.cnt = wl.cnt + 1 /\ ~wl.disp /\ wl'.disp
<1> DEFINE Once == wl # None /\ wl' # None /\ wl'.cnt # wl.cnt => wl'.cnt = wl.cnt + 1 /\ ~wl.disp /\ wl'.disp
<1>1. CASE DeliverWatch
  BY <1>1, CountDelivered DEF DeliverWatch
<1>2. CASE Restart
  BY <1>2, CountRestarted DEF Restart
<1>3. CASE DispatchMark
  <2>1. wl' = wl \/ (wl = dsnap /\ wl' = Mark(dsnap, "AdminDispatched"))
    BY <1>3, StoreWrites DEF DispatchMark, Guarded, api
  <2>2. dsnap \in Workload
    BY <1>3, CountTypes DEF DispatchMark
  <2>3. wl'.cnt = wl.cnt
    BY <2>1, <2>2 DEF Mark, AddCond, Workload
  <2> QED
    BY <1>3, <2>3, CountMarked
<1>4. CASE DispatchAnnotate
  BY <1>4, CountAnnotated
<1>5. CASE ~DeliverWatch /\ ~Restart /\ ~DispatchMark /\ ~DispatchAnnotate
  <2>1. Once
    <3>1. CASE UNCHANGED api
      BY <3>1 DEF api
    <3>2. ASSUME NEW w \in Snapshot, Store(w), w # None => Kept(w)
          PROVE  Once
      BY <3>2, StoreWrites DEF Kept
    <3> QED
      BY <1>5, <3>1, <3>2, Writes
  <2> HIDE DEF Once
  <2>2. CASE DispatchRead
    BY <2>1, <2>2, CountRead DEF Once
  <2>3. CASE DispatchObject
    <3>1. UNCHANGED <<api, cache, dsnap>> /\ dpc # "idle" /\ dpc' \in {"mark", "failed"}
      BY <2>3 DEF DispatchObject
    <3>2. CountInv'
      BY <3>1, CacheKept DEF CountInv, PortInv, DispatchInv, MarkInv, MarksUpTo, Uncounted, Marked, api
    <3> QED
      BY <2>1, <3>2 DEF Once
  <2>4. CASE DispatchRetry \/ DispatchFails
    BY <1>5, <2>1, <2>4, CountKept DEF Once, DispatchRetry, DispatchFails
  <2>6. CASE UNCHANGED <<dpc, dsnap>>
    BY <1>5, <2>1, <2>6, CountKept DEF Once
  <2>7. CASE DeliverEvent \/ ObjectChanges \/ ObjectGone \/ ExternalDelete \/ SchedPick \/ SchedStatus
    BY <2>6, <2>7 DEF DeliverEvent, ObjectChanges, ObjectGone, ExternalDelete, SchedPick, SchedStatus, disp
  <2>8. CASE SchedAnnotate \/ Preempt \/ SchedDelete \/ SchedFinalize \/ Syncer
    BY <2>6, <2>8 DEF SchedAnnotate, Preempt, SchedDelete, SchedFinalize, Syncer, SyncRead, SyncUpdate, SyncFails,
                      SyncDecide, SyncAnnotate, disp
  <2>9. CASE Failover \/ FaultEvent \/ TTL \/ UserDelete \/ UNCHANGED vars
    BY <2>6, <2>9 DEF Failover, FailoverRead, FailoverDelete, FailoverMark, FaultEvent, TTL, TTLStop,
                      TTLDelete, UserDelete, disp, vars
  <2> QED
    BY <1>5, <2>2, <2>3, <2>4, <2>7, <2>8, <2>9 DEF Next, Scheduler, Dispatcher
<1> QED
  BY <1>1, <1>2, <1>3, <1>4, <1>5

\* The beginning, for the counts.
LEMMA CountInit == Init => CountInv
<1> SUFFICES ASSUME Init PROVE CountInv
  OBVIOUS
<1>1. Versions = {0} /\ Ver(0) = wl /\ cache = wl /\ wl.cnt = 0 /\ wl.conds = {} /\ dpc = "idle"
  BY DEF Init, Versions, Ver, Fresh
<1> QED
  BY <1>1 DEF CountInv, PortInv, CacheInv, DispatchInv, MarkInv, MarksUpTo, Uncounted, Marked, Keeps

\* An attempt is counted once: for any lag of the cache, with and without a job
\* port, across conflicts, repeated reconciles and restarts.
THEOREM CountsOnce == Spec => CountedOnce
<1>1. Inv /\ HistInv /\ CountInv /\ [Next]_vars
        => [wl # None /\ wl' # None /\ wl'.cnt # wl.cnt
              => wl'.cnt = wl.cnt + 1 /\ ~wl.disp /\ wl'.disp]_vars
  BY CountStep
<1>2. Inv /\ HistInv /\ CountInv /\ [Next]_vars => CountInv'
  BY CountStep
<1> QED
  BY <1>1, <1>2, TypeInit, TypeStep, NoticeInit, HistStep, CountInit, PTL DEF Spec, CountedOnce

-----------------------------------------------------------------------------
\* The syncer does not end a preempted workload: for any number of retries, its
\* status update makes it ended only if the object succeeded or was stopped.
THEOREM PreemptionSurvived == Spec => PreemptedSurvives
<1> DEFINE Step == spc = "update" /\ spc' = "decide" /\ wl # None /\ wl' # None /\ wl.preempted /\ ~Ended
                     => ~Ended' \/ (wl'.phase = sstat /\ sstat \in {"Succeeded", "Stopped"})
<1>1. ASSUME Inv, [Next]_vars PROVE Step
  <2> SUFFICES ASSUME spc = "update", spc' = "decide", wl # None, wl' # None, wl.preempted, ~Ended, Ended'
               PROVE  wl'.phase = sstat /\ sstat \in {"Succeeded", "Stopped"}
    OBVIOUS
  <2>1. SyncUpdate
    BY <1>1 DEF Next, vars, DeliverWatch, DeliverEvent, ObjectChanges, ObjectGone, ExternalDelete, Scheduler,
           SchedPick, SchedStatus, SchedAnnotate, Preempt, SchedDelete, SchedFinalize, Dispatcher, DispatchRead, DispatchObject,
           DispatchRetry, DispatchFails, DispatchMark, DispatchAnnotate, Failover, FailoverRead,
           FailoverDelete, FailoverMark, FaultEvent, Syncer, SyncRead, SyncFails, SyncDecide,
           SyncAnnotate, TTL, TTLStop, TTLDelete, UserDelete, Restart, SyncDone, SyncError, Restage, sync
  <2>2. PICK new \in Trimmed(StatusOf(ssnap, sstat, smsg.cnt)) : UNCHANGED api \/ Guarded(ssnap, new)
    BY <2>1 DEF SyncUpdate
  <2>3. wl = ssnap /\ wl' = new
    BY <2>2, StoreWrites DEF Guarded, api, Ended
  <2>4. wl \in Workload /\ sstat \in Status /\ smsg.cnt \in Nat
    BY <1>1 DEF Inv, TypeOK, SnapshotInv, Snapshot, Msg, Message, Counts
  <2>5. ~shouldTerminateWorkload(wl, smsg.cnt)
    BY DEF shouldTerminateWorkload
  <2>6. new.phase = PhaseOf(wl, sstat, smsg.cnt)
    <3>1. StatusOf(wl, sstat, smsg.cnt).phase = PhaseOf(wl, sstat, smsg.cnt)
      BY <2>4 DEF StatusOf, Workload
    <3> QED
      BY <2>2, <2>3, <2>4, <3>1, StatusType, TrimmedType
  <2>7. PhaseOf(wl, sstat, smsg.cnt) \in {wl.phase, "NotReady", sstat}
    BY <2>5 DEF PhaseOf
  <2> QED
    <3>1. wl'.phase \in {wl.phase, "NotReady", sstat} /\ wl'.phase \in {"Succeeded", "Failed", "Stopped"}
      BY <2>3, <2>6, <2>7 DEF Ended, IsWorkloadPhaseEnded
    <3>2. wl.phase \notin {"Succeeded", "Failed", "Stopped"}
      BY DEF Ended, IsWorkloadPhaseEnded
    <3>3. wl'.phase = "Failed" => FALSE
      BY <2>3, <2>4, <2>5, <2>6, <3>2 DEF PhaseOf, Status
    <3> QED
      BY <2>4, <3>1, <3>2, <3>3 DEF Status
<1>2. Inv /\ [Next]_vars => [Step]_vars
  BY <1>1
<1> QED
  BY <1>2, TypeInit, TypeStep, PTL DEF Spec, PreemptedSurvives

-----------------------------------------------------------------------------
(* The count agrees with the conditions and with the data cluster.  Nobody  *)
(* takes a count back, or a condition but the syncer the old ones of an     *)
(* application, so that what the cache and the        *)
(* dispatcher have is older than what is stored (PastInv); hence the object *)
(* a reconcile makes, and every message about it, is of the coming attempt  *)
(* at the most (Below).                                                     *)

Older(v) == Keeps(v, wl) /\ v.cnt <= wl.cnt

PastInv ==
    wl # None => /\ \A i \in Versions : Older(Ver(i))
                 /\ dpc # "idle" => Older(dsnap)

\* No object and no message is of an attempt after the b-th.
Below(b) ==
    /\ obj # None => obj.cnt <= b
    /\ \A i \in 1 .. Len(events) : events[i].cnt <= b
    /\ mail # None => mail.cnt <= b
    /\ smsg # None => smsg.cnt <= b

RecordInv ==
    /\ PastInv
    /\ wl # None => Below(wl.cnt + 1)
    /\ AttemptsRecorded

\* Who changes the count, and to what.
LEMMA Counting ==
    ASSUME Inv, [Next]_vars, wl # None, wl' # None, wl'.cnt # wl.cnt
    PROVE  DispatchAnnotate /\ wl'.cnt = dsnap.cnt + 1 /\ wl'.conds = wl.conds
<1>1. wl \in Workload
  BY DEF Inv, TypeOK, Snapshot
<1>2. CASE DeliverWatch \/ Restart
  BY <1>2 DEF DeliverWatch, Restart
<1>3. CASE DispatchMark
  <2>1. wl' = wl \/ (wl = dsnap /\ wl' = Mark(dsnap, "AdminDispatched"))
    BY <1>3, StoreWrites DEF DispatchMark, Guarded, api
  <2> QED
    BY <1>1, <2>1 DEF Mark, AddCond, Workload
<1>4. CASE DispatchAnnotate
  <2>1. wl' = [wl EXCEPT !.disp = TRUE, !.cnt = dsnap.cnt + 1, !.preempted = @ /\ ~dsnap.preempted]
    BY <1>4, StoreWrites DEF DispatchAnnotate, api
  <2> QED
    BY <1>1, <1>4, <2>1 DEF Workload
<1>5. CASE ~DeliverWatch /\ ~Restart /\ ~DispatchMark /\ ~DispatchAnnotate
  <2>1. CASE UNCHANGED api
    BY <2>1 DEF api
  <2>2. ASSUME NEW w \in Snapshot, Store(w), w # None => Kept(w)
        PROVE  FALSE
    BY <2>2, StoreWrites DEF Kept
  <2> QED
    BY <1>5, <2>1, <2>2, Writes
<1> QED
  BY <1>2, <1>3, <1>4, <1>5

\* Counts only grow, and conditions but the old ones of an application.
LEMMA Grows ==
    ASSUME Inv, HistInv, CountInv, [Next]_vars, wl' # None
    PROVE  /\ wl # None /\ wl \in Workload /\ wl' \in Workload /\ wl.cnt \in Nat /\ wl'.cnt \in Nat
           /\ Keeps(wl, wl') /\ wl.cnt <= wl'.cnt
<1>1. wl # None /\ Keeps(wl, wl')
  <2>1. CASE DeliverWatch \/ Restart \/ UNCHANGED api
    BY <2>1 DEF DeliverWatch, Restart, api, Keeps
  <2>2. CASE DispatchMark \/ DispatchAnnotate
    BY <2>1, <2>2, DispatchWrites, StoreWrites DEF Keeps
  <2>3. CASE ~DeliverWatch /\ ~Restart /\ ~DispatchMark /\ ~DispatchAnnotate
    BY <2>1, <2>3, Writes, StoreWrites DEF Kept
  <2> QED
    BY <2>1, <2>2, <2>3
<1>2. wl \in Workload /\ wl' \in Workload
  BY <1>1, TypeStep DEF Inv, TypeOK, Snapshot
<1>3. wl.cnt \in Nat /\ wl'.cnt \in Nat
  BY <1>2 DEF Workload, Counts
<1>4. wl'.cnt = wl.cnt \/ wl'.cnt = wl.cnt + 1
  BY <1>1, CountStep
<1> QED
  BY <1>1, <1>2, <1>3, <1>4

\* Where the snapshot of the dispatcher comes from.
LEMMA DispatchSnapshot ==
    ASSUME Inv, HistInv, [Next]_vars, dpc' # "idle"
    PROVE  \/ dpc # "idle" /\ dsnap' = dsnap
           \/ wl' = wl /\ dsnap' \in {cache, wl}
           \/ dsnap' = wl'
<1>1. CASE DispatchRead
  BY <1>1 DEF DispatchRead, disp, api
<1>2. CASE DispatchMark
  BY <1>2, StoreWrites DEF DispatchMark, Guarded
<1>3. CASE DispatchObject \/ DispatchRetry \/ DispatchFails \/ DispatchAnnotate \/ Restart
  BY <1>3 DEF DispatchObject, DispatchRetry, DispatchFails, DispatchAnnotate, Restart
<1>4. CASE UNCHANGED disp
  BY <1>4 DEF disp
<1>5. CASE DeliverWatch \/ DeliverEvent \/ ObjectChanges \/ ObjectGone \/ ExternalDelete \/ Scheduler \/ Preempt
           \/ SchedDelete \/ SchedFinalize
  BY <1>4, <1>5 DEF DeliverWatch, DeliverEvent, ObjectChanges, ObjectGone, ExternalDelete, Scheduler, SchedPick,
                    SchedStatus, SchedAnnotate, Preempt, SchedDelete, SchedFinalize
<1>6. CASE Failover \/ FaultEvent \/ Syncer \/ TTL \/ UserDelete \/ UNCHANGED vars
  BY <1>4, <1>6 DEF Failover, FailoverRead, FailoverDelete, FailoverMark, FaultEvent, Syncer, SyncRead, SyncUpdate,
                    SyncFails, SyncDecide, SyncAnnotate, TTL, TTLStop, TTLDelete, UserDelete, vars, disp
<1> QED
  BY <1>1, <1>2, <1>3, <1>5, <1>6 DEF Next, Dispatcher

\* What the cache and the dispatcher have stays older than what is stored.
LEMMA PastStep ==
    ASSUME Inv, HistInv, CountInv, PastInv, [Next]_vars
    PROVE  PastInv'
<1> SUFFICES ASSUME wl' # None
             PROVE  /\ \A i \in Versions' : Older(Ver(i))'
                    /\ dpc' # "idle" => Older(dsnap)'
  BY DEF PastInv
<1>0. /\ wl # None /\ wl.cnt \in Nat /\ wl'.cnt \in Nat
      /\ Keeps(wl, wl') /\ wl.cnt <= wl'.cnt
  BY Grows
<1>1. \A v \in Workload : Older(v) => Keeps(v, wl') /\ v.cnt <= wl'.cnt
  <2> SUFFICES ASSUME NEW v \in Workload, Older(v) PROVE Keeps(v, wl') /\ v.cnt <= wl'.cnt
    OBVIOUS
  <2>1. v.cnt \in Nat /\ \A c \in v.conds : c[2] \in Nat
    BY DEF Workload, Counts
  <2> QED
    BY <1>0, <2>1 DEF Older, Keeps
<1>2. \A i \in Versions : Older(Ver(i)) /\ Ver(i) \in Workload
  BY <1>0, CountTypes DEF PastInv
<1>3. \A i \in Versions : Keeps(Ver(i), wl') /\ Ver(i).cnt <= wl'.cnt
  BY <1>1, <1>2
<1>4. \A i \in Versions' : Older(Ver(i))'
  <2>1. CASE DeliverWatch
    BY <1>3, <2>1, DeliverVersions DEF Older
  <2>2. CASE Restart
    BY <1>0, <2>2 DEF Restart, Versions, Ver, Older
  <2>3. CASE ~DeliverWatch /\ ~Restart /\ UNCHANGED api
    <3>1. cache' = cache
      BY <2>3, AnyWrite
    <3> QED
      BY <1>3, <2>3, <3>1 DEF api, Versions, Ver, Older
  <2>4. ASSUME ~DeliverWatch, ~Restart, NEW w \in Snapshot, Store(w)
        PROVE  \A i \in Versions' : Older(Ver(i))'
    <3>1. wl' = w /\ cache' = cache
      BY <2>4, StoreWrites, AnyWrite
    <3>2. CASE w = wl /\ watch' = watch
      BY <1>3, <3>1, <3>2 DEF Versions, Ver, Older
    <3>3. CASE \A i \in Versions' : Ver(i)' = IF i \in Versions THEN Ver(i) ELSE w
      BY <1>0, <1>3, <3>1, <3>3 DEF Older, Keeps
    <3> QED
      BY <2>4, <3>1, <3>2, <3>3, StoreVersions
  <2> QED
    BY <2>1, <2>2, <2>3, <2>4, AnyWrite
<1>5. ASSUME dpc' # "idle" PROVE Older(dsnap)'
  <2>1. CASE dpc # "idle" /\ dsnap' = dsnap
    BY <1>0, <1>1, <2>1, CountTypes DEF PastInv, Older
  <2>2. CASE wl' = wl /\ dsnap' \in {cache, wl}
    BY <1>0, <1>3, <2>2, CountTypes DEF Older
  <2>3. CASE dsnap' = wl'
    BY <1>0, <2>3 DEF Older, Keeps
  <2> QED
    BY <1>5, <2>1, <2>2, <2>3, DispatchSnapshot
<1> QED
  BY <1>4, <1>5

\* An event behind the others.
LEMMA EmitBelow ==
    ASSUME Inv, NEW b \in Nat, \A i \in 1 .. Len(events) : events[i].cnt <= b,
           NEW a, NEW n \in Nat, n <= b, Emit(a, n)
    PROVE  \A i \in 1 .. Len(events') : events'[i].cnt <= b
<1> DEFINE m == [action |-> a, cnt |-> n]
<1>1. events \in Seq(Msg) /\ events' = Append(events, m) /\ m.cnt = n
  BY DEF Inv, TypeOK, Emit
<1> HIDE DEF m
<1>2. /\ Len(events) \in Nat /\ Len(events') = Len(events) + 1 /\ events'[Len(events) + 1] = m
      /\ \A i \in 1 .. Len(events) : events'[i] = events[i]
  BY <1>1
<1>3. \A i \in 1 .. Len(events') : i \in 1 .. Len(events) \/ i = Len(events) + 1
  BY <1>2
<1> QED
  BY <1>1, <1>2, <1>3

\* Deleting the object.
LEMMA DeleteBelow ==
    ASSUME Inv, NEW b \in Nat, Below(b), DeleteObject
    PROVE  (obj' # None => obj'.cnt <= b) /\ \A i \in 1 .. Len(events') : events'[i].cnt <= b
<1>1. CASE obj = None \/ obj.deleting
  BY <1>1 DEF DeleteObject, Below
<1>2. CASE ~(obj = None \/ obj.deleting)
  <2>1. obj \in Object /\ obj' = [obj EXCEPT !.deleting = TRUE] /\ Emit("deleting", obj.cnt)
    BY <1>2 DEF DeleteObject, Inv, TypeOK
  <2>2. obj'.cnt = obj.cnt /\ obj.cnt \in Nat /\ obj.cnt <= b
    BY <1>2, <2>1 DEF Object, Counts, Below
  <2> QED
    BY <2>1, <2>2, EmitBelow DEF Below
<1> QED
  BY <1>1, <1>2

\* A message that is put back, or dropped.
LEMMA RestageBelow ==
    ASSUME Inv, NEW b \in Nat, Below(b), smsg # None, SyncError \/ Restage \/ (SyncDone /\ UNCHANGED mail)
    PROVE  (mail' # None => mail'.cnt <= b) /\ smsg' = None
BY DEF Below, SyncError, Restage, SyncDone, mergeResourceMessage

\* No step makes an object or a message of a later attempt, but a reconcile of the
\* dispatcher that has the attempt before it.
LEMMA BelowStep ==
    ASSUME Inv, [Next]_vars, NEW b \in Nat, Below(b), dpc # "idle" => dsnap.cnt + 1 <= b
    PROVE  Below(b)'
<1>1. CASE DeliverEvent
  <2>1. events \in Seq(Msg) /\ events # <<>> /\ events' = Tail(events) /\ UNCHANGED <<obj, smsg>>
    BY <1>1 DEF DeliverEvent, Inv, TypeOK, sync
  <2>2. /\ Head(events) = events[1] /\ Len(events) \in Nat /\ 1 \in 1 .. Len(events) /\ Len(events') = Len(events) - 1
        /\ \A i \in 1 .. Len(events') : i + 1 \in 1 .. Len(events) /\ events'[i] = events[i + 1]
    BY <2>1
  <2>3. mail' # None => mail'.cnt <= b
    BY <1>1, <2>2 DEF DeliverEvent, Below, mergeResourceMessage
  <2> QED
    BY <2>1, <2>2, <2>3 DEF Below
<1>2. CASE ObjectChanges \/ ObjectGone
  <2>1. obj \in Object /\ obj.cnt \in Nat /\ obj.cnt <= b /\ UNCHANGED <<mail, smsg>>
    BY <1>2 DEF ObjectChanges, ObjectGone, Inv, TypeOK, Object, Counts, Below, sync
  <2>2. \A i \in 1 .. Len(events') : events'[i].cnt <= b
    BY <1>2, <2>1, EmitBelow DEF ObjectChanges, ObjectGone, Below
  <2>3. obj' # None => obj'.cnt = obj.cnt
    BY <1>2, <2>1 DEF ObjectChanges, ObjectGone, Object
  <2> QED
    BY <2>1, <2>2, <2>3 DEF Below
<1>3. CASE ExternalDelete \/ SchedDelete \/ FailoverDelete
  <2>1. DeleteObject \/ UNCHANGED <<obj, events>>
    BY <1>3 DEF ExternalDelete, SchedDelete, FailoverDelete
  <2>2. UNCHANGED <<mail, smsg>>
    BY <1>3 DEF ExternalDelete, SchedDelete, FailoverDelete, sync
  <2> QED
    BY <2>1, <2>2, DeleteBelow DEF Below
<1>4. CASE DispatchObject
  <2>1. dsnap \in Workload /\ dsnap.cnt + 1 \in Nat /\ dsnap.cnt + 1 <= b /\ UNCHANGED <<mail, smsg>>
    BY <1>4 DEF DispatchObject, Inv, TypeOK, SnapshotInv, Snapshot, Workload, Counts, sync
  <2>2. CASE UNCHANGED <<obj, events>>
    BY <2>1, <2>2 DEF Below
  <2>3. CASE obj' = [cnt |-> dsnap.cnt + 1, st |-> "Pending", deleting |-> FALSE] /\ Emit("add", dsnap.cnt + 1)
    <3>1. obj'.cnt = dsnap.cnt + 1
      BY <2>3
    <3>2. \A i \in 1 .. Len(events') : events'[i].cnt <= b
      BY <2>1, <2>3, EmitBelow DEF Below
    <3> QED
      BY <2>1, <3>1, <3>2 DEF Below
  <2> QED
    BY <1>4, <2>2, <2>3 DEF DispatchObject
<1>5. CASE SyncRead
  <2>1. mail \in Msg /\ mail' = None /\ UNCHANGED <<obj, events>> /\ mail.cnt <= b
    BY <1>5 DEF SyncRead, Inv, TypeOK, Below
  <2>2. AsDeleted(mail).cnt = mail.cnt
    BY <2>1 DEF AsDeleted, Msg, Message
  <2>3. smsg' \in {None, mail, AsDeleted(mail)}
    BY <1>5 DEF SyncRead, SyncDone
  <2> QED
    BY <2>1, <2>2, <2>3 DEF Below
<1>6. CASE SyncUpdate \/ SyncFails \/ SyncDecide \/ SyncAnnotate
  <2>1. UNCHANGED <<obj, events>> /\ smsg # None
    BY <1>6 DEF SyncUpdate, SyncFails, SyncDecide, SyncAnnotate, Inv, SnapshotInv
  <2>2. UNCHANGED <<mail, smsg>> \/ SyncError \/ Restage \/ (SyncDone /\ UNCHANGED mail)
    BY <1>6 DEF SyncUpdate, SyncFails, SyncDecide, SyncAnnotate
  <2> QED
    BY <2>1, <2>2, RestageBelow DEF Below
<1>7. CASE Restart
  <2>1. obj' = obj /\ mail' = None /\ smsg' = None
    BY <1>7 DEF Restart, SyncDone
  <2>2. CASE obj = None
    BY <1>7, <2>1, <2>2 DEF Restart, Below
  <2>3. CASE obj # None
    <3> DEFINE m == [action |-> IF obj.deleting THEN "deleting" ELSE "add", cnt |-> obj.cnt]
    <3>1. events' = <<m>> /\ m.cnt = obj.cnt
      BY <1>7, <2>3 DEF Restart
    <3> HIDE DEF m
    <3>2. Len(events') = 1 /\ events'[1] = m
      BY <3>1
    <3> QED
      BY <2>1, <2>3, <3>1, <3>2 DEF Below
  <2> QED
    BY <2>2, <2>3
<1>8. CASE UNCHANGED <<obj, events, mail, smsg>>
  BY <1>8 DEF Below
<1>9. CASE DeliverWatch \/ Scheduler \/ Preempt \/ SchedFinalize \/ DispatchRead \/ DispatchRetry \/ DispatchFails \/ DispatchMark
           \/ DispatchAnnotate
  BY <1>8, <1>9 DEF DeliverWatch, Scheduler, SchedPick, SchedStatus, SchedAnnotate, Preempt, SchedFinalize, DispatchRead, DispatchRetry,
                    DispatchFails, DispatchMark, DispatchAnnotate, sync
<1>10. CASE FailoverRead \/ FailoverMark \/ FaultEvent \/ TTL \/ UserDelete \/ UNCHANGED vars
  BY <1>8, <1>10 DEF FailoverRead, FailoverMark, FaultEvent, TTL, TTLStop, TTLDelete, UserDelete, sync, vars
<1> QED
  BY <1>1, <1>2, <1>3, <1>4, <1>5, <1>6, <1>7, <1>9, <1>10 DEF Next, Dispatcher, Failover, Syncer

\* The conditions of a changed workload.
LEMMA CondsOf ==
    ASSUME NEW w \in Workload
    PROVE  /\ \A p : [w EXCEPT !.phase = p].conds = w.conds
           /\ [w EXCEPT !.sched = TRUE].conds = w.conds
           /\ [w EXCEPT !.preempted = TRUE].conds = w.conds
           /\ [w EXCEPT !.deleting = TRUE].conds = w.conds
           /\ \A t, n : AddCond(w, t, n).conds = w.conds \cup {<<t, n>>}
           /\ \A t : Mark(w, t).conds = w.conds \cup {<<t, w.cnt + 1>>}
           /\ \A v : [w EXCEPT !.disp = FALSE, !.sched = @ /\ ~v.sched].conds = w.conds
           /\ \A st, n : StatusOf(w, st, n).conds \subseteq w.conds \cup {<<"K8sFailed", n>>}
BY DEF Workload, AddCond, Mark, StatusOf

\* The conditions a step adds are of the coming attempt at the most.
LEMMA NewConds ==
    ASSUME Inv, [Next]_vars, wl # None, wl' # None, Below(wl.cnt + 1), NEW c \in wl'.conds, c \notin wl.conds
    PROVE  c[2] <= wl.cnt + 1
<1>1. wl \in Workload /\ wl.cnt \in Nat
  BY DEF Inv, TypeOK, Snapshot, Workload, Counts
<1>2. CASE SchedStatus \/ DispatchMark
  <2>1. \E t : wl' = Mark(wl, t)
    BY <1>2, StoreWrites DEF SchedStatus, DispatchMark, Guarded, api
  <2>2. c = <<c[1], wl.cnt + 1>>
    BY <1>1, <2>1, CondsOf
  <2> QED
    BY <1>1, <2>2
<1>3. CASE FailoverMark \/ FaultEvent
  <2>1. wl' = AddCond(wl, "AdminFailover", wl.cnt)
    BY <1>3, StoreWrites DEF FailoverMark, FaultEvent, Guarded, api
  <2> QED
    BY <1>1, <2>1, CondsOf
<1>4. CASE SyncUpdate
  <2>0. wl \in Workload /\ sstat \in Status /\ smsg.cnt \in Nat
    BY <1>1, <1>4 DEF SyncUpdate, Inv, TypeOK, SnapshotInv, Msg, Message, Counts
  <2>1. wl' \in Trimmed(StatusOf(wl, sstat, smsg.cnt))
    BY <1>4, StoreWrites DEF SyncUpdate, Guarded, api
  <2>2. c = <<"K8sFailed", smsg.cnt>>
    BY <1>1, <2>0, <2>1, CondsOf, StatusType, TrimmedType
  <2>3. smsg.cnt <= wl.cnt + 1
    BY <1>4 DEF SyncUpdate, Inv, SnapshotInv, Below
  <2> QED
    BY <2>2, <2>3
<1>5. CASE DispatchAnnotate
  <2>1. wl'.cnt # wl.cnt => wl'.conds = wl.conds
    BY Counting
  <2>2. wl' = [wl EXCEPT !.disp = TRUE, !.cnt = dsnap.cnt + 1, !.preempted = @ /\ ~dsnap.preempted]
    BY <1>5, StoreWrites DEF DispatchAnnotate, api
  <2>3. wl'.conds = wl.conds
    BY <1>1, <2>2 DEF Workload
  <2> QED
    BY <2>3
<1>6. UNCHANGED api => wl'.conds = wl.conds
  BY DEF api
<1>7. \A w : Store(w) /\ (w # None => w.conds = wl.conds) => wl'.conds = wl.conds
  BY StoreWrites
<1>8. ASSUME NEW v, NEW p, Guarded(v, [v EXCEPT !.phase = p]) PROVE wl'.conds = wl.conds
  <2>1. Store([wl EXCEPT !.phase = p])
    BY <1>8 DEF Guarded
  <2>2. [wl EXCEPT !.phase = p].conds = wl.conds
    BY <1>1, CondsOf
  <2> QED
    BY <1>7, <2>1, <2>2
<1>9. CASE SchedAnnotate \/ Preempt \/ SchedDelete \/ SchedFinalize \/ DispatchFails
  <2>1. CASE SchedAnnotate
    BY <1>1, <1>6, <1>7, <2>1, CondsOf DEF SchedAnnotate
  <2>2. CASE Preempt
    BY <1>1, <1>6, <1>7, <2>2, CondsOf DEF Preempt, Guarded
  <2>3. CASE SchedDelete \/ SchedFinalize
    BY <1>6, <1>7, <2>3 DEF SchedDelete, SchedFinalize, Guarded
  <2>4. CASE DispatchFails
    BY <1>6, <1>8, <2>4 DEF DispatchFails
  <2> QED
    BY <1>9, <2>1, <2>2, <2>3, <2>4
<1>10. CASE SyncFails \/ SyncDecide \/ SyncAnnotate
  <2>1. CASE SyncFails
    BY <1>6, <1>8, <2>1 DEF SyncFails
  <2>2. CASE SyncDecide
    <3>1. UNCHANGED api \/ \E new \in Trimmed([ssnap EXCEPT !.phase = "Pending"]) : Guarded(ssnap, new)
      BY <2>2 DEF SyncDecide
    <3>2. ASSUME NEW new \in Trimmed([wl EXCEPT !.phase = "Pending"])
          PROVE  new.conds \subseteq wl.conds
      <4>1. [wl EXCEPT !.phase = "Pending"] \in Workload
        BY <1>1, WorkloadUpdates DEF Phase
      <4>2. [wl EXCEPT !.phase = "Pending"].conds = wl.conds
        BY <1>1, CondsOf
      <4>3. new.conds \subseteq [wl EXCEPT !.phase = "Pending"].conds
        BY <4>1, TrimmedType
      <4> QED
        BY <4>2, <4>3
    <3> QED
      BY <1>6, <3>1, <3>2, StoreWrites DEF Guarded
  <2>3. CASE SyncAnnotate
    BY <1>1, <1>6, <1>7, <2>3, CondsOf DEF SyncAnnotate
  <2> QED
    BY <1>10, <2>1, <2>2, <2>3
<1>11. CASE TTLStop \/ TTLDelete \/ UserDelete
  <2>1. CASE TTLStop
    BY <1>1, <1>6, <1>7, <2>1, CondsOf DEF TTLStop, Guarded
  <2>2. CASE TTLDelete \/ UserDelete
    BY <1>1, <1>6, <1>7, <2>2, CondsOf DEF TTLDelete, UserDelete, Delete
  <2> QED
    BY <1>11, <2>1, <2>2
<1>12. CASE DeliverWatch \/ DeliverEvent \/ ObjectChanges \/ ObjectGone \/ ExternalDelete \/ SchedPick \/ Restart
           \/ DispatchRead \/ DispatchObject \/ DispatchRetry \/ FailoverRead \/ FailoverDelete \/ SyncRead \/ UNCHANGED vars
  BY <1>12 DEF DeliverWatch, DeliverEvent, ObjectChanges, ObjectGone, ExternalDelete, SchedPick, Restart, DispatchRead,
              DispatchObject, DispatchRetry, FailoverRead, FailoverDelete, SyncRead, api, vars
<1> QED
  BY <1>2, <1>3, <1>4, <1>5, <1>9, <1>10, <1>11, <1>12 DEF Next, Scheduler, Dispatcher, Failover, Syncer, TTL

\* Every step.
LEMMA RecordStep ==
    ASSUME Inv, HistInv, CountInv, RecordInv, [Next]_vars
    PROVE  RecordInv'
<1>1. PastInv'
  BY PastStep DEF RecordInv
<1> SUFFICES ASSUME wl' # None PROVE Below(wl.cnt + 1)' /\ AttemptsRecorded'
  BY <1>1 DEF RecordInv, AttemptsRecorded
<1>2. /\ wl # None /\ wl \in Workload /\ wl' \in Workload /\ wl.cnt \in Nat /\ wl'.cnt \in Nat
      /\ Keeps(wl, wl') /\ wl.cnt <= wl'.cnt
  BY Grows
<1>3. Below(wl.cnt + 1) /\ (dpc # "idle" => Older(dsnap) /\ dsnap \in Workload /\ dsnap.cnt \in Nat)
  BY <1>2, CountTypes DEF RecordInv, PastInv
<1>4. Below(wl.cnt + 1)'
  <2>1. PICK b \in Nat : b = wl'.cnt + 1
    BY <1>2
  <2>2. Below(b)
    <3>1. /\ obj # None => obj.cnt \in Nat
          /\ mail # None => mail.cnt \in Nat
          /\ smsg # None => smsg.cnt \in Nat
      BY DEF Inv, TypeOK, Object, Msg, Message, Counts
    <3>2. \A i \in 1 .. Len(events) : events[i].cnt \in Nat
      <4>1. events \in Seq(Msg)
        BY DEF Inv, TypeOK
      <4>2. \A i \in 1 .. Len(events) : events[i] \in Msg
        BY <4>1
      <4> QED
        BY <4>2 DEF Msg, Message, Counts
    <3>3. \A n \in Nat : n <= wl.cnt + 1 => n <= b
      BY <1>2, <2>1
    <3> QED
      BY <1>3, <3>1, <3>2, <3>3 DEF Below
  <2>3. dpc # "idle" => dsnap.cnt + 1 <= b
    BY <1>2, <1>3, <2>1 DEF Older
  <2>4. Below(b)'
    BY <2>2, <2>3, BelowStep
  <2> QED
    BY <2>1, <2>4 DEF Below
<1>5. \A n \in 1 .. wl'.cnt : ~Application \/ n = wl'.cnt => <<"AdminDispatched", n>> \in wl'.conds
  <2>1. ASSUME NEW n \in 1 .. wl.cnt, ~Application \/ n = wl'.cnt
        PROVE  <<"AdminDispatched", n>> \in wl'.conds
    <3>1. n \in Nat /\ n <= wl.cnt /\ (n = wl'.cnt => n = wl.cnt)
      BY <1>2
    <3>2. <<"AdminDispatched", n>> \in wl.conds
      BY <1>2, <2>1, <3>1 DEF RecordInv, AttemptsRecorded
    <3>3. <<"AdminDispatched", n>>[2] = n
      OBVIOUS
    <3> QED
      BY <1>2, <2>1, <3>1, <3>2, <3>3 DEF Keeps
  <2>2. CASE wl'.cnt = wl.cnt
    BY <2>1, <2>2
  <2>3. CASE wl'.cnt # wl.cnt
    <3>1. wl'.cnt = wl.cnt + 1
      BY <1>2, <2>3, CountStep
    <3>2. DispatchAnnotate /\ wl'.cnt = dsnap.cnt + 1
      BY <1>2, <2>3, Counting
    <3>3. <<"AdminDispatched", dsnap.cnt + 1>> \in wl'.conds
      <4>1. <<"AdminDispatched", dsnap.cnt + 1>> \in dsnap.conds
        BY <3>2 DEF DispatchAnnotate, CountInv, MarkInv, Marked
      <4>2. dpc # "idle" /\ Keeps(dsnap, wl) /\ wl.conds = wl'.conds
        BY <1>2, <1>3, <2>3, <3>2, Counting DEF DispatchAnnotate, Older
      <4>3. <<"AdminDispatched", dsnap.cnt + 1>>[2] = dsnap.cnt + 1 /\ dsnap.cnt + 1 >= wl.cnt
        BY <1>2, <1>3, <3>1, <3>2, <4>2
      <4> QED
        BY <4>1, <4>2, <4>3 DEF Keeps
    <3>4. \A n \in 1 .. wl'.cnt : n \in 1 .. wl.cnt \/ n = wl'.cnt
      BY <1>2, <3>1
    <3> QED
      BY <2>1, <3>2, <3>3, <3>4
  <2> QED
    BY <2>2, <2>3
<1>6. \A c \in wl'.conds : c[2] <= wl'.cnt + 1
  <2> SUFFICES ASSUME NEW c \in wl'.conds PROVE c[2] <= wl'.cnt + 1
    OBVIOUS
  <2>1. c[2] \in Nat
    BY <1>2 DEF Workload, Counts
  <2>2. c[2] <= wl.cnt + 1
    BY <1>2, <1>3, NewConds DEF RecordInv, AttemptsRecorded
  <2> QED
    BY <1>2, <2>1, <2>2
<1> QED
  BY <1>4, <1>5, <1>6 DEF AttemptsRecorded, Below

\* The beginning, for the records.
LEMMA RecordInit == Init => RecordInv
<1> SUFFICES ASSUME Init PROVE RecordInv
  OBVIOUS
<1>1. /\ Versions = {0} /\ Ver(0) = wl /\ wl.cnt = 0 /\ wl.conds = {} /\ dpc = "idle"
      /\ obj = None /\ Len(events) = 0 /\ mail = None /\ smsg = None
  BY DEF Init, Versions, Ver, Fresh
<1> QED
  BY <1>1 DEF RecordInv, PastInv, Older, Keeps, Below, AttemptsRecorded

\* The count, the conditions and the data cluster agree on the attempts: for any
\* lag of the cache, any number of attempts, retries and restarts.
THEOREM AttemptsAgree == Spec => []AttemptsRecorded
<1>1. Inv /\ HistInv /\ CountInv /\ [Next]_vars => CountInv'
  BY CountStep
<1>2. RecordInv => AttemptsRecorded
  BY DEF RecordInv
<1> QED
  BY <1>1, <1>2, TypeInit, TypeStep, NoticeInit, HistStep, CountInit, RecordInit, RecordStep, PTL DEF Spec
=============================================================================

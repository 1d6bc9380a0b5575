-------------------------- MODULE WorkloadRecords --------------------------
(***************************************************************************)
(* The requests of the API server on one workload, and the exporter that   *)
(* writes its row.  A request works on a copy: its status patch carries    *)
(* the version of the copy and is tried again after a conflict.            *)
(***************************************************************************)
EXTENDS Exporter, TLAPS

CONSTANTS
    Client,         \* clients, each with one request at a time
    Ops,            \* the requests they make: create, stop, delete, patch, resume
    MaxRequests     \* bounds the requests

VARIABLES
    req,        \* the request of each client: its operation, step and copy
    made        \* requests made so far

vars == <<obj, row, queued, run, req, made>>

Ended == {"Stopped", "Succeeded"}
NoObject == [exists |-> FALSE, deleting |-> FALSE, exporter |-> FALSE, guard |-> FALSE,
             phase |-> "", text |-> 0, rv |-> 0]
Resting == [op |-> "none", step |-> "done", copy |-> NoObject]

TypeOK ==
    /\ ExporterTypeOK
    /\ req \in [Client -> [op : Ops \cup {"none"}, copy : Object,
                           step : {"done", "read", "pending", "phase", "delete", "hide", "update"}]]
    /\ made \in 0..MaxRequests

Init ==
    /\ obj = NoObject /\ row = NoRow /\ queued = FALSE /\ run = NoRun(NoObject)
    /\ req = [c \in Client |-> Resting] /\ made = 0

Step(c, s) == req' = [req EXCEPT ![c].step = s]
Read(c, s) == req' = [req EXCEPT ![c].step = s, ![c].copy = obj]
Fresh(c) == obj.exists /\ obj.rv = req[c].copy.rv

(* A write of the API server: the exporter hears of it.                     *)
Write(o) == CanWrite /\ obj' = Written(o) /\ Announce

Request(c) ==
    /\ req[c].step = "done" /\ made < MaxRequests
    /\ \E op \in Ops : req' = [req EXCEPT ![c] = [op |-> op, step |-> "read", copy |-> NoObject]]
    /\ made' = made + 1
    /\ UNCHANGED <<exporterVars>>

At(c, op, s) == req[c].op \in op /\ req[c].step = s

-----------------------------------------------------------------------------
(* Create and resume: the object is created, then its phase is set.  A      *)
(* resume needs the row, and takes whatever row there is.                   *)
createWorkloadImpl(c) ==
    /\ At(c, {"create", "resume"}, "read")
    /\ \/ /\ ~obj.exists /\ (req[c].op = "resume" => row.present) /\ CanWrite
          /\ obj' = [NoObject EXCEPT !.exists = TRUE, !.guard = TRUE, !.rv = obj.rv + 1]
          /\ queued' = TRUE
          /\ req' = [req EXCEPT ![c].step = "pending", ![c].copy = obj']
       \/ /\ obj.exists \/ (req[c].op = "resume" /\ ~row.present)
          /\ Step(c, "done") /\ UNCHANGED <<obj, queued>>
    /\ UNCHANGED <<row, run, made>>

MutUpdatePhase(c, phase, next) ==
    \/ /\ req[c].copy.phase = phase /\ Step(c, next) /\ UNCHANGED <<obj, queued>>
    \/ /\ req[c].copy.phase # phase /\ Fresh(c)
       /\ Write([obj EXCEPT !.phase = phase]) /\ Step(c, next)
    \/ /\ req[c].copy.phase # phase /\ ~Fresh(c)
       /\ Step(c, req[c].step) /\ UNCHANGED <<obj, queued>>

(* The loop of updateWorkloadPhase: skip, patch, or read again after a      *)
(* conflict until the attempts are used up.                                 *)
updateWorkloadPhase(c, phase, next) ==
    \/ /\ req[c].copy.phase = phase /\ Step(c, next) /\ UNCHANGED <<obj, queued>>
    \/ /\ req[c].copy.phase # phase /\ Fresh(c)
       /\ Write([obj EXCEPT !.phase = phase]) /\ Step(c, next)
    \/ /\ req[c].copy.phase # phase /\ ~Fresh(c) /\ obj.exists
       /\ Read(c, req[c].step) /\ UNCHANGED <<obj, queued>>
    \/ /\ req[c].copy.phase # phase /\ ~Fresh(c)
       /\ Step(c, "done") /\ UNCHANGED <<obj, queued>>

SetPending(c) ==
    /\ At(c, {"create", "resume"}, "pending")
    /\ updateWorkloadPhase(c, "Pending", "done")
    /\ UNCHANGED <<row, run, made>>

-----------------------------------------------------------------------------
(* Stop and delete.                                                         *)
SetWorkloadStopped == row' = [row EXCEPT !.phase = "Stopped", !.ended = TRUE]
MutHide == row' = [row EXCEPT !.hidden = TRUE, !.present = TRUE, !.text = 3]
SetWorkloadDeleted == row' = [row EXCEPT !.hidden = TRUE]

stopWorkloadImpl(c) ==
    /\ At(c, {"stop"}, "read")
    /\ \/ /\ ~obj.exists /\ row.present /\ row.phase \notin Ended
          /\ SetWorkloadStopped /\ Step(c, "done")
       \/ /\ ~obj.exists /\ (row.present => row.phase \in Ended)
          /\ Step(c, "done") /\ UNCHANGED row
       \/ /\ obj.exists /\ obj.phase \in Ended
          /\ Step(c, "done") /\ UNCHANGED row
       \/ /\ obj.exists /\ obj.phase \notin Ended
          /\ Read(c, "phase") /\ UNCHANGED row
    /\ UNCHANGED <<obj, queued, run, made>>

deleteWorkloadImpl(c) ==
    /\ At(c, {"delete"}, "read")
    /\ IF obj.exists THEN Read(c, "phase") ELSE Step(c, "hide")
    /\ UNCHANGED <<exporterVars, made>>

StopPhase(c) ==
    /\ At(c, {"stop", "delete"}, "phase")
    /\ updateWorkloadPhase(c, "Stopped", "delete")
    /\ UNCHANGED <<row, run, made>>

deleteAdminWorkload(c) ==
    /\ At(c, {"stop", "delete"}, "delete")
    /\ \/ /\ obj.exists /\ ~obj.deleting
          /\ CanWrite /\ obj' = Deleted(obj) /\ Announce
          /\ Step(c, IF req[c].op = "delete" THEN "hide" ELSE "done")
       \/ /\ obj.exists /\ obj.deleting
          /\ Step(c, IF req[c].op = "delete" THEN "hide" ELSE "done")
          /\ UNCHANGED <<obj, queued>>
       \/ /\ ~obj.exists /\ Step(c, "done") /\ UNCHANGED <<obj, queued>>
    /\ UNCHANGED <<row, run, made>>

(* Without a row there is nothing to hide, and the request succeeds.        *)
Hide(c) ==
    /\ At(c, {"delete"}, "hide")
    /\ IF row.present THEN SetWorkloadDeleted ELSE UNCHANGED row
    /\ Step(c, "done")
    /\ UNCHANGED <<obj, queued, run, made>>

-----------------------------------------------------------------------------
(* Patch: the whole object is updated, and read again after a conflict.     *)
patchWorkload(c) ==
    /\ At(c, {"patch"}, "read")
    /\ IF obj.exists THEN Read(c, "update") ELSE Step(c, "done")
    /\ UNCHANGED <<exporterVars, made>>

updateWorkload(c) ==
    /\ At(c, {"patch"}, "update")
    /\ \/ /\ Fresh(c) /\ Write([obj EXCEPT !.text = 3 - (IF @ = 0 THEN 2 ELSE @)])
          /\ Step(c, "done")
       \/ /\ ~Fresh(c) /\ obj.exists /\ Read(c, "update") /\ UNCHANGED <<obj, queued>>
       \/ /\ ~Fresh(c) /\ Step(c, "done") /\ UNCHANGED <<obj, queued>>
    /\ UNCHANGED <<row, run, made>>

-----------------------------------------------------------------------------
(* The controllers: a pending workload runs, a running one succeeds, an     *)
(* ended one is removed after its time, a deleted one loses its finalizer.  *)
Manage ==
    /\ obj.exists /\ ~obj.deleting
    /\ \/ obj.phase = "Pending" /\ Write([obj EXCEPT !.phase = "Running"])
       \/ obj.phase = "Running" /\ Write([obj EXCEPT !.phase = "Succeeded"])
       \/ obj.phase \in Ended /\ CanWrite /\ obj' = Deleted(obj) /\ Announce
    /\ UNCHANGED <<row, run, req, made>>

Release ==
    /\ obj.exists /\ obj.deleting /\ obj.guard
    /\ Write([obj EXCEPT !.guard = FALSE])
    /\ UNCHANGED <<row, run, req, made>>

Exporting ==
    /\ ExporterStep(UpsertWorkload(run.copy))
    /\ UNCHANGED <<req, made>>

Handler(c) ==
    \/ createWorkloadImpl(c) \/ SetPending(c)
    \/ stopWorkloadImpl(c) \/ deleteWorkloadImpl(c) \/ StopPhase(c)
    \/ deleteAdminWorkload(c) \/ Hide(c) \/ patchWorkload(c) \/ updateWorkload(c)

Next == Exporting \/ Manage \/ Release \/ \E c \in Client : Request(c) \/ Handler(c)

Spec == Init /\ [][Next]_vars

-----------------------------------------------------------------------------
(* The row of a workload that is gone says so: the exporter's finalizer     *)
(* keeps the object until its deletion is in the row.                       *)
GoneRowEnded == ~obj.exists /\ row.present => row.ended

-----------------------------------------------------------------------------
(* A proof of it, for any number of clients, requests and versions, if no   *)
(* write of the exporter is given up.  The object that a row still counts   *)
(* as present carries the exporter's finalizer, and so does the object that *)
(* a run is about to write as present.                                      *)

AnObject(o) ==
    /\ DOMAIN o = {"exists", "deleting", "exporter", "guard", "phase", "text", "rv"}
    /\ o.exists \in BOOLEAN /\ o.deleting \in BOOLEAN /\ o.exporter \in BOOLEAN /\ o.guard \in BOOLEAN
ARow(r) ==
    /\ DOMAIN r = {"present", "phase", "text", "ended", "hidden", "by"}
    /\ r.present \in BOOLEAN /\ r.ended \in BOOLEAN
ARun(x) ==
    /\ DOMAIN x = {"step", "copy"}
    /\ x.step \in {"idle", "mark", "write", "release"} /\ AnObject(x.copy)

Typed == AnObject(obj) /\ ARow(row) /\ ARun(run)

Held == obj.exists /\ obj.exporter

Recorded == row.present /\ ~row.ended => Held
Underway == run.step \in {"mark", "write"} /\ ~run.copy.deleting /\ run.copy.exporter => Held
Marked == run.step = "write" => run.copy.deleting \/ run.copy.exporter
Released == run.step = "release" => run.copy.deleting /\ row.present /\ row.ended

Inv == DBFails = FALSE /\ Typed /\ Recorded /\ Underway /\ Marked /\ Released

\* A write keeps the finalizer and the object that has it.
LEMMA WrittenKeeps ==
    ASSUME NEW o, AnObject(o)
    PROVE  /\ AnObject(Written(o))
           /\ Written(o).exporter = o.exporter
           /\ o.exists /\ o.exporter => Written(o).exists
BY DEF Written, AnObject

\* A step that changes the object alone, and keeps the finalizer.
LEMMA ObjectStep ==
    ASSUME Inv, AnObject(obj'), Held => obj'.exists /\ obj'.exporter, UNCHANGED <<row, run>>
    PROVE  Inv'
BY DEF Inv, Typed, Recorded, Underway, Marked, Released, Held

\* Writes of the API server and the controllers.
LEMMA WriteStep ==
    ASSUME Inv, NEW o, AnObject(o), o.exporter = obj.exporter, o.exists = obj.exists,
           obj' = Written(o), UNCHANGED <<row, run>>
    PROVE  Inv'
<1>1. AnObject(obj') /\ (Held => obj'.exists /\ obj'.exporter)
  BY WrittenKeeps DEF Held
<1> QED BY <1>1, ObjectStep

\* A write of the content.
LEMMA ContentStep ==
    ASSUME Inv, NEW v, UNCHANGED <<row, run>>,
           obj' = Written([obj EXCEPT !.phase = v]) \/ obj' = Written([obj EXCEPT !.text = v])
    PROVE  Inv'
<1>1. PICK o : /\ AnObject(o) /\ o.exporter = obj.exporter /\ o.exists = obj.exists
               /\ obj' = Written(o)
  <2>1. AnObject(obj)
    BY DEF Inv, Typed
  <2>2. CASE obj' = Written([obj EXCEPT !.phase = v])
    <3> WITNESS [obj EXCEPT !.phase = v]
    <3> QED BY <2>1, <2>2 DEF AnObject
  <2>3. CASE obj' = Written([obj EXCEPT !.text = v])
    <3> WITNESS [obj EXCEPT !.text = v]
    <3> QED BY <2>1, <2>3 DEF AnObject
  <2> QED BY <2>2, <2>3
<1> QED BY <1>1, WriteStep

\* A deletion, and the release of a deleted object by its controller.
LEMMA DeletionStep ==
    ASSUME Inv, UNCHANGED <<row, run>>,
           \/ obj' = Written([obj EXCEPT !.deleting = TRUE])
           \/ obj' = Written([obj EXCEPT !.guard = FALSE])
    PROVE  Inv'
<1>1. PICK o : /\ AnObject(o) /\ o.exporter = obj.exporter /\ o.exists = obj.exists
               /\ obj' = Written(o)
  <2>1. AnObject(obj)
    BY DEF Inv, Typed
  <2>2. CASE obj' = Written([obj EXCEPT !.deleting = TRUE])
    <3> WITNESS [obj EXCEPT !.deleting = TRUE]
    <3> QED BY <2>1, <2>2 DEF AnObject
  <2>3. CASE obj' = Written([obj EXCEPT !.guard = FALSE])
    <3> WITNESS [obj EXCEPT !.guard = FALSE]
    <3> QED BY <2>1, <2>3 DEF AnObject
  <2> QED BY <2>2, <2>3
<1> QED BY <1>1, WriteStep

\* A step that changes neither the object nor the row nor the run.
LEMMA QuietStep == ASSUME Inv, UNCHANGED <<obj, row, run>> PROVE Inv'
BY DEF Inv, Typed, Recorded, Underway, Marked, Released, Held

\* A step of the API server that changes the row: it never revives one.
LEMMA RowStep ==
    ASSUME Inv, UNCHANGED <<obj, run>>, ARow(row'), row'.present = row.present,
           row.ended => row'.ended
    PROVE  Inv'
BY DEF Inv, Typed, Recorded, Underway, Marked, Released, Held

\* Setting a phase.
LEMMA PhaseStep ==
    ASSUME Inv, NEW c \in Client, NEW p, NEW n, updateWorkloadPhase(c, p, n),
           UNCHANGED <<row, run>>
    PROVE  Inv'
<1>1. UNCHANGED obj \/ obj' = Written([obj EXCEPT !.phase = p])
  BY DEF updateWorkloadPhase, Write
<1> QED BY <1>1, ContentStep, QuietStep

\* The requests.
LEMMA HandlerStep == ASSUME Inv, NEW c \in Client, Handler(c) PROVE Inv'
<1> USE DEF exporterVars
<1>0. AnObject(obj) /\ ARow(row)
  BY DEF Inv, Typed
<1>1. CASE createWorkloadImpl(c)
  <2>1. UNCHANGED <<row, run>>
    BY <1>1 DEF createWorkloadImpl
  <2>2. CASE UNCHANGED obj
    BY <2>1, <2>2, QuietStep
  <2>3. CASE ~obj.exists /\ obj' = [NoObject EXCEPT !.exists = TRUE, !.guard = TRUE, !.rv = obj.rv + 1]
    <3>1. AnObject(obj')
      BY <1>0, <2>3 DEF AnObject, NoObject
    <3> QED BY <2>1, <2>3, <3>1, ObjectStep DEF Held
  <2> QED BY <1>1, <2>2, <2>3 DEF createWorkloadImpl
<1>2. CASE SetPending(c) \/ StopPhase(c)
  BY <1>2, PhaseStep DEF SetPending, StopPhase
<1>3. CASE stopWorkloadImpl(c)
  <2>1. UNCHANGED <<obj, run>> /\ (UNCHANGED row \/ SetWorkloadStopped)
    BY <1>3 DEF stopWorkloadImpl
  <2>2. CASE SetWorkloadStopped
    <3>1. ARow(row') /\ row'.present = row.present /\ row'.ended
      BY <1>0, <2>2 DEF SetWorkloadStopped, ARow
    <3> QED BY <2>1, <3>1, RowStep
  <2> QED BY <2>1, <2>2, QuietStep
<1>4. CASE deleteAdminWorkload(c)
  <2>1. UNCHANGED <<row, run>> /\ (UNCHANGED obj \/ obj' = Written([obj EXCEPT !.deleting = TRUE]))
    BY <1>4 DEF deleteAdminWorkload, Deleted
  <2> QED BY <2>1, DeletionStep, QuietStep
<1>5. CASE Hide(c)
  <2>1. UNCHANGED <<obj, run>> /\ (UNCHANGED row \/ SetWorkloadDeleted)
    BY <1>5 DEF Hide
  <2>2. CASE SetWorkloadDeleted
    <3>1. ARow(row') /\ row'.present = row.present /\ row'.ended = row.ended
      BY <1>0, <2>2 DEF SetWorkloadDeleted, ARow
    <3> QED BY <2>1, <3>1, RowStep
  <2> QED BY <2>1, <2>2, QuietStep
<1>6. CASE updateWorkload(c)
  <2> DEFINE t == 3 - (IF obj.text = 0 THEN 2 ELSE obj.text)
  <2>1. UNCHANGED <<row, run>> /\ (UNCHANGED obj \/ obj' = Written([obj EXCEPT !.text = t]))
    BY <1>6 DEF updateWorkload, Write
  <2> HIDE DEF t
  <2> QED BY <2>1, ContentStep, QuietStep
<1>7. CASE deleteWorkloadImpl(c) \/ patchWorkload(c)
  BY <1>7, QuietStep DEF deleteWorkloadImpl, patchWorkload
<1> QED BY <1>1, <1>2, <1>3, <1>4, <1>5, <1>6, <1>7 DEF Handler

\* A run that begins.
LEMMA RunBegins ==
    ASSUME NEW o, AnObject(o), NEW s \in {"mark", "write"}
    PROVE  /\ ARun([step |-> s, copy |-> o]) /\ [step |-> s, copy |-> o].step = s
           /\ [step |-> s, copy |-> o].copy = o
BY DEF ARun

\* A run that goes on.
LEMMA RunGoesOn ==
    ASSUME NEW x, ARun(x), NEW s \in {"idle", "write", "release"}
    PROVE  /\ ARun([x EXCEPT !.step = s]) /\ [x EXCEPT !.step = s].step = s
           /\ [x EXCEPT !.step = s].copy = x.copy
BY DEF ARun

\* The exporter.
LEMMA ExportingStep == ASSUME Inv, Exporting PROVE Inv'
<1>0. DBFails = FALSE /\ AnObject(obj) /\ ARow(row) /\ ARun(run)
  BY DEF Inv, Typed
<1>1. CASE Reconcile
  <2>1. UNCHANGED <<obj, row>> /\ (UNCHANGED run \/ (obj.exists /\ run' = [step |-> "mark", copy |-> obj]))
    BY <1>1 DEF Reconcile
  <2>2. CASE obj.exists /\ run' = [step |-> "mark", copy |-> obj]
    <3>1. ARun(run') /\ run'.step = "mark" /\ run'.copy = obj
      BY <1>0, <2>2, RunBegins
    <3> QED BY <1>0, <2>1, <2>2, <3>1 DEF Inv, Typed, Recorded, Underway, Marked, Released, Held
  <2> QED BY <2>1, <2>2, QuietStep
<1>2. CASE addFinalizer
  <2>1. CASE /\ run.copy.deleting \/ run.copy.exporter
             /\ run' = [run EXCEPT !.step = "write"] /\ UNCHANGED <<obj, row>>
    <3>1. ARun(run') /\ run'.step = "write" /\ run'.copy = run.copy /\ run.step = "mark"
      BY <1>0, <1>2, <2>1, RunGoesOn DEF addFinalizer
    <3> QED BY <1>0, <2>1, <3>1 DEF Inv, Typed, Recorded, Underway, Marked, Released, Held
  <2>2. CASE run' = [run EXCEPT !.step = "idle"] /\ UNCHANGED <<obj, row>>
    <3>1. ARun(run') /\ run'.step = "idle"
      BY <1>0, <2>2, RunGoesOn
    <3> QED BY <1>0, <2>2, <3>1 DEF Inv, Typed, Recorded, Underway, Marked, Released, Held
  <2>3. CASE /\ obj.exists /\ obj' = Written([obj EXCEPT !.exporter = TRUE])
             /\ run' = [step |-> "write", copy |-> obj'] /\ UNCHANGED row
    <3> DEFINE o == [obj EXCEPT !.exporter = TRUE]
    <3>1. AnObject(o) /\ o.exporter /\ o.exists
      BY <1>0, <2>3 DEF AnObject
    <3>2. AnObject(obj') /\ obj'.exporter /\ obj'.exists
      <4> HIDE DEF o
      <4>1. obj' = Written(o)
        BY <2>3 DEF o
      <4> QED BY <3>1, <4>1, WrittenKeeps
    <3>3. ARun(run') /\ run'.step = "write" /\ run'.copy = obj'
      BY <2>3, <3>2, RunBegins
    <3> QED BY <1>0, <2>3, <3>2, <3>3 DEF Inv, Typed, Recorded, Underway, Marked, Released, Held
  <2> QED BY <1>2, <2>1, <2>2, <2>3 DEF addFinalizer, Again
<1>3. CASE Export(UpsertWorkload(run.copy))
  <2>1. /\ run.step = "write" /\ UNCHANGED obj /\ row' = UpsertWorkload(run.copy)
        /\ run' = [run EXCEPT !.step = IF run.copy.deleting THEN "release" ELSE "idle"]
    BY <1>0, <1>3 DEF Export
  <2>2. ARow(row') /\ row'.present /\ row'.ended = run.copy.deleting
    <3>1. run.copy.deleting \in BOOLEAN
      BY <1>0 DEF ARun, AnObject
    <3> QED BY <2>1, <3>1 DEF UpsertWorkload, ARow
  <2>3. ARun(run') /\ run'.copy = run.copy /\ run'.step = IF run.copy.deleting THEN "release" ELSE "idle"
    <3>1. (IF run.copy.deleting THEN "release" ELSE "idle") \in {"idle", "write", "release"}
      OBVIOUS
    <3> QED BY <1>0, <2>1, <3>1, RunGoesOn
  <2> QED BY <1>0, <2>1, <2>2, <2>3 DEF Inv, Typed, Recorded, Underway, Marked, Released, Held
<1>4. CASE GiveUp
  BY <1>0, <1>4 DEF GiveUp
<1>5. CASE removeFinalizer
  <2>1. run.step = "release" /\ UNCHANGED row
    BY <1>5 DEF removeFinalizer
  <2>2. row.present /\ row.ended
    BY <2>1 DEF Inv, Released
  <2>3. run' = [run EXCEPT !.step = "idle"]
    BY <1>5 DEF removeFinalizer, Again
  <2>4. UNCHANGED obj \/ obj' = Written([obj EXCEPT !.exporter = FALSE])
    BY <1>5 DEF removeFinalizer
  <2>5. AnObject([obj EXCEPT !.exporter = FALSE])
    BY <1>0 DEF AnObject
  <2>6. AnObject(obj')
    BY <1>0, <2>4, <2>5, WrittenKeeps
  <2>7. ARun(run') /\ run'.step = "idle"
    BY <1>0, <2>3, RunGoesOn
  <2> QED BY <1>0, <2>1, <2>2, <2>6, <2>7 DEF Inv, Typed, Recorded, Underway, Marked, Released
<1> QED BY <1>1, <1>2, <1>3, <1>4, <1>5 DEF Exporting, ExporterStep

\* Every step.
LEMMA InvStep == Inv /\ [Next]_vars => Inv'
<1> SUFFICES ASSUME Inv, [Next]_vars PROVE Inv'
  OBVIOUS
<1>1. CASE Exporting
  BY <1>1, ExportingStep
<1>2. CASE Manage
  <2>1. /\ UNCHANGED <<row, run>>
        /\ \/ obj' = Written([obj EXCEPT !.phase = "Running"])
           \/ obj' = Written([obj EXCEPT !.phase = "Succeeded"])
           \/ obj' = Written([obj EXCEPT !.deleting = TRUE])
    BY <1>2 DEF Manage, Write, Deleted
  <2> QED BY <2>1, ContentStep, DeletionStep
<1>3. CASE Release
  <2>1. UNCHANGED <<row, run>> /\ obj' = Written([obj EXCEPT !.guard = FALSE])
    BY <1>3 DEF Release, Write
  <2> QED BY <2>1, DeletionStep
<1>4. ASSUME NEW c \in Client, Request(c) PROVE Inv'
  BY <1>4, QuietStep DEF Request, exporterVars
<1>5. ASSUME NEW c \in Client, Handler(c) PROVE Inv'
  BY <1>5, HandlerStep
<1>6. CASE UNCHANGED vars
  BY <1>6, QuietStep DEF vars
<1> QED BY <1>1, <1>2, <1>3, <1>4, <1>5, <1>6 DEF Next

\* As long as the exporter's writes succeed in the end, the row of a workload
\* that is gone says that it ended: however stops, deletions, new creations and
\* runs of the exporter on older copies interleave, none brings a row back.
THEOREM GoneIsEnded == DBFails = FALSE /\ Spec => []GoneRowEnded
<1>1. DBFails = FALSE /\ Init => Inv
  <2> SUFFICES ASSUME DBFails = FALSE, Init PROVE Inv
    OBVIOUS
  <2>1. obj = NoObject /\ row = NoRow /\ run = NoRun(NoObject)
    BY DEF Init
  <2>2. AnObject(NoObject)
    BY DEF NoObject, AnObject
  <2>3. ARow(NoRow) /\ ~NoRow.present
    BY DEF NoRow, ARow
  <2>4. /\ ARun(NoRun(NoObject))
        /\ NoRun(NoObject).step = "idle"
    BY <2>2 DEF NoRun, ARun
  <2> QED BY <2>1, <2>2, <2>3, <2>4 DEF Inv, Typed, Recorded, Underway, Marked, Released
<1>2. Inv => GoneRowEnded
  BY DEF Inv, Recorded, Held, GoneRowEnded
<1> QED BY <1>1, <1>2, InvStep, PTL DEF Spec
=============================================================================

------------------------------ MODULE Exporter ------------------------------
(***************************************************************************)
(* The exporter copies one object of the cluster into a row of the         *)
(* database.  Its work is keyed: one run per object at a time, a change    *)
(* during a run queues another.  Its finalizer keeps a deleted object      *)
(* until the row has been written.  Modules of the API server extend this  *)
(* one and add the requests.                                               *)
(***************************************************************************)
EXTENDS Integers

CONSTANTS
    Phase,          \* phases of the object
    HasFilter,      \* whether events that change finalizers only are dropped
    DBFails,        \* whether a write of the exporter may fail
    MaxRv           \* bounds the versions of the object

VARIABLES
    obj,        \* the object: exists, deleting, its finalizers, its content, its version
    row,        \* the row: present, content, deletion time set, hidden from lists, who wrote it last
    queued,     \* whether the object waits in the exporter's queue
    run         \* the exporter's run: its step and its copy of the object

exporterVars == <<obj, row, queued, run>>

NoRow == [present |-> FALSE, phase |-> "", text |-> 0, ended |-> FALSE, hidden |-> FALSE,
          by |-> ""]
NoRun(o) == [step |-> "idle", copy |-> o]

Object == [exists : BOOLEAN, deleting : BOOLEAN, exporter : BOOLEAN, guard : BOOLEAN,
           phase : Phase \cup {""}, text : 0..2, rv : 0..MaxRv]
Row == [present : BOOLEAN, phase : Phase \cup {""}, text : 0..2,
        ended : BOOLEAN, hidden : BOOLEAN,
        by : {"", "exporter", "api"}]

ExporterTypeOK ==
    /\ obj \in Object /\ row \in Row /\ queued \in BOOLEAN
    /\ run \in [step : {"idle", "mark", "write", "release"}, copy : Object]
    /\ obj.deleting => obj.exists /\ (obj.exporter \/ obj.guard)

(* A version of the object after a write; the last finalizer to go takes it *)
(* away.                                                                    *)
Written(o) ==
    [o EXCEPT !.rv = @ + 1,
              !.exists = @ /\ (o.deleting => o.exporter \/ o.guard),
              !.deleting = @ /\ (o.exporter \/ o.guard)]

CanWrite == obj.rv < MaxRv

Deleted(o) == Written([o EXCEPT !.deleting = TRUE])

MutFilter(old, new) == old.text = new.text /\ old.deleting = new.deleting

(* The events that a filter drops: the ones that change finalizers only.    *)
Filter(old, new) ==
    HasFilter /\ old.phase = new.phase /\ old.text = new.text /\ old.deleting = new.deleting

Announce == queued' = (queued \/ ~Filter(obj, obj'))

-----------------------------------------------------------------------------
(* Do: read the object, or stop if it is gone.                              *)
Reconcile ==
    /\ queued /\ run.step = "idle"
    /\ queued' = FALSE
    /\ run' = IF obj.exists THEN [step |-> "mark", copy |-> obj] ELSE run
    /\ UNCHANGED <<obj, row>>

Again == queued' = TRUE /\ run' = [run EXCEPT !.step = "idle"]

MutNoFinalizer ==
    /\ run.step = "mark"
    /\ run' = [run EXCEPT !.step = "write"] /\ UNCHANGED <<obj, queued, row>>

(* The finalizer is patched against the version that was read.              *)
addFinalizer ==
    /\ run.step = "mark"
    /\ \/ /\ run.copy.deleting \/ run.copy.exporter
          /\ run' = [run EXCEPT !.step = "write"] /\ UNCHANGED <<obj, queued>>
       \/ /\ ~run.copy.deleting /\ ~run.copy.exporter /\ CanWrite
          /\ IF obj.exists /\ obj.rv = run.copy.rv
             THEN /\ obj' = Written([obj EXCEPT !.exporter = TRUE])
                  /\ run' = [step |-> "write", copy |-> obj']
                  /\ Announce
             ELSE Again /\ UNCHANGED obj
    /\ UNCHANGED row

-----------------------------------------------------------------------------
(* The mappers and the upserts.                                             *)
(* workloadMapper: a workload that is deleted before its end is stored as   *)
(* stopped, and one without a phase yet as pending.                         *)
workloadMapper(o) ==
    IF o.deleting /\ o.phase \notin {"Succeeded", "Failed", "Stopped"} THEN "Stopped"
    ELSE IF ~o.deleting /\ o.phase = "" THEN "Pending"
    ELSE o.phase

MutUpsert(o) ==
    [present |-> TRUE, phase |-> workloadMapper(o), text |-> o.text, ended |-> o.deleting, hidden |-> FALSE,
     by |-> "exporter"]

(* A workload's row keeps its mark of deletion; the phase and the           *)
(* description come from the object.                                        *)
UpsertWorkload(o) ==
    [present |-> TRUE, phase |-> workloadMapper(o), text |-> o.text,
     ended |-> o.deleting, hidden |-> row.present /\ row.hidden, by |-> "exporter"]

MutUpsertModel(o) ==
    [present |-> TRUE, phase |-> o.phase, text |-> o.text, ended |-> o.deleting, hidden |-> FALSE,
     by |-> "exporter"]

(* A model's row is replaced as a whole.                                    *)
UpsertModel(o) ==
    [present |-> TRUE, phase |-> o.phase, text |-> o.text,
     ended |-> o.deleting, hidden |-> o.deleting, by |-> "exporter"]

Export(new) ==
    /\ run.step = "write"
    /\ \/ /\ row' = new
          /\ run' = [run EXCEPT !.step = IF run.copy.deleting THEN "release" ELSE "idle"]
          /\ UNCHANGED queued
       \/ /\ DBFails /\ Again /\ UNCHANGED row
    /\ UNCHANGED obj

(* A write that kept failing for hours after the deletion is given up.      *)
GiveUp ==
    /\ run.step = "write" /\ run.copy.deleting /\ DBFails
    /\ run' = [run EXCEPT !.step = "release"]
    /\ UNCHANGED <<obj, row, queued>>

removeFinalizer ==
    /\ run.step = "release"
    /\ \/ /\ ~run.copy.exporter
          /\ run' = [run EXCEPT !.step = "idle"] /\ UNCHANGED <<obj, queued>>
       \/ /\ run.copy.exporter /\ CanWrite
          /\ IF obj.exists /\ obj.rv = run.copy.rv
             THEN /\ obj' = Written([obj EXCEPT !.exporter = FALSE])
                  /\ run' = [run EXCEPT !.step = "idle"]
                  /\ Announce
             ELSE Again /\ UNCHANGED obj
    /\ UNCHANGED row

ExporterStep(new) ==
    Reconcile \/ addFinalizer \/ Export(new) \/ GiveUp \/ removeFinalizer

=============================================================================

---------------------------- MODULE ModelRecords ----------------------------
(***************************************************************************)
(* The requests of the API server on one model, the secret it needs, the   *)
(* workloads deployed from it, and the exporter that writes its row.  Some *)
(* requests write the row themselves, beside the exporter.  A second model *)
(* of the same source is noted but not followed.                           *)
(***************************************************************************)
EXTENDS Exporter

CONSTANTS
    Client,         \* clients, each with one request at a time
    Ops,            \* the requests they make: create, patch, delete, deploy
    Modes,          \* how the model may be given: "local", "s3_sync", "local_path"
    CallsFail,      \* whether calls of the API server may fail
    MaxRequests     \* bounds the requests

VARIABLES
    req,        \* the request of each client: its operation, step and copy of the row
    made,       \* requests made so far
    mode,       \* how the model was given
    secret,     \* the model's secret: none, there, left over, or deleted before a deletion that failed
    twin,       \* whether a second model has the same source
    user        \* phase of a workload that serves the model, "none" without one

modelVars == <<made, mode, secret, twin, user>>
vars == <<exporterVars, req, modelVars>>

NoObject == [exists |-> FALSE, deleting |-> FALSE, exporter |-> FALSE, guard |-> FALSE,
             phase |-> "", text |-> 0, rv |-> 0]
Resting == [op |-> "none", step |-> "done", copy |-> NoRow]

TypeOK ==
    /\ ExporterTypeOK
    /\ req \in [Client -> [op : Ops \cup {"none"}, copy : Row,
                           step : {"done", "read", "other", "secret", "object", "undo", "insert",
                                   "row", "upsert", "delete", "hide"}]]
    /\ made \in 0..MaxRequests /\ mode \in Modes
    /\ secret \in {"none", "there", "left", "early"} /\ twin \in BOOLEAN /\ user \in {"none", "", "Pending", "Running"}

Init ==
    /\ obj = NoObject /\ row = NoRow /\ queued = FALSE /\ run = NoRun(NoObject)
    /\ req = [c \in Client |-> Resting] /\ made = 0
    /\ mode \in Modes /\ secret = "none" /\ twin = FALSE /\ user = "none"

Step(c, s) == req' = [req EXCEPT ![c].step = s]
At(c, op, s) == req[c].op = op /\ req[c].step = s
Write(o) == CanWrite /\ obj' = Written(o) /\ Announce
Stays == UNCHANGED <<obj, queued>>

Request(c) ==
    /\ req[c].step = "done" /\ made < MaxRequests
    /\ \E op \in Ops : req' = [req EXCEPT ![c] = [op |-> op, step |-> "read", copy |-> NoRow]]
    /\ made' = made + 1
    /\ UNCHANGED <<exporterVars, mode, secret, twin, user>>

-----------------------------------------------------------------------------
(* Whether a model of the same source stands in the way.  A local model     *)
(* only counts once it has a phase.                                         *)
findModelBySourceURL ==
    mode # "local_path" /\ obj.exists /\ ~obj.deleting /\ (mode = "local" => obj.phase # "")

(* One creation at a time is of the followed model, another one makes a     *)
(* second model.                                                            *)
Followed == obj.rv = 0 /\ \A c \in Client : req[c].step \notin {"secret", "object", "undo"}

createModel(c) ==
    /\ At(c, "create", "read")
    /\ Step(c, IF findModelBySourceURL THEN "done" ELSE IF Followed THEN "secret" ELSE "other")
    /\ UNCHANGED <<exporterVars, modelVars>>

CreateOther(c) ==
    /\ At(c, "create", "other")
    /\ twin' = TRUE /\ Step(c, "done")
    /\ UNCHANGED <<exporterVars, made, mode, secret, user>>

CreateSecret(c) ==
    /\ At(c, "create", "secret")
    /\ secret' = "there" /\ Step(c, "object")
    /\ UNCHANGED <<exporterVars, made, mode, twin, user>>

MutNoUndo(c) ==
    /\ At(c, "create", "object")
    /\ \/ /\ obj' = [obj EXCEPT !.exists = TRUE, !.guard = TRUE, !.rv = 1]
          /\ queued' = TRUE
          /\ Step(c, IF mode = "local" THEN "done" ELSE "insert")
       \/ CallsFail /\ Step(c, "done") /\ Stays
    /\ UNCHANGED <<row, run, modelVars>>

CreateObject(c) ==
    /\ At(c, "create", "object")
    /\ \/ /\ obj' = [obj EXCEPT !.exists = TRUE, !.guard = TRUE, !.rv = 1]
          /\ queued' = TRUE
          /\ Step(c, IF mode = "local" THEN "done" ELSE "insert")
       \/ CallsFail /\ Step(c, "undo") /\ Stays
    /\ UNCHANGED <<row, run, modelVars>>

(* The deletion of a secret that is there; an error is passed over.         *)
SecretGoes ==
    \/ secret' = IF secret = "there" THEN "none" ELSE secret
    \/ CallsFail /\ secret = "there" /\ secret' = "left"

UndoSecret(c) ==
    /\ At(c, "create", "undo")
    /\ SecretGoes /\ Step(c, "done")
    /\ UNCHANGED <<exporterVars, made, mode, twin, user>>

(* A model given by a path or a bucket gets its row from the request.       *)
InsertedRow(phase) ==
    [present |-> TRUE, phase |-> phase, text |-> 0, ended |-> FALSE, hidden |-> FALSE, by |-> "api"]

createModelFromLocalPath(c) ==
    /\ At(c, "create", "insert") /\ mode = "local_path"
    /\ row' = InsertedRow("Ready") /\ Step(c, "done")
    /\ UNCHANGED <<obj, queued, run, modelVars>>

createModelFromS3Sync(c) ==
    /\ At(c, "create", "insert") /\ mode = "s3_sync"
    /\ row' = InsertedRow("Pending") /\ Step(c, "done")
    /\ UNCHANGED <<obj, queued, run, modelVars>>

-----------------------------------------------------------------------------
(* Patch: the object first, without its version; then the row, read if it   *)
(* is listed and written as a whole.                                        *)
patchModel(c) ==
    /\ At(c, "patch", "read")
    /\ IF obj.exists
       THEN Write([obj EXCEPT !.text = IF @ = 2 THEN 1 ELSE @ + 1]) /\ Step(c, "row")
       ELSE Step(c, "done") /\ Stays
    /\ UNCHANGED <<row, run, modelVars>>

GetModelByID(c) ==
    /\ At(c, "patch", "row")
    /\ IF row.present /\ ~row.hidden
       THEN req' = [req EXCEPT ![c].step = "upsert", ![c].copy = [row EXCEPT !.text = obj.text, !.by = "api"]]
       ELSE Step(c, "done")
    /\ UNCHANGED <<exporterVars, modelVars>>

PatchRow(c) ==
    /\ At(c, "patch", "upsert")
    /\ row' = req[c].copy /\ Step(c, "done")
    /\ UNCHANGED <<obj, queued, run, modelVars>>

-----------------------------------------------------------------------------
(* Delete: refused while a workload runs or waits; the secret goes before   *)
(* the object, whose deletion may fail, the row last.                       *)
deleteModel(c) ==
    /\ At(c, "delete", "read")
    /\ IF obj.exists /\ user \notin {"Pending", "Running"}
       THEN SecretGoes /\ Step(c, "delete")
       ELSE Step(c, "done") /\ UNCHANGED secret
    /\ UNCHANGED <<exporterVars, made, mode, twin, user>>

DeleteObject(c) ==
    /\ At(c, "delete", "delete")
    /\ \/ /\ \/ obj.exists /\ ~obj.deleting /\ CanWrite /\ obj' = Deleted(obj) /\ Announce
             \/ (obj.deleting \/ ~obj.exists) /\ Stays
          /\ Step(c, "hide") /\ UNCHANGED secret
       \/ /\ CallsFail /\ Step(c, "done") /\ Stays
          /\ secret' = IF secret = "none" THEN "early" ELSE secret
    /\ UNCHANGED <<row, run, made, mode, twin, user>>

MutDeleteModel(c) ==
    /\ At(c, "delete", "hide")
    /\ row' = IF row.present THEN [row EXCEPT !.ended = TRUE, !.phase = "Gone"] ELSE row
    /\ Step(c, "done")
    /\ UNCHANGED <<obj, queued, run, modelVars>>

DeleteModel(c) ==
    /\ At(c, "delete", "hide")
    /\ \/ row' = IF row.present THEN [row EXCEPT !.hidden = TRUE, !.ended = TRUE] ELSE row
       \/ CallsFail /\ UNCHANGED row
    /\ Step(c, "done")
    /\ UNCHANGED <<obj, queued, run, modelVars>>

-----------------------------------------------------------------------------
(* Deployment: a workload with the configuration made from a ready model.   *)
getWorkloadConfig(c) ==
    /\ At(c, "deploy", "read")
    /\ Step(c, "done")
    /\ user' = IF obj.exists /\ obj.phase = "Ready" /\ user = "none" THEN "" ELSE user
    /\ UNCHANGED <<exporterVars, made, mode, secret, twin>>

Serve ==
    /\ \/ user = "" /\ user' = "Pending"
       \/ user = "Pending" /\ user' = "Running"
       \/ user = "Running" /\ user' = "none"
    /\ UNCHANGED <<exporterVars, req, made, mode, secret, twin>>

(* The controller gives the model its phases and cleans up.                 *)
Manage ==
    /\ obj.exists
    /\ \/ ~obj.deleting /\ obj.phase = "" /\ mode # "local_path" /\ Write([obj EXCEPT !.phase = "Pending"])
       \/ ~obj.deleting /\ obj.phase = "Pending" /\ Write([obj EXCEPT !.phase = "Ready"])
       \/ ~obj.deleting /\ obj.phase = "" /\ mode = "local_path" /\ Write([obj EXCEPT !.phase = "Ready"])
       \/ obj.deleting /\ obj.guard /\ Write([obj EXCEPT !.guard = FALSE])
    /\ UNCHANGED <<row, run, req, modelVars>>

Exporting == ExporterStep(UpsertModel(run.copy)) /\ UNCHANGED <<req, modelVars>>

Handler(c) ==
    \/ createModel(c) \/ CreateOther(c) \/ CreateSecret(c) \/ CreateObject(c) \/ UndoSecret(c)
    \/ createModelFromLocalPath(c) \/ createModelFromS3Sync(c)
    \/ patchModel(c) \/ GetModelByID(c) \/ PatchRow(c)
    \/ deleteModel(c) \/ DeleteObject(c) \/ DeleteModel(c) \/ getWorkloadConfig(c)

Next == Exporting \/ Manage \/ Serve \/ \E c \in Client : Request(c) \/ Handler(c)

Spec == Init /\ [][Next]_vars

-----------------------------------------------------------------------------
(* listModels shows a row that is not hidden.                               *)
Listed == row.present /\ ~row.hidden

(* A model that is gone is not listed, whatever run of the exporter was     *)
(* under way when it was deleted.                                           *)
GoneIsUnlisted == ~obj.exists /\ obj.rv > 0 => ~Listed

(* The secret lives with its model: none is left when the creation failed   *)
(* or the model is gone, unless the deletion of it failed, and a model has  *)
(* lost it only to a deletion that failed halfway.                          *)
SecretFollowsModel ==
    (\A c \in Client : req[c].step = "done") =>
        /\ secret = "there" => obj.exists /\ ~obj.deleting
        /\ obj.exists /\ ~obj.deleting => secret # "none"
=============================================================================

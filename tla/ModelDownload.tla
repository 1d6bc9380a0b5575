--------------------------- MODULE ModelDownload ---------------------------
(***************************************************************************)
(* The model controller: a model from a hub is first uploaded to the       *)
(* platform's bucket by a Job, then downloaded to the storage of the       *)
(* workspaces by OpsJobs; a failed download is tried again from another    *)
(* workspace on the same storage.  A reconcile of the download phase is    *)
(* not atomic: it works through the local paths on its own copy and writes *)
(* the status once at the end, which may fail.                             *)
(***************************************************************************)
EXTENDS Integers, Sequences, FiniteSets, SequencesExt

CONSTANTS
    Workspace,
    Root,                   \* the volume a download of the model uses, per workspace
    Default,                \* the default volume of a workspace
    Homes,                  \* workspaces of private models, "" for a public one
    Kinds,                  \* how models are accessed: hub, s3, remote or path
    Pinned,                 \* whether the model names a volume
    MaxFailoverAttempts,
    MaxRetry,               \* bounds the calls of retry
    JobsFail,               \* whether uploads and downloads may fail
    CallsFail,              \* whether calls of the controller may fail
    Expires,                \* whether a finished Job may expire before it is seen
    Deletes                 \* whether the model is deleted

Path == {Root[w] : w \in Workspace} \cup {Default[w] : w \in Workspace}

VARIABLES
    model,      \* the object: access, workspace, exists, finalizer, deleting, phase
    paths,      \* status.localPaths
    upload,     \* the Job that uploads: none, active, ok, failed
    cleanup,    \* the Job that cleans up
    ops,        \* the OpsJob of each workspace: its state and where it writes
    bucket,     \* whether the model is in the platform's bucket
    stored,     \* the volumes that hold the model
    work,       \* the reconcile of the download phase: its copy and its place
    retries

vars == <<model, paths, upload, cleanup, ops, bucket, stored, work, retries>>

NoOps == [state |-> "none", dest |-> ""]
Idle == [at |-> 0, copy |-> <<>>]

TypeOK ==
    /\ model \in [kind : Kinds, home : Homes, exists : BOOLEAN, finalizer : BOOLEAN, deleting : BOOLEAN,
                  phase : {"", "Pending", "Uploading", "Downloading", "Ready", "Failed"}]
    /\ \A i \in DOMAIN paths : paths[i] \in
          [ws : Workspace, path : Path, status : {"Pending", "Downloading", "Ready", "Failed"}]
    /\ upload \in {"none", "active", "ok", "failed"}
    /\ cleanup \in {"none", "active", "ok", "failed"}
    /\ ops \in [Workspace -> [state : {"none", "active", "ok", "failed"}, dest : Path \cup {""}]]
    /\ bucket \in BOOLEAN /\ stored \subseteq Path
    /\ work.at \in 0..Len(work.copy) + 1
    /\ retries \in 0..MaxRetry

Init ==
    /\ \E k \in Kinds, h \in Homes :
          /\ k = "path" => h # ""
          /\ model = [kind |-> k, home |-> h, exists |-> TRUE, finalizer |-> FALSE,
                      deleting |-> FALSE, phase |-> ""]
    /\ paths = <<>> /\ upload = "none" /\ cleanup = "none"
    /\ ops = [w \in Workspace |-> NoOps]
    /\ bucket = FALSE /\ stored = {} /\ work = Idle /\ retries = 0

needsCleanup == model.kind \in {"hub", "s3"}

(* A reconcile that is not in the middle of the download phase.             *)
Reconciles == model.exists /\ work = Idle

SetPhase(p) == model' = [model EXCEPT !.phase = p]

-----------------------------------------------------------------------------
(* Reconcile: finalizer, models that need no download, first phase.         *)
AddFinalizer ==
    /\ Reconciles /\ ~model.deleting /\ needsCleanup /\ ~model.finalizer
    /\ model' = [model EXCEPT !.finalizer = TRUE]
    /\ UNCHANGED <<paths, upload, cleanup, ops, bucket, stored, work, retries>>

Ready == Reconciles /\ ~model.deleting /\ (needsCleanup => model.finalizer)

RegisterPath ==
    /\ Ready /\ model.kind = "path" /\ model.phase # "Ready"
    /\ SetPhase("Ready")
    /\ paths' = <<[ws |-> model.home, path |-> Root[model.home], status |-> "Ready"]>>
    /\ UNCHANGED <<upload, cleanup, ops, bucket, stored, work, retries>>

InitializeStatus ==
    /\ Ready /\ model.kind # "path" /\ model.phase = ""
    /\ SetPhase(IF model.kind = "remote" THEN "Ready" ELSE "Pending")
    /\ UNCHANGED <<paths, upload, cleanup, ops, bucket, stored, work, retries>>

initializeWithoutStatus ==
    {[i \in DOMAIN s |-> [ws |-> s[i], path |-> Root[s[i]], status |-> ""]] :
        s \in SetToSeqs(Workspace)}

initializeEachWorkspace ==
    {[i \in DOMAIN s |-> [ws |-> s[i], path |-> Root[s[i]], status |-> "Pending"]] :
        s \in SetToSeqs(Workspace)}

(* One entry per volume of a public model, the first workspace on it        *)
(* downloads; the entries come out of a map.                                *)
initializeLocalPaths ==
    LET with(r) == {w \in Workspace : Root[w] = r}
        first(r) == CHOOSE w \in with(r) : TRUE
        entry(r) == [ws |-> first(r), path |-> r, status |-> "Pending"]
    IN (IF model.home = ""
        THEN {[i \in DOMAIN s |-> entry(s[i])] : s \in SetToSeqs({Root[w] : w \in Workspace})}
        ELSE {<<[ws |-> model.home, path |-> Root[model.home], status |-> "Pending"]>>})
       \cup (IF CallsFail THEN {<<>>} ELSE {})

-----------------------------------------------------------------------------
(* Pending and Uploading.                                                   *)
constructDownloadJob == IF CallsFail THEN {"job", "error", "refused", "retry"} ELSE {"job"}

handlePending ==
    /\ Ready /\ model.kind # "path" /\ model.phase = "Pending"
    /\ \/ /\ model.kind = "s3"
          /\ SetPhase("Downloading") /\ paths' \in initializeLocalPaths
          /\ UNCHANGED upload
       \/ /\ model.kind = "hub" /\ upload = "none"
          /\ \/ "job" \in constructDownloadJob /\ upload' = "active" /\ SetPhase("Uploading")
             \/ {"error", "refused"} \cap constructDownloadJob # {}
                /\ SetPhase("Failed") /\ UNCHANGED upload
             \/ "job" \in constructDownloadJob /\ CallsFail
                /\ upload' = "active" /\ UNCHANGED model
          /\ UNCHANGED paths
       \/ /\ model.kind = "hub" /\ upload # "none"
          /\ SetPhase("Uploading") /\ UNCHANGED <<paths, upload>>
    /\ UNCHANGED <<cleanup, ops, bucket, stored, work, retries>>

(* The finished Job is deleted before the status is written; either call    *)
(* may fail.                                                                *)
DeleteJob(j) == j' \in {"none"} \cup (IF CallsFail THEN {j} ELSE {})

handleUploading ==
    /\ Ready /\ model.phase = "Uploading"
    /\ \/ /\ upload = "none"
          /\ SetPhase("Failed") /\ UNCHANGED <<paths, upload>>
       \/ /\ upload = "ok" /\ DeleteJob(upload)
          /\ \/ SetPhase("Downloading") /\ paths' \in initializeLocalPaths
             \/ CallsFail /\ UNCHANGED <<model, paths>>
       \/ /\ upload = "failed" /\ DeleteJob(upload)
          /\ \/ SetPhase("Failed") /\ UNCHANGED paths
             \/ CallsFail /\ UNCHANGED <<model, paths>>
    /\ UNCHANGED <<cleanup, ops, bucket, stored, work, retries>>

-----------------------------------------------------------------------------
(* Downloading.                                                             *)
BeginDownloading ==
    /\ Ready /\ model.phase = "Downloading"
    /\ work' = [at |-> 1, copy |-> paths]
    /\ UNCHANGED <<model, paths, upload, cleanup, ops, bucket, stored, retries>>

Entry == work.copy[work.at]
Busy == work.at \in DOMAIN work.copy

GetWorkspacesWithSamePath(base) == {w \in Workspace : Default[w] = base}

(* The tried workspaces are put in an annotation of the copy, and writing   *)
(* the status does not write annotations: what is read is always empty.     *)
getTriedWorkspaces(base) == {}

tryFailover(lp) ==
    LET tried == getTriedWorkspaces(lp.path) \cup {lp.ws}
    IN IF Cardinality(tried) > MaxFailoverAttempts THEN {}
       ELSE GetWorkspacesWithSamePath(lp.path) \ tried

constructElsewhere(lp) ==
    [state |-> "active", dest |-> IF Pinned THEN lp.path ELSE Default[CHOOSE w \in Workspace : TRUE]]

constructLocalDownloadOpsJob(lp) ==
    [state |-> "active", dest |-> IF Pinned THEN lp.path ELSE Default[lp.ws]]

(* What the loop does with an entry: the entry and the OpsJobs after it.    *)
Handle(lp) ==
    LET o == ops[lp.ws]
        mark(s) == [lp EXCEPT !.status = s]
        without == {[ops EXCEPT ![lp.ws] = NoOps]} \cup (IF CallsFail THEN {ops} ELSE {})
    IN CASE lp.status \in {"Ready", "Failed"} -> {lp} \X {ops}
         [] lp.status \in {"Pending", "Downloading"} /\ o.state = "none" ->
              {<<mark("Downloading"), [ops EXCEPT ![lp.ws] = constructLocalDownloadOpsJob(lp)]>>}
              \cup (IF CallsFail THEN {<<mark("Failed"), ops>>, <<lp, ops>>} ELSE {})
         [] lp.status \in {"Pending", "Downloading"} /\ o.state = "active" -> {lp} \X {ops}
         [] lp.status \in {"Pending", "Downloading"} /\ o.state = "ok" -> {mark("Ready")} \X without
         [] lp.status \in {"Pending", "Downloading"} /\ o.state = "failed" ->
              (IF tryFailover(lp) = {} THEN {mark("Failed")}
               ELSE {[lp EXCEPT !.ws = CHOOSE w \in tryFailover(lp) : TRUE, !.status = "Pending"]})
              \X without

handleDownloading ==
    /\ Busy
    /\ \E r \in Handle(Entry) :
          /\ work' = [at |-> work.at + 1, copy |-> [work.copy EXCEPT ![work.at] = r[1]]]
          /\ ops' = r[2]
    /\ UNCHANGED <<model, paths, upload, cleanup, bucket, stored, retries>>

PhaseOfAny(copy) == IF \E i \in DOMAIN copy : copy[i].status = "Ready" THEN "Ready" ELSE "Downloading"

PhaseOf(copy) ==
    CASE \E i \in DOMAIN copy : copy[i].status = "Ready" -> "Ready"
      [] \A i \in DOMAIN copy : copy[i].status = "Failed" -> "Failed"
      [] OTHER -> "Downloading"

(* The status is written unless the object changed in between.              *)
FinishDownloading ==
    /\ work # Idle /\ ~Busy
    /\ \/ ~model.deleting /\ SetPhase(PhaseOf(work.copy)) /\ paths' = work.copy
       \/ (CallsFail \/ model.deleting) /\ UNCHANGED <<model, paths>>
    /\ work' = Idle
    /\ UNCHANGED <<upload, cleanup, ops, bucket, stored, retries>>

-----------------------------------------------------------------------------
(* Deletion.                                                                *)
Gone == model' = [model EXCEPT !.exists = FALSE, !.finalizer = FALSE]

(* Owned Jobs and OpsJobs go with the model.                                *)
Collected == upload' = "none" /\ ops' = [w \in Workspace |-> NoOps]

handleDeleteWaits ==
    /\ Reconciles /\ model.deleting /\ model.finalizer
    /\ \/ /\ cleanup = "none" /\ cleanup' = "active" /\ UNCHANGED <<model, upload, ops>>
       \/ /\ cleanup = "ok" /\ Gone /\ Collected /\ cleanup' = "none"
    /\ UNCHANGED <<paths, bucket, stored, work, retries>>

handleDelete ==
    /\ Reconciles /\ model.deleting /\ model.finalizer
    /\ \/ /\ cleanup = "none" /\ cleanup' = "active" /\ UNCHANGED <<model, upload, ops>>
       \/ /\ cleanup = "none" /\ CallsFail /\ Gone /\ Collected /\ UNCHANGED cleanup
       \/ /\ cleanup \in {"ok", "failed"} /\ Gone /\ Collected /\ cleanup' = "none"
    /\ UNCHANGED <<paths, bucket, stored, work, retries>>

-----------------------------------------------------------------------------
(* API server.                                                              *)
retryModel ==
    /\ model.exists /\ model.phase = "Failed" /\ retries < MaxRetry
    /\ SetPhase("Pending")
    /\ retries' = retries + 1
    /\ UNCHANGED <<paths, upload, cleanup, ops, bucket, stored, work>>

deleteModel ==
    /\ Deletes /\ model.exists /\ ~model.deleting
    /\ IF model.finalizer
       THEN model' = [model EXCEPT !.deleting = TRUE] /\ UNCHANGED <<upload, ops>>
       ELSE Gone /\ Collected
    /\ UNCHANGED <<paths, cleanup, bucket, stored, work, retries>>

-----------------------------------------------------------------------------
(* The Jobs: outside the controller.                                        *)
UploadEnds ==
    /\ upload = "active"
    /\ \/ upload' = "ok" /\ bucket' = TRUE
       \/ JobsFail /\ upload' = "failed" /\ UNCHANGED bucket
    /\ UNCHANGED <<model, paths, cleanup, ops, stored, work, retries>>

UploadExpires ==
    /\ Expires /\ upload \in {"ok", "failed"} /\ upload' = "none"
    /\ UNCHANGED <<model, paths, cleanup, ops, bucket, stored, work, retries>>

OpsEnds(w) ==
    /\ ops[w].state = "active"
    /\ \/ ops' = [ops EXCEPT ![w].state = "ok"] /\ stored' = stored \cup {ops[w].dest}
       \/ JobsFail /\ ops' = [ops EXCEPT ![w].state = "failed"] /\ UNCHANGED stored
    /\ UNCHANGED <<model, paths, upload, cleanup, bucket, work, retries>>

OpsExpires(w) ==
    /\ Expires /\ ops[w].state \in {"ok", "failed"} /\ ops' = [ops EXCEPT ![w] = NoOps]
    /\ UNCHANGED <<model, paths, upload, cleanup, bucket, stored, work, retries>>

(* The script ignores what it cannot remove and always succeeds, unless     *)
(* its pod cannot run.                                                      *)
constructCleanupJob ==
    /\ cleanup = "active"
    /\ \/ /\ cleanup' = "ok"
          /\ bucket' = FALSE /\ stored' = stored \ {paths[i].path : i \in DOMAIN paths}
       \/ JobsFail /\ cleanup' = "failed" /\ UNCHANGED <<bucket, stored>>
    /\ UNCHANGED <<model, paths, upload, ops, work, retries>>

Controller ==
    \/ AddFinalizer \/ RegisterPath \/ InitializeStatus
    \/ handlePending \/ handleUploading
    \/ BeginDownloading \/ handleDownloading \/ FinishDownloading
    \/ handleDelete

Next ==
    \/ Controller \/ retryModel \/ deleteModel
    \/ UploadEnds \/ UploadExpires \/ constructCleanupJob
    \/ \E w \in Workspace : OpsEnds(w) \/ OpsExpires(w)

Spec == Init /\ [][Next]_vars

-----------------------------------------------------------------------------
(* A local path is reported as ready only while the model is on its volume, *)
(* whatever failover, retry, lost status writes and expired Jobs did.       *)
ReadyIsStored ==
    model.kind # "path" /\ ~model.deleting =>
        \A i \in DOMAIN paths : paths[i].status = "Ready" => paths[i].path \in stored

(* Never two downloads into the same volume at a time, although each        *)
(* failover starts one from another workspace.                              *)
OneWriter ==
    \A v, w \in Workspace :
        v # w /\ ops[v].state = "active" /\ ops[w].state = "active" => ops[v].dest # ops[w].dest

(* The model has been made ready or has failed, or is gone.                 *)
Settled == model.phase \in {"Ready", "Failed"} \/ ~model.exists

=============================================================================

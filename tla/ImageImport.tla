------------------------------ MODULE ImageImport ------------------------------
(***************************************************************************)
(* Images and registries: an image is imported by a Job that copies it to  *)
(* the default registry and reports its progress, a controller turns the   *)
(* Job's state into the status of the image's row, and users retry and     *)
(* delete.  The rows are read and saved as a whole, without locks.         *)
(***************************************************************************)
EXTENDS Integers, FiniteSets

CONSTANTS
    Client,     \* requests that may run at a time
    Sources,    \* images to import: <<registry, name>>
    Ops,        \* what users do: "import", "retry", "delete", "register", "unregister", "create"
    MaxRequests,\* requests in all
    MaxJobs,    \* import Jobs in all
    BackoffLimit, \* failures of its pod a Job stands
    Registries, \* URLs users register
    Calls       \* calls of the server that may fail

VARIABLES
    images,     \* rows of the image table, by id: status, live, tag
    imports,    \* rows of the import table, by id; a row that is not there has image 0
    jobs,       \* the Jobs, by number
    events,     \* Jobs the controller has to look at
    ctl,        \* the controller's run
    progress,   \* the running copy's report: the row it read
    artifact,   \* what the registry holds of each tag: "none", "there", "removed"
    reqs,       \* the requests
    asked,      \* requests made so far
    registry,   \* the stored registries
    credentials,\* the registries of the secret the Jobs mount
    errs        \* failing calls left

vars == <<images, imports, jobs, events, ctl, progress, artifact, reqs, asked, registry, credentials, errs>>

NoJob == 0
Idle == [op |-> "none", step |-> "idle", image |-> 0, imp |-> 0, row |-> [image |-> 0], tag |-> "", found |-> 0,
         job |-> NoJob, list |-> {}]
generateTargetImageName(s) == s[2]     \* the registry of the source is dropped
Tags == {generateTargetImageName(s) : s \in Sources}
Quiet == [step |-> "idle", job |-> NoJob, imp |-> 0, row |-> [image |-> 0], tag |-> "", status |-> "", found |-> 0]

Init ==
    /\ images = <<>> /\ imports = <<>> /\ jobs = <<>> /\ events = {}
    /\ ctl = Quiet /\ progress = [step |-> "idle", imp |-> 0, row |-> [image |-> 0]]
    /\ artifact = [t \in Tags |-> "none"]
    /\ reqs = [c \in Client |-> Idle] /\ asked = 0
    /\ registry = {} /\ credentials = {} /\ errs = Calls

(* The rows. Save inserts or replaces; First() is the lowest id.            *)
GetImageByTag(tag) ==
    LET ids == {i \in DOMAIN images : images[i].live /\ images[i].tag = tag}
    IN IF ids = {} THEN 0 ELSE CHOOSE i \in ids : \A j \in ids : i <= j
GetImage(i) == i \in DOMAIN images /\ images[i].live
GetImportImageByImageID(i) ==
    LET ids == {k \in DOMAIN imports : imports[k].image = i}
    IN IF i = 0 \/ ids = {} THEN 0 ELSE CHOOSE k \in ids : \A j \in ids : k <= j
GetImageImportJobByJobName(j) ==
    LET ids == {k \in DOMAIN imports : imports[k].image # 0 /\ imports[k].job = j}
    IN IF ids = {} THEN 0 ELSE CHOOSE k \in ids : \A m \in ids : k <= m
SelectImages(ready) == {i \in DOMAIN images : images[i].live /\ (ready => images[i].status = "Ready")}

SaveImage(i, row) == images' = [images EXCEPT ![i] = row]
CreateImageRow(row) == images' = [i \in DOMAIN images \cup {Cardinality(DOMAIN images) + 1} |->
                                    IF i \in DOMAIN images THEN images[i] ELSE row]
NewImport == Cardinality(DOMAIN imports) + 1
UpsertImageImportJob(k, row) == imports' = [i \in DOMAIN imports \cup {k} |-> IF i = k THEN row ELSE imports[i]]

ImageStatus == {"", "Pending", "Importing", "Ready", "Failed"}
TypeOK ==
    /\ \A i \in DOMAIN images : images[i].status \in ImageStatus /\ images[i].tag \in Tags
    /\ \A k \in DOMAIN imports : imports[k].image # 0 => imports[k].job \in {NoJob} \cup DOMAIN jobs
    /\ events \subseteq DOMAIN jobs /\ ctl.job \in {NoJob} \cup DOMAIN jobs
    /\ registry \subseteq Registries /\ credentials \subseteq Registries

-----------------------------------------------------------------------------
(* Requests.                                                                *)
Others == <<jobs, events, ctl, progress, artifact, asked, registry, credentials, errs>>
At(c, op, step) == reqs[c].op = op /\ reqs[c].step = step
Goes(c, step) == reqs' = [reqs EXCEPT ![c].step = step]
Ends(c) == reqs' = [reqs EXCEPT ![c] = Idle]

\* A call fails, or the server restarts: what was done stays.
RequestFails(c) ==
    /\ errs > 0 /\ errs' = errs - 1 /\ reqs[c].step # "idle"
    /\ Ends(c)
    /\ UNCHANGED <<images, imports, jobs, events, ctl, progress, artifact, asked, registry, credentials>>

Begin(c, r) ==
    /\ reqs[c].step = "idle" /\ asked < MaxRequests /\ r.op \in Ops
    /\ asked' = asked + 1
    /\ reqs' = [reqs EXCEPT ![c] = r]
    /\ UNCHANGED <<images, imports, jobs, events, ctl, progress, artifact, registry, credentials, errs>>

\* The source must be found in its registry before anything is stored.
importImage(c) == \E s \in Sources :
    Begin(c, [Idle EXCEPT !.op = "import", !.step = "exist", !.tag = generateTargetImageName(s)])
retryDispatchImportImageJob(c) == \E i \in DOMAIN images :
    /\ GetImage(i) /\ GetImportImageByImageID(i) # 0
    /\ LET k == GetImportImageByImageID(i)
       IN Begin(c, [Idle EXCEPT !.op = "retry", !.step = "dispatch", !.image = i, !.tag = images[i].tag, !.imp = k,
                                !.row = imports[k]])

existImageValid(c) ==
    /\ At(c, "import", "exist")
    /\ IF GetImageByTag(reqs[c].tag) # 0 THEN Ends(c) ELSE Goes(c, "find")
    /\ UNCHANGED <<images, imports>> /\ UNCHANGED Others

\* UpsertImage looks for the tag first and then creates or replaces: the row found may be
\* deleted in between, and is live again.
UpsertFind(c) ==
    /\ reqs[c].step \in {"find", "findAgain"}
    /\ reqs' = [reqs EXCEPT ![c].found = GetImageByTag(reqs[c].tag),
                            ![c].step = IF @ = "find" THEN "store" ELSE "mark"]
    /\ UNCHANGED <<images, imports>> /\ UNCHANGED Others
Upserts(c, status, next) ==
    LET r == reqs[c] row == [status |-> status, live |-> TRUE, tag |-> r.tag]
        id == IF r.found # 0 THEN r.found ELSE Cardinality(DOMAIN images) + 1
    IN IF r.found = 0 /\ r.image # 0
       THEN Ends(c) /\ UNCHANGED images                  \* the id is taken
       ELSE /\ IF r.found # 0 THEN SaveImage(r.found, row) ELSE CreateImageRow(row)
            /\ reqs' = [reqs EXCEPT ![c].image = id, ![c].step = next]

StoreImage(c) ==
    /\ At(c, "import", "store")
    /\ Upserts(c, "Pending", "import")
    /\ UNCHANGED imports /\ UNCHANGED Others
StoreImport(c) ==
    /\ At(c, "import", "import")
    /\ LET row == [image |-> reqs[c].image, tag |-> reqs[c].tag, job |-> NoJob, layers |-> 0]
       IN /\ UpsertImageImportJob(NewImport, row)
          /\ reqs' = [reqs EXCEPT ![c].imp = NewImport, ![c].row = row, ![c].step = "dispatch"]
    /\ UNCHANGED images /\ UNCHANGED Others

newImportImageJob(r) == [image |-> r.image, tag |-> r.tag, active |-> FALSE, copied |-> 0, failed |-> 0, end |-> "", gone |-> FALSE]
dispatchImportImageJob(c) ==
    /\ reqs[c].step = "dispatch" /\ Cardinality(DOMAIN jobs) < MaxJobs
    /\ LET j == Cardinality(DOMAIN jobs) + 1
       IN /\ jobs' = [i \in DOMAIN jobs \cup {j} |-> IF i = j THEN newImportImageJob(reqs[c]) ELSE jobs[i]]
          /\ events' = events \cup {j}
          /\ reqs' = [reqs EXCEPT ![c].job = j, ![c].step = "findAgain"]
    /\ UNCHANGED <<images, imports, ctl, progress, artifact, asked, registry, credentials, errs>>
MarkImporting(c) ==
    /\ reqs[c].step = "mark"
    /\ Upserts(c, "Importing", "name")
    /\ UNCHANGED imports /\ UNCHANGED Others
NameJob(c) ==
    /\ reqs[c].step = "name"
    /\ UpsertImageImportJob(reqs[c].imp, [reqs[c].row EXCEPT !.job = reqs[c].job])
    /\ Ends(c)
    /\ UNCHANGED images /\ UNCHANGED Others

\* A row made by hand has no status and replaces one of its tag.
createImage(c) == \E t \in Tags :
    Begin(c, [Idle EXCEPT !.op = "create", !.step = "find", !.tag = t])
CreateByHand(c) ==
    /\ At(c, "create", "store")
    /\ LET row == [status |-> "", live |-> TRUE, tag |-> reqs[c].tag]
       IN IF reqs[c].found # 0 THEN SaveImage(reqs[c].found, row) ELSE CreateImageRow(row)
    /\ Ends(c)
    /\ UNCHANGED imports /\ UNCHANGED Others

deleteImage(c) == \E i \in DOMAIN images :
    /\ GetImage(i) /\ Begin(c, [Idle EXCEPT !.op = "delete", !.step = "hide", !.image = i, !.tag = images[i].tag])
DeleteImageRow(c) ==
    /\ At(c, "delete", "hide")
    /\ images' = [images EXCEPT ![reqs[c].image].live = FALSE]
    /\ Goes(c, "look")
    /\ UNCHANGED imports /\ UNCHANGED Others
\* What the import left: artifact, Job and row, whatever of it fails.
CleanupLook(c) ==
    /\ At(c, "delete", "look")
    /\ LET k == GetImportImageByImageID(reqs[c].image)
       IN IF k = 0 THEN Ends(c)
          ELSE reqs' = [reqs EXCEPT ![c].imp = k, ![c].row = imports[k], ![c].step = "artifact"]
    /\ UNCHANGED <<images, imports>> /\ UNCHANGED Others
harborDeleteArtifact(c) ==
    /\ At(c, "delete", "artifact")
    /\ artifact' = [artifact EXCEPT ![reqs[c].tag] = IF @ = "there" THEN "removed" ELSE @]
    /\ Goes(c, "job")
    /\ UNCHANGED <<images, imports, jobs, events, ctl, progress, asked, registry, credentials, errs>>
cleanupImportedImage(c) ==
    /\ At(c, "delete", "job")
    /\ LET j == reqs[c].row.job
       IN jobs' = IF j = NoJob THEN jobs ELSE [jobs EXCEPT ![j].gone = TRUE, ![j].active = FALSE]
    /\ Goes(c, "row")
    /\ UNCHANGED <<images, imports, events, ctl, progress, artifact, asked, registry, credentials, errs>>
DeleteImageImportJob(c) ==
    /\ At(c, "delete", "row")
    /\ imports' = [imports EXCEPT ![reqs[c].imp].image = 0]
    /\ Ends(c)
    /\ UNCHANGED images /\ UNCHANGED Others

\* A registry is stored, and the secret of the import Jobs made anew from all of them; a
\* registry that is deleted stays in the secret until then.
createImageRegistry(c) == \E u \in Registries :
    Begin(c, [Idle EXCEPT !.op = "register", !.step = "save", !.tag = u])
deleteImageRegistry(c) == \E u \in registry :
    Begin(c, [Idle EXCEPT !.op = "unregister", !.step = "save", !.tag = u])
SaveRegistry(c) ==
    /\ reqs[c].step = "save"
    /\ \/ At(c, "register", "save") /\ registry' = registry \cup {reqs[c].tag} /\ Goes(c, "list")
       \/ At(c, "unregister", "save") /\ registry' = registry \ {reqs[c].tag} /\ Ends(c)
    /\ UNCHANGED <<images, imports, jobs, events, ctl, progress, artifact, asked, credentials, errs>>
getDesiredImageImportSecret(c) ==
    /\ At(c, "register", "list")
    /\ reqs' = [reqs EXCEPT ![c].list = registry, ![c].step = "secret"]
    /\ UNCHANGED <<images, imports>> /\ UNCHANGED Others
refreshImageImportSecrets(c) ==
    /\ At(c, "register", "secret")
    /\ credentials' = reqs[c].list
    /\ Ends(c)
    /\ UNCHANGED <<images, imports, jobs, events, ctl, progress, artifact, asked, registry, errs>>

Request(c) ==
    \/ existImageValid(c) \/ UpsertFind(c) \/ StoreImage(c) \/ StoreImport(c) \/ dispatchImportImageJob(c)
    \/ MarkImporting(c) \/ NameJob(c) \/ CreateByHand(c) \/ DeleteImageRow(c) \/ CleanupLook(c)
    \/ harborDeleteArtifact(c) \/ cleanupImportedImage(c) \/ DeleteImageImportJob(c) \/ SaveRegistry(c)
    \/ getDesiredImageImportSecret(c) \/ refreshImageImportSecrets(c)
Asks(c) ==
    \/ importImage(c) \/ retryDispatchImportImageJob(c) \/ createImage(c) \/ deleteImage(c)
    \/ createImageRegistry(c) \/ deleteImageRegistry(c)

-----------------------------------------------------------------------------
(* The Job: its pod copies the image and tells how far it is.               *)
Lives(j) == ~jobs[j].gone /\ jobs[j].end = ""
JobChanges(j, job) == jobs' = [jobs EXCEPT ![j] = job] /\ events' = events \cup {j}
Aside == <<images, imports, ctl, reqs, asked, registry, credentials, errs>>

PodStarts(j) ==
    /\ Lives(j) /\ ~jobs[j].active
    /\ JobChanges(j, [jobs[j] EXCEPT !.active = TRUE, !.copied = 0])
    /\ UNCHANGED <<progress, artifact>> /\ UNCHANGED Aside
\* One layer is copied: applyProgress counts it and the count is sent at once.
applyProgress(j) ==
    /\ Lives(j) /\ jobs[j].active /\ jobs[j].copied = 0
    /\ jobs' = [jobs EXCEPT ![j].copied = 1]
    /\ UNCHANGED <<events, progress, artifact>> /\ UNCHANGED Aside
syncImage(j) ==
    /\ Lives(j) /\ jobs[j].active
    /\ \/ /\ jobs[j].copied = 1
          /\ artifact' = [artifact EXCEPT ![jobs[j].tag] = "there"]
          /\ JobChanges(j, [jobs[j] EXCEPT !.active = FALSE, !.end = "succeeded"])
       \/ /\ JobChanges(j, [jobs[j] EXCEPT !.active = FALSE, !.failed = @ + 1,
                                           !.end = IF jobs[j].failed >= BackoffLimit THEN "failed" ELSE ""])
          /\ UNCHANGED artifact
    /\ UNCHANGED progress /\ UNCHANGED Aside

\* The report finds the row by the tag, and saves it as it was read, with the layers.
ProgressReads(j) ==
    /\ progress.step = "idle" /\ ~jobs[j].gone /\ jobs[j].active /\ jobs[j].copied = 1
    /\ LET k == GetImportImageByImageID(GetImageByTag(jobs[j].tag))
       IN /\ k # 0 /\ imports[k].layers = 0
          /\ progress' = [step |-> "save", imp |-> k, row |-> imports[k]]
    /\ UNCHANGED <<jobs, events, artifact>> /\ UNCHANGED Aside
updateImportProgress ==
    /\ progress.step = "save"
    /\ UpsertImageImportJob(progress.imp, [progress.row EXCEPT !.layers = 1])
    /\ progress' = [progress EXCEPT !.step = "idle"]
    /\ UNCHANGED <<images, jobs, events, ctl, artifact, reqs, asked, registry, credentials, errs>>

-----------------------------------------------------------------------------
(* The controller of the Jobs.                                              *)
StatusOf(job) ==
    CASE ~job.active /\ job.end = "" /\ job.failed = 0 -> "Importing"
      [] job.active -> "Importing"
      [] job.end = "succeeded" -> "Ready"
      [] OTHER -> "Failed"

\* A Job that no row names yet is left alone: only the next event, or the resync, brings
\* it back.
Reconcile ==
    /\ ctl.step = "idle"
    /\ \E j \in events :
         /\ events' = events \ {j}
         /\ LET k == GetImageImportJobByJobName(j)
            IN ctl' = IF jobs[j].gone \/ k = 0 \/ (k # 0 /\ GetImageByTag(imports[k].tag) = 0) THEN Quiet
                      ELSE [step |-> "find", job |-> j, imp |-> k, row |-> imports[k], tag |-> imports[k].tag,
                            status |-> StatusOf(jobs[j]), found |-> 0]
    /\ UNCHANGED <<images, imports, jobs, progress, artifact, reqs, asked, registry, credentials, errs>>
ControllerFinds ==
    /\ ctl.step = "find"
    /\ ctl' = LET i == GetImageByTag(ctl.tag) IN IF i = 0 THEN Quiet ELSE [ctl EXCEPT !.found = i, !.step = "image"]
    /\ UNCHANGED <<images, imports, jobs, events, progress, artifact, reqs, asked, registry, credentials, errs>>
UpdateStatus ==
    /\ ctl.step = "image"
    /\ SaveImage(ctl.found, [status |-> ctl.status, live |-> TRUE, tag |-> ctl.tag])
    /\ ctl' = [ctl EXCEPT !.step = "import"]
    /\ UNCHANGED <<imports, jobs, events, progress, artifact, reqs, asked, registry, credentials, errs>>
\* The log of a Job whose pod failed more than once cannot be told: the run is repeated.
getImportImagePodLogs ==
    /\ ctl.step = "import"
    /\ ctl' = Quiet
    /\ IF ctl.status = "Failed" /\ jobs[ctl.job].failed # 1
       THEN events' = events \cup {ctl.job} /\ UNCHANGED imports
       ELSE UpsertImageImportJob(ctl.imp, ctl.row) /\ UNCHANGED events
    /\ UNCHANGED <<images, jobs, progress, artifact, reqs, asked, registry, credentials, errs>>
Controller == Reconcile \/ ControllerFinds \/ UpdateStatus \/ getImportImagePodLogs

\* The cache is resynchronised every ten hours; a Job that ended goes after a day.
Resync ==
    /\ events = {} /\ ctl.step = "idle"
    /\ events' = {j \in DOMAIN jobs : ~jobs[j].gone /\ jobs[j].end # ""} /\ events' # {}
    /\ UNCHANGED <<images, imports, jobs, ctl, progress, artifact, reqs, asked, registry, credentials, errs>>

Next ==
    \/ \E c \in Client : Asks(c) \/ Request(c) \/ RequestFails(c)
    \/ \E j \in DOMAIN jobs : PodStarts(j) \/ applyProgress(j) \/ syncImage(j) \/ ProgressReads(j)
    \/ updateImportProgress \/ Controller \/ Resync

Spec == Init /\ [][Next]_vars

-----------------------------------------------------------------------------
\* An image offered as ready was copied.
ReadyIsCopied == \A i \in SelectImages(TRUE) : artifact[images[i].tag] # "none"

\* Once registrations are over, the Jobs have the credentials of every registry.
CredentialsComplete == (\A c \in Client : reqs[c].op # "register") => registry \subseteq credentials

\* A Job is over, its row names it, and the image is still importing.
LeftImporting ==
    \E k \in DOMAIN imports :
      /\ imports[k].image # 0 /\ GetImage(imports[k].image) /\ images[imports[k].image].status = "Importing"
      /\ imports[k].job # NoJob /\ jobs[imports[k].job].end # "" /\ ~jobs[imports[k].job].gone
================================================================================

------------------------------- MODULE MCApi -------------------------------
(***************************************************************************)
(* The API server's requests and the controllers and the exporter that     *)
(* work on the same objects, with the bounds of the configurations, one    *)
(* scenario at a time. A behaviour picks its scenario at the start and     *)
(* keeps it; the variables of the modules that take no part hold no value. *)
(***************************************************************************)
EXTENDS Integers

CONSTANT Scenarios       \* the scenarios of the run

VARIABLES scenario,
    model, paths, upload, cleanup, ops, bucket, stored, work, retries, obj, row, queued, run,
    req, made, mode, secret, twin, user, workload, secrets, refersTo, submit, claw, hubs, cur,
    cons, viewer, deleting, boot, left, images, imports, jobs, events, ctl, progress, artifact,
    reqs, asked, registry, credentials, errs, s3, hf, hfQueue, queue, disk, calls, restarts,
    pods, train, dirs, pretrained, merged, files, lock, models, job, tries, dataset, now,
    workloads, rows, runs, points, answer, snaps, hands, cds, live, remote, key, said, faults,
    expiries, ids, keys, pubs, session, users, cached, replica, call, given, gone, goneKey,
    fresh

vars == <<scenario,
          model, paths, upload, cleanup, ops, bucket, stored, work, retries, obj, row, queued,
          run, req, made, mode, secret, twin, user, workload, secrets, refersTo, submit, claw,
          hubs, cur, cons, viewer, deleting, boot, left, images, imports, jobs, events, ctl,
          progress, artifact, reqs, asked, registry, credentials, errs, s3, hf, hfQueue, queue,
          disk, calls, restarts, pods, train, dirs, pretrained, merged, files, lock, models,
          job, tries, dataset, now, workloads, rows, runs, points, answer, snaps, hands, cds,
          live, remote, key, said, faults, expiries, ids, keys, pubs, session, users, cached,
          replica, call, given, gone, goneKey, fresh>>

Unused == "unused"

\* Two sources of one name are one image.
One == {<<"docker.io", "a">>}
Two == {<<"docker.io", "a">>, <<"quay.io", "a">>}
Outage(c, r) == [calls |-> c, restarts |-> r]
Phases == <<"phase", "tool", "phase">>
\* Settings, recipes, models and datasets of a training, and what is asked about its metrics.
AShape(p, i, s, n) == [peft |-> p, iters |-> i, save |-> s, nodes |-> n, gpus |-> 0, tp |-> 0, shm |-> 0]
AllShapes == {AShape(p, i, s, n) : p \in {"", "lora", "megatron"}, i \in {0, 1}, s \in {0, 60}, n \in {0, 2}}
NoRecipe == <<"", "", "">>
AllRecipes == {NoRecipe, <<"r", "f", "34b">>, <<"r", "", "8b">>}
Mounted == [a |-> {"va"}, b |-> {"vb", "va"}, c |-> {"vc"}]
APath(w, h, ok) == [ws |-> w, path |-> h, ready |-> ok]
PathLists == {<<>>, <<APath("a", "va", TRUE)>>, <<APath("c", "vc", TRUE), APath("b", "vb", FALSE), APath("b", "va", TRUE)>>}
AGiven(m, p, s, d) ==
    [model |-> [mode |-> m, phase |-> "Ready", home |-> "va", paths |-> p, size |-> s, family |-> "qwen"], dataset |-> d]
AllGivens == {AGiven(m, p, s, d) : m \in {"local", "local_path", "remote"}, p \in PathLists, s \in {"8b", "70b"}, d \in PathLists}
OneGiven == {AGiven("local_path", <<>>, "8b", <<APath("a", "va", TRUE)>>)}
Known == <<[kind |-> "PyTorchJob", ws |-> "b", uid |-> "x"], [kind |-> "Workload", ws |-> "a", uid |-> "y"]>>
Ask(m, s) == [metrics |-> m, src |-> s]
Asked == {Ask({}, ""), Ask({}, "log"), Ask({"loss", "acc"}, ""), Ask({"kl_loss"}, "wandb")}
\* Images that are deployed.
Named == [apiserver |-> "api", web |-> "web", node_agent |-> "agent", cicd_runner |-> "runner", cicd_unified_job |-> "unified"]
Deployment(t, f, e) ==
    [type |-> t, by |-> "u", env |-> e, img |-> [c \in DOMAIN Named |-> IF c \in DOMAIN f THEN f[c] ELSE <<>>]]
Images1 == Deployment("safe", [cicd_runner |-> <<1>>, cicd_unified_job |-> <<1>>], 0)
Images2 == {Deployment("safe", [apiserver |-> <<1>>], 0), Deployment("safe", [apiserver |-> <<"own", 2>>, web |-> <<1>>], 1)}
Images3 == {Images1, Deployment("safe", [node_agent |-> <<1>>, cicd_runner |-> <<1>>], 0), Deployment("lens", [c \in {} |-> <<>>], 1)}
\* The volume of each workspace: b and c share one.
Volume == [a |-> "/a", b |-> "/b", c |-> "/b"]

-----------------------------------------------------------------------------
\* A model is uploaded and downloaded, for three workspaces on two volumes and
\* with every failure, or of every kind and with failing Jobs.
Download == INSTANCE ModelDownload WITH
    Workspace <- {"a", "b", "c"}, Root <- Volume, Default <- Volume, Homes <- {""},
    Kinds <- {"hub"}, Pinned <- FALSE, MaxFailoverAttempts <- 3, MaxRetry <- 1,
    JobsFail <- TRUE, CallsFail <- TRUE, Expires <- TRUE, Deletes <- TRUE

Kinds == INSTANCE ModelDownload WITH
    Workspace <- {"a", "b"}, Root <- Volume, Default <- Volume, Homes <- {"", "a"},
    Kinds <- {"hub", "s3", "remote", "path"}, Pinned <- FALSE, MaxFailoverAttempts <- 3,
    MaxRetry <- 1, JobsFail <- TRUE, CallsFail <- FALSE, Expires <- FALSE, Deletes <- TRUE

\* Requests on a workload beside the exporter, whose writes may fail.
Records == INSTANCE WorkloadRecords WITH
    Phase <- {"Pending", "Running", "Stopped", "Succeeded"}, HasFilter <- TRUE,
    DBFails <- FALSE, MaxRv <- 7, Client <- {1, 2},
    Ops <- {"create", "stop", "delete", "patch"}, MaxRequests <- 2

RecordsFail == INSTANCE WorkloadRecords WITH
    Phase <- {"Pending", "Running", "Stopped", "Succeeded"}, HasFilter <- TRUE, DBFails <- TRUE,
    MaxRv <- 7, Client <- {1, 2}, Ops <- {"create", "delete", "resume"}, MaxRequests <- 2

Follow == INSTANCE WorkloadRecords WITH
    Phase <- {"Pending", "Running", "Stopped", "Succeeded"}, HasFilter <- TRUE,
    DBFails <- FALSE, MaxRv <- 14, Client <- {1, 2}, Ops <- {"create", "delete"},
    MaxRequests <- 2

\* Requests on a model beside the exporter.
Models == INSTANCE ModelRecords WITH
    Phase <- {"Pending", "Ready"}, HasFilter <- FALSE, DBFails <- FALSE, MaxRv <- 5,
    Client <- {1, 2}, Ops <- {"create", "delete", "deploy", "patch"},
    Modes <- {"local", "local_path", "s3_sync"}, CallsFail <- TRUE, MaxRequests <- 3

ModelRow == INSTANCE ModelRecords WITH
    Phase <- {"Pending", "Ready"}, HasFilter <- FALSE, DBFails <- FALSE, MaxRv <- 14,
    Client <- {1, 2}, Ops <- {"create", "delete"}, Modes <- {"local"}, CallsFail <- TRUE,
    MaxRequests <- 3

ModelFollows == INSTANCE ModelRecords WITH
    Phase <- {"Pending", "Ready"}, HasFilter <- FALSE, DBFails <- FALSE, MaxRv <- 14,
    Client <- {1, 2}, Ops <- {"create", "delete"}, Modes <- {"local"}, CallsFail <- FALSE,
    MaxRequests <- 3

\* Creations that are refused, and changes of the secret.
Create == INSTANCE WorkloadCreate WITH
    Req <- {1, 2}, Images <- {"a", "b"}, GivenNames <- "none", Refusals <- {"create"},
    Patches <- FALSE

Renew == INSTANCE WorkloadCreate WITH
    Req <- {1, 2, 3}, Images <- {"a"}, GivenNames <- "once", Refusals <- {"secret", "phase"},
    Patches <- TRUE

\* An optimization task and a viewer of its events over a restart, or users who
\* stop it and calls that fail.
Optimize == INSTANCE Optimization WITH
    Raw <- Phases, Actors <- {"viewer"}, MaxHubs <- 3, Budget <- Outage(0, 1)

OptimizeStopped == INSTANCE Optimization WITH
    Raw <- Phases, Actors <- {"interrupt", "delete"}, MaxHubs <- 3, Budget <- Outage(1, 1)

OptimizeEnds == INSTANCE Optimization WITH
    Raw <- Phases, Actors <- {"interrupt", "delete"}, MaxHubs <- 3, Budget <- Outage(0, 0)

\* Imports of an image that are retried, deleted and cut off, by one user or by
\* two at a time, and registries for them.
Image == INSTANCE ImageImport WITH
    Client <- {1}, Sources <- One, Ops <- {"import", "retry", "delete", "create"},
    MaxRequests <- 2, MaxJobs <- 2, BackoffLimit <- 0, Registries <- {}, Calls <- 1

Images == INSTANCE ImageImport WITH
    Client <- {1, 2}, Sources <- Two, Ops <- {"import", "retry", "delete"}, MaxRequests <- 2,
    MaxJobs <- 1, BackoffLimit <- 1, Registries <- {}, Calls <- 0

ImagesEnd == INSTANCE ImageImport WITH
    Client <- {1}, Sources <- One, Ops <- {"import", "retry", "delete"}, MaxRequests <- 2,
    MaxJobs <- 1, BackoffLimit <- 1, Registries <- {}, Calls <- 0

Registry == INSTANCE ImageImport WITH
    Client <- {1}, Sources <- One, Ops <- {"register", "unregister", "import"},
    MaxRequests <- 3, MaxJobs <- 1, BackoffLimit <- 0, Registries <- {"u", "v"}, Calls <- 0

\* A dataset that is uploaded or imported, and downloaded to two volumes with
\* calls that fail and restarts.
Dataset == INSTANCE Datasets WITH
    Ids <- {1}, Sources <- {"upload"}, Workspaces <- <<"a", "b", "c">>, Wanted <- {""},
    MaxFailover <- 3, Prompt <- FALSE, Calls <- 1, Restarts <- 1, MaxJobs <- 5

DatasetHF == INSTANCE Datasets WITH
    Ids <- {1}, Sources <- {"hf"}, Workspaces <- <<"a", "b", "c">>, Wanted <- {"b"},
    MaxFailover <- 3, Prompt <- FALSE, Calls <- 1, Restarts <- 1, MaxJobs <- 3

DatasetEnds == INSTANCE Datasets WITH
    Ids <- {1}, Sources <- {"hf", "upload"}, Workspaces <- <<"a", "b", "c">>, Wanted <- {""},
    MaxFailover <- 3, Prompt <- TRUE, Calls <- 0, Restarts <- 0, MaxJobs <- 5

\* The scripts of a fine-tuning job on two nodes, which end together or not,
\* and with an adapter, and those of reinforcement learning, each dispatched
\* twice.
Train == INSTANCE TrainingScripts WITH
    Kind <- "sft", Nodes <- 2, Peft <- "none", ExportModel <- TRUE, Iters <- 2,
    Together <- TRUE, Answers <- {"ok", "refused", "down"}, MaxTries <- 2

TrainAlone == INSTANCE TrainingScripts WITH
    Kind <- "sft", Nodes <- 2, Peft <- "none", ExportModel <- TRUE, Iters <- 2,
    Together <- FALSE, Answers <- {"ok", "refused", "down"}, MaxTries <- 2

TrainLora == INSTANCE TrainingScripts WITH
    Kind <- "sft", Nodes <- 1, Peft <- "lora", ExportModel <- TRUE, Iters <- 2,
    Together <- TRUE, Answers <- {"ok", "refused", "down"}, MaxTries <- 2

TrainRl == INSTANCE TrainingScripts WITH
    Kind <- "rl", Nodes <- 1, Peft <- "none", ExportModel <- TRUE, Iters <- 2, Together <- TRUE,
    Answers <- {"ok", "refused", "down"}, MaxTries <- 2

\* What is shown and created for every kind of model and of settings; a model
\* that changes meanwhile; two requests for one name; the metrics of a run.
RunConfig == INSTANCE TrainingRuns WITH
    Client <- {1}, JobKinds <- {"sft", "rl"}, Workspaces <- {"", "a", "b"}, Mounts <- Mounted,
    Prefix <- {}, Homes <- {"va", "vb", "vc"}, Shapes <- AllShapes, Recipes <- AllRecipes,
    Givens <- AllGivens, Span <- [created |-> 2, start |-> 0, end |-> 3], Lens <- Known,
    Changes <- FALSE, Clock <- {0}, Queries <- {}, MaxPoints <- 0, Calls <- 0

RunChange == INSTANCE TrainingRuns WITH
    Client <- {1}, JobKinds <- {"sft"}, Workspaces <- {"", "a", "b"}, Mounts <- Mounted,
    Prefix <- {}, Homes <- {"va", "vb", "vc"}, Shapes <- {AShape("", 0, 0, 2)},
    Recipes <- {NoRecipe}, Givens <- OneGiven, Span <- [created |-> 2, start |-> 0, end |-> 3],
    Lens <- Known, Changes <- TRUE, Clock <- {0, 1}, Queries <- {}, MaxPoints <- 0, Calls <- 1

RunNames == INSTANCE TrainingRuns WITH
    Client <- {1, 2}, JobKinds <- {"sft"}, Workspaces <- {"a"}, Mounts <- Mounted, Prefix <- {},
    Homes <- {"va", "vb", "vc"}, Shapes <- {AShape("", 0, 0, 2)}, Recipes <- {NoRecipe},
    Givens <- OneGiven, Span <- [created |-> 2, start |-> 0, end |-> 3], Lens <- Known,
    Changes <- FALSE, Clock <- {0, 1}, Queries <- {}, MaxPoints <- 0, Calls <- 0

RunLoss == INSTANCE TrainingRuns WITH
    Client <- {}, JobKinds <- {"sft"}, Workspaces <- {"a"}, Mounts <- Mounted, Prefix <- {},
    Homes <- {"va", "vb", "vc"}, Shapes <- {AShape("", 0, 0, 2)}, Recipes <- {NoRecipe},
    Givens <- OneGiven, Span <- [created |-> 2, start |-> 0, end |-> 3], Lens <- Known,
    Changes <- FALSE, Clock <- {0}, Queries <- Asked, MaxPoints <- 2, Calls <- 1

\* Deployments one after the other and back, also on other clusters; approvals
\* that overlap; calls that fail and a restart; and how one ends.
Deployed == INSTANCE Deploy WITH
    Users <- {"u", "v"}, Asks <- Images2, ImageName <- Named, Clusters <- {"k"},
    RequireApproval <- TRUE, Actions <- {"rollback"}, Serial <- TRUE, Prompt <- TRUE,
    Breaks <- TRUE, MaxReqs <- 3, Calls <- 0, Restarts <- 0

DeployClusters == INSTANCE Deploy WITH
    Users <- {"u", "v"}, Asks <- Images3, ImageName <- Named, Clusters <- {"k"},
    RequireApproval <- TRUE, Actions <- {"retry"}, Serial <- TRUE, Prompt <- TRUE,
    Breaks <- TRUE, MaxReqs <- 2, Calls <- 0, Restarts <- 0

DeployTwice == INSTANCE Deploy WITH
    Users <- {"u", "v"}, Asks <- {Images1}, ImageName <- Named, Clusters <- {"k"},
    RequireApproval <- FALSE, Actions <- {}, Serial <- FALSE, Prompt <- FALSE, Breaks <- FALSE,
    MaxReqs <- 1, Calls <- 0, Restarts <- 0

DeployFails == INSTANCE Deploy WITH
    Users <- {"u", "v"}, Asks <- Images3, ImageName <- Named, Clusters <- {"k"},
    RequireApproval <- TRUE, Actions <- {"late"}, Serial <- FALSE, Prompt <- FALSE,
    Breaks <- TRUE, MaxReqs <- 1, Calls <- 1, Restarts <- 1

DeployEnds == INSTANCE Deploy WITH
    Users <- {"u", "v"}, Asks <- Images3, ImageName <- Named, Clusters <- {"k"},
    RequireApproval <- TRUE, Actions <- {}, Serial <- TRUE, Prompt <- TRUE, Breaks <- TRUE,
    MaxReqs <- 1, Calls <- 0, Restarts <- 0

\* Requests that bind a key of a model provider side by side, with calls that
\* fail; one after the other with changes and deletions; and a creation that
\* outlives its time.
Bind == INSTANCE Gateway WITH
    Client <- {"c1", "c2"}, Apim <- {"a", "b"}, Ops <- {"create", "budget"},
    Failing <- {"read", "user", "lost", "key", "clean", "save", "update", "store", "remove", "restore"},
    MaxFaults <- 1, MaxExpiries <- 0, MaxIds <- 4

Rebind == INSTANCE Gateway WITH
    Client <- {"c1"}, Apim <- {"a", "b"}, Ops <- {"create", "update", "delete", "budget"},
    Failing <- {"read", "user", "lost", "key", "clean", "save", "update", "store", "remove", "restore"},
    MaxFaults <- 1, MaxExpiries <- 0, MaxIds <- 4

BindLate == INSTANCE Gateway WITH
    Client <- {"c1"}, Apim <- {"a", "b"}, Ops <- {"create", "update", "delete", "budget"},
    Failing <- {"read", "user", "lost", "key", "clean", "save", "update", "store", "remove", "restore"},
    MaxFaults <- 0, MaxExpiries <- 1, MaxIds <- 4

BindLost == INSTANCE Gateway WITH
    Client <- {"c1"}, Apim <- {"a", "b"}, Ops <- {"create", "update", "delete"},
    Failing <- {"read", "user", "lost", "key", "clean", "save", "update", "store", "remove", "restore", "lostSave", "lostUpdate", "lostStore", "lostRemove", "drop"},
    MaxFaults <- 2, MaxExpiries <- 1, MaxIds <- 4

\* API keys that are made, used and deleted; platform keys that replicas and
\* the tool ask for at once; logins; the start of replicas; and public keys.
ApiKeys == INSTANCE Keys WITH
    User <- {"u", "v"}, Admin <- {"v"}, Nobody <- "nobody", Caller <- {1, 2}, Tool <- {},
    Address <- {"x", "y"}, Replica <- {}, Ops <- {"key"}, TokenExpire <- 1, MaxTTL <- 1,
    MaxNow <- 2, MaxRows <- 2, MaxTokens <- 0, MaxFaults <- 1

PlatformKeys == INSTANCE Keys WITH
    User <- {"u", "v"}, Admin <- {"v"}, Nobody <- "nobody", Caller <- {1, 2, 3}, Tool <- {3},
    Address <- {"x", "y"}, Replica <- {}, Ops <- {"platform"}, TokenExpire <- 1, MaxTTL <- 1,
    MaxNow <- 2, MaxRows <- 3, MaxTokens <- 3, MaxFaults <- 1

Logins == INSTANCE Keys WITH
    User <- {"u", "v"}, Admin <- {"v"}, Nobody <- "nobody", Caller <- {1, 2}, Tool <- {},
    Address <- {"x", "y"}, Replica <- {}, Ops <- {"login", "password"}, TokenExpire <- 1,
    MaxTTL <- 1, MaxNow <- 2, MaxRows <- 2, MaxTokens <- 2, MaxFaults <- 1

Replicas == INSTANCE Keys WITH
    User <- {"u", "v"}, Admin <- {"v"}, Nobody <- "nobody", Caller <- {}, Tool <- {},
    Address <- {"x", "y"}, Replica <- {1, 2, 3}, Ops <- {"replica"}, TokenExpire <- 1,
    MaxTTL <- 1, MaxNow <- 2, MaxRows <- 2, MaxTokens <- 4, MaxFaults <- 1

PublicKeys == INSTANCE Keys WITH
    User <- {"u", "v"}, Admin <- {"v"}, Nobody <- "nobody", Caller <- {}, Tool <- {},
    Address <- {"x", "y"}, Replica <- {}, Ops <- {"public"}, TokenExpire <- 1, MaxTTL <- 1,
    MaxNow <- 2, MaxRows <- 3, MaxTokens <- 0, MaxFaults <- 1

-----------------------------------------------------------------------------
(* A step of a module leaves the scenario and the others alone.             *)
ModelDownloadOnly ==
    UNCHANGED <<scenario, obj, row, queued, run, req, made, mode, secret, twin, user, workload, secrets,
               refersTo, submit, claw, hubs, cur, cons, viewer, deleting, boot, left, images,
               imports, jobs, events, ctl, progress, artifact, reqs, asked, registry,
               credentials, errs, s3, hf, hfQueue, queue, disk, calls, restarts, pods, train,
               dirs, pretrained, merged, files, lock, models, job, tries, dataset, now,
               workloads, rows, runs, points, answer, snaps, hands, cds, live, remote, key,
               said, faults, expiries, ids, keys, pubs, session, users, cached, replica, call,
               given, gone, goneKey, fresh>>
WorkloadRecordsOnly ==
    UNCHANGED <<scenario, model, paths, upload, cleanup, ops, bucket, stored, work, retries, mode, secret,
               twin, user, workload, secrets, refersTo, submit, claw, hubs, cur, cons, viewer,
               deleting, boot, left, images, imports, jobs, events, ctl, progress, artifact,
               reqs, asked, registry, credentials, errs, s3, hf, hfQueue, queue, disk, calls,
               restarts, pods, train, dirs, pretrained, merged, files, lock, models, job, tries,
               dataset, now, workloads, rows, runs, points, answer, snaps, hands, cds, live,
               remote, key, said, faults, expiries, ids, keys, pubs, session, users, cached,
               replica, call, given, gone, goneKey, fresh>>
ModelRecordsOnly ==
    UNCHANGED <<scenario, model, paths, upload, cleanup, ops, bucket, stored, work, retries, workload,
               secrets, refersTo, submit, claw, hubs, cur, cons, viewer, deleting, boot, left,
               images, imports, jobs, events, ctl, progress, artifact, reqs, asked, registry,
               credentials, errs, s3, hf, hfQueue, queue, disk, calls, restarts, pods, train,
               dirs, pretrained, merged, files, lock, models, job, tries, dataset, now,
               workloads, rows, runs, points, answer, snaps, hands, cds, live, remote, key,
               said, faults, expiries, ids, keys, pubs, session, users, cached, replica, call,
               given, gone, goneKey, fresh>>
WorkloadCreateOnly ==
    UNCHANGED <<scenario, model, paths, upload, cleanup, ops, bucket, stored, work, retries, obj, row,
               queued, run, made, mode, secret, twin, user, submit, claw, hubs, cur, cons,
               viewer, deleting, boot, left, images, imports, jobs, events, ctl, progress,
               artifact, reqs, asked, registry, credentials, errs, s3, hf, hfQueue, queue, disk,
               calls, restarts, pods, train, dirs, pretrained, merged, files, lock, models, job,
               tries, dataset, now, workloads, rows, runs, points, answer, snaps, hands, cds,
               live, remote, key, said, faults, expiries, ids, keys, pubs, session, users,
               cached, replica, call, given, gone, goneKey, fresh>>
OptimizationOnly ==
    UNCHANGED <<scenario, model, paths, upload, cleanup, ops, bucket, work, retries, obj, queued, run, req,
               made, mode, secret, twin, user, workload, secrets, refersTo, images, imports,
               jobs, events, ctl, progress, artifact, reqs, asked, registry, credentials, errs,
               s3, hf, hfQueue, queue, disk, calls, restarts, pods, train, dirs, pretrained,
               merged, files, lock, models, job, tries, dataset, now, workloads, rows, runs,
               points, answer, snaps, hands, cds, live, remote, key, said, faults, expiries,
               ids, keys, pubs, session, users, cached, replica, call, given, gone, goneKey,
               fresh>>
ImageImportOnly ==
    UNCHANGED <<scenario, model, paths, upload, cleanup, ops, bucket, stored, work, retries, obj, row,
               queued, run, req, made, mode, secret, twin, user, workload, secrets, refersTo,
               submit, claw, hubs, cur, cons, viewer, deleting, boot, left, s3, hf, hfQueue,
               queue, disk, calls, restarts, pods, train, dirs, pretrained, merged, files, lock,
               models, job, tries, dataset, now, workloads, rows, runs, points, answer, snaps,
               hands, cds, live, remote, key, said, faults, expiries, ids, keys, pubs, session,
               users, cached, replica, call, given, gone, goneKey, fresh>>
DatasetsOnly ==
    UNCHANGED <<scenario, model, paths, upload, cleanup, ops, bucket, stored, work, retries, obj, queued,
               run, made, mode, secret, twin, user, workload, secrets, refersTo, submit, claw,
               hubs, cur, cons, viewer, deleting, boot, left, images, imports, events, progress,
               artifact, reqs, asked, registry, credentials, errs, pods, train, dirs,
               pretrained, merged, files, lock, models, job, tries, dataset, now, workloads,
               rows, runs, points, answer, snaps, hands, cds, live, remote, key, said, faults,
               expiries, ids, keys, pubs, session, users, cached, replica, call, given, gone,
               goneKey, fresh>>
TrainingScriptsOnly ==
    UNCHANGED <<scenario, model, paths, upload, cleanup, ops, bucket, stored, work, retries, obj, row,
               queued, run, req, made, mode, secret, twin, user, workload, secrets, refersTo,
               submit, claw, hubs, cur, cons, viewer, deleting, boot, left, images, imports,
               jobs, events, ctl, progress, artifact, reqs, asked, registry, credentials, errs,
               s3, hf, hfQueue, queue, disk, calls, restarts, dataset, now, workloads, rows,
               runs, points, answer, snaps, hands, cds, live, remote, key, said, faults,
               expiries, ids, keys, pubs, session, users, cached, replica, call, given, gone,
               goneKey, fresh>>
TrainingRunsOnly ==
    UNCHANGED <<scenario, paths, upload, cleanup, ops, bucket, stored, work, retries, obj, row, queued,
               run, made, mode, secret, twin, user, workload, secrets, refersTo, submit, claw,
               hubs, cur, cons, viewer, deleting, boot, left, images, imports, jobs, events,
               ctl, progress, artifact, reqs, asked, registry, credentials, errs, s3, hf,
               hfQueue, queue, disk, restarts, pods, train, dirs, pretrained, merged, files,
               lock, models, job, tries, snaps, hands, cds, live, remote, key, said, faults,
               expiries, ids, keys, pubs, session, users, cached, replica, call, given, gone,
               goneKey, fresh>>
DeployOnly ==
    UNCHANGED <<scenario, model, paths, upload, cleanup, ops, bucket, stored, work, retries, obj, row,
               queued, run, req, made, mode, secret, twin, user, workload, secrets, refersTo,
               submit, claw, hubs, cur, cons, viewer, deleting, boot, images, imports, events,
               ctl, progress, artifact, asked, registry, credentials, errs, s3, hf, hfQueue,
               queue, disk, calls, restarts, pods, train, dirs, pretrained, merged, files, lock,
               models, job, tries, dataset, now, workloads, rows, runs, points, answer, key,
               said, faults, expiries, ids, keys, pubs, session, users, cached, replica, call,
               given, gone, goneKey, fresh>>
GatewayOnly ==
    UNCHANGED <<scenario, model, paths, upload, cleanup, ops, bucket, stored, work, retries, obj, queued,
               run, made, mode, secret, twin, user, workload, secrets, refersTo, submit, claw,
               hubs, cur, cons, viewer, deleting, boot, left, images, imports, jobs, events,
               ctl, progress, artifact, reqs, asked, registry, credentials, errs, s3, hf,
               hfQueue, queue, disk, calls, restarts, pods, train, dirs, pretrained, merged,
               files, models, job, tries, dataset, now, workloads, rows, runs, points, answer,
               snaps, hands, cds, live, remote, keys, pubs, session, users, cached, replica,
               call, given, gone, goneKey, fresh>>
KeysOnly ==
    UNCHANGED <<scenario, model, paths, upload, cleanup, ops, bucket, stored, work, retries, obj, row,
               queued, run, req, made, mode, twin, user, workload, secrets, refersTo, submit,
               claw, hubs, cur, cons, viewer, deleting, boot, left, images, imports, jobs,
               events, ctl, progress, artifact, reqs, asked, registry, credentials, errs, s3,
               hf, hfQueue, queue, disk, calls, restarts, pods, train, dirs, pretrained, merged,
               files, lock, models, job, tries, dataset, workloads, rows, runs, points, answer,
               snaps, hands, cds, live, remote, key, said, expiries, ids>>

Init ==
    \/ /\ \/ scenario = "download" /\ Download!Init
          \/ scenario = "kinds" /\ Kinds!Init
       /\ obj = Unused /\ row = Unused /\ queued = Unused /\ run = Unused /\ req = Unused
       /\ made = Unused /\ mode = Unused /\ secret = Unused /\ twin = Unused /\ user = Unused
       /\ workload = Unused /\ secrets = Unused /\ refersTo = Unused /\ submit = Unused
       /\ claw = Unused /\ hubs = Unused /\ cur = Unused /\ cons = Unused /\ viewer = Unused
       /\ deleting = Unused /\ boot = Unused /\ left = Unused /\ images = Unused
       /\ imports = Unused /\ jobs = Unused /\ events = Unused /\ ctl = Unused
       /\ progress = Unused /\ artifact = Unused /\ reqs = Unused /\ asked = Unused
       /\ registry = Unused /\ credentials = Unused /\ errs = Unused /\ s3 = Unused
       /\ hf = Unused /\ hfQueue = Unused /\ queue = Unused /\ disk = Unused /\ calls = Unused
       /\ restarts = Unused /\ pods = Unused /\ train = Unused /\ dirs = Unused
       /\ pretrained = Unused /\ merged = Unused /\ files = Unused /\ lock = Unused
       /\ models = Unused /\ job = Unused /\ tries = Unused /\ dataset = Unused /\ now = Unused
       /\ workloads = Unused /\ rows = Unused /\ runs = Unused /\ points = Unused
       /\ answer = Unused /\ snaps = Unused /\ hands = Unused /\ cds = Unused /\ live = Unused
       /\ remote = Unused /\ key = Unused /\ said = Unused /\ faults = Unused
       /\ expiries = Unused /\ ids = Unused /\ keys = Unused /\ pubs = Unused
       /\ session = Unused /\ users = Unused /\ cached = Unused /\ replica = Unused
       /\ call = Unused /\ given = Unused /\ gone = Unused /\ goneKey = Unused
       /\ fresh = Unused
    \/ /\ \/ scenario = "records" /\ Records!Init
          \/ scenario = "recordsFail" /\ RecordsFail!Init
          \/ scenario = "follow" /\ Follow!Init
       /\ model = Unused /\ paths = Unused /\ upload = Unused /\ cleanup = Unused /\ ops = Unused
       /\ bucket = Unused /\ stored = Unused /\ work = Unused /\ retries = Unused
       /\ mode = Unused /\ secret = Unused /\ twin = Unused /\ user = Unused
       /\ workload = Unused /\ secrets = Unused /\ refersTo = Unused /\ submit = Unused
       /\ claw = Unused /\ hubs = Unused /\ cur = Unused /\ cons = Unused /\ viewer = Unused
       /\ deleting = Unused /\ boot = Unused /\ left = Unused /\ images = Unused
       /\ imports = Unused /\ jobs = Unused /\ events = Unused /\ ctl = Unused
       /\ progress = Unused /\ artifact = Unused /\ reqs = Unused /\ asked = Unused
       /\ registry = Unused /\ credentials = Unused /\ errs = Unused /\ s3 = Unused
       /\ hf = Unused /\ hfQueue = Unused /\ queue = Unused /\ disk = Unused /\ calls = Unused
       /\ restarts = Unused /\ pods = Unused /\ train = Unused /\ dirs = Unused
       /\ pretrained = Unused /\ merged = Unused /\ files = Unused /\ lock = Unused
       /\ models = Unused /\ job = Unused /\ tries = Unused /\ dataset = Unused /\ now = Unused
       /\ workloads = Unused /\ rows = Unused /\ runs = Unused /\ points = Unused
       /\ answer = Unused /\ snaps = Unused /\ hands = Unused /\ cds = Unused /\ live = Unused
       /\ remote = Unused /\ key = Unused /\ said = Unused /\ faults = Unused
       /\ expiries = Unused /\ ids = Unused /\ keys = Unused /\ pubs = Unused
       /\ session = Unused /\ users = Unused /\ cached = Unused /\ replica = Unused
       /\ call = Unused /\ given = Unused /\ gone = Unused /\ goneKey = Unused
       /\ fresh = Unused
    \/ /\ \/ scenario = "models" /\ Models!Init
          \/ scenario = "modelRow" /\ ModelRow!Init
          \/ scenario = "modelFollows" /\ ModelFollows!Init
       /\ model = Unused /\ paths = Unused /\ upload = Unused /\ cleanup = Unused /\ ops = Unused
       /\ bucket = Unused /\ stored = Unused /\ work = Unused /\ retries = Unused
       /\ workload = Unused /\ secrets = Unused /\ refersTo = Unused /\ submit = Unused
       /\ claw = Unused /\ hubs = Unused /\ cur = Unused /\ cons = Unused /\ viewer = Unused
       /\ deleting = Unused /\ boot = Unused /\ left = Unused /\ images = Unused
       /\ imports = Unused /\ jobs = Unused /\ events = Unused /\ ctl = Unused
       /\ progress = Unused /\ artifact = Unused /\ reqs = Unused /\ asked = Unused
       /\ registry = Unused /\ credentials = Unused /\ errs = Unused /\ s3 = Unused
       /\ hf = Unused /\ hfQueue = Unused /\ queue = Unused /\ disk = Unused /\ calls = Unused
       /\ restarts = Unused /\ pods = Unused /\ train = Unused /\ dirs = Unused
       /\ pretrained = Unused /\ merged = Unused /\ files = Unused /\ lock = Unused
       /\ models = Unused /\ job = Unused /\ tries = Unused /\ dataset = Unused /\ now = Unused
       /\ workloads = Unused /\ rows = Unused /\ runs = Unused /\ points = Unused
       /\ answer = Unused /\ snaps = Unused /\ hands = Unused /\ cds = Unused /\ live = Unused
       /\ remote = Unused /\ key = Unused /\ said = Unused /\ faults = Unused
       /\ expiries = Unused /\ ids = Unused /\ keys = Unused /\ pubs = Unused
       /\ session = Unused /\ users = Unused /\ cached = Unused /\ replica = Unused
       /\ call = Unused /\ given = Unused /\ gone = Unused /\ goneKey = Unused
       /\ fresh = Unused
    \/ /\ \/ scenario = "create" /\ Create!Init
          \/ scenario = "renew" /\ Renew!Init
       /\ model = Unused /\ paths = Unused /\ upload = Unused /\ cleanup = Unused /\ ops = Unused
       /\ bucket = Unused /\ stored = Unused /\ work = Unused /\ retries = Unused
       /\ obj = Unused /\ row = Unused /\ queued = Unused /\ run = Unused /\ made = Unused
       /\ mode = Unused /\ secret = Unused /\ twin = Unused /\ user = Unused /\ submit = Unused
       /\ claw = Unused /\ hubs = Unused /\ cur = Unused /\ cons = Unused /\ viewer = Unused
       /\ deleting = Unused /\ boot = Unused /\ left = Unused /\ images = Unused
       /\ imports = Unused /\ jobs = Unused /\ events = Unused /\ ctl = Unused
       /\ progress = Unused /\ artifact = Unused /\ reqs = Unused /\ asked = Unused
       /\ registry = Unused /\ credentials = Unused /\ errs = Unused /\ s3 = Unused
       /\ hf = Unused /\ hfQueue = Unused /\ queue = Unused /\ disk = Unused /\ calls = Unused
       /\ restarts = Unused /\ pods = Unused /\ train = Unused /\ dirs = Unused
       /\ pretrained = Unused /\ merged = Unused /\ files = Unused /\ lock = Unused
       /\ models = Unused /\ job = Unused /\ tries = Unused /\ dataset = Unused /\ now = Unused
       /\ workloads = Unused /\ rows = Unused /\ runs = Unused /\ points = Unused
       /\ answer = Unused /\ snaps = Unused /\ hands = Unused /\ cds = Unused /\ live = Unused
       /\ remote = Unused /\ key = Unused /\ said = Unused /\ faults = Unused
       /\ expiries = Unused /\ ids = Unused /\ keys = Unused /\ pubs = Unused
       /\ session = Unused /\ users = Unused /\ cached = Unused /\ replica = Unused
       /\ call = Unused /\ given = Unused /\ gone = Unused /\ goneKey = Unused
       /\ fresh = Unused
    \/ /\ \/ scenario = "optimize" /\ Optimize!Init
          \/ scenario = "optimizeStopped" /\ OptimizeStopped!Init
          \/ scenario = "optimizeEnds" /\ OptimizeEnds!Init
       /\ model = Unused /\ paths = Unused /\ upload = Unused /\ cleanup = Unused /\ ops = Unused
       /\ bucket = Unused /\ work = Unused /\ retries = Unused /\ obj = Unused
       /\ queued = Unused /\ run = Unused /\ req = Unused /\ made = Unused /\ mode = Unused
       /\ secret = Unused /\ twin = Unused /\ user = Unused /\ workload = Unused
       /\ secrets = Unused /\ refersTo = Unused /\ images = Unused /\ imports = Unused
       /\ jobs = Unused /\ events = Unused /\ ctl = Unused /\ progress = Unused
       /\ artifact = Unused /\ reqs = Unused /\ asked = Unused /\ registry = Unused
       /\ credentials = Unused /\ errs = Unused /\ s3 = Unused /\ hf = Unused
       /\ hfQueue = Unused /\ queue = Unused /\ disk = Unused /\ calls = Unused
       /\ restarts = Unused /\ pods = Unused /\ train = Unused /\ dirs = Unused
       /\ pretrained = Unused /\ merged = Unused /\ files = Unused /\ lock = Unused
       /\ models = Unused /\ job = Unused /\ tries = Unused /\ dataset = Unused /\ now = Unused
       /\ workloads = Unused /\ rows = Unused /\ runs = Unused /\ points = Unused
       /\ answer = Unused /\ snaps = Unused /\ hands = Unused /\ cds = Unused /\ live = Unused
       /\ remote = Unused /\ key = Unused /\ said = Unused /\ faults = Unused
       /\ expiries = Unused /\ ids = Unused /\ keys = Unused /\ pubs = Unused
       /\ session = Unused /\ users = Unused /\ cached = Unused /\ replica = Unused
       /\ call = Unused /\ given = Unused /\ gone = Unused /\ goneKey = Unused
       /\ fresh = Unused
    \/ /\ \/ scenario = "image" /\ Image!Init
          \/ scenario = "images" /\ Images!Init
          \/ scenario = "imagesEnd" /\ ImagesEnd!Init
          \/ scenario = "registry" /\ Registry!Init
       /\ model = Unused /\ paths = Unused /\ upload = Unused /\ cleanup = Unused /\ ops = Unused
       /\ bucket = Unused /\ stored = Unused /\ work = Unused /\ retries = Unused
       /\ obj = Unused /\ row = Unused /\ queued = Unused /\ run = Unused /\ req = Unused
       /\ made = Unused /\ mode = Unused /\ secret = Unused /\ twin = Unused /\ user = Unused
       /\ workload = Unused /\ secrets = Unused /\ refersTo = Unused /\ submit = Unused
       /\ claw = Unused /\ hubs = Unused /\ cur = Unused /\ cons = Unused /\ viewer = Unused
       /\ deleting = Unused /\ boot = Unused /\ left = Unused /\ s3 = Unused /\ hf = Unused
       /\ hfQueue = Unused /\ queue = Unused /\ disk = Unused /\ calls = Unused
       /\ restarts = Unused /\ pods = Unused /\ train = Unused /\ dirs = Unused
       /\ pretrained = Unused /\ merged = Unused /\ files = Unused /\ lock = Unused
       /\ models = Unused /\ job = Unused /\ tries = Unused /\ dataset = Unused /\ now = Unused
       /\ workloads = Unused /\ rows = Unused /\ runs = Unused /\ points = Unused
       /\ answer = Unused /\ snaps = Unused /\ hands = Unused /\ cds = Unused /\ live = Unused
       /\ remote = Unused /\ key = Unused /\ said = Unused /\ faults = Unused
       /\ expiries = Unused /\ ids = Unused /\ keys = Unused /\ pubs = Unused
       /\ session = Unused /\ users = Unused /\ cached = Unused /\ replica = Unused
       /\ call = Unused /\ given = Unused /\ gone = Unused /\ goneKey = Unused
       /\ fresh = Unused
    \/ /\ \/ scenario = "dataset" /\ Dataset!Init
          \/ scenario = "datasetHF" /\ DatasetHF!Init
          \/ scenario = "datasetEnds" /\ DatasetEnds!Init
       /\ model = Unused /\ paths = Unused /\ upload = Unused /\ cleanup = Unused /\ ops = Unused
       /\ bucket = Unused /\ stored = Unused /\ work = Unused /\ retries = Unused
       /\ obj = Unused /\ queued = Unused /\ run = Unused /\ made = Unused /\ mode = Unused
       /\ secret = Unused /\ twin = Unused /\ user = Unused /\ workload = Unused
       /\ secrets = Unused /\ refersTo = Unused /\ submit = Unused /\ claw = Unused
       /\ hubs = Unused /\ cur = Unused /\ cons = Unused /\ viewer = Unused
       /\ deleting = Unused /\ boot = Unused /\ left = Unused /\ images = Unused
       /\ imports = Unused /\ events = Unused /\ progress = Unused /\ artifact = Unused
       /\ reqs = Unused /\ asked = Unused /\ registry = Unused /\ credentials = Unused
       /\ errs = Unused /\ pods = Unused /\ train = Unused /\ dirs = Unused
       /\ pretrained = Unused /\ merged = Unused /\ files = Unused /\ lock = Unused
       /\ models = Unused /\ job = Unused /\ tries = Unused /\ dataset = Unused /\ now = Unused
       /\ workloads = Unused /\ rows = Unused /\ runs = Unused /\ points = Unused
       /\ answer = Unused /\ snaps = Unused /\ hands = Unused /\ cds = Unused /\ live = Unused
       /\ remote = Unused /\ key = Unused /\ said = Unused /\ faults = Unused
       /\ expiries = Unused /\ ids = Unused /\ keys = Unused /\ pubs = Unused
       /\ session = Unused /\ users = Unused /\ cached = Unused /\ replica = Unused
       /\ call = Unused /\ given = Unused /\ gone = Unused /\ goneKey = Unused
       /\ fresh = Unused
    \/ /\ \/ scenario = "train" /\ Train!Init
          \/ scenario = "trainAlone" /\ TrainAlone!Init
          \/ scenario = "trainLora" /\ TrainLora!Init
          \/ scenario = "trainRl" /\ TrainRl!Init
       /\ model = Unused /\ paths = Unused /\ upload = Unused /\ cleanup = Unused /\ ops = Unused
       /\ bucket = Unused /\ stored = Unused /\ work = Unused /\ retries = Unused
       /\ obj = Unused /\ row = Unused /\ queued = Unused /\ run = Unused /\ req = Unused
       /\ made = Unused /\ mode = Unused /\ secret = Unused /\ twin = Unused /\ user = Unused
       /\ workload = Unused /\ secrets = Unused /\ refersTo = Unused /\ submit = Unused
       /\ claw = Unused /\ hubs = Unused /\ cur = Unused /\ cons = Unused /\ viewer = Unused
       /\ deleting = Unused /\ boot = Unused /\ left = Unused /\ images = Unused
       /\ imports = Unused /\ jobs = Unused /\ events = Unused /\ ctl = Unused
       /\ progress = Unused /\ artifact = Unused /\ reqs = Unused /\ asked = Unused
       /\ registry = Unused /\ credentials = Unused /\ errs = Unused /\ s3 = Unused
       /\ hf = Unused /\ hfQueue = Unused /\ queue = Unused /\ disk = Unused /\ calls = Unused
       /\ restarts = Unused /\ dataset = Unused /\ now = Unused /\ workloads = Unused
       /\ rows = Unused /\ runs = Unused /\ points = Unused /\ answer = Unused
       /\ snaps = Unused /\ hands = Unused /\ cds = Unused /\ live = Unused /\ remote = Unused
       /\ key = Unused /\ said = Unused /\ faults = Unused /\ expiries = Unused /\ ids = Unused
       /\ keys = Unused /\ pubs = Unused /\ session = Unused /\ users = Unused
       /\ cached = Unused /\ replica = Unused /\ call = Unused /\ given = Unused
       /\ gone = Unused /\ goneKey = Unused /\ fresh = Unused
    \/ /\ \/ scenario = "runConfig" /\ RunConfig!Init
          \/ scenario = "runChange" /\ RunChange!Init
          \/ scenario = "runNames" /\ RunNames!Init
          \/ scenario = "runLoss" /\ RunLoss!Init
       /\ paths = Unused /\ upload = Unused /\ cleanup = Unused /\ ops = Unused /\ bucket = Unused
       /\ stored = Unused /\ work = Unused /\ retries = Unused /\ obj = Unused /\ row = Unused
       /\ queued = Unused /\ run = Unused /\ made = Unused /\ mode = Unused /\ secret = Unused
       /\ twin = Unused /\ user = Unused /\ workload = Unused /\ secrets = Unused
       /\ refersTo = Unused /\ submit = Unused /\ claw = Unused /\ hubs = Unused
       /\ cur = Unused /\ cons = Unused /\ viewer = Unused /\ deleting = Unused
       /\ boot = Unused /\ left = Unused /\ images = Unused /\ imports = Unused
       /\ jobs = Unused /\ events = Unused /\ ctl = Unused /\ progress = Unused
       /\ artifact = Unused /\ reqs = Unused /\ asked = Unused /\ registry = Unused
       /\ credentials = Unused /\ errs = Unused /\ s3 = Unused /\ hf = Unused
       /\ hfQueue = Unused /\ queue = Unused /\ disk = Unused /\ restarts = Unused
       /\ pods = Unused /\ train = Unused /\ dirs = Unused /\ pretrained = Unused
       /\ merged = Unused /\ files = Unused /\ lock = Unused /\ models = Unused /\ job = Unused
       /\ tries = Unused /\ snaps = Unused /\ hands = Unused /\ cds = Unused /\ live = Unused
       /\ remote = Unused /\ key = Unused /\ said = Unused /\ faults = Unused
       /\ expiries = Unused /\ ids = Unused /\ keys = Unused /\ pubs = Unused
       /\ session = Unused /\ users = Unused /\ cached = Unused /\ replica = Unused
       /\ call = Unused /\ given = Unused /\ gone = Unused /\ goneKey = Unused
       /\ fresh = Unused
    \/ /\ \/ scenario = "deploy" /\ Deployed!Init
          \/ scenario = "deployClusters" /\ DeployClusters!Init
          \/ scenario = "deployTwice" /\ DeployTwice!Init
          \/ scenario = "deployFails" /\ DeployFails!Init
          \/ scenario = "deployEnds" /\ DeployEnds!Init
       /\ model = Unused /\ paths = Unused /\ upload = Unused /\ cleanup = Unused /\ ops = Unused
       /\ bucket = Unused /\ stored = Unused /\ work = Unused /\ retries = Unused
       /\ obj = Unused /\ row = Unused /\ queued = Unused /\ run = Unused /\ req = Unused
       /\ made = Unused /\ mode = Unused /\ secret = Unused /\ twin = Unused /\ user = Unused
       /\ workload = Unused /\ secrets = Unused /\ refersTo = Unused /\ submit = Unused
       /\ claw = Unused /\ hubs = Unused /\ cur = Unused /\ cons = Unused /\ viewer = Unused
       /\ deleting = Unused /\ boot = Unused /\ images = Unused /\ imports = Unused
       /\ events = Unused /\ ctl = Unused /\ progress = Unused /\ artifact = Unused
       /\ asked = Unused /\ registry = Unused /\ credentials = Unused /\ errs = Unused
       /\ s3 = Unused /\ hf = Unused /\ hfQueue = Unused /\ queue = Unused /\ disk = Unused
       /\ calls = Unused /\ restarts = Unused /\ pods = Unused /\ train = Unused
       /\ dirs = Unused /\ pretrained = Unused /\ merged = Unused /\ files = Unused
       /\ lock = Unused /\ models = Unused /\ job = Unused /\ tries = Unused
       /\ dataset = Unused /\ now = Unused /\ workloads = Unused /\ rows = Unused
       /\ runs = Unused /\ points = Unused /\ answer = Unused /\ key = Unused /\ said = Unused
       /\ faults = Unused /\ expiries = Unused /\ ids = Unused /\ keys = Unused
       /\ pubs = Unused /\ session = Unused /\ users = Unused /\ cached = Unused
       /\ replica = Unused /\ call = Unused /\ given = Unused /\ gone = Unused
       /\ goneKey = Unused /\ fresh = Unused
    \/ /\ \/ scenario = "bind" /\ Bind!Init
          \/ scenario = "rebind" /\ Rebind!Init
          \/ scenario = "bindLate" /\ BindLate!Init
          \/ scenario = "bindLost" /\ BindLost!Init
       /\ model = Unused /\ paths = Unused /\ upload = Unused /\ cleanup = Unused /\ ops = Unused
       /\ bucket = Unused /\ stored = Unused /\ work = Unused /\ retries = Unused
       /\ obj = Unused /\ queued = Unused /\ run = Unused /\ made = Unused /\ mode = Unused
       /\ secret = Unused /\ twin = Unused /\ user = Unused /\ workload = Unused
       /\ secrets = Unused /\ refersTo = Unused /\ submit = Unused /\ claw = Unused
       /\ hubs = Unused /\ cur = Unused /\ cons = Unused /\ viewer = Unused
       /\ deleting = Unused /\ boot = Unused /\ left = Unused /\ images = Unused
       /\ imports = Unused /\ jobs = Unused /\ events = Unused /\ ctl = Unused
       /\ progress = Unused /\ artifact = Unused /\ reqs = Unused /\ asked = Unused
       /\ registry = Unused /\ credentials = Unused /\ errs = Unused /\ s3 = Unused
       /\ hf = Unused /\ hfQueue = Unused /\ queue = Unused /\ disk = Unused /\ calls = Unused
       /\ restarts = Unused /\ pods = Unused /\ train = Unused /\ dirs = Unused
       /\ pretrained = Unused /\ merged = Unused /\ files = Unused /\ models = Unused
       /\ job = Unused /\ tries = Unused /\ dataset = Unused /\ now = Unused
       /\ workloads = Unused /\ rows = Unused /\ runs = Unused /\ points = Unused
       /\ answer = Unused /\ snaps = Unused /\ hands = Unused /\ cds = Unused /\ live = Unused
       /\ remote = Unused /\ keys = Unused /\ pubs = Unused /\ session = Unused
       /\ users = Unused /\ cached = Unused /\ replica = Unused /\ call = Unused
       /\ given = Unused /\ gone = Unused /\ goneKey = Unused /\ fresh = Unused
    \/ /\ \/ scenario = "apiKeys" /\ ApiKeys!Init
          \/ scenario = "platformKeys" /\ PlatformKeys!Init
          \/ scenario = "logins" /\ Logins!Init
          \/ scenario = "replicas" /\ Replicas!Init
          \/ scenario = "publicKeys" /\ PublicKeys!Init
       /\ model = Unused /\ paths = Unused /\ upload = Unused /\ cleanup = Unused /\ ops = Unused
       /\ bucket = Unused /\ stored = Unused /\ work = Unused /\ retries = Unused
       /\ obj = Unused /\ row = Unused /\ queued = Unused /\ run = Unused /\ req = Unused
       /\ made = Unused /\ mode = Unused /\ twin = Unused /\ user = Unused /\ workload = Unused
       /\ secrets = Unused /\ refersTo = Unused /\ submit = Unused /\ claw = Unused
       /\ hubs = Unused /\ cur = Unused /\ cons = Unused /\ viewer = Unused
       /\ deleting = Unused /\ boot = Unused /\ left = Unused /\ images = Unused
       /\ imports = Unused /\ jobs = Unused /\ events = Unused /\ ctl = Unused
       /\ progress = Unused /\ artifact = Unused /\ reqs = Unused /\ asked = Unused
       /\ registry = Unused /\ credentials = Unused /\ errs = Unused /\ s3 = Unused
       /\ hf = Unused /\ hfQueue = Unused /\ queue = Unused /\ disk = Unused /\ calls = Unused
       /\ restarts = Unused /\ pods = Unused /\ train = Unused /\ dirs = Unused
       /\ pretrained = Unused /\ merged = Unused /\ files = Unused /\ lock = Unused
       /\ models = Unused /\ job = Unused /\ tries = Unused /\ dataset = Unused
       /\ workloads = Unused /\ rows = Unused /\ runs = Unused /\ points = Unused
       /\ answer = Unused /\ snaps = Unused /\ hands = Unused /\ cds = Unused /\ live = Unused
       /\ remote = Unused /\ key = Unused /\ said = Unused /\ expiries = Unused /\ ids = Unused

ScenarioInit == scenario \in Scenarios /\ Init

Next ==
    \/ /\ \/ scenario = "download" /\ Download!Next
          \/ scenario = "kinds" /\ Kinds!Next
       /\ ModelDownloadOnly
    \/ /\ \/ scenario = "records" /\ Records!Next
          \/ scenario = "recordsFail" /\ RecordsFail!Next
          \/ scenario = "follow" /\ Follow!Next
       /\ WorkloadRecordsOnly
    \/ /\ \/ scenario = "models" /\ Models!Next
          \/ scenario = "modelRow" /\ ModelRow!Next
          \/ scenario = "modelFollows" /\ ModelFollows!Next
       /\ ModelRecordsOnly
    \/ /\ \/ scenario = "create" /\ Create!Next
          \/ scenario = "renew" /\ Renew!Next
       /\ WorkloadCreateOnly
    \/ /\ \/ scenario = "optimize" /\ Optimize!Next
          \/ scenario = "optimizeStopped" /\ OptimizeStopped!Next
          \/ scenario = "optimizeEnds" /\ OptimizeEnds!Next
       /\ OptimizationOnly
    \/ /\ \/ scenario = "image" /\ Image!Next
          \/ scenario = "images" /\ Images!Next
          \/ scenario = "imagesEnd" /\ ImagesEnd!Next
          \/ scenario = "registry" /\ Registry!Next
       /\ ImageImportOnly
    \/ /\ \/ scenario = "dataset" /\ Dataset!Next
          \/ scenario = "datasetHF" /\ DatasetHF!Next
          \/ scenario = "datasetEnds" /\ DatasetEnds!Next
       /\ DatasetsOnly
    \/ /\ \/ scenario = "train" /\ Train!Next
          \/ scenario = "trainAlone" /\ TrainAlone!Next
          \/ scenario = "trainLora" /\ TrainLora!Next
          \/ scenario = "trainRl" /\ TrainRl!Next
       /\ TrainingScriptsOnly
    \/ /\ \/ scenario = "runConfig" /\ RunConfig!Next
          \/ scenario = "runChange" /\ RunChange!Next
          \/ scenario = "runNames" /\ RunNames!Next
          \/ scenario = "runLoss" /\ RunLoss!Next
       /\ TrainingRunsOnly
    \/ /\ \/ scenario = "deploy" /\ Deployed!Next
          \/ scenario = "deployClusters" /\ DeployClusters!Next
          \/ scenario = "deployTwice" /\ DeployTwice!Next
          \/ scenario = "deployFails" /\ DeployFails!Next
          \/ scenario = "deployEnds" /\ DeployEnds!Next
       /\ DeployOnly
    \/ /\ \/ scenario = "bind" /\ Bind!Next
          \/ scenario = "rebind" /\ Rebind!Next
          \/ scenario = "bindLate" /\ BindLate!Next
          \/ scenario = "bindLost" /\ BindLost!Next
       /\ GatewayOnly
    \/ /\ \/ scenario = "apiKeys" /\ ApiKeys!Next
          \/ scenario = "platformKeys" /\ PlatformKeys!Next
          \/ scenario = "logins" /\ Logins!Next
          \/ scenario = "replicas" /\ Replicas!Next
          \/ scenario = "publicKeys" /\ PublicKeys!Next
       /\ KeysOnly

Spec == ScenarioInit /\ [][Next]_vars

-----------------------------------------------------------------------------
(* Fairness.                                                                *)
KindsDoes(A) == scenario = "kinds" /\ A /\ ModelDownloadOnly
FollowDoes(A) == scenario = "follow" /\ A /\ WorkloadRecordsOnly
RowDoes(A) == scenario = "modelFollows" /\ A /\ ModelRecordsOnly
OptimizeDoes(A, B) ==
    /\ \/ scenario = "optimize" /\ A
       \/ scenario = "optimizeEnds" /\ B
    /\ OptimizationOnly
ImagesDoes(A) == scenario = "imagesEnd" /\ A /\ ImageImportOnly
DeployDoes(A) == scenario = "deployEnds" /\ A /\ DeployOnly
DatasetDoes(A) == scenario = "datasetEnds" /\ A /\ DatasetsOnly

(* A behaviour keeps its scenario: one condition on a disjunction of actions of different   *)
(* scenarios says the same as one on each.                                                  *)

\* The controllers and the exporter work off their queues, and a task's stream is read.
Controllers ==
    \/ KindsDoes(Kinds!Controller) \/ FollowDoes(Follow!Exporting) \/ RowDoes(ModelFollows!Exporting)
    \/ OptimizeDoes(Optimize!Consumer, OptimizeEnds!Consumer) \/ ImagesDoes(ImagesEnd!Controller)
    \/ DatasetDoes(DatasetEnds!Controller) \/ DeployDoes(DeployEnds!Worker)

\* A request runs on, and so does the submission of a task.
Requests(c) ==
    \/ FollowDoes(Follow!Handler(c)) \/ RowDoes(ModelFollows!Handler(c))
    \/ c = 1 /\ ImagesDoes(ImagesEnd!Request(c))
    \/ c = 1 /\ OptimizeDoes(Optimize!Submission, OptimizeEnds!Submission)
    \/ c = 2 /\ OptimizeDoes(Optimize!DeletionEnds, OptimizeEnds!DeletionEnds)
    \/ c = 1 /\ (DatasetDoes(DatasetEnds!Request(1)) \/ DeployDoes(DeployEnds!Handler))

\* Jobs, agents and pods start and end.
Downloads(w) == KindsDoes(Kinds!OpsEnds(w))
Outside ==
    \/ KindsDoes(Kinds!UploadEnds) \/ OptimizeDoes(Optimize!Agent, OptimizeEnds!Agent)
    \/ ImagesDoes(\E j \in DOMAIN jobs : ImagesEnd!PodStarts(j)) \/ FollowDoes(Follow!Release)
    \/ RowDoes(ModelFollows!Manage) \/ DatasetDoes(DatasetEnds!HFJobEnds(1)) \/ DeployDoes(DeployEnds!Manager)
PodsEnd == ImagesDoes(\E j \in DOMAIN jobs : ImagesEnd!syncImage(j)) \/ Downloads("a")
    \/ DatasetDoes(\E j \in DOMAIN jobs : DatasetEnds!JobStarts(j) \/ DatasetEnds!JobEnds(j))
    \/ DeployDoes(DeployEnds!Script)

\* Sessions are polled, deleted models cleaned up, and progress is reported.
Rounds ==
    \/ KindsDoes(Kinds!constructCleanupJob) \/ OptimizeDoes(Optimize!Poll, OptimizeEnds!Poll)
    \/ ImagesDoes(ImagesEnd!updateImportProgress)

\* Tasks are taken up after a restart, and the cache is resynchronised.
Recovery ==
    \/ OptimizeDoes(Optimize!recoverRunningTasks, OptimizeEnds!recoverRunningTasks)
    \/ ImagesDoes(ImagesEnd!Resync) \/ Downloads("b") \/ DatasetDoes(DatasetEnds!HFReconcile(1))

FairSpec ==
    /\ Spec
    /\ WF_vars(Controllers) /\ WF_vars(Requests(1)) /\ WF_vars(Requests(2))
    /\ WF_vars(Outside) /\ WF_vars(PodsEnd) /\ WF_vars(Rounds) /\ WF_vars(Recovery)

-----------------------------------------------------------------------------
(* Properties.                                                              *)

TypeOK ==
    /\ scenario = "download" => Download!TypeOK
    /\ scenario = "records" => Records!TypeOK
    /\ scenario = "models" => Models!TypeOK
    /\ scenario = "renew" => Renew!TypeOK
    /\ scenario = "optimize" => Optimize!TypeOK
    /\ scenario = "image" => Image!TypeOK
    /\ scenario = "dataset" => Dataset!TypeOK
    /\ scenario = "train" => Train!TypeOK
    /\ scenario = "runConfig" => RunConfig!TypeOK
    /\ scenario \in {"deploy", "deployClusters", "deployTwice", "deployFails"} => Deployed!TypeOK
    /\ scenario = "bind" => Bind!TypeOK
    /\ scenario = "bindLost" => BindLost!TypeOK
    /\ scenario = "apiKeys" => ApiKeys!TypeOK
    /\ scenario = "logins" => Logins!TypeOK

\* A local path of a model that names no volume is reported as ready only while the model is
\* on its volume, whatever failover, retry, lost status writes and expired Jobs did
\* (handleDownloading), and no two downloads write to one volume at a time, although each
\* failover starts one from another workspace (tryFailover). An optimization task runs only once
\* its agent was prompted and has succeeded only with a report, and the events stored for it are
\* those of its agent, in order and without gaps, although a restart reads them from the start.
\* An image offered as ready was copied to the registry, whoever retries or deletes, and a
\* path of a dataset that is ready has its files. A trained model is registered only with all
\* of its files, and a fine-tuning job succeeds only once it is; the loss shown for a run is
\* its latest, and a run is that of the workload of its name. A request that is deployed was
\* deployed by its job, whatever failed, was approved twice or cancelled meanwhile. Deployments
\* that are decided and carried out one after the other, without a failed call or a restart,
\* leave the components with the images of the latest snapshot, or of the one gone back to.
\* The binding of a model provider's key names the virtual key there is: beside other creations
\* and budgets, and after changes and deletions one at a time, although a call fails without
\* effect or a creation outlives its lock (createBindingLocked, UpdateBinding, DeleteBinding);
\* a forwarded request carries that key only. An API key, a session of a known user or a password
\* login is accepted for its user as long as it lasts; all who ask for the platform key of a user
\* first get the same one, and so do the replicas with their token.
ReportedIsReal ==
    /\ scenario = "download" => Download!ReadyIsStored /\ Download!OneWriter
    /\ scenario = "optimize" => Optimize!StatusIsReal /\ Optimize!EventsInOrder /\ Optimize!NoGaps
    /\ scenario = "optimizeStopped" => OptimizeStopped!StatusIsReal
    /\ scenario = "image" => Image!ReadyIsCopied
    /\ scenario = "images" => Images!ReadyIsCopied
    /\ scenario = "dataset" => Dataset!ReadyIsOnDisk
    /\ scenario = "datasetHF" => DatasetHF!ReadyIsOnDisk
    /\ scenario \in {"train", "trainAlone", "trainLora", "trainRl"} => Train!RegisteredIsComplete
    /\ scenario \in {"train", "trainAlone", "trainLora"} => Train!SuccessHasModel
    /\ scenario = "runNames" => RunNames!RunIsItsOwn
    /\ scenario = "runLoss" => RunLoss!LossIsLatest /\ RunLoss!ShownIsItsOwn
    /\ scenario \in {"deploy", "deployClusters", "deployTwice", "deployFails"} => Deployed!DeployedIsReal
    /\ scenario \in {"deploy", "deployClusters"} => Deployed!SnapshotIsLive /\ Deployed!RollbackRestores
    /\ scenario = "bind" => Bind!BindingIsReal /\ Bind!ForwardedOnce /\ Bind!WholeDays
    /\ scenario = "rebind" => Rebind!BindingIsReal
    /\ scenario = "bindLate" => BindLate!BindingIsReal
    /\ scenario = "apiKeys" => ApiKeys!GivenWorks /\ ApiKeys!SameUser
    /\ scenario = "platformKeys" => PlatformKeys!GivenWorks /\ PlatformKeys!OnePlatformKey
    /\ scenario = "logins" => Logins!GivenWorks /\ Logins!SameUser
    /\ scenario = "replicas" => Replicas!OneSecret

\* The rows tell what is gone: the exporter's finalizer keeps a workload until its
\* deletion is in the row, and a model that is gone is not listed, whatever run of the
\* exporter was under way when it was deleted. A key whose deletion was reported is refused.
GoneIsRecorded ==
    /\ scenario = "records" => Records!GoneRowEnded
    /\ scenario = "modelRow" => ModelRow!GoneIsUnlisted
    /\ scenario = "apiKeys" => ApiKeys!GoneIsRefused
    /\ scenario = "publicKeys" => PublicKeys!GoneIsRefused

\* The row of a deleted workload that was hidden stays hidden, whatever run of the
\* exporter was under way and whatever the controllers changed since. The end of an optimization task is only
\* replaced by an interruption, and a viewer of its events never goes back.
NothingUndone ==
    [][/\ (scenario \in {"records", "recordsFail"} /\ row.hidden) => row'.hidden
       /\ scenario \in {"optimize", "optimizeStopped"} => ~Optimize!GoesBack /\ ~Optimize!Reopens
       /\ scenario \in {"runConfig", "runChange"} => RunConfig!Reaches(1)]_vars

\* Nothing is left of what failed or is gone, and what is used is there: a secret lives
\* with its model unless the deletion of the secret itself failed, a preheat whose phase was set
\* belongs to a workload that was created (cleanUpWorkloads), and a workload names a secret
\* that exists, although requests to change it overlap and the calls on secrets fail, as long
\* as the patch of the workload that ends a change does not (updateCICDSecret). The secret of the
\* import Jobs has every registry, and a workspace tries the download of a dataset once, whatever
\* failed before. The checkpoint of a training stays until it is exported, whatever the other
\* pods clean up, and a job is made as it was shown. No runner is left without its image, unless
\* its companion was deployed alone. No virtual key is left without its binding by creations
\* beside each other, or by changes and deletions one at a time, of which one call fails.
NothingLeft ==
    /\ scenario = "models" => Models!SecretFollowsModel
    /\ scenario = "create" => Create!NoOrphanPreheat
    /\ scenario = "renew" => Renew!SecretInPlace
    /\ scenario = "registry" => Registry!CredentialsComplete
    /\ scenario = "dataset" => Dataset!TriesOnce
    /\ scenario = "train" => Train!VerifiedStays
    /\ scenario = "trainLora" => TrainLora!VerifiedStays
    /\ scenario = "runConfig" => RunConfig!JobIsAsShown /\ RunConfig!MadeIsWhole
    /\ scenario = "runChange" => RunChange!JobIsAsShown
    /\ scenario \in {"deployClusters", "deployFails"} => DeployClusters!RunnersHaveImages
    /\ scenario = "bind" => Bind!NoOrphan
    /\ scenario = "rebind" => Rebind!NoOrphan
    /\ scenario = "bindLate" => BindLate!NoOrphan

\* The downloads of a model come to an end, Ready or Failed, and a deleted model goes
\* away although its clean-up may fail. An optimization task whose agent was seen running ends,
\* also if the API server restarts or users stop it. An image whose Job is known and over is not
\* left importing, also if the Job's events came before its row. As long as no call fails, the API
\* server does not restart and a request ends before the controllers see its jobs, a dataset
\* becomes ready or fails, after every workspace of a volume has tried, and an approved
\* deployment ends.
WorkSettles ==
    /\ (\/ scenario = "kinds"
        \/ scenario \in {"optimize", "optimizeEnds"} /\ Optimize!Running /\ cons.saw
        \/ scenario = "imagesEnd" /\ ImagesEnd!LeftImporting
        \/ scenario = "datasetEnds" /\ DatasetEnds!Open(1)
        \/ scenario = "deployEnds" /\ DeployEnds!Approved(1))
         ~> (\/ scenario = "kinds" /\ Kinds!Settled
             \/ scenario \in {"optimize", "optimizeEnds"} /\ ~Optimize!Running
             \/ scenario = "imagesEnd" /\ ~ImagesEnd!LeftImporting
             \/ scenario = "datasetEnds" /\ ~DatasetEnds!Open(1)
             \/ scenario = "deployEnds" /\ DeployEnds!Settled(1))
    /\ (scenario = "kinds" /\ model.deleting) ~> (scenario = "kinds" /\ ~model.exists)

\* The row of a workload catches up with every phase that lasts (workloadFilter drops
\* events), as workloadMapper stores it. The list comes to show the phase a model has
\* reached, and keeps it, as long as calls do not fail and no user
\* changes the model.
RowsFollow ==
    /\ (scenario = "follow" /\ obj.exists /\ row.phase # Follow!workloadMapper(obj))
         ~> (scenario = "follow" /\ (~obj.exists \/ row.phase = Follow!workloadMapper(obj)))
    /\ []((scenario = "modelFollows" /\ obj.phase = "Ready")
            => <>[](scenario = "modelFollows" /\ (row.phase = "Ready" \/ ~obj.exists)))

\* A request that is under way ends, whatever conflicts it meets.
Waiting(c) ==
    \/ scenario = "follow" /\ req[c].step # "done"
    \/ scenario = "optimize" /\ submit # "idle"
RequestsEnd == \A c \in {1, 2} : Waiting(c) ~> ~Waiting(c)
=============================================================================

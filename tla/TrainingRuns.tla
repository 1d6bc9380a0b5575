---------------------------- MODULE TrainingRuns ----------------------------
(* Requests for fine-tuning and reinforcement learning: the configuration a user is shown,  *)
(* the job made from it, which becomes a workload and a row of the runs, and the loss that   *)
(* is shown for a run from the metrics its pods report.                                      *)
EXTENDS Integers, Sequences, FiniteSets, FiniteSetsExt, SequencesExt

CONSTANTS Client,
          JobKinds,        \* the requests: "sft", "rl"
          Workspaces,   \* those a request may name, "" for none
          Mounts,       \* the volumes of each workspace
          Prefix,       \* the pairs of volumes of which the first is how the second begins
          Homes,        \* the volumes of a model's and of a dataset's local paths
          Shapes,       \* the settings a request may give
          Recipes,      \* the recipes it may give, with their flavor and size
          Givens,       \* the model and the local paths of the dataset
          Span,         \* when the run was created, started and ended, 0 for not yet
          Lens,         \* what the analyzer knows by the name of the workload
          Changes,      \* the model and the dataset change
          Clock,        \* the values of the suffix of a name
          Queries,      \* the metrics a query may name and its source
          MaxPoints,
          Calls         \* how many calls may fail

VARIABLES model,        \* the model: how it is accessed, its phase and its local paths
          dataset,      \* the local paths of the dataset
          now,          \* the time modulo 100 s, from which a name gets its suffix
          req,          \* the request of each client
          workloads,    \* the workloads in the cluster, with the settings they were made from
          rows,         \* the phase of a workload in the database
          runs,         \* the rows of the runs
          points, answer, calls

vars == <<model, dataset, now, req, workloads, rows, runs, points, answer, calls>>

None == [by |-> 0]
NoReq == [at |-> "none"]

----------------------------------------------------------------------------
(* Where the files are. A path is a volume here. *)

IsPathAccessibleFromWorkspace(p, ws) == \E v \in Mounts[ws] : v = p \/ <<v, p>> \in Prefix
First(paths, Is(_)) == LET s == SelectSeq(paths, Is) IN IF s = <<>> THEN "" ELSE s[1].path
\* The path of the workspace itself is preferred to the first another one downloaded.
PathFor(fixed, paths, ws) ==
    LET ready == SelectSeq(paths, LAMBDA p : p.ready)
        own == First(ready, LAMBDA p : p.ws = ws)
        reachable == First(ready, LAMBDA p : IsPathAccessibleFromWorkspace(p.path, ws))
    IN CASE ws = "" -> IF fixed # "" THEN fixed ELSE First(ready, LAMBDA p : TRUE)
         [] ws # "" /\ own # "" -> own
         [] ws # "" /\ own = "" /\ fixed # "" /\ IsPathAccessibleFromWorkspace(fixed, ws) -> fixed
         [] OTHER -> reachable
resolveDatasetPath(ws) == PathFor("", dataset, ws)
Fixed == IF model.mode = "local_path" THEN model.home ELSE ""
resolveModelLocalPathFromK8sModel(ws) == PathFor(Fixed, model.paths, ws)

----------------------------------------------------------------------------
(* What a model is trained with. *)

InferModelRecipe(size, family) ==
    CASE family = "qwen" /\ size \in {"32b", "8b"} -> <<"qwen", size>>
      [] family = "llama" /\ size = "70b" -> <<"llama", "70b">>
      [] OTHER -> <<IF size = "70b" THEN "llama" ELSE "qwen", IF size \in {"32b", "70b"} THEN size ELSE "8b">>
normalizeModelSize(size) ==
    CASE size \in {"7b", "8b"} -> "8b" [] size \in {"30b", "32b", "34b"} -> "32b"
      [] size \in {"65b", "70b", "72b"} -> "70b" [] OTHER -> ""
\* A recipe is given as a whole or not at all; <<>> is refused.
ResolveModelRecipe(m, o) ==
    CASE o = <<"", "", "">> -> InferModelRecipe(m.size, m.family)
      [] o # <<"", "", "">> /\ "" \notin Range(o) /\ normalizeModelSize(o[3]) # "" -> <<o[1], normalizeModelSize(o[3])>>
      [] OTHER -> <<>>

trainPresets ==
    [none |-> [x \in {"8b", "32b", "70b"} |->
        CASE x = "8b" -> [iters |-> 100, batch |-> 8, micro |-> 1, tp |-> 1, save |-> 50]
          [] x = "32b" -> [iters |-> 1000, batch |-> 8, micro |-> 1, tp |-> 8, save |-> 500]
          [] OTHER -> [iters |-> 200, batch |-> 128, micro |-> 1, tp |-> 8, save |-> 100]],
     lora |-> [x \in {"8b", "32b", "70b"} |->
        CASE x = "8b" -> [iters |-> 1000, batch |-> 128, micro |-> 1, tp |-> 1, save |-> 500]
          [] x = "32b" -> [iters |-> 200, batch |-> 32, micro |-> 4, tp |-> 1, save |-> 100]
          [] OTHER -> [iters |-> 200, batch |-> 128, micro |-> 1, tp |-> 8, save |-> 100]]]
Or(x, default) == IF x = 0 THEN default ELSE x
\* Unset settings come from the preset; there is always a checkpoint before the end.
FillSftDefaults(t, size) ==
    LET peft == IF t.peft = "" THEN "none" ELSE t.peft
        preset == IF peft \in DOMAIN trainPresets THEN trainPresets[peft][size] ELSE trainPresets["none"]["8b"]
        iters == Or(t.iters, preset.iters)
        save == Or(t.save, preset.save)
        nodes == Or(t.nodes, 1)
    IN [peft |-> peft, iters |-> iters, nodes |-> nodes, gpus |-> Or(t.gpus, 8), tp |-> Or(t.tp, preset.tp),
        save |-> IF save >= iters THEN Max({1, iters \div 2}) ELSE save,
        shm |-> IF t.shm = 0 /\ nodes > 1 THEN 500 ELSE t.shm]
\* For reinforcement learning the parallelism of megatron follows the nodes.
FillRlDefaults(t, size) ==
    LET nodes == Or(t.nodes, 2)
        peft == IF t.peft = "" THEN "fsdp2" ELSE t.peft
        freq == CASE size = "8b" -> 100 [] size = "32b" -> 50 [] OTHER -> 20
    IN [peft |-> peft, nodes |-> nodes, gpus |-> Or(t.gpus, 8), save |-> Or(t.save, freq),
        iters |-> Or(t.iters, IF size = "70b" THEN 1 ELSE 2),
        tp |-> IF peft # "megatron" THEN t.tp
               ELSE Or(t.tp, IF nodes <= 1 THEN 1 ELSE IF size = "70b" THEN 8 ELSE 4),
        shm |-> Or(t.shm, 1024)]
Fill(kind, t, size) == IF kind = "sft" THEN FillSftDefaults(t, size) ELSE FillRlDefaults(t, size)
\* One pod, or one and the others.
buildResources(t) == IF t.nodes > 1 THEN <<1, t.nodes - 1>> ELSE <<1>>

----------------------------------------------------------------------------
(* Requests. *)

Fails == calls > 0 /\ calls' = calls - 1
Works == UNCHANGED calls
Local == model.mode \in {"local", "local_path"}
\* The recipe and the size; for reinforcement learning only the name of the model counts.
Recipe(kind, o) == IF kind = "sft" THEN ResolveModelRecipe(model, o) ELSE <<"", model.size>>
\* The configuration is shown if the model can be trained; for reinforcement learning no
\* local path is looked for.
SftSupported(ws, o) ==
    Local /\ model.phase = "Ready" /\ resolveModelLocalPathFromK8sModel(ws) # "" /\ Recipe("sft", o) # <<>>
RlSupported == Local /\ model.phase = "Ready"
Supported(kind, ws, o) == IF kind = "sft" THEN SftSupported(ws, o) ELSE RlSupported
\* For reinforcement learning the model needs no phase.
Accepted(kind, ws, o) ==
    /\ kind = "sft" => Local /\ model.phase = "Ready" /\ Recipe(kind, o) # <<>>
    /\ resolveModelLocalPathFromK8sModel(ws) # "" /\ resolveDatasetPath(ws) # ""

getConfig(c, kind, ws, shape, o) ==
    /\ req[c].at = "none" /\ Supported(kind, ws, o)
    /\ LET recipe == Recipe(kind, o)
       IN req' = [req EXCEPT ![c] = [at |-> "shown", kind |-> kind, ws |-> ws,
                                     o |-> <<recipe[1], "flavor", recipe[2]>>, t |-> Fill(kind, shape, recipe[2])]]
    /\ UNCHANGED <<model, dataset, now, workloads, rows, runs, points, answer, calls>>

\* The user creates the job that was shown.
createJob(c) ==
    LET r == req[c] IN
    /\ r.at = "shown"
    /\ IF Accepted(r.kind, r.ws, r.o)
       THEN req' = [req EXCEPT ![c] = [r EXCEPT !.at = "create"] @@
                        [t2 |-> Fill(r.kind, r.t, Recipe(r.kind, r.o)[2]), name |-> now,
                         path |-> resolveModelLocalPathFromK8sModel(r.ws), data |-> resolveDatasetPath(r.ws)]]
       ELSE req' = [req EXCEPT ![c] = [at |-> "refused"]]
    /\ UNCHANGED <<model, dataset, now, workloads, rows, runs, points, answer, calls>>
createWorkload(c) ==
    LET n == req[c].name IN
    /\ req[c].at = "create"
    /\ \/ /\ Works /\ workloads[n] = None
          /\ workloads' = [workloads EXCEPT ![n] = [by |-> c, t |-> req[c].t2, pods |-> buildResources(req[c].t2)]]
          /\ req' = [req EXCEPT ![c].at = "record"]
       \/ (Fails \/ (Works /\ workloads[n] # None)) /\ req' = [req EXCEPT ![c] = [at |-> "refused"]] /\ UNCHANGED workloads
    /\ UNCHANGED <<model, dataset, now, rows, runs, points, answer>>
\* Best effort: the request has succeeded already. An older run of the name is overwritten,
\* and with it the mark of its deletion.
upsertPosttrainRun(c) ==
    LET n == req[c].name IN
    /\ req[c].at = "record" /\ req' = [req EXCEPT ![c].at = "done"]
    /\ \/ Works /\ runs' = [runs EXCEPT ![n] = [by |-> c, deleted |-> FALSE]]
       \/ Fails /\ UNCHANGED runs
    /\ UNCHANGED <<model, dataset, now, workloads, rows, points, answer>>

deletePosttrainRun(n) ==
    /\ runs[n] # None /\ ~runs[n].deleted /\ runs' = [runs EXCEPT ![n].deleted = TRUE]
    /\ UNCHANGED <<model, dataset, now, req, workloads, rows, points, answer, calls>>

\* A run is listed with the phase of its workload, or as it was recorded.
ListPosttrainRunViews == {n \in Clock : runs[n] # None /\ ~runs[n].deleted}
Status(n) == IF rows[n] = "none" THEN "Pending" ELSE rows[n]

----------------------------------------------------------------------------
(* Metrics. *)

preferredLossMetricNames == <<"loss", "lm_loss">>
pickLossMetricName(names) ==
    LET preferred == SelectSeq(preferredLossMetricNames, LAMBDA m : m \in names)
        other == names \intersect {"kl_loss"}
    IN CASE preferred # <<>> -> preferred[1] [] preferred = <<>> /\ other # {} -> "kl_loss" [] OTHER -> ""
Later(p, q) == p.ts > q.ts \/ (p.ts = q.ts /\ p.it > q.it)
\* The first of those that none is later than.
latestLossSummaryFromPoints(got, names) ==
    LET of == {p \in got : p.metric = pickLossMetricName(names)}
    IN IF of = {} THEN {} ELSE {CHOOSE p \in of : \A q \in of : ~Later(q, p)}
\* The entry of the job in its workspace, of its kind if there is one.
pickLensWorkloadUID(ws, kind) ==
    LET in == SelectSeq(Lens, LAMBDA x : x.ws = ws)
        of == SelectSeq(in, LAMBDA x : x.kind = kind)
    IN IF in = <<>> THEN "" ELSE IF of = <<>> THEN in[1].uid ELSE of[1].uid
\* From its start, or its creation, to its end, or until now.
defaultLensTimeRange ==
    LET start == IF Span.start = 0 THEN Span.created ELSE Span.start
        end == IF Span.end = 0 THEN MaxPoints + 1 ELSE Span.end
    IN start..Max({start, end})
\* Every source has its names; without one the sources are not told apart.
fetchLensAvailableMetrics(src) == {p.metric : p \in {q \in points : src = "" \/ q.src = src}}
fetchLensTrainingPerformanceData(uid, q, failed) ==
    LET avail == IF failed THEN {} ELSE fetchLensAvailableMetrics(q.src)
        got == {p \in points : /\ p.uid = uid /\ p.ts \in defaultLensTimeRange
                               /\ q.src = "" \/ p.src = q.src
                               /\ q.metrics = {} \/ p.metric \in q.metrics}
    IN [points |-> got, names |-> IF avail = {} THEN {p.metric : p \in got} ELSE avail]
\* All points for "all"; the points were already restricted to the names of the query.
filterLensTrainingPerformancePoints(got, q) ==
    IF q.metrics \in {{}, {"all"}} THEN got ELSE {p \in got : p.metric \in q.metrics}
getPosttrainRunMetrics(q) ==
    /\ q \in Queries
    /\ \E failed \in BOOLEAN :
          LET uid == pickLensWorkloadUID("a", "PyTorchJob")
              data == fetchLensTrainingPerformanceData(uid, q, failed)
          IN /\ uid # "" /\ (IF failed THEN Fails ELSE Works)
             /\ answer' = [q |-> q, points |-> filterLensTrainingPerformancePoints(data.points, q),
                           loss |-> latestLossSummaryFromPoints(data.points, data.names)]
    /\ UNCHANGED <<model, dataset, now, req, workloads, rows, runs, points>>

----------------------------------------------------------------------------
(* The rest of the system. *)

\* A path is on a volume of the workspace that downloaded it.
LocalPath == {[ws |-> w, path |-> h, ready |-> r] : w \in DOMAIN Mounts, h \in Homes, r \in BOOLEAN}
Downloaded == {<<>>} \union {<<p>> : p \in {q \in LocalPath : q.path \in Mounts[q.ws]}}
ModelChanges ==
    /\ Changes
    /\ \/ \E p \in Downloaded : model' = [model EXCEPT !.paths = p]
       \/ \E ph \in {"Ready", "Failed"} : model' = [model EXCEPT !.phase = ph]
    /\ UNCHANGED <<dataset, now, req, workloads, rows, runs, points, answer, calls>>
DatasetChanges ==
    /\ Changes /\ \E p \in Downloaded : dataset' = p
    /\ UNCHANGED <<model, now, req, workloads, rows, runs, points, answer, calls>>
Tick ==
    /\ now' = IF now + 1 \in Clock THEN now + 1 ELSE Min(Clock)
    /\ UNCHANGED <<model, dataset, req, workloads, rows, runs, points, answer, calls>>
Exported(n) ==
    /\ workloads[n] # None /\ rows' = [rows EXCEPT ![n] = "Running"]
    /\ UNCHANGED <<model, dataset, now, req, workloads, runs, points, answer, calls>>
\* No workload ends and is removed while a request for its name is under way.
WorkloadGone(n) ==
    /\ workloads[n] # None /\ rows[n] # "none"
    /\ \A c \in Client : req[c].at \in {"create", "record"} => req[c].name # n
    /\ workloads' = [workloads EXCEPT ![n] = None] /\ rows' = [rows EXCEPT ![n] = "Succeeded"]
    /\ UNCHANGED <<model, dataset, now, req, runs, points, answer, calls>>
Report(u, m, s, tie) ==
    /\ Cardinality(points) < MaxPoints
    /\ LET t == IF points = {} THEN 1 ELSE Max({p.ts : p \in points}) + (IF tie THEN 0 ELSE 1)
       IN points' = points \union {[uid |-> u, metric |-> m, src |-> s, ts |-> t, it |-> Cardinality(points)]}
    /\ UNCHANGED <<model, dataset, now, req, workloads, rows, runs, answer, calls>>

----------------------------------------------------------------------------
Init ==
    /\ \E g \in Givens : model = g.model /\ dataset = g.dataset
    /\ now = Min(Clock) /\ req = [c \in Client |-> NoReq]
    /\ workloads = [n \in Clock |-> None] /\ rows = [n \in Clock |-> "none"] /\ runs = [n \in Clock |-> None]
    /\ points = {} /\ answer = [points |-> {}, loss |-> {}] /\ calls = Calls

Next ==
    \/ \E c \in Client : \/ \E k \in JobKinds, ws \in Workspaces, s \in Shapes, o \in Recipes : getConfig(c, k, ws, s, o)
                         \/ createJob(c) \/ createWorkload(c) \/ upsertPosttrainRun(c)
    \/ \E n \in Clock : deletePosttrainRun(n) \/ Exported(n) \/ WorkloadGone(n)
    \/ \E q \in Queries : getPosttrainRunMetrics(q)
    \/ ModelChanges \/ DatasetChanges \/ Tick
    \/ \E u \in {Lens[i].uid : i \in DOMAIN Lens}, m \in {"loss", "lm_loss", "kl_loss", "acc"}, s \in {"log", "wandb"},
          tie \in BOOLEAN : Report(u, m, s, tie)

Spec == Init /\ [][Next]_vars

----------------------------------------------------------------------------
TypeOK ==
    /\ \A c \in Client : req[c].at \in {"none", "shown", "create", "record", "done", "refused"}
    /\ \A n \in Clock : workloads[n].by \in Client \union {0} /\ runs[n].by \in Client \union {0}
    /\ answer.points \subseteq points /\ calls \in 0..Calls

\* The job is the one that was shown, has as many pods as nodes, and saves a checkpoint before
\* its end.
JobIsAsShown ==
    \A c \in Client : req[c].at \in {"create", "record", "done"} =>
        /\ req[c].t2 = req[c].t
        /\ req[c].kind = "sft" => req[c].t2.save \in 1..req[c].t2.iters
MadeIsWhole == \A n \in Clock : workloads[n] # None =>
    FoldSeq(LAMBDA x, y : x + y, 0, workloads[n].pods) = workloads[n].t.nodes
\* A job's files are ready, and on a volume of its workspace, when it is accepted.
ReadyPaths(s) == {s[i].path : i \in {j \in DOMAIN s : s[j].ready}}
Reaches(c) == (req[c].at = "shown" /\ req'[c].at = "create") =>
    /\ req'[c].path \in ReadyPaths(model.paths) \union {Fixed} /\ req'[c].data \in ReadyPaths(dataset)
    /\ req[c].ws # "" => {req'[c].path, req'[c].data} \subseteq Mounts[req[c].ws]
\* While a workload is there the run of its name is its own, once its request is done.
RunIsItsOwn ==
    \A n \in Clock : (workloads[n] # None /\ runs[n] # None /\ req[workloads[n].by].at = "done")
        => runs[n].by = workloads[n].by
\* All that is shown is of the job itself and of its time.
ShownIsItsOwn ==
    \A p \in answer.points : p.ts >= Span.created /\ \E i \in DOMAIN Lens : Lens[i].uid = p.uid /\ Lens[i].ws = "a"
\* The loss that is shown is the latest of its metric, whatever the order of the reports.
LossIsLatest ==
    \A p \in answer.loss : p.metric # "acc" /\ \A q \in answer.points : q.metric = p.metric => ~Later(q, p)
=============================================================================

-------------------------- MODULE TrainingScripts --------------------------
(* What the pods of a fine-tuning or a reinforcement learning job run: the generated entry  *)
(* point prepares the data, trains, verifies and cleans up the checkpoints, and the first   *)
(* pod exports the model and registers it. The pods of a fine-tuning job over several nodes *)
(* share their checkpoints, and both kinds keep them and the exported files when the        *)
(* workload is dispatched again.                                                            *)
EXTENDS Integers, Sequences, FiniteSets, FiniteSetsExt

CONSTANTS Kind,        \* "sft" or "rl"
          Nodes,       \* the number of pods
          Peft,        \* "none" or "lora"
          ExportModel,
          Iters,       \* the checkpoints a complete training saves
          Together,    \* no pod leaves the training before it has ended everywhere
          Answers,    \* what a registration may meet: "ok", "refused", "down"
          MaxTries     \* how often the workload is dispatched

VARIABLES pods,        \* the script of each pod: its step, what it verified, its exit code
          train,       \* the training: its checkpoints so far and whether it ended
          dirs,        \* checkpoints: iter_* and the file that names the latest, for each directory
          pretrained,  \* the directories that have the converted base model
          merged,      \* the checkpoint of the merged adapter
          files,       \* the exported files, each with the checkpoint it is from
          lock,        \* .export_done
          models,      \* the registered models: the files each had
          job, tries

vars == <<pods, train, dirs, pretrained, merged, files, lock, models, job, tries>>

Ranks == 0..(Nodes - 1)
Multi == Kind = "rl" \/ Nodes > 1
\* ./nemo_experiments is a link to the shared storage when there are several nodes.
Dir(r) == IF Multi THEN "shared" ELSE r
Dirs == IF Multi THEN {"shared"} ELSE Ranks
NoDir == [iters |-> {}, whole |-> {}, latest |-> 0]
NoFiles == [config |-> 0, tokenizer |-> 0, weights |-> 0]
Started == [at |-> "dataset", verified |-> 0, exit |-> 0]
NotTrained == [iter |-> 0, saved |-> 0, end |-> "running"]

Init ==
    /\ pods = [r \in Ranks |-> Started]
    /\ train = NotTrained
    /\ dirs = [d \in Dirs |-> NoDir] /\ pretrained = {} /\ merged = 0
    /\ files = NoFiles /\ lock = FALSE /\ models = <<>>
    /\ job = "Running" /\ tries = 1

At(r, step) == pods' = [pods EXCEPT ![r].at = step]
Exit(r, code) == pods' = [pods EXCEPT ![r].at = "exited", ![r].exit = code]

----------------------------------------------------------------------------
(* Before the training. *)

\* A dataset without usable files, or with none left once it is read, ends the script.
PrepareDataset(r) ==
    /\ pods[r].at = "dataset" /\ Kind = "sft" /\ (At(r, "primus") \/ Exit(r, 1))
    /\ UNCHANGED <<train, dirs, pretrained, merged, files, lock, models, job, tries>>
\* For reinforcement learning it is one without a column of prompts, too.
RlPrepareDataset(r) ==
    /\ pods[r].at = "dataset" /\ Kind = "rl" /\ (At(r, "train") \/ Exit(r, 1))
    /\ UNCHANGED <<train, dirs, pretrained, merged, files, lock, models, job, tries>>

\* No compatible Primus ends the script; the caches and the network are best effort. A pod
\* alone starts with an empty directory.
FindPrimus(r) ==
    /\ pods[r].at = "primus" /\ (At(r, "train") \/ Exit(r, 1))
    /\ UNCHANGED <<train, dirs, pretrained, merged, files, lock, models, job, tries>>

----------------------------------------------------------------------------
(* The training, which is the work of all pods. A checkpoint is a directory first, which is *)
(* whole when the file that names it is written.                                            *)

Training == {r \in Ranks : pods[r].at = "train"}
Base == Dir(0)
ConvertBase ==
    /\ Kind = "sft" /\ Training = Ranks /\ train.end = "running" /\ Base \notin pretrained
    /\ pretrained' = pretrained \union {Base}
    /\ UNCHANGED <<pods, train, dirs, merged, files, lock, models, job, tries>>
SaveDir ==
    /\ 0 \in Training /\ train.end = "running" /\ train.iter < Iters /\ train.saved = train.iter
    /\ (Kind = "sft" => Base \in pretrained) /\ (train.iter = 0 => Training = Ranks)
    /\ train' = [train EXCEPT !.iter = @ + 1]
    /\ dirs' = [dirs EXCEPT ![Base].iters = @ \union {train.iter + 1}, ![Base].whole = @ \ {train.iter + 1}]
    /\ UNCHANGED <<pods, pretrained, merged, files, lock, models, job, tries>>
SaveLatest ==
    /\ 0 \in Training /\ train.end = "running" /\ train.saved # train.iter
    /\ train' = [train EXCEPT !.saved = train.iter]
    /\ dirs' = [dirs EXCEPT ![Base].latest = train.iter,
                            ![Base].whole = @ \union ({train.iter} \intersect dirs[Base].iters)]
    /\ UNCHANGED <<pods, pretrained, merged, files, lock, models, job, tries>>
TrainEnds ==
    /\ train.end = "running" /\ Training # {}
    /\ \/ train.saved = Iters /\ Training = Ranks /\ train' = [train EXCEPT !.end = "ok"]
       \/ train' = [train EXCEPT !.end = "failed"]
    /\ UNCHANGED <<pods, dirs, pretrained, merged, files, lock, models, job, tries>>

\* A pod leaves with the exit code of its part, and may fail alone.
MayLeave(r) == pods[r].at = "train" /\ (train.end # "running" \/ ~Together)
LeaveTraining(r) ==
    /\ Kind = "sft" /\ MayLeave(r)
    /\ pods' = [pods EXCEPT ![r].at = "verify", ![r].exit = IF train.end = "ok" THEN 0 ELSE 1]
    /\ UNCHANGED <<train, dirs, pretrained, merged, files, lock, models, job, tries>>
\* The script of reinforcement learning ends at the first command that fails, so that its
\* search for checkpoints after a failure is never reached.
RlLeaveTraining(r) ==
    /\ Kind = "rl" /\ MayLeave(r) /\ IF train.end = "ok" THEN At(r, "locate") ELSE Exit(r, 1)
    /\ UNCHANGED <<train, dirs, pretrained, merged, files, lock, models, job, tries>>

----------------------------------------------------------------------------
(* After it: the checkpoint that is exported. *)

Highest(d) == IF dirs[d].iters = {} THEN 0 ELSE Max(dirs[d].iters)
\* The one the file names if it is there, else the highest.
Latest(d) == IF dirs[d].latest \in dirs[d].iters THEN dirs[d].latest ELSE Highest(d)

\* A training that failed goes on if it left a checkpoint, one that did not fails without.
VerifyCheckpoint(r) ==
    LET found == Latest(Dir(r))
        code == IF pods[r].exit = 0 THEN 1 ELSE pods[r].exit
    IN /\ pods[r].at = "verify"
       /\ IF found = 0 THEN Exit(r, code)
          ELSE pods' = [pods EXCEPT ![r].at = "cleanup", ![r].verified = found, ![r].exit = 0]
       /\ UNCHANGED <<train, dirs, pretrained, merged, files, lock, models, job, tries>>

\* All but the latest go, if a file names it, and the base model unless it is merged. The
\* other pods are done then.
Cleanup(r) ==
    LET d == Dir(r)
    IN /\ pods[r].at = "cleanup"
       /\ dirs' = IF dirs[d].latest = 0 THEN dirs
                  ELSE [dirs EXCEPT ![d].iters = @ \intersect {dirs[d].latest}, ![d].whole = @ \intersect {dirs[d].latest}]
       /\ pretrained' = IF Peft = "none" THEN pretrained \ {d} ELSE pretrained
       /\ IF ExportModel /\ r = 0 THEN At(r, "locate") ELSE Exit(r, 0)
       /\ UNCHANGED <<train, merged, files, lock, models, job, tries>>

\* An adapter is merged into the base model; when that fails the export goes on without.
LoRAMerge ==
    LET d == Dir(0)
    IN /\ pods[0].at = "locate" /\ Kind = "sft" /\ Peft = "lora"
       /\ \/ d \notin pretrained /\ Exit(0, 1) /\ UNCHANGED <<dirs, pretrained, merged>>
          \/ d \in pretrained /\ dirs[d].iters = {} /\ Exit(0, 1) /\ UNCHANGED <<dirs, pretrained, merged>>
          \/ /\ d \in pretrained /\ Latest(d) \in dirs[d].whole
             /\ merged' = Latest(d) /\ dirs' = [dirs EXCEPT ![d] = NoDir] /\ pretrained' = pretrained \ {d}
             /\ At(0, "convert")
          \/ d \in pretrained /\ dirs[d].iters # {} /\ At(0, "convert") /\ UNCHANGED <<dirs, pretrained, merged>>
       /\ UNCHANGED <<train, files, lock, models, job, tries>>
Located ==
    /\ pods[0].at = "locate" /\ Kind = "sft" /\ Peft = "none" /\ At(0, "convert")
    /\ UNCHANGED <<train, dirs, pretrained, merged, files, lock, models, job, tries>>

\* A checkpoint that is whole is converted, or some of its files are; an adapter alone and
\* one that is not whole give no weights. The files of an earlier try are written over.
Written(from, some) == [f \in DOMAIN files |-> IF f \in some THEN from ELSE files[f]]
Convert ==
    LET d == Dir(0)
        src == IF merged # 0 THEN merged ELSE Latest(d)
        usable == merged # 0 \/ (Peft = "none" /\ src \in dirs[d].whole)
    IN /\ pods[0].at = "convert" /\ Kind = "sft"
       /\ \/ \E some \in SUBSET DOMAIN files :
                /\ src # 0 /\ (~usable => "weights" \notin some)
                /\ files' = Written(src, some)
          \/ src = 0 /\ UNCHANGED files
       /\ IF merged # 0 THEN merged' = 0 /\ UNCHANGED dirs
          ELSE dirs' = [dirs EXCEPT ![d] = NoDir] /\ UNCHANGED merged
       /\ At(0, "check") /\ UNCHANGED <<train, pretrained, lock, models, job, tries>>

\* The export of reinforcement learning is skipped when it was done before, and when there is
\* nothing to export; a converter that fails ends the script.
RlExport ==
    LET src == Highest(Base)
    IN /\ pods[0].at = "locate" /\ Kind = "rl"
       /\ \/ (lock \/ src = 0 \/ ~ExportModel) /\ Exit(0, 0) /\ UNCHANGED files
          \/ /\ ~lock /\ src # 0 /\ ExportModel
             /\ \E some \in SUBSET DOMAIN files :
                   /\ src \notin dirs[Base].whole => "weights" \notin some
                   /\ files' = Written(src, some)
             /\ (At(0, "check") \/ Exit(0, 1))
       /\ UNCHANGED <<train, dirs, pretrained, merged, lock, models, job, tries>>

CheckExport ==
    /\ pods[0].at = "check"
    /\ IF \E f \in DOMAIN files : files[f] = 0 THEN Exit(0, 1) ELSE At(0, "register")
    /\ UNCHANGED <<train, dirs, pretrained, merged, files, lock, models, job, tries>>

\* Fine-tuning fails with its registration. For reinforcement learning an answer of the API
\* server is enough, whatever it says, and none is only a warning.
RegisterModel ==
    /\ pods[0].at = "register"
    /\ \E answer \in Answers :
          /\ models' = IF answer = "ok" THEN Append(models, files) ELSE models
          /\ IF Kind = "sft" THEN Exit(0, IF answer = "ok" THEN 0 ELSE 1)
             ELSE At(0, IF answer = "down" THEN "done" ELSE "touch")
    /\ UNCHANGED <<train, dirs, pretrained, merged, files, lock, job, tries>>
TouchLock ==
    /\ pods[0].at \in {"touch", "done"} /\ lock' = (lock \/ pods[0].at = "touch") /\ Exit(0, 0)
    /\ UNCHANGED <<train, dirs, pretrained, merged, files, models, job, tries>>

----------------------------------------------------------------------------
(* The job: it has succeeded with its first pod, and failed with any. *)

JobEnds ==
    /\ job = "Running"
    /\ \/ pods[0].at = "exited" /\ pods[0].exit = 0 /\ job' = "Succeeded"
       \/ \E r \in Ranks : pods[r].at = "exited" /\ pods[r].exit # 0 /\ job' = "Failed"
    /\ UNCHANGED <<pods, train, dirs, pretrained, merged, files, lock, models, tries>>
\* The workload is dispatched again, after a failure or when a node is lost: what is not
\* shared goes with the pods.
Restart ==
    /\ job # "Succeeded" /\ tries < MaxTries /\ tries' = tries + 1 /\ job' = "Running"
    /\ pods' = [r \in Ranks |-> Started] /\ train' = NotTrained /\ merged' = 0
    /\ dirs' = [d \in Dirs |-> IF Multi THEN dirs[d] ELSE NoDir]
    /\ pretrained' = IF Multi THEN pretrained ELSE {}
    /\ UNCHANGED <<files, lock, models>>

Script(r) ==
    \/ PrepareDataset(r) \/ FindPrimus(r) \/ LeaveTraining(r) \/ VerifyCheckpoint(r) \/ Cleanup(r)
    \/ RlPrepareDataset(r) \/ RlLeaveTraining(r)
Export == LoRAMerge \/ Located \/ Convert \/ RlExport \/ CheckExport \/ RegisterModel \/ TouchLock
Trainer == ConvertBase \/ SaveDir \/ SaveLatest \/ TrainEnds
Next == (\E r \in Ranks : Script(r)) \/ Export \/ Trainer \/ JobEnds \/ Restart

Spec == Init /\ [][Next]_vars

----------------------------------------------------------------------------
TypeOK ==
    /\ pods \in [Ranks -> [at : {"dataset", "primus", "train", "verify", "cleanup", "locate", "convert", "check",
                                 "register", "touch", "done", "exited"},
                           verified : 0..Iters, exit : 0..1]]
    /\ dirs \in [Dirs -> [iters : SUBSET (1..Iters), whole : SUBSET (1..Iters), latest : 0..Iters]]
    /\ \A f \in DOMAIN files : files[f] \in 0..Iters
    /\ job \in {"Running", "Succeeded", "Failed"} /\ tries \in 1..MaxTries

\* A model is registered only with all of its files, its weights from a trained checkpoint.
RegisteredIsComplete == \A i \in DOMAIN models : \A f \in DOMAIN files : models[i][f] # 0
\* A fine-tuning job that has succeeded has registered its model.
SuccessHasModel == (job = "Succeeded" /\ ExportModel) => models # <<>>
\* The checkpoint the first pod verified is there until it has been merged or converted,
\* whatever the other pods clean up meanwhile.
VerifiedStays ==
    pods[0].at \in {"cleanup", "locate"} /\ pods[0].verified # 0 => pods[0].verified \in dirs[Dir(0)].iters
=============================================================================

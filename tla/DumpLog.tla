------------------------------ MODULE DumpLog -------------------------------
(***************************************************************************)
(* Dump-log jobs: the log of a workload is read from OpenSearch page by    *)
(* page and written to one S3 object.  For a long log, one goroutine       *)
(* (scroll) reads the pages, a second one (dump) uploads them in parts,    *)
(* and the worker that started both completes or aborts the upload.        *)
(***************************************************************************)
EXTENDS Integers, Sequences

CONSTANTS
    Jobs,           \* jobs on the log of one workload
    Pages,          \* pages of the log
    MinBatch,       \* pages that make a part
    MaxParts,       \* the part number at which dump stops
    LogCap,         \* capacity of the channel of pages
    MaxScrollErrors,\* bound: requests for a page that fail
    MaxUploadErrors,\* bound: uploads that fail
    MaxRestarts     \* bound: restarts of the resource manager that are no panics

VARIABLES
    job,        \* the jobs: their status and the controller's queue
    pipe,       \* the goroutines of each job and what they share
    object,     \* the pages in the S3 object; empty: there is none
    asked,      \* the user that downloads the log: nobody, waiting, url, failed
    left

vars == <<job, pipe, object, asked, left>>

Whole == [p \in 1..Pages |-> p]
End == 0    \* the nil on the channel of pages

NoPipe == [do |-> "idle", scroll |-> "off", next |-> 0, logCh |-> <<>>, errCh |-> 0, closed |-> FALSE,
           dump |-> "off", value |-> <<>>, parts |-> <<>>, count |-> 0]
NewJob == [exists |-> FALSE, phase |-> "pending", finished |-> FALSE, queued |-> FALSE, timer |-> FALSE, late |-> FALSE]

Spend(what) == left[what] > 0 /\ left' = [left EXCEPT ![what] = @ - 1]
IsEnd(j) == job[j].finished \/ ~job[j].exists

-----------------------------------------------------------------------------
(* API server.                                                              *)

\* validateDumpling: running jobs are looked for by the label of their cluster, which
\* dump-log jobs do not have.
ClusterLabel == "unset"
listRelatedRunningJobs == IF ClusterLabel = "unset" THEN {} ELSE {k \in Jobs : ~IsEnd(k)}
validateDumpling(j) == listRelatedRunningJobs \subseteq {j}

\* createDumpLogJobInternal: a job that exists is used again.
createDumpLogJobInternal(j) ==
    /\ job[j].exists \/ validateDumpling(j)
    /\ job' = IF job[j].exists THEN job ELSE [job EXCEPT ![j] = [NewJob EXCEPT !.exists = TRUE, !.queued = TRUE]]

\* generateDumpLogJob: a job of its own name.
generateDumpLogJob(j) ==
    /\ ~job[j].exists
    /\ createDumpLogJobInternal(j)
    /\ UNCHANGED <<pipe, object, asked, left>>

\* downloadWorkloadLog waits for the job that it has created or found.
downloadWorkloadLog(j) ==
    /\ createDumpLogJobInternal(j)
    /\ asked = "nobody" /\ asked' = "waiting"
    /\ UNCHANGED <<pipe, object, left>>

\* waitForDumpLogJobCompletion polls.
waitForDumpLogJobCompletion(j) ==
    /\ asked = "waiting" /\ job[j].exists
    /\ \/ job[j].phase = "succeeded" /\ asked' = "url"
       \/ job[j].phase = "failed" /\ asked' = "failed"
       \/ job[j].late /\ asked' = "failed"
    /\ UNCHANGED <<job, pipe, object, left>>

-----------------------------------------------------------------------------
(* Controller.                                                              *)

\* setJobCompleted: only a job that has that phase already is left alone.
setJobCompleted(r, phase) ==
    IF ~r.exists \/ r.phase = phase THEN r ELSE [r EXCEPT !.phase = phase, !.finished = TRUE]

\* Reconcile: observe never ends it, so a job past its timeout fails whatever its
\* phase is.  The first call sets the phase, whose change calls it again, and a timer;
\* the second one gives the job to a worker.
Reconcile(j) ==
    /\ job[j].exists /\ job[j].queued
    /\ \/ /\ job[j].late
          /\ job' = [job EXCEPT ![j] = setJobCompleted([@ EXCEPT !.queued = FALSE], "failed")]
          /\ UNCHANGED pipe
       \/ /\ ~job[j].late /\ job[j].phase = "pending"
          /\ job' = [job EXCEPT ![j].phase = "running", ![j].timer = TRUE]
          /\ UNCHANGED pipe
       \/ /\ ~job[j].late /\ job[j].phase # "pending"
          /\ job' = [job EXCEPT ![j].queued = FALSE]
          /\ pipe' = [pipe EXCEPT ![j].do = IF @ = "idle" THEN "queued" ELSE @]
    /\ UNCHANGED <<object, asked, left>>

\* The timeout of a job passes.
TimesOut(j) ==
    /\ job[j].exists /\ ~job[j].late
    /\ job' = [job EXCEPT ![j].late = TRUE, ![j].queued = @ \/ job[j].timer]
    /\ UNCHANGED <<pipe, object, asked, left>>

\* The base controller's delete, and the end of a job's TTL; what it wrote stays.
delete(j) ==
    /\ job[j].exists
    /\ job' = [job EXCEPT ![j].exists = FALSE, ![j].queued = FALSE]
    /\ UNCHANGED <<pipe, object, asked, left>>

-----------------------------------------------------------------------------
(* Worker.                                                                  *)

\* doSearch and getInputWorkload find the log or the job fails.
doSearch == {"found", "missing"}

\* singleUpload.
singleUpload(j) ==
    \/ /\ object' = Whole
       /\ pipe' = [pipe EXCEPT ![j].do = "succeed"] /\ UNCHANGED left
    \/ /\ Spend("upload")
       /\ pipe' = [pipe EXCEPT ![j].do = "fail"] /\ UNCHANGED object

\* The first half of multiUpload: the page found is put on the channel and the two
\* goroutines start.
startUpload(j) ==
    /\ UNCHANGED object
    /\ \/ /\ pipe' = [pipe EXCEPT ![j] = [NoPipe EXCEPT !.do = "wait", !.scroll = "run", !.next = 2,
                                                       !.logCh = <<1>>, !.dump = "receive"]]
          /\ UNCHANGED left
       \/ /\ Spend("upload")
          /\ pipe' = [pipe EXCEPT ![j].do = "fail"]

\* processDumpLogJob, called by Do for a job that has not ended.
processDumpLogJob(j) ==
    /\ pipe[j].do = "queued"
    /\ \/ /\ IsEnd(j)
          /\ pipe' = [pipe EXCEPT ![j] = NoPipe] /\ UNCHANGED <<object, left>>
       \/ /\ ~IsEnd(j) /\ "missing" \in doSearch
          /\ pipe' = [pipe EXCEPT ![j].do = "give up"] /\ UNCHANGED <<object, left>>
       \/ /\ ~IsEnd(j) /\ "found" \in doSearch
          /\ IF Pages = 1 THEN singleUpload(j) ELSE startUpload(j)
    /\ UNCHANGED <<job, asked>>

\* Mutant of multiUpload: the errors are looked at before dump has ended.
multiUploadEarly(j) ==
    /\ pipe[j].do = "wait" /\ pipe[j].dump \in {"flush", "done"}
    /\ pipe' = [pipe EXCEPT ![j].do = IF pipe[j].errCh > 0 THEN "abort" ELSE "complete"]
    /\ UNCHANGED <<job, object, asked, left>>

\* The second half of multiUpload, once dump has closed stopCh: an error aborts.
multiUpload(j) ==
    /\ pipe[j].do = "wait" /\ pipe[j].dump = "done"
    /\ pipe' = [pipe EXCEPT ![j].do = IF pipe[j].errCh > 0 THEN "abort" ELSE "complete"]
    /\ UNCHANGED <<job, object, asked, left>>

\* CompleteMultiPartUpload without parts does nothing.  When multiUpload returns, it
\* closes the channels.
CompleteMultiPartUpload(j) ==
    /\ pipe[j].do = "complete"
    /\ \/ /\ object' = IF pipe[j].count > 0 THEN pipe[j].parts ELSE object
          /\ pipe' = [pipe EXCEPT ![j].do = "succeed", ![j].closed = TRUE] /\ UNCHANGED left
       \/ /\ pipe[j].count > 0 /\ Spend("upload")
          /\ pipe' = [pipe EXCEPT ![j].do = "fail", ![j].closed = TRUE] /\ UNCHANGED object
    /\ UNCHANGED <<job, asked>>

AbortMultiPartUpload(j) ==
    /\ pipe[j].do = "abort"
    /\ pipe' = [pipe EXCEPT ![j].do = "fail", ![j].closed = TRUE]
    /\ UNCHANGED <<job, object, asked, left>>

\* Mutant of Finish: what was uploaded is deleted although only the link is missing.
FinishDeletes(j) ==
    /\ pipe[j].do \in {"fail", "give up", "succeed"}
    /\ object' = <<>>
    /\ job' = [job EXCEPT ![j] = setJobCompleted(@, IF pipe[j].do = "succeed" THEN "succeeded" ELSE "failed")]
    /\ pipe' = [pipe EXCEPT ![j].do = "idle"]
    /\ UNCHANGED <<asked, left>>

\* Mutant of Finish: a job that failed is left to its timeout.
FinishSucceeded(j) ==
    /\ pipe[j].do \in {"fail", "give up", "succeed"}
    /\ object' = IF pipe[j].do = "fail" THEN <<>> ELSE object
    /\ job' = IF pipe[j].do = "succeed" THEN [job EXCEPT ![j] = setJobCompleted(@, "succeeded")] ELSE job
    /\ pipe' = [pipe EXCEPT ![j].do = "idle"]
    /\ UNCHANGED <<asked, left>>

\* The end of processDumpLogJob and of Do: the object of a failed upload is deleted; an
\* error of setOutput fails the job and leaves the object.
Finish(j) ==
    /\ pipe[j].do \in {"fail", "give up", "succeed"}
    /\ object' = IF pipe[j].do = "fail" THEN <<>> ELSE object
    /\ \/ /\ job' = [job EXCEPT ![j] = setJobCompleted(@, IF pipe[j].do = "succeed" THEN "succeeded" ELSE "failed")]
          /\ UNCHANGED left
       \/ /\ pipe[j].do = "succeed" /\ Spend("upload")
          /\ job' = [job EXCEPT ![j] = setJobCompleted(@, "failed")]
    /\ pipe' = [pipe EXCEPT ![j].do = "idle"]
    /\ UNCHANGED asked

-----------------------------------------------------------------------------
(* The goroutines of a long upload.                                         *)

\* A send on a closed channel ends the process: the goroutines are gone, the timers are
\* lost and every job is reconciled again.
Crash ==
    /\ pipe' = [j \in Jobs |-> NoPipe]
    /\ job' = [j \in Jobs |-> [job[j] EXCEPT !.timer = FALSE, !.queued = job[j].exists]]

\* page goes on the channel of pages, once there is room, and scroll goes on with then.
Send(j, page, then) ==
    \/ /\ pipe[j].closed /\ Crash
    \/ /\ ~pipe[j].closed /\ Len(pipe[j].logCh) < LogCap
       /\ pipe' = [pipe EXCEPT ![j].logCh = Append(@, page), ![j].scroll = then]
       /\ UNCHANGED job

SendError(j, then) ==
    \/ /\ pipe[j].closed /\ Crash
    \/ /\ ~pipe[j].closed
       /\ pipe' = [pipe EXCEPT ![j].errCh = @ + 1, ![j].scroll = then]
       /\ UNCHANGED job

\* scroll reads a page, or fails to; the page after a full one is read, unless the
\* timeout has passed.
scrollReads(j) ==
    /\ pipe[j].scroll = "run"
    /\ \/ /\ Spend("scroll")
          /\ pipe' = [pipe EXCEPT ![j].scroll = "failed"]
       \/ /\ pipe' = [pipe EXCEPT ![j].scroll = "page"] /\ UNCHANGED left
    /\ UNCHANGED job

\* What scroll sends: the page; nil after the last one, which is short; after an error
\* nil and then the error, after the timeout the error and then nil.
scrollSends(j) ==
    /\ \/ /\ pipe[j].scroll = "page"
          /\ \/ pipe[j].closed /\ Crash
             \/ /\ ~pipe[j].closed /\ Len(pipe[j].logCh) < LogCap /\ UNCHANGED job
                /\ pipe' = [pipe EXCEPT ![j].logCh = Append(@, pipe[j].next), ![j].next = @ + 1,
                                        ![j].scroll = IF pipe[j].next = Pages THEN "end"
                                                      ELSE IF job[j].late THEN "late" ELSE "run"]
       \/ pipe[j].scroll = "end" /\ Send(j, End, "off")
       \/ pipe[j].scroll = "failed" /\ Send(j, End, "report")
       \/ pipe[j].scroll = "report" /\ SendError(j, "off")
       \/ pipe[j].scroll = "late" /\ SendError(j, "end")
    /\ UNCHANGED left

scroll(j) == (scrollReads(j) \/ scrollSends(j)) /\ UNCHANGED <<object, asked>>

\* Mutant of MultiPartUpload: what was uploaded is kept for the next part.
MultiPartUploadKeeps(p, value) == [p EXCEPT !.parts = @ \o value, !.count = @ + 1]

\* MultiPartUpload adds value to the parts.
MultiPartUpload(p, value) == [p EXCEPT !.parts = @ \o value, !.count = @ + 1, !.value = <<>>]

\* dump takes a page and uploads what it holds once that is long enough.
dumpReceives(j) ==
    /\ pipe[j].dump = "receive" /\ pipe[j].logCh # <<>>
    /\ LET p == [pipe[j] EXCEPT !.logCh = Tail(@)]
           value == Append(p.value, Head(pipe[j].logCh))
           sent == MultiPartUpload(p, value)
       IN \/ /\ Head(pipe[j].logCh) = End
             /\ pipe' = [pipe EXCEPT ![j] = [p EXCEPT !.dump = "flush"]] /\ UNCHANGED left
          \/ /\ Head(pipe[j].logCh) # End /\ job[j].late
             /\ pipe' = [pipe EXCEPT ![j] = [p EXCEPT !.errCh = @ + 1, !.dump = "done"]] /\ UNCHANGED left
          \/ /\ Head(pipe[j].logCh) # End /\ ~job[j].late /\ Len(value) < MinBatch
             /\ pipe' = [pipe EXCEPT ![j] = [p EXCEPT !.value = value]] /\ UNCHANGED left
          \/ /\ Head(pipe[j].logCh) # End /\ ~job[j].late /\ Len(value) >= MinBatch
             /\ \/ /\ pipe' = [pipe EXCEPT ![j] = [sent EXCEPT !.dump = IF sent.count + 1 >= MaxParts THEN "flush" ELSE "receive"]]
                   /\ UNCHANGED left
                \/ /\ Spend("upload")
                   /\ pipe' = [pipe EXCEPT ![j] = [p EXCEPT !.errCh = @ + 1, !.dump = "done"]]
    /\ UNCHANGED object

\* dump after its loop: the rest is the last part, or the whole object if it is the first.
dumpFlushes(j) ==
    /\ pipe[j].dump = "flush"
    /\ \/ /\ pipe[j].value = <<>>
          /\ pipe' = [pipe EXCEPT ![j].dump = "done"] /\ UNCHANGED <<object, left>>
       \/ /\ pipe[j].value # <<>> /\ Spend("upload")
          /\ pipe' = [pipe EXCEPT ![j].errCh = @ + 1, ![j].dump = "done"] /\ UNCHANGED object
       \/ /\ pipe[j].value # <<>> /\ pipe[j].count = 0
          /\ object' = pipe[j].value
          /\ pipe' = [pipe EXCEPT ![j].dump = "done"] /\ UNCHANGED left
       \/ /\ pipe[j].value # <<>> /\ pipe[j].count > 0
          /\ pipe' = [pipe EXCEPT ![j] = [MultiPartUpload(@, pipe[j].value) EXCEPT !.dump = "done"]]
          /\ UNCHANGED <<object, left>>

dump(j) == (dumpReceives(j) \/ dumpFlushes(j)) /\ UNCHANGED <<job, asked>>

Restart == Spend("restarts") /\ Crash /\ UNCHANGED <<object, asked>>

-----------------------------------------------------------------------------

Init ==
    /\ job = [j \in Jobs |-> NewJob] /\ pipe = [j \in Jobs |-> NoPipe]
    /\ object = <<>> /\ asked = "nobody"
    /\ left = [scroll |-> MaxScrollErrors, upload |-> MaxUploadErrors, restarts |-> MaxRestarts]

Work(j) ==
    \/ processDumpLogJob(j) \/ multiUpload(j) \/ CompleteMultiPartUpload(j) \/ AbortMultiPartUpload(j)
    \/ Finish(j) \/ dump(j)

Next ==
    \/ \E j \in Jobs :
          \/ generateDumpLogJob(j) \/ downloadWorkloadLog(j) \/ waitForDumpLogJobCompletion(j)
          \/ Reconcile(j) \/ TimesOut(j) \/ delete(j) \/ Work(j) \/ scroll(j)
    \/ Restart

Spec == Init /\ [][Next]_vars

-----------------------------------------------------------------------------
(* Properties.                                                              *)

\* Types of the variables; dump uploads each page once and in the order of the log.
TypeOK ==
    /\ \A j \in Jobs :
          /\ job[j].phase \in {"pending", "running", "succeeded", "failed"}
          /\ {job[j].exists, job[j].finished, job[j].queued, job[j].timer, job[j].late} \subseteq BOOLEAN
          /\ pipe[j].do \in {"idle", "queued", "wait", "complete", "abort", "succeed", "fail", "give up"}
          /\ pipe[j].scroll \in {"off", "run", "page", "end", "failed", "report", "late"}
          /\ pipe[j].dump \in {"off", "receive", "flush", "done"}
          /\ \A i \in DOMAIN (pipe[j].parts \o pipe[j].value) : (pipe[j].parts \o pipe[j].value)[i] = i
    /\ asked \in {"nobody", "waiting", "url", "failed"}

\* A job that succeeded has uploaded the whole log.
UploadIsWhole == \A j \in Jobs : (pipe[j].do = "succeed" => object = Whole)

\* The log of a job that succeeded is there.
SuccessHasLog == \A j \in Jobs : (job[j].exists /\ job[j].phase = "succeeded" => object = Whole)
=============================================================================

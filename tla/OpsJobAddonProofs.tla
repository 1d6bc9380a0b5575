--------------------------- MODULE OpsJobAddonProofs ---------------------------
(***************************************************************************)
(* The taints of addon jobs, for any number of nodes and jobs, any size of *)
(* a batch and any number of tries, failures, removals and restarts        *)
(* (JobTaintsKept).                                                        *)
(*                                                                         *)
(* A fault is made by a worker from what it knew when it took its batch,   *)
(* and deleted by workers, by the removal of a node and by the deletion of *)
(* a job.  The invariant says who may still write: a job with a batch is   *)
(* not gone (Working), and what a job has in hand, has tainted or knows of *)
(* are nodes it was made for (Own), so that whoever deletes the fault of a *)
(* node at work was made for that node as well.                            *)
(***************************************************************************)
EXTENDS OpsJobAddon, TLAPS

\* The shape of the records; what the phases of nodes are does not matter to the taints.
JobFields == {"state", "finished", "timeout", "phase", "inputs"}
JobShape(r) == DOMAIN r = JobFields /\ r = [f \in JobFields |-> r[f]]
BatchShape(b) ==
    /\ b = [using |-> b.using, tries |-> b.tries, result |-> b.result]
    /\ b.result = [n \in DOMAIN b.result |-> b.result[n]]

Shaped ==
    /\ job = [j \in Job |-> job[j]] /\ \A j \in Job : JobShape(job[j])
    /\ fault \in [Node -> Job \cup {None}] /\ going \subseteq {n \in Node : fault[n] # None}
    /\ batch = [j \in Job |-> batch[j]] /\ \A j \in Job : batch[j] # <<>> => BatchShape(batch[j])
    /\ allJobs = [j \in Job |-> allJobs[j]]

Counted == "misses" \in DOMAIN left /\ left.misses \in Int /\ left.misses <= MaxMisses

Working == \A j \in Job : batch[j] # <<>> => job[j].state \in {"live", "deleting"}

Given(j) == Range(job[j].inputs)
Own ==
    /\ \A j \in Job : job[j].state = "new" => Given(j) = {} /\ allJobs[j] = <<>>
    /\ \A j \in Job, n \in Node : fault[n] = j => n \in Given(j)
    /\ \A j \in Job : batch[j] # <<>> => DOMAIN batch[j].result \subseteq Given(j)
    /\ \A j \in Job : allJobs[j] # <<>> => DOMAIN allJobs[j] \subseteq Given(j)

Inv ==
    None \notin Job /\ MaxMisses \in Nat /\ Shaped /\ Counted /\ Working /\ Own
    /\ GoneIsClean /\ HeldWhileWorking

-----------------------------------------------------------------------------
\* The writes to the record of a job: they keep its fields and its inputs.
LEMMA PhaseWritten ==
    ASSUME NEW r, JobShape(r), NEW p
    PROVE  /\ JobShape([r EXCEPT !.phase = p]) /\ [r EXCEPT !.phase = p].state = r.state
           /\ [r EXCEPT !.phase = p].inputs = r.inputs
BY DEF JobShape, JobFields

\* The end of a job is noted.
LEMMA EndWritten ==
    ASSUME NEW r, JobShape(r), NEW p, NEW q, q = [r EXCEPT !.finished = TRUE, !.phase = p]
    PROVE  JobShape(q) /\ q.state = r.state /\ q.inputs = r.inputs
BY DEF JobShape, JobFields

\* A step that spends something, or nothing, spends no misses it had not left.
LEMMA Spent ==
    ASSUME Inv, (\E what \in {"fails", "misses", "removed", "work", "restarts"} : Spend(what)) \/ UNCHANGED left
    PROVE  Counted' /\ left'.misses <= left.misses /\ (Spend("misses") => left'.misses < MaxMisses)
BY DEF Inv, Counted, Spend

\* A step that only writes the record of one job, and what it knows of its nodes.
LEMMA JobStep ==
    ASSUME Inv, UNCHANGED <<batch, fault, going>>, removed \subseteq removed', NEW j \in Job,
           Counted', left'.misses <= left.misses,
           NEW r, job' = [job EXCEPT ![j] = r], JobShape(r),
           r.state = "gone" => job[j].state = "gone",
           batch[j] # <<>> => r.state \in {"live", "deleting"},
           job[j].state = "new" \/ Range(r.inputs) = Given(j), r.state # "new",
           allJobs' = [k \in Job |-> allJobs'[k]], \A k \in Job : k # j => allJobs'[k] = allJobs[k],
           allJobs'[j] # <<>> => DOMAIN allJobs'[j] \subseteq Range(r.inputs)
    PROVE  Inv'
<1>0. job = [k \in Job |-> job[k]]
  BY DEF Inv, Shaped
<1>1. job' = [k \in Job |-> job'[k]] /\ \A k \in Job : job'[k] = IF k = j THEN r ELSE job[k]
  BY <1>0
<1>2. Shaped'
  BY <1>1 DEF Inv, Shaped
<1>3. Working' /\ GoneIsClean'
  BY <1>1 DEF Inv, Counted, Working, GoneIsClean
<1>4. \A k \in Job : Given(k) \subseteq Given(k)'
  BY <1>1 DEF Inv, Own, Given
<1>5. Own'
  BY <1>1, <1>4 DEF Inv, Own, Given
<1>6. HeldWhileWorking'
  <2>1. \A k \in Job, n \in Node : Shared(k, n) => Shared(k, n)'
    BY <1>4 DEF Shared, Given
  <2> QED BY <2>1 DEF Inv, HeldWhileWorking
<1> QED BY <1>2, <1>3, <1>5, <1>6 DEF Inv

\* A step that writes neither jobs nor batches nor taints.
LEMMA OtherStep ==
    ASSUME Inv, UNCHANGED <<job, batch, fault, going, allJobs>>, removed \subseteq removed',
           Counted', left'.misses <= left.misses
    PROVE  Inv'
<1>1. Shaped' /\ Working' /\ Own'
  BY DEF Inv, Shaped, Working, Own, Given
<1>2. GoneIsClean'
  BY DEF Inv, Counted, GoneIsClean
<1>3. HeldWhileWorking'
  BY DEF Inv, HeldWhileWorking, Shared
<1> QED BY <1>1, <1>2, <1>3 DEF Inv

\* Batches end, one or all of them, and nodes may be given up or forgotten.
LEMMA EndStep ==
    ASSUME Inv, UNCHANGED <<job, fault, going, removed>>, batch' = [j \in Job |-> batch'[j]],
           \A j \in Job : batch'[j] \in {batch[j], <<>>},
           allJobs' = [k \in Job |-> allJobs'[k]],
           \A k \in Job : allJobs'[k] = <<>> \/ (allJobs[k] # <<>> /\ DOMAIN allJobs'[k] = DOMAIN allJobs[k]),
           Counted', left'.misses <= left.misses
    PROVE  Inv'
<1>1. Shaped'
  BY DEF Inv, Shaped
<1>2. Working' /\ GoneIsClean'
  BY DEF Inv, Counted, Working, GoneIsClean
<1>3. Own'
  BY DEF Inv, Own, Given
<1>4. HeldWhileWorking'
  BY DEF Inv, HeldWhileWorking, Shared
<1> QED BY <1>1, <1>2, <1>3, <1>4 DEF Inv

\* The faults of some nodes are deleted: those of nodes that leave, those a job gives
\* back, or those that a job that goes has left.
LEMMA LiftStep ==
    ASSUME Inv, fault' = fault, removed \subseteq removed', Shaped', Working', Own', Counted',
           going \subseteq going', left'.misses <= left.misses,
           \A k \in Job : Given(k)' = Given(k),
           \A k \in Job : job'[k].state = "gone" => job[k].state = "gone" \/ left'.misses < MaxMisses
                                                    \/ \A n \in Node : fault[n] = k => n \in going',
           \A k \in Job : batch'[k] # <<>> => batch[k] # <<>>,
           \A k \in Job, n \in Node : batch'[k] # <<>> /\ n \in DOMAIN batch'[k].result /\ batch'[k].result[n] = "held"
              => n \in DOMAIN batch[k].result /\ batch[k].result[n] = "held",
           \A k \in Job, n \in Node : n \in going' /\ n \notin going /\ batch'[k] # <<>>
              /\ n \in DOMAIN batch'[k].result /\ batch'[k].result[n] = "held"
              => n \in removed' \/ Shared(k, n)
    PROVE  Inv'
<1>1. GoneIsClean'
  BY DEF Inv, Counted, GoneIsClean
<1>2. \A k \in Job, n \in Node : Shared(k, n)' <=> Shared(k, n)
  BY DEF Shared, Given
<1>3. HeldWhileWorking'
  <2> SUFFICES ASSUME NEW k \in Job, batch'[k] # <<>>, NEW n \in Node \ removed',
                      n \in DOMAIN batch'[k].result, batch'[k].result[n] = "held", ~Shared(k, n)
               PROVE  fault'[n] # None /\ n \notin going'
    BY <1>2 DEF HeldWhileWorking
  <2>1. fault[n] # None /\ n \notin going
    BY DEF Inv, HeldWhileWorking
  <2> QED BY <2>1
<1> QED BY <1>1, <1>3 DEF Inv

\* A job that is deleted leaves no fault but those its cleanup misses.
LEMMA DeleteStep ==
    ASSUME Inv, NEW j \in Job, removed' = removed, batch[j] = <<>>, job[j].state = "deleting", delete(j)
    PROVE  Inv'
<1>0. fault' = fault /\ batch' = batch
  BY DEF delete
<1>01. JobShape(job[j]) /\ job = [k \in Job |-> job[k]] /\ allJobs = [k \in Job |-> allJobs[k]]
  BY DEF Inv, Shaped
<1>1. CASE /\ job' = [job EXCEPT ![j].state = "gone", ![j].finished = TRUE, ![j].phase = Stopped(j)]
           /\ CleanupJobRelatedResource(j)
           /\ allJobs' = [allJobs EXCEPT ![j] = <<>>]
  <2> DEFINE r == [job[j] EXCEPT !.state = "gone", !.finished = TRUE, !.phase = Stopped(j)]
  <2>1. job' = [job EXCEPT ![j] = r]
    BY <1>1
  <2>2. JobShape(r) /\ r.state = "gone" /\ r.inputs = job[j].inputs
    BY <1>01 DEF JobShape, JobFields
  <2> HIDE DEF r
  <2>3. job' = [k \in Job |-> job'[k]] /\ \A k \in Job : job'[k] = IF k = j THEN r ELSE job[k]
    BY <1>01, <2>1
  <2>4. allJobs' = [k \in Job |-> allJobs'[k]] /\ \A k \in Job : allJobs'[k] = IF k = j THEN <<>> ELSE allJobs[k]
    BY <1>01, <1>1
  <2>5. /\ Spend("misses") \/ UNCHANGED left
        /\ going \subseteq going' /\ going' \subseteq going \cup Owned(j)
        /\ going' = going \cup Owned(j) \/ Spend("misses")
    BY <1>1 DEF CleanupJobRelatedResource
  <2>6. Counted' /\ left'.misses <= left.misses /\ (Spend("misses") => left'.misses < MaxMisses)
    BY <2>5, Spent
  <2>7. \A k \in Job : Given(k)' = Given(k)
    BY <2>2, <2>3 DEF Given
  <2>8. Shaped'
    BY <1>0, <2>2, <2>3, <2>4, <2>5 DEF Inv, Shaped, Owned
  <2>9. Working'
    BY <1>0, <2>3 DEF Inv, Working
  <2>10. Own'
    BY <1>0, <2>2, <2>3, <2>4, <2>7 DEF Inv, Own
  <2>11. \A k \in Job : job'[k].state = "gone" => job[k].state = "gone" \/ left'.misses < MaxMisses
                                                  \/ \A n \in Node : fault[n] = k => n \in going'
    BY <2>3, <2>5, <2>6 DEF Owned
  <2>12. ASSUME NEW k \in Job, NEW n \in Node, n \in going', n \notin going, batch'[k] # <<>>
         PROVE  Shared(k, n)
    <3>1. fault[n] = j /\ k # j
      BY <1>0, <2>5, <2>12 DEF Owned
    <3> QED BY <3>1 DEF Inv, Own, Shared, Given
  <2>13. /\ \A k \in Job : batch'[k] # <<>> => batch[k] # <<>>
         /\ \A k \in Job, n \in Node : batch'[k] # <<>> /\ n \in DOMAIN batch'[k].result /\ batch'[k].result[n] = "held"
              => n \in DOMAIN batch[k].result /\ batch[k].result[n] = "held"
    BY <1>0
  <2> QED BY <1>0, <2>5, <2>6, <2>7, <2>8, <2>9, <2>10, <2>11, <2>12, <2>13, LiftStep
<1>2. CASE /\ job' = [job EXCEPT ![j].finished = TRUE, ![j].phase = Stopped(j)]
           /\ Spend("misses") /\ UNCHANGED <<allJobs, queue, going>> /\ job[j].state # "new"
  <2> DEFINE r == [job[j] EXCEPT !.finished = TRUE, !.phase = Stopped(j)]
  <2>1. job' = [job EXCEPT ![j] = r]
    BY <1>2
  <2>2. JobShape(r) /\ r.state = job[j].state /\ r.inputs = job[j].inputs
    BY <1>01, EndWritten
  <2> HIDE DEF r
  <2>3. Counted' /\ left'.misses <= left.misses
    BY <1>2, Spent
  <2>4. Range(r.inputs) = Given(j) /\ (allJobs'[j] # <<>> => DOMAIN allJobs'[j] \subseteq Range(r.inputs))
    BY <1>2, <2>2 DEF Inv, Own, Given
  <2> QED BY <1>0, <1>01, <1>2, <2>1, <2>2, <2>3, <2>4, JobStep
<1> QED BY <1>1, <1>2 DEF delete

\* The record of a job is written while it is not deleted.
LEMMA LiveStep ==
    ASSUME Inv, NEW j \in Job, UNCHANGED <<batch, fault, going, removed, left>>, Live(j),
           allJobs' = [k \in Job |-> allJobs'[k]], \A k \in Job : k # j => allJobs'[k] = allJobs[k],
           allJobs'[j] # <<>> => DOMAIN allJobs'[j] \subseteq Given(j),
           (\E p : setJobCompleted(j, p)) \/ job' = [job EXCEPT ![j].phase = "running"]
    PROVE  Inv'
<1>0. JobShape(job[j])
  BY DEF Inv, Shaped
<1>1. PICK r : job' = [job EXCEPT ![j] = r] /\ JobShape(r) /\ r.state = job[j].state /\ r.inputs = job[j].inputs
  <2>1. CASE \E p : setJobCompleted(j, p)
    <3>1. PICK p : job' = [job EXCEPT ![j].phase = p, ![j].finished = TRUE]
      BY <2>1 DEF setJobCompleted
    <3> DEFINE q == [job[j] EXCEPT !.phase = p, !.finished = TRUE]
    <3>2. JobShape(q) /\ q.state = job[j].state /\ q.inputs = job[j].inputs
      BY <1>0 DEF JobShape, JobFields
    <3>3. job' = [job EXCEPT ![j] = q]
      BY <3>1
    <3> HIDE DEF q
    <3> QED BY <3>2, <3>3
  <2>2. CASE job' = [job EXCEPT ![j].phase = "running"]
    <3> DEFINE q == [job[j] EXCEPT !.phase = "running"]
    <3>2. JobShape(q) /\ q.state = job[j].state /\ q.inputs = job[j].inputs
      BY <1>0, PhaseWritten
    <3>3. job' = [job EXCEPT ![j] = q]
      BY <2>2
    <3> HIDE DEF q
    <3> QED BY <3>2, <3>3
  <2> QED BY <2>1, <2>2
<1>2. Counted' /\ left'.misses <= left.misses
  BY Spent
<1>3. Range(r.inputs) = Given(j) /\ r.state = "live"
  BY <1>1 DEF Given, Live
<1> QED BY <1>1, <1>2, <1>3, JobStep

\* A job without a batch is taken up, worked on next, or removed with its faults.
LEMMA ReconcileStep == ASSUME Inv, NEW j \in Job, Reconcile(j) PROVE Inv'
<1>1. removed' = removed /\ batch[j] = <<>>
  BY DEF Reconcile
<1>2. CASE job[j].state = "deleting" /\ delete(j)
  BY <1>1, <1>2, DeleteStep
<1>3. CASE UNCHANGED <<job, allJobs, batch, fault, going, left>>
  BY <1>1, <1>3, OtherStep, Spent
<1>4. CASE Live(j) /\ UNCHANGED <<allJobs, batch, fault, going, left>> /\ \E p : setJobCompleted(j, p)
  BY <1>1, <1>4, LiveStep DEF Inv, Shaped, Own
<1>5. CASE Live(j) /\ addJob(j) /\ UNCHANGED <<going, left>>
  <2>1. CASE setJobCompleted(j, "failed") /\ UNCHANGED <<allJobs, batch, fault>>
    BY <1>4, <1>5, <2>1
  <2>2. CASE /\ allJobs' = [allJobs EXCEPT ![j] = [n \in Given(j) \ removed |-> "pending"]]
             /\ job' = [job EXCEPT ![j].phase = "running"] /\ UNCHANGED <<batch, fault>>
    <3>1. allJobs = [k \in Job |-> allJobs[k]]
      BY DEF Inv, Shaped
    <3>2. allJobs' = [k \in Job |-> allJobs'[k]] /\ \A k \in Job : k # j => allJobs'[k] = allJobs[k]
      BY <2>2, <3>1
    <3>3. DOMAIN allJobs'[j] \subseteq Given(j)
      BY <2>2, <3>1
    <3> QED BY <1>1, <1>5, <2>2, <3>2, <3>3, LiveStep
  <2> QED BY <1>5, <2>1, <2>2 DEF addJob, Given
<1>6. CASE Live(j) /\ Begin(j) /\ allJobs[j] # <<>> /\ UNCHANGED <<going, left>>
  <2>1. PICK t \in Targets(j) :
           batch' = [batch EXCEPT ![j] = [using |-> IF Security THEN using ELSE {}, tries |-> 0,
                                          result |-> [n \in t |-> "none"]]]
    BY <1>6 DEF Begin
  <2>2. /\ UNCHANGED <<job, fault, allJobs>> /\ batch' = [k \in Job |-> batch'[k]]
        /\ \A k \in Job : k # j => batch'[k] = batch[k]
        /\ batch'[j] = [using |-> IF Security THEN using ELSE {}, tries |-> 0, result |-> [n \in t |-> "none"]]
    BY <1>6, <2>1 DEF Begin, Inv, Shaped
  <2>3. Shaped'
    <3>1. BatchShape(batch'[j])
      BY <2>2 DEF BatchShape
    <3> QED BY <1>6, <2>2, <3>1 DEF Inv, Shaped
  <2>4. Working'
    BY <1>6, <2>2 DEF Inv, Working, Live
  <2>5. Own'
    <3>1. t \subseteq Given(j)
      BY <1>6 DEF Targets, Inv, Own
    <3>2. DOMAIN batch'[j].result = t
      BY <2>2
    <3> QED BY <2>2, <3>1, <3>2 DEF Inv, Own, Given
  <2>6. GoneIsClean' /\ Counted'
    BY <1>6, <2>2 DEF Inv, GoneIsClean, Counted
  <2>7. HeldWhileWorking'
    <3>1. \A n \in DOMAIN batch'[j].result : batch'[j].result[n] # "held"
      BY <2>2
    <3> QED BY <1>1, <1>6, <2>2, <3>1 DEF Inv, HeldWhileWorking, Shared
  <2> QED BY <2>3, <2>4, <2>5, <2>6, <2>7 DEF Inv
<1>7. \/ job[j].state = "deleting" /\ delete(j)
      \/ UNCHANGED <<job, allJobs, batch, fault, going, left>>
      \/ Live(j) /\ UNCHANGED <<allJobs, batch, fault, going, left>> /\ \E p : setJobCompleted(j, p)
      \/ Live(j) /\ addJob(j) /\ UNCHANGED <<going, left>>
      \/ Live(j) /\ Begin(j) /\ allJobs[j] # <<>> /\ UNCHANGED <<going, left>>
  BY DEF Reconcile, IsEnd, Live
<1> QED BY <1>2, <1>3, <1>4, <1>5, <1>6, <1>7

\* The result of one node of a batch is written.
Writes(j, n, x, t) == batch' = [batch EXCEPT ![j].result[n] = x, ![j].tries = t]

LEMMA ResultWritten ==
    ASSUME Inv, NEW j \in Job, batch[j] # <<>>, NEW n, n \in DOMAIN batch[j].result, NEW x, NEW t,
           Writes(j, n, x, t)
    PROVE  /\ batch' = [k \in Job |-> batch'[k]] /\ \A k \in Job : k # j => batch'[k] = batch[k]
           /\ batch'[j] # <<>> /\ BatchShape(batch'[j]) /\ DOMAIN batch'[j].result = DOMAIN batch[j].result
           /\ \A m \in DOMAIN batch[j].result : batch'[j].result[m] = IF m = n THEN x ELSE batch[j].result[m]
<1>1. /\ batch = [k \in Job |-> batch[k]]
      /\ batch[j] = [using |-> batch[j].using, tries |-> batch[j].tries, result |-> batch[j].result]
      /\ batch[j].result = [m \in DOMAIN batch[j].result |-> batch[j].result[m]]
  BY DEF Inv, Shaped, BatchShape
<1>2. /\ batch' = [k \in Job |-> batch'[k]] /\ \A k \in Job : k # j => batch'[k] = batch[k]
      /\ batch'[j] = [using |-> batch[j].using, tries |-> t, result |-> [batch[j].result EXCEPT ![n] = x]]
  BY <1>1 DEF Writes
<1>3. batch'[j].result = [batch[j].result EXCEPT ![n] = x]
  BY <1>2
<1>4. BatchShape(batch'[j])
  BY <1>1, <1>2, <1>3 DEF BatchShape
<1>5. batch'[j] # <<>>
  <2>1. "using" \in DOMAIN batch'[j]
    BY <1>2
  <2>2. DOMAIN << >> = {}
    OBVIOUS
  <2> QED BY <2>1, <2>2
<1> QED BY <1>1, <1>2, <1>3, <1>4, <1>5

\* createFault: a job that is not gone, and was made for the node, makes a fault or finds one.
LEMMA CreateFaultStep == ASSUME Inv, NEW j \in Job, NEW n \in Node, createFault(j, n) PROVE Inv'
<1>1. /\ UNCHANGED <<job, allJobs, going, removed, left>> /\ batch[j] # <<>> /\ n \in DOMAIN batch[j].result
      /\ fault' = [fault EXCEPT ![n] = IF fault[n] = None THEN j ELSE fault[n]]
      /\ batch' = [batch EXCEPT ![j].result[n] = IF n \in going THEN "late" ELSE "held"]
  BY DEF createFault, Due
<1> DEFINE x == IF n \in going THEN "late" ELSE "held"
<1>2. Writes(j, n, x, batch[j].tries)
  <2>1. /\ batch = [k \in Job |-> batch[k]]
        /\ batch[j] = [using |-> batch[j].using, tries |-> batch[j].tries, result |-> batch[j].result]
    BY <1>1 DEF Inv, Shaped, BatchShape
  <2> QED BY <1>1, <2>1 DEF Writes
<1> HIDE DEF x
<1>3. /\ batch' = [k \in Job |-> batch'[k]] /\ \A k \in Job : k # j => batch'[k] = batch[k]
      /\ BatchShape(batch'[j]) /\ DOMAIN batch'[j].result = DOMAIN batch[j].result
      /\ \A m \in DOMAIN batch[j].result : batch'[j].result[m] = IF m = n THEN x ELSE batch[j].result[m]
  <2>1. batch[j] # <<>> /\ n \in DOMAIN batch[j].result
    BY <1>1
  <2> QED BY <1>2, <2>1, ResultWritten
<1>4. /\ fault' \in [Node -> Job \cup {None}] /\ fault'[n] # None
      /\ \A m \in Node : fault'[m] = IF m = n /\ fault[n] = None THEN j ELSE fault[m]
  BY <1>1 DEF Inv, Shaped
<1>5. Shaped'
  BY <1>1, <1>3, <1>4 DEF Inv, Shaped
<1>6. Working' /\ Counted'
  BY <1>1, <1>3 DEF Inv, Working, Counted
<1>7. Own'
  <2>1. n \in Given(j)
    BY <1>1 DEF Inv, Own
  <2> QED BY <1>1, <1>3, <1>4, <2>1 DEF Inv, Own, Given
<1>8. GoneIsClean'
  BY <1>1, <1>4 DEF Inv, Working, GoneIsClean
<1>9. HeldWhileWorking'
  <2> SUFFICES ASSUME NEW k \in Job, batch'[k] # <<>>, NEW m \in Node \ removed,
                      m \in DOMAIN batch'[k].result, batch'[k].result[m] = "held", ~Shared(k, m)
               PROVE  fault'[m] # None /\ m \notin going
    BY <1>1 DEF HeldWhileWorking, Shared
  <2>1. CASE k = j /\ m = n
    BY <1>1, <1>3, <1>4, <2>1 DEF x
  <2>2. CASE ~(k = j /\ m = n)
    <3>1. batch[k] # <<>> /\ m \in DOMAIN batch[k].result /\ batch[k].result[m] = "held"
      BY <1>1, <1>3, <2>2
    <3>2. fault[m] # None /\ m \notin going
      BY <3>1 DEF Inv, HeldWhileWorking
    <3> QED BY <1>4, <3>2 DEF Inv
  <2> QED BY <2>1, <2>2
<1> QED BY <1>5, <1>6, <1>7, <1>8, <1>9 DEF Inv

\* A result other than "held" is written; the fault of the node may be deleted with it.
LEMMA ResultStep ==
    ASSUME Inv, NEW j \in Job, NEW n \in Node, batch[j] # <<>>, n \in DOMAIN batch[j].result,
           UNCHANGED <<job, fault, removed>>, NEW x, NEW t, x # "held",
           Writes(j, n, x, t),
           going' = going \/ deleteFault(n),
           allJobs' = [k \in Job |-> allJobs'[k]],
           \A k \in Job : allJobs'[k] = <<>> \/ (allJobs[k] # <<>> /\ DOMAIN allJobs'[k] = DOMAIN allJobs[k]),
           (\E what \in {"fails", "misses", "removed", "work", "restarts"} : Spend(what)) \/ UNCHANGED left
    PROVE  Inv'
<1>1. /\ batch' = [k \in Job |-> batch'[k]] /\ \A k \in Job : k # j => batch'[k] = batch[k]
      /\ BatchShape(batch'[j]) /\ DOMAIN batch'[j].result = DOMAIN batch[j].result
      /\ \A m \in DOMAIN batch[j].result : batch'[j].result[m] = IF m = n THEN x ELSE batch[j].result[m]
  BY ResultWritten
<1>2. Counted' /\ left'.misses <= left.misses
  BY Spent
<1>3. /\ going \subseteq going' /\ going' \subseteq going \cup {n}
      /\ going' \subseteq {m \in Node : fault[m] # None}
  BY DEF deleteFault, Inv, Shaped
<1>4. Shaped'
  BY <1>1, <1>3 DEF Inv, Shaped
<1>5. Working'
  BY <1>1 DEF Inv, Working
<1>6. Own' /\ \A k \in Job : Given(k)' = Given(k)
  BY <1>1 DEF Inv, Own, Given
<1>7. ASSUME NEW k \in Job, NEW m \in Node, m \in going', m \notin going, batch'[k] # <<>>,
             m \in DOMAIN batch'[k].result, batch'[k].result[m] = "held"
      PROVE  Shared(k, m)
  <2>1. m = n /\ k # j
    BY <1>1, <1>3, <1>7
  <2> QED BY <2>1 DEF Inv, Own, Given, Shared
<1>8. /\ \A k \in Job : batch'[k] # <<>> => batch[k] # <<>>
      /\ \A k \in Job, m \in Node : batch'[k] # <<>> /\ m \in DOMAIN batch'[k].result /\ batch'[k].result[m] = "held"
           => m \in DOMAIN batch[k].result /\ batch[k].result[m] = "held"
  BY <1>1
<1> QED BY <1>2, <1>3, <1>4, <1>5, <1>6, <1>7, <1>8, LiftStep

\* The domain of the phases does not change when one is set.
LEMMA PhaseSet ==
    ASSUME Inv, NEW j \in Job, NEW nodes, NEW phase, allJobs[j] # <<>>,
           allJobs' = [allJobs EXCEPT ![j] = setNodePhase(j, nodes, phase)]
    PROVE  /\ allJobs' = [k \in Job |-> allJobs'[k]]
           /\ \A k \in Job : allJobs'[k] = <<>> \/ (allJobs[k] # <<>> /\ DOMAIN allJobs'[k] = DOMAIN allJobs[k])
<1>0. allJobs = [k \in Job |-> allJobs[k]]
  BY DEF Inv, Shaped
<1>1. allJobs' = [k \in Job |-> allJobs'[k]] /\ \A k \in Job : k # j => allJobs'[k] = allJobs[k]
  BY <1>0
<1>2. allJobs'[j] = setNodePhase(j, nodes, phase)
  BY <1>0
<1>3. DOMAIN allJobs'[j] = DOMAIN allJobs[j]
  BY <1>2 DEF setNodePhase
<1> QED BY <1>1, <1>3

\* A node is worked on, or not reached.
LEMMA WorkStep == ASSUME Inv, NEW j \in Job, NEW n \in Node, Work(j, n) \/ NotReached(j, n) PROVE Inv'
<1>0. allJobs = [k \in Job |-> allJobs[k]]
  BY DEF Inv, Shaped
<1>1. CASE Work(j, n)
  <2>1. PICK x : handleNode(j, n, x) /\ x \in {"ok", "nothing", "inuse", "script", "net"}
    BY <1>1 DEF Work
  <2>2. /\ UNCHANGED <<job, fault, removed>> /\ batch[j] # <<>> /\ n \in DOMAIN batch[j].result
        /\ Spend("fails") \/ UNCHANGED left
    BY <1>1 DEF Work
  <2>3. /\ batch' = [batch EXCEPT ![j].result[n] = x,
                                  ![j].tries = IF x \in {"script", "net"} THEN batch[j].tries + 1 ELSE batch[j].tries]
        /\ going' = going \/ deleteFault(n)
    <3>1. /\ batch = [k \in Job |-> batch[k]]
          /\ batch[j] = [using |-> batch[j].using, tries |-> batch[j].tries, result |-> batch[j].result]
      BY <2>2 DEF Inv, Shaped, BatchShape
    <3> QED BY <2>1, <3>1 DEF handleNode
  <2>4. /\ allJobs' = [k \in Job |-> allJobs'[k]]
        /\ \A k \in Job : allJobs'[k] = <<>> \/ (allJobs[k] # <<>> /\ DOMAIN allJobs'[k] = DOMAIN allJobs[k])
    <3>1. CASE allJobs' = allJobs
      BY <1>0, <3>1
    <3>2. CASE allJobs' = [allJobs EXCEPT ![j] = setNodePhase(j, {n}, "succeeded")] /\ allJobs[j] # <<>>
      BY <3>2, PhaseSet
    <3> QED BY <2>1, <3>1, <3>2 DEF handleNode
  <2> DEFINE t == IF x \in {"script", "net"} THEN batch[j].tries + 1 ELSE batch[j].tries
  <2>5. Writes(j, n, x, t)
    BY <2>3 DEF Writes
  <2> HIDE DEF t
  <2>6. x # "held"
    BY <2>1
  <2> QED BY <2>2, <2>3, <2>4, <2>5, <2>6, ResultStep
<1>2. CASE NotReached(j, n)
  <2>1. /\ UNCHANGED <<job, fault, removed, going, allJobs>> /\ batch[j] # <<>> /\ n \in DOMAIN batch[j].result
        /\ Spend("fails") \/ UNCHANGED left
        /\ batch' = [batch EXCEPT ![j].result[n] = "net", ![j].tries = @ + 1]
    BY <1>2 DEF NotReached, Due
  <2> DEFINE t == batch[j].tries + 1
  <2>2. Writes(j, n, "net", t)
    <3>1. /\ batch = [k \in Job |-> batch[k]]
          /\ batch[j] = [using |-> batch[j].using, tries |-> batch[j].tries, result |-> batch[j].result]
      BY <2>1 DEF Inv, Shaped, BatchShape
    <3> QED BY <2>1, <3>1 DEF Writes
  <2> HIDE DEF t
  <2> QED BY <1>0, <2>1, <2>2, ResultStep
<1> QED BY <1>1, <1>2

\* A node that leaves takes its fault with it, or leaves it.
LEMMA RemovedStep == ASSUME Inv, NEW n \in Node, handleNodeRemovedEvent(n) PROVE Inv'
<1>1. /\ UNCHANGED <<job, batch, fault>> /\ removed' = removed \cup {n}
      /\ going' = going \/ deleteFault(n)
      /\ Spend("removed")
  BY DEF handleNodeRemovedEvent
<1>2. Counted' /\ left'.misses <= left.misses
  BY <1>1, Spent
<1>3. /\ going \subseteq going' /\ going' \subseteq going \cup {n}
      /\ going' \subseteq {m \in Node : fault[m] # None}
  BY <1>1 DEF deleteFault, Inv, Shaped
<1>4. /\ allJobs' = [k \in Job |-> allJobs'[k]]
      /\ \A k \in Job : allJobs'[k] = allJobs[k] \/ (allJobs[k] # <<>> /\ DOMAIN allJobs'[k] = DOMAIN allJobs[k])
  <2> DEFINE hit == {j \in Job : ~IsEnd(j) /\ Open(j, n)}
  <2>1. allJobs' = [j \in Job |-> IF j \in hit THEN setNodePhase(j, {n}, "failed") ELSE allJobs[j]]
    BY DEF handleNodeRemovedEvent
  <2>2. \A j \in hit : allJobs[j] # <<>>
    BY DEF Open
  <2>3. \A j \in Job : DOMAIN setNodePhase(j, {n}, "failed") = DOMAIN allJobs[j]
    BY DEF setNodePhase
  <2> HIDE DEF hit
  <2> QED BY <2>1, <2>2, <2>3
<1>5. Shaped'
  BY <1>1, <1>3, <1>4 DEF Inv, Shaped
<1>6. Working'
  BY <1>1 DEF Inv, Working
<1>7. Own' /\ \A k \in Job : Given(k)' = Given(k)
  <2>1. \A k \in Job : job[k].state = "new" => allJobs'[k] = <<>>
    BY <1>4 DEF Inv, Own
  <2>2. \A k \in Job : allJobs'[k] # <<>> => DOMAIN allJobs'[k] \subseteq Given(k)
    BY <1>4 DEF Inv, Own
  <2> QED BY <1>1, <2>1, <2>2 DEF Inv, Own, Given
<1> QED BY <1>1, <1>2, <1>3, <1>5, <1>6, <1>7, LiftStep

\* The fault controller lets a fault go that was being deleted.
LEMMA GoneStep == ASSUME Inv, NEW n \in Node, FaultGone(n) PROVE Inv'
<1>1. /\ UNCHANGED <<job, allJobs, batch, removed, left>> /\ n \in going
      /\ going' = going \ {n} /\ fault' = [fault EXCEPT ![n] = None]
  BY DEF FaultGone
<1>2. \A m \in Node : fault'[m] = IF m = n THEN None ELSE fault[m]
  BY <1>1 DEF Inv, Shaped
<1>3. Shaped' /\ Counted' /\ Working'
  BY <1>1, <1>2 DEF Inv, Shaped, Counted, Working
<1>4. Own' /\ GoneIsClean'
  BY <1>1, <1>2 DEF Inv, Own, Given, GoneIsClean
<1>5. HeldWhileWorking'
  BY <1>1, <1>2 DEF Inv, HeldWhileWorking, Shared
<1> QED BY <1>3, <1>4, <1>5 DEF Inv

\* Users and timeouts.
LEMMA UserStep ==
    ASSUME Inv, NEW j \in Job,
           createJob(j) \/ deleteJob(j) \/ deleteExpiredJob(j) \/ TimesOut(j)
    PROVE  Inv'
<1>1. UNCHANGED <<allJobs, batch, fault, going, removed, left>>
  BY DEF createJob, deleteJob, deleteExpiredJob, TimesOut
<1>2. /\ batch[j] # <<>> => job[j].state # "new"
      /\ JobShape(job[j]) /\ allJobs = [k \in Job |-> allJobs[k]]
  BY DEF Inv, Working, Shaped
<1>3. Counted' /\ left'.misses <= left.misses
  BY <1>1, Spent
<1>4. CASE createJob(j)
  <2>1. PICK inputs : job' = [job EXCEPT ![j] = [state |-> "live", finished |-> FALSE,
                                                 timeout |-> FALSE, phase |-> "", inputs |-> inputs]]
    BY <1>4 DEF createJob
  <2> DEFINE r == [state |-> "live", finished |-> FALSE, timeout |-> FALSE, phase |-> "", inputs |-> inputs]
  <2>2. JobShape(r) /\ r.state = "live"
    BY DEF JobShape, JobFields
  <2>3. job[j].state = "new" /\ allJobs'[j] = <<>> /\ job' = [job EXCEPT ![j] = r]
    BY <1>1, <1>4, <2>1 DEF createJob, Inv, Own
  <2> HIDE DEF r
  <2> QED BY <1>1, <1>2, <1>3, <2>2, <2>3, JobStep
<1>5. CASE deleteJob(j) \/ deleteExpiredJob(j)
  <2> DEFINE r == [job[j] EXCEPT !.state = "deleting"]
  <2>1. job' = [job EXCEPT ![j] = r]
    BY <1>5 DEF deleteJob, deleteExpiredJob
  <2>2. JobShape(r) /\ r.state = "deleting" /\ r.inputs = job[j].inputs
    BY <1>2 DEF JobShape, JobFields
  <2> HIDE DEF r
  <2>3. Range(r.inputs) = Given(j) /\ (allJobs'[j] # <<>> => DOMAIN allJobs'[j] \subseteq Range(r.inputs))
    BY <1>1, <2>2 DEF Inv, Own, Given
  <2> QED BY <1>1, <1>2, <1>3, <2>1, <2>2, <2>3, JobStep
<1>6. CASE TimesOut(j)
  <2> DEFINE r == [job[j] EXCEPT !.timeout = TRUE]
  <2>1. job' = [job EXCEPT ![j] = r] /\ job[j].state = "live"
    BY <1>6 DEF TimesOut, Live
  <2>2. JobShape(r) /\ r.state = job[j].state /\ r.inputs = job[j].inputs
    BY <1>2 DEF JobShape, JobFields
  <2> HIDE DEF r
  <2>3. Range(r.inputs) = Given(j) /\ (allJobs'[j] # <<>> => DOMAIN allJobs'[j] \subseteq Range(r.inputs))
    BY <1>1, <2>2 DEF Inv, Own, Given
  <2> QED BY <1>1, <1>2, <1>3, <2>1, <2>2, <2>3, JobStep
<1> QED BY <1>4, <1>5, <1>6

\* Inv is inductive.
LEMMA InvStep == Inv /\ [Next]_vars => Inv'
<1> SUFFICES ASSUME Inv, [Next]_vars PROVE Inv'
  OBVIOUS
<1>0. allJobs = [k \in Job |-> allJobs[k]] /\ batch = [k \in Job |-> batch[k]]
  BY DEF Inv, Shaped
<1>1. ASSUME NEW j \in Job, createJob(j) \/ deleteJob(j) \/ deleteExpiredJob(j) \/ TimesOut(j)
      PROVE  Inv'
  BY <1>1, UserStep
<1>2. ASSUME NEW j \in Job, Reconcile(j) PROVE Inv'
  BY <1>2, ReconcileStep
<1>3. ASSUME NEW j \in Job, NEW n \in Node, createFault(j, n) PROVE Inv'
  BY <1>3, CreateFaultStep
<1>4. ASSUME NEW j \in Job, End(j) PROVE Inv'
  <2>1. UNCHANGED <<job, fault, going, removed, left>> /\ batch' = [batch EXCEPT ![j] = <<>>]
    BY <1>4 DEF End
  <2>2. batch' = [k \in Job |-> batch'[k]] /\ \A k \in Job : batch'[k] \in {batch[k], <<>>}
    BY <1>0, <2>1
  <2>3. /\ allJobs' = [k \in Job |-> allJobs'[k]]
        /\ \A k \in Job : allJobs'[k] = <<>> \/ (allJobs[k] # <<>> /\ DOMAIN allJobs'[k] = DOMAIN allJobs[k])
    <3>1. PICK nodes : allJobs' = IF allJobs[j] = <<>> THEN allJobs
                                  ELSE [allJobs EXCEPT ![j] = setNodePhase(j, nodes, "failed")]
      BY <1>4 DEF End
    <3>2. CASE allJobs' = allJobs
      BY <1>0, <3>2
    <3>3. CASE allJobs' = [allJobs EXCEPT ![j] = setNodePhase(j, nodes, "failed")] /\ allJobs[j] # <<>>
      BY <3>3, PhaseSet
    <3> QED BY <3>1, <3>2, <3>3
  <2> QED BY <2>1, <2>2, <2>3, EndStep, Spent
<1>5. ASSUME NEW j \in Job, NEW n \in Node, Work(j, n) \/ NotReached(j, n) PROVE Inv'
  BY <1>5, WorkStep
<1>6. ASSUME NEW n \in Node, WorkStarts(n) \/ WorkEnds(n) PROVE Inv'
  <2>1. UNCHANGED <<job, batch, fault, going, allJobs, removed>> /\ (Spend("work") \/ UNCHANGED left)
    BY <1>6 DEF WorkStarts, WorkEnds
  <2> QED BY <2>1, OtherStep, Spent
<1>7. ASSUME NEW n \in Node, handleNodeRemovedEvent(n) \/ FaultGone(n) PROVE Inv'
  BY <1>7, RemovedStep, GoneStep
<1>8. CASE Restart
  <2>1. /\ UNCHANGED <<job, fault, going, removed>> /\ Spend("restarts")
        /\ batch' = [k \in Job |-> <<>>] /\ allJobs' = [k \in Job |-> <<>>]
    BY <1>8 DEF Restart
  <2> QED BY <2>1, EndStep, Spent
<1>9. CASE UNCHANGED vars
  BY <1>9, OtherStep, Spent DEF vars
<1> QED BY <1>1, <1>2, <1>3, <1>4, <1>5, <1>6, <1>7, <1>8, <1>9 DEF Next, Step

-----------------------------------------------------------------------------
\* A job that is gone has left no fault but those that are being deleted, unless its
\* CleanupJobRelatedResource missed one; and while its script may run on a node nothing
\* takes away the fault that createFault made or found, unless the node leaves, another
\* job was made for it too, or the fault was being deleted already: whatever failed
\* scripts and calls, timeouts, deletions and restarts do to a batch under way.
THEOREM JobTaintsKept == None \notin Job /\ MaxMisses \in Nat /\ Spec => []JobTaints
<1>1. None \notin Job /\ MaxMisses \in Nat /\ Init => Inv
  <2> SUFFICES ASSUME None \notin Job, MaxMisses \in Nat, Init PROVE Inv
    OBVIOUS
  <2>1. /\ job = [j \in Job |-> [state |-> "new", finished |-> FALSE, timeout |-> FALSE,
                                 phase |-> "", inputs |-> <<>>]]
        /\ batch = [j \in Job |-> <<>>] /\ fault = [n \in Node |-> None]
        /\ allJobs = [j \in Job |-> <<>>] /\ going = {}
    BY DEF Init
  <2>2. \A j \in Job : JobShape(job[j]) /\ job[j].state = "new" /\ job[j].inputs = <<>>
    BY <2>1 DEF JobShape, JobFields
  <2>3. \A j \in Job : batch[j] = <<>> /\ allJobs[j] = <<>>
    BY <2>1
  <2>4. Shaped
    BY <2>1, <2>2, <2>3 DEF Shaped
  <2>5. Counted
    <3>1. left = [fails |-> MaxFails, misses |-> MaxMisses, removed |-> MaxRemoved, work |-> MaxWork,
                  restarts |-> MaxRestarts]
      BY DEF Init
    <3>2. "misses" \in DOMAIN left /\ left.misses = MaxMisses
      BY <3>1
    <3> QED BY <3>2 DEF Counted
  <2>6. Own
    <3>1. Range(<< >>) = {}
      BY DEF Range
    <3> QED BY <2>1, <2>2, <2>3, <3>1 DEF Own, Given
  <2> QED BY <2>1, <2>2, <2>3, <2>4, <2>5, <2>6 DEF Inv, Working, GoneIsClean, HeldWhileWorking
<1>2. Inv => JobTaints
  BY DEF Inv, JobTaints
<1> QED BY <1>1, <1>2, InvStep, PTL DEF Spec

=============================================================================

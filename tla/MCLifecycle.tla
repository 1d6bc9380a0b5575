----------------------------- MODULE MCLifecycle -----------------------------
(***************************************************************************)
(* The workload lifecycle with the bounds of the configurations, one        *)
(* scenario at a time: a behaviour picks its scenario at the start and      *)
(* keeps it, so that a run explores the scenarios side by side.  The        *)
(* scenario "plain" is the specification with the constants of the          *)
(* configuration; the others change some of them.                           *)
(***************************************************************************)
EXTENDS WorkloadLifecycle

CONSTANT Scenarios       \* the scenarios of the run

VARIABLE scenario

\* A Ray job: no retries, a preemption, and a cache two versions behind.
Preempting == INSTANCE WorkloadLifecycle WITH
    RayJob <- TRUE, MaxRetry <- 0, MaxCount <- 1, MaxLag <- 2, MaxPreempts <- 1, TTLPasses <- FALSE

\* The job-manager restarts once.
Restarting == INSTANCE WorkloadLifecycle WITH
    HasJobPort <- TRUE, MaxCrashes <- 1, TTLPasses <- FALSE

\* An object deleted from outside.
Losing == INSTANCE WorkloadLifecycle WITH
    MaxCount <- 1, MaxExternal <- 1, TTLPasses <- FALSE

\* A fault of a node under the workload.
Faulting == INSTANCE WorkloadLifecycle WITH
    MaxCount <- 1, MaxFaults <- 1, TTLPasses <- FALSE

\* An application that times out or is deleted by its user.
Ending == INSTANCE WorkloadLifecycle WITH
    Application <- TRUE, HasTimeout <- TRUE, HasJobPort <- TRUE, MaxCount <- 1, UserDeletes <- TRUE,
    TTLPasses <- FALSE

MCInit ==
    /\ scenario \in Scenarios
    /\ \/ scenario = "plain" /\ Init
       \/ scenario = "preempting" /\ Preempting!Init
       \/ scenario = "restarting" /\ Restarting!Init
       \/ scenario = "losing" /\ Losing!Init
       \/ scenario = "faulting" /\ Faulting!Init
       \/ scenario = "ending" /\ Ending!Init

MCNext ==
    /\ \/ scenario = "plain" /\ Next
       \/ scenario = "preempting" /\ Preempting!Next
       \/ scenario = "restarting" /\ Restarting!Next
       \/ scenario = "losing" /\ Losing!Next
       \/ scenario = "faulting" /\ Faulting!Next
       \/ scenario = "ending" /\ Ending!Next
    /\ UNCHANGED scenario

MCSpec == MCInit /\ [][MCNext]_<<vars, scenario>>

\* The fairness of the specification, in the scenarios with liveness properties.
\* A behaviour has one scenario, so fairness of the disjunction is fairness in it.
OneOf(plain, losing, faulting, ending) ==
    \/ scenario = "plain" /\ plain
    \/ scenario = "losing" /\ losing
    \/ scenario = "faulting" /\ faulting
    \/ scenario = "ending" /\ ending

MCFairSpec ==
    /\ MCSpec
    /\ WF_vars(OneOf(DeliverWatch, Losing!DeliverWatch, Faulting!DeliverWatch, Ending!DeliverWatch))
    /\ WF_vars(OneOf(DeliverEvent, Losing!DeliverEvent, Faulting!DeliverEvent, Ending!DeliverEvent))
    /\ WF_vars(OneOf(ObjectGone, Losing!ObjectGone, Faulting!ObjectGone, Ending!ObjectGone))
    /\ WF_vars(OneOf(SchedDelete \/ SchedFinalize, Losing!SchedDelete \/ Losing!SchedFinalize,
                     Faulting!SchedDelete \/ Faulting!SchedFinalize, Ending!SchedDelete \/ Ending!SchedFinalize))
    /\ WF_vars(OneOf(Dispatcher, Losing!Dispatcher, Faulting!Dispatcher, Ending!Dispatcher))
    /\ WF_vars(OneOf(Failover, Losing!Failover, Faulting!Failover, Ending!Failover))
    /\ WF_vars(OneOf(Syncer, Losing!Syncer, Faulting!Syncer, Ending!Syncer))
    /\ WF_vars(OneOf(TTLDelete, Losing!TTLDelete, Faulting!TTLDelete, Ending!TTLDelete))
    /\ WF_vars(OneOf(SchedStatus \/ SchedAnnotate, Losing!SchedStatus \/ Losing!SchedAnnotate,
                     Faulting!SchedStatus \/ Faulting!SchedAnnotate, Ending!SchedStatus \/ Ending!SchedAnnotate))

-----------------------------------------------------------------------------
(* What comments of the code say, and the code does not do.                 *)

\* shouldReSchedule asks for the preemption mark to prevent "issues when the
\* service restarts during the preemption process, which could cause message
\* loss": the loss of a preempted attempt is noticed, across a restart too.
PreemptedRecovered == LostAttempt /\ wl.preempted ~> ~LostAttempt

\* The scheduler's delete "handles the deletion of a workload and its associated
\* resources": once the workload is gone, no object of it stays behind.
NoOrphan == wl = None ~> obj = None

\* shouldReSchedule "Returns true when [...] the associated Kubernetes object has
\* been deleted (ResourceDel action)": a workload whose snapshot is current is
\* not rescheduled while the object of its attempt is alive.
ReschedulesOnlyLostAttempt ==
    [][spc = "decide" /\ spc' = "annotate" /\ ssnap = wl => obj = None \/ obj.deleting]_vars
=============================================================================

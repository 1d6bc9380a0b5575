------------------------------- MODULE Addons -------------------------------
(***************************************************************************)
(* An addon of a cluster: requests and the cluster's controller make,      *)
(* change and delete the Addon object, and the addon controller installs,  *)
(* upgrades, rolls back and uninstalls its Helm release and writes down    *)
(* what it did.  The controller reads a cache that may be behind; its      *)
(* status writes are merge patches without a version.  An addon whose      *)
(* release is the robust analyzer also has an endpoint, noted at the       *)
(* cluster, and two data sources of Grafana.                               *)
(***************************************************************************)
EXTENDS Integers, Sequences

CONSTANTS Template,     \* the addon templates, of type Helm
          Values,       \* values that users give
          Default,      \* the default values of each template
          Ops,          \* what users and clusters do
          Robust,       \* whether the release is the robust analyzer's
          Prompt,       \* whether the controller starts from a cache that is up to date
          Failing,      \* the calls that may fail
          MaxEdits, MaxRevisions, MaxFaults, MaxCrashes

VARIABLES addon,      \* the Addon object, with the version of its last change
          cached,     \* the controller's copy
          queued,     \* whether the controller has been told to look
          run,        \* what the controller is doing, with the copy it took
          rel,        \* the revisions of the Helm release
          templates,  \* the templates there are; the newest is the default one
          clusterUp, endpoint, sources,
          crd,        \* what the controller knows of Grafana
          edits, faults, crashes

addonsVars == <<addon, cached, queued, run, rel, templates, clusterUp, endpoint, sources, crd,
                edits, faults, crashes>>

grafana == <<endpoint, sources, crd>>
outside == <<templates, clusterUp, edits, crashes>>

\* The last fields are the status: on says whether there is one of Helm.
NoAddon == [exists |-> FALSE, rv |-> 0, finalizer |-> FALSE, deleting |-> FALSE, owned |-> FALSE,
            tmpl |-> "", vals |-> "", prev |-> 0, phase |-> "",
            on |-> FALSE, status |-> "", ver |-> 0, dvals |-> "", dtmpl |-> "", dprev |-> 0]

Idle == [pc |-> "idle", copy |-> NoAddon]

Both == {"prometheus", "robust-api"}

Init ==
    /\ addon = NoAddon /\ cached = NoAddon /\ queued = FALSE /\ run = Idle /\ rel = <<>>
    /\ templates = <<CHOOSE t \in Template : TRUE>> /\ clusterUp = TRUE
    /\ endpoint = FALSE /\ sources = {} /\ crd = "unchecked"
    /\ edits = 0 /\ faults = 0 /\ crashes = 0

Fault(call) == call \in Failing /\ faults < MaxFaults /\ faults' = faults + 1

\* A write of the object: what changed since old is written over what is there now.
Merged(old, new) == [f \in DOMAIN addon |-> IF new[f] = old[f] THEN addon[f] ELSE new[f]]

Patch(old, new) ==
    addon' = IF ~addon.exists \/ Merged(old, new) = addon THEN addon
             ELSE [Merged(old, new) EXCEPT !.rv = addon.rv + 1]

-----------------------------------------------------------------------------
(* Users and the cluster's controller.                                      *)

Edit(op) == op \in Ops /\ edits < MaxEdits /\ edits' = edits + 1

NewAddon(t, v, owned) ==
    [NoAddon EXCEPT !.exists = TRUE, !.rv = addon.rv + 1, !.tmpl = t, !.vals = v, !.owned = owned]

\* createAddon: the values default to those of the template at this time.
createAddon ==
    /\ Edit("create") /\ clusterUp /\ ~addon.exists
    /\ \E i \in DOMAIN templates, v \in Values \cup {""} :
         addon' = NewAddon(templates[i], IF v = "" THEN Default[templates[i]] ELSE v, FALSE)
    /\ UNCHANGED <<cached, queued, run, rel, templates, clusterUp, grafana, faults, crashes>>

\* patchAddon: an update of the version that was read; an empty value changes nothing.
patchAddon ==
    /\ Edit("patch") /\ addon.exists
    /\ \E t \in Template, v \in Values \cup {""} :
         LET new == [addon EXCEPT !.tmpl = t, !.vals = IF v = "" THEN @ ELSE v] IN
         new # addon /\ addon' = [new EXCEPT !.rv = @ + 1]
    /\ UNCHANGED <<cached, queued, run, rel, templates, clusterUp, grafana, faults, crashes>>

\* An earlier revision is asked for.
SetPreviousVersion ==
    /\ Edit("rollback") /\ addon.exists
    /\ \E n \in 1 .. Len(rel) : n # addon.prev /\ addon' = [addon EXCEPT !.prev = n, !.rv = @ + 1]
    /\ UNCHANGED <<cached, queued, run, rel, templates, clusterUp, grafana, faults, crashes>>

Deleted(a) == IF a.finalizer THEN [a EXCEPT !.deleting = TRUE, !.rv = @ + 1]
              ELSE [NoAddon EXCEPT !.rv = a.rv + 1]

\* deleteAddon, and cleanupDeprecatedDefaultNginxAddon for what a cluster owns.
deleteAddon ==
    /\ Edit("delete") /\ addon.exists /\ ~addon.deleting /\ addon' = Deleted(addon)
    /\ UNCHANGED <<cached, queued, run, rel, templates, clusterUp, grafana, faults, crashes>>

\* guaranteeDefaultAddon: the addon of the newest template is created or pointed to it.
guaranteeDefaultAddon ==
    /\ "default" \in Ops /\ clusterUp
    /\ LET t == templates[Len(templates)] IN
       \/ /\ ~cached.exists /\ ~addon.exists /\ edits < MaxEdits /\ edits' = edits + 1
          /\ addon' = NewAddon(t, "", TRUE)
       \/ /\ cached.exists /\ addon.exists /\ cached.tmpl # t
          /\ Patch(cached, [cached EXCEPT !.tmpl = t]) /\ addon' # addon /\ UNCHANGED edits
    /\ UNCHANGED <<cached, queued, run, rel, templates, clusterUp, grafana, faults, crashes>>

\* A chart is upgraded: a template of another name replaces the one there was.
NewTemplate ==
    /\ Edit("default")
    /\ \E t \in Template : t # templates[Len(templates)] /\ templates' = <<t>>
    /\ UNCHANGED <<addon, cached, queued, run, rel, clusterUp, grafana, faults, crashes>>

\* A cluster goes, and with it the release; the addons it owns are deleted.
ClusterGone ==
    /\ Edit("cluster") /\ clusterUp /\ clusterUp' = FALSE /\ rel' = <<>>
    /\ run.pc = "idle" /\ addon' = IF addon.owned /\ ~addon.deleting THEN Deleted(addon) ELSE addon
    /\ UNCHANGED <<cached, queued, run, templates, grafana, faults, crashes>>

-----------------------------------------------------------------------------
(* The controller.                                                          *)

\* An event: the cache catches up, and the controller is told.
Sync ==
    /\ cached # addon /\ cached' = addon /\ queued' = TRUE
    /\ UNCHANGED <<addon, run, rel, grafana, faults, outside>>

isStatusReady(a) == a.status \notin {"failed", "error"}
areValuesEqual(a) == a.vals = "" \/ a.vals = a.dvals
isTemplateVersionEqual(a) == a.tmpl = a.dtmpl

shouldIgnoreUpgrade(a) == isStatusReady(a) /\ areValuesEqual(a) /\ isTemplateVersionEqual(a)

Begin(pc) == run' = [pc |-> pc, copy |-> cached] /\ UNCHANGED <<addon, faults>>

Over == run' = Idle

\* A write with the version of the copy: removing the finalizer ends a deletion.
PatchFinalizer(on) ==
    IF cached.rv # addon.rv THEN queued' = TRUE /\ UNCHANGED addon
    ELSE /\ queued' = FALSE
         /\ addon' = IF on THEN [addon EXCEPT !.finalizer = TRUE, !.rv = @ + 1]
                     ELSE [NoAddon EXCEPT !.rv = addon.rv + 1]

\* guaranteeHelmAddon, up to the call of Helm.  Nothing is done without the cluster.
guaranteeHelmAddon ==
    /\ queued /\ run.pc = "idle" /\ (Prompt => cached = addon)
    /\ LET a == cached
           ends == Over /\ UNCHANGED faults
       IN \/ (~a.exists \/ ~clusterUp) /\ queued' = FALSE /\ ends /\ UNCHANGED addon
          \/ /\ a.exists /\ clusterUp
             /\ \/ a.deleting /\ a.phase = "deleted" /\ PatchFinalizer(FALSE) /\ ends
                \/ /\ a.deleting /\ a.phase \notin {"deleted", "deleting"}
                   /\ queued' = FALSE /\ Patch(a, [a EXCEPT !.phase = "deleting"]) /\ ends
                \/ a.deleting /\ a.phase = "deleting" /\ queued' = FALSE /\ Begin("uninstall")
                \/ ~a.deleting /\ ~a.finalizer /\ PatchFinalizer(TRUE) /\ ends
                \/ ~a.deleting /\ a.finalizer /\ ~a.on /\ queued' = FALSE /\ Begin("install")
                \/ /\ ~a.deleting /\ a.finalizer /\ a.on /\ queued' = FALSE
                   /\ Begin(IF ~shouldIgnoreUpgrade(a) THEN "upgrade"
                            ELSE IF a.prev # 0 /\ a.dprev # a.prev THEN "rollback" ELSE "status")
                \/ a.phase # "deleting" /\ a.deleting = a.finalizer /\ Fault("write") /\ Over /\ UNCHANGED <<addon, queued>>
    /\ UNCHANGED <<cached, rel, grafana, outside>>

Go(pc) == run' = [run EXCEPT !.pc = pc]

Last == rel[Len(rel)]

Pending == rel # <<>> /\ Last.status \in {"pending-install", "pending-upgrade", "pending-rollback"}

Revision(t, v, s) == [tmpl |-> t, vals |-> v, status |-> s]

\* getHelm: the chart and the values, or no template of that name.
HasTemplate(a) == \E i \in DOMAIN templates : templates[i] = a.tmpl
ValuesOf(a) == IF a.vals = "" THEN Default[a.tmpl] ELSE a.vals

\* helmInstall: a name in use is not installed again.
helmInstall ==
    /\ run.pc = "install"
    /\ \/ HasTemplate(run.copy) /\ rel = <<>>
          /\ rel' = <<Revision(run.copy.tmpl, ValuesOf(run.copy), "pending-install")>> /\ Go("wait")
       \/ HasTemplate(run.copy) /\ rel # <<>> /\ Go("status") /\ UNCHANGED rel
       \/ ~HasTemplate(run.copy) /\ Go("error") /\ UNCHANGED rel
    /\ UNCHANGED <<addon, cached, queued, grafana, faults, outside>>

\* helmUpgrade: not without a release, nor while one of its operations is pending.
helmUpgrade ==
    /\ run.pc = "upgrade"
    /\ IF HasTemplate(run.copy) /\ rel # <<>> /\ ~Pending
       THEN /\ Len(rel) < MaxRevisions
            /\ rel' = Append(rel, Revision(run.copy.tmpl, ValuesOf(run.copy), "pending-upgrade"))
            /\ Go("wait")
       ELSE Go("error") /\ UNCHANGED rel
    /\ UNCHANGED <<addon, cached, queued, grafana, faults, outside>>

helmRollback ==
    /\ run.pc = "rollback"
    /\ IF run.copy.prev \in 1 .. Len(rel)
       THEN /\ Len(rel) < MaxRevisions
            /\ rel' = Append(rel, [rel[run.copy.prev] EXCEPT !.status = "pending-rollback"])
            /\ Go("wait") /\ UNCHANGED queued
       ELSE Over /\ queued' = TRUE /\ UNCHANGED rel
    /\ UNCHANGED <<addon, cached, grafana, faults, outside>>

\* Helm comes to an end, and the release is deployed or has failed.
HelmEnds ==
    /\ run.pc = "wait"
    /\ LET back == Last.status = "pending-rollback" IN
       \/ /\ rel' = [rel EXCEPT ![Len(rel)].status = "deployed"]
          /\ Go(IF back THEN "rolled" ELSE "record") /\ UNCHANGED <<queued, faults>>
       \/ /\ Fault("helm") /\ rel' = [rel EXCEPT ![Len(rel)].status = "failed"]
          /\ IF back THEN Over /\ queued' = TRUE ELSE Go("error") /\ UNCHANGED queued
    /\ UNCHANGED <<addon, cached, grafana, outside>>

\* rollbackValues: the spec and the status get the values of the revision, but the
\* template stays.
RecordRollback ==
    /\ run.pc = "rolled" /\ Over
    /\ \/ /\ Patch(run.copy, [run.copy EXCEPT !.vals = Last.vals, !.dvals = Last.vals, !.dprev = run.copy.prev])
          /\ UNCHANGED <<queued, faults>>
       \/ Fault("write") /\ queued' = TRUE /\ UNCHANGED addon
    /\ UNCHANGED <<cached, rel, grafana, outside>>

\* patchErrorStatus: the phase only, and another try.
patchErrorStatus ==
    /\ run.pc = "error" /\ Over /\ queued' = TRUE
    /\ \/ Patch(run.copy, [run.copy EXCEPT !.phase = "error"]) /\ UNCHANGED faults
       \/ Fault("write") /\ UNCHANGED addon
    /\ UNCHANGED <<cached, rel, grafana, outside>>

\* helmStatus: a release that is not found is an error.
helmStatus ==
    /\ run.pc = "status"
    /\ IF rel # <<>> THEN Go("record") /\ UNCHANGED queued ELSE Over /\ queued' = TRUE
    /\ UNCHANGED <<addon, cached, rel, grafana, faults, outside>>

\* ensureCRD: asked once; an error counts as no Grafana until the next start.
ensureCRD == crd \in {"unchecked", "ready"}

\* registerRobustEndpointIfApplicable: failures are left at that.
registerRobustEndpointIfApplicable ==
    IF Robust /\ Last.status = "deployed"
    THEN \/ /\ endpoint' = TRUE /\ sources' = IF ensureCRD THEN Both ELSE sources
            /\ crd' = (IF crd = "unchecked" THEN "ready" ELSE crd) /\ UNCHANGED faults
         \/ /\ Fault("grafana")
            /\ \/ UNCHANGED grafana
               \/ endpoint' = TRUE /\ crd = "unchecked" /\ crd' = "none" /\ UNCHANGED sources
               \/ endpoint' = TRUE /\ crd' = "ready" /\ ensureCRD /\ sources' = sources \cup {"robust-api"}
    ELSE UNCHANGED <<grafana, faults>>

\* updateAddonHelmStatus: what the copy asked for is noted as what there is.
updateAddonHelmStatus ==
    /\ run.pc = "record" /\ Over
    /\ LET a == run.copy
           new == [a EXCEPT !.on = TRUE, !.status = Last.status, !.ver = Len(rel),
                            !.dvals = a.vals, !.dtmpl = a.tmpl,
                            !.phase = IF Last.status = "deployed" THEN "running" ELSE Last.status]
       IN \/ registerRobustEndpointIfApplicable /\ Patch(a, new) /\ UNCHANGED queued
          \/ Fault("write") /\ queued' = TRUE /\ UNCHANGED <<addon, grafana>>
    /\ UNCHANGED <<cached, rel, outside>>

\* helmUninstall: a release the status does not know of is left.
helmUninstall ==
    /\ run.pc = "uninstall"
    /\ \/ Go("cleanup") /\ rel' = (IF run.copy.on THEN <<>> ELSE rel) /\ UNCHANGED <<queued, faults>>
       \/ run.copy.on /\ Fault("helm") /\ Over /\ queued' = TRUE /\ UNCHANGED rel
    /\ UNCHANGED <<addon, cached, grafana, outside>>

cleanupRobustGrafanaDatasources ==
    /\ run.pc = "cleanup" /\ Over
    /\ \/ /\ sources' = IF Robust /\ ensureCRD THEN {} ELSE sources
          /\ crd' = IF Robust /\ crd = "unchecked" THEN "ready" ELSE crd
          /\ Patch(run.copy, [run.copy EXCEPT !.phase = "deleted"]) /\ UNCHANGED <<queued, faults>>
       \/ Fault("write") /\ queued' = TRUE /\ UNCHANGED <<addon, sources, crd>>
    /\ UNCHANGED <<cached, rel, endpoint, outside>>

Crash ==
    /\ crashes < MaxCrashes /\ crashes' = crashes + 1
    /\ run' = Idle /\ queued' = TRUE /\ crd' = "unchecked" /\ cached' = addon
    /\ UNCHANGED <<addon, rel, templates, clusterUp, endpoint, sources, edits, faults>>

Controller ==
    \/ guaranteeHelmAddon \/ helmInstall \/ helmUpgrade \/ helmRollback \/ RecordRollback \/ patchErrorStatus
    \/ helmStatus \/ updateAddonHelmStatus \/ helmUninstall \/ cleanupRobustGrafanaDatasources

Next ==
    \/ createAddon \/ patchAddon \/ SetPreviousVersion \/ deleteAddon \/ guaranteeDefaultAddon
    \/ NewTemplate \/ ClusterGone \/ Sync \/ Controller \/ HelmEnds \/ Crash

Spec == Init /\ [][Next]_addonsVars

-----------------------------------------------------------------------------
(* What must hold.                                                          *)

TypeOK ==
    /\ DOMAIN addon = DOMAIN NoAddon /\ DOMAIN cached = DOMAIN NoAddon /\ cached.rv <= addon.rv
    /\ run.pc \in {"idle", "install", "upgrade", "rollback", "wait", "rolled", "error", "status",
                   "record", "uninstall", "cleanup"}
    /\ Len(rel) <= MaxRevisions /\ sources \subseteq Both /\ crd \in {"unchecked", "ready", "none"}
    /\ edits \in 0 .. MaxEdits /\ faults \in 0 .. MaxFaults /\ crashes \in 0 .. MaxCrashes

AtRest == ~queued /\ run = Idle /\ cached = addon /\ addon.exists /\ ~addon.deleting

\* An addon that is shown as running, with nothing left to do, is deployed as asked for.
RunningIsDeployed ==
    AtRest /\ clusterUp /\ addon.phase = "running"
      => /\ rel # <<>> /\ Last.status = "deployed" /\ Last.vals = ValuesOf(addon)
         /\ Last.tmpl = addon.tmpl

\* The same for the values only, where an earlier revision was gone back to.
RunningHasValues == AtRest /\ addon.phase = "running" => rel # <<>> /\ Last.vals = ValuesOf(addon)

\* Nothing of an addon that is gone is left in the cluster and in Grafana.
GoneIsUninstalled == ~addon.exists => rel = <<>> /\ sources = {}

\* An addon goes although its recorded release is still there.
GoesDeployed == addon.exists /\ ~addon'.exists /\ addon.on /\ rel # <<>>

\* Nobody but the controller works on a release, and one operation at a time: a pending
\* revision is the one it waits for.
OneOperation == Pending => run.pc = "wait"

\* The addon is as it was asked for, or gone, or asks for a template that there is not.
Settled == ~addon.exists \/ ~HasTemplate(addon) \/ (AtRest /\ addon.phase = "running")

=============================================================================

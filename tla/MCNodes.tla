------------------------------ MODULE MCNodes ------------------------------
(***************************************************************************)
(* Nodes and workspaces with the bounds of the configurations, one         *)
(* scenario at a time. A behaviour picks its scenario at the start and     *)
(* keeps it, so that a run explores the scenarios side by side; the        *)
(* variables of the modules that take no part hold no value.               *)
(***************************************************************************)
EXTENDS Integers

CONSTANT Scenarios       \* the scenarios of the run

VARIABLES scenario,
    bad, cfg, started, count, run, late, queue, delayed, ex, copy, fresh, node, errors, changes,
    kubelet, k8s, seen, pending, fault, retries, faultQ, nodeQ, armed, due, conf, left, up,
    down, machine, messages, queued, timer, klabel, busy, ws, planned, expectations, later,
    cluster, pods, clients, plane, front, flavors, faults, patch, rec, reply, list, user, wsp,
    claims, used, proc, failed, sec, mirror, cref, ctl, req, addon, cached, rel, templates,
    clusterUp, endpoint, sources, crd, edits, crashes

vars == <<scenario,
          bad, cfg, started, count, run, late, queue, delayed, ex, copy, fresh, node, errors,
          changes, kubelet, k8s, seen, pending, fault, retries, faultQ, nodeQ, armed, due, conf,
          left, up, down, machine, messages, queued, timer, klabel, busy, ws, planned,
          expectations, later, cluster, pods, clients, plane, front, flavors, faults, patch,
          rec, reply, list, user, wsp, claims, used, proc, failed, sec, mirror, cref, ctl, req,
          addon, cached, rel, templates, clusterUp, endpoint, sources, crd, edits, crashes>>

Unused == "unused"
Installers == [calls |-> 0, installs |-> 1, downs |-> 0, restarts |-> 0]
Downs == [calls |-> 0, installs |-> 1, downs |-> 1, restarts |-> 1]
Mishaps == [calls |-> 1, installs |-> 1, downs |-> 0, restarts |-> 1]
Faults == [calls |-> 1, installs |-> 1, downs |-> 1, restarts |-> 1]
AddonDefaults == [t1 |-> "d1", t2 |-> "d2"]

\* A flavor, also with a disk given or without one, or with other GPUs.
AFlavor == [cpu |-> 2, mem |-> 2, gpu |-> 8, gpuName |-> "amd.com/gpu", store |-> 0, rootDisk |-> 1, rootCount |-> 3]
SameGpus == {AFlavor, [AFlavor EXCEPT !.store = 1], [AFlavor EXCEPT !.rootCount = 0]}
OtherGpus == {AFlavor, [AFlavor EXCEPT !.gpu = 0], [AFlavor EXCEPT !.gpu = 4]}
\* A node with its cluster and the taints of two faults; requests to change it.
Taint(m, n) == [id |-> m, prefix |-> n]
ANode ==
    [exists |-> TRUE, host |-> "", ip |-> "1", port |-> 0, cluster |-> "c", flavor |-> "f", secret |-> TRUE,
     plane |-> FALSE, labels |-> [x |-> "1"], taints |-> <<Taint("a", 1), Taint("b", 1)>>, disk |-> 0,
     toLabel |-> <<>>, toNote |-> {}, ver |-> 1]
NodePatches ==
    {[labels |-> [y |-> "1"]], [labels |-> [x |-> "2"], flavor |-> "g"], [taints |-> <<Taint("a", 0)>>],
     [taints |-> <<Taint("a", 0), Taint("a", 0)>>], [flavor |-> "g", port |-> 1], [ip |-> "2", labels |-> <<>>]}
\* Three nodes that are used or not, ready, tainted, and seen by the user or not.
Listed(i, w, ok, t, u) ==
    [id |-> i, workspace |-> w, flavor |-> IF i = 2 THEN "g" ELSE "f", ready |-> ok, tainted |-> t, total |-> 10, used |-> u,
     spaceFlavor |-> IF w = "w" THEN "f" ELSE "", readers |-> IF u = 9 THEN {} ELSE {"u"}]
ThreeNodes ==
    {{Listed(1, w, TRUE, FALSE, u), Listed(2, "w", TRUE, t, 0), Listed(3, "", ok, FALSE, v)} :
        w \in {"w", ""}, u \in {0, 9}, t \in BOOLEAN, ok \in BOOLEAN, v \in {0, 5, 12}}
AllNodes == [workspace |-> "any", flavor |-> "any", user |-> "u", available |-> "any", sortBy |-> "name", desc |-> FALSE]
NodeQueries ==
    {[AllNodes EXCEPT !.desc = TRUE], [AllNodes EXCEPT !.sortBy = "cpu", !.desc = TRUE],
     [AllNodes EXCEPT !.sortBy = "cpu", !.workspace = "w"], [AllNodes EXCEPT !.available = "yes", !.flavor = "f"]}
\* Secrets of registries and of other kinds, and what is asked about them.
Login(n, c, h) == [username |-> <<n>>, password |-> <<"base64", c>>, server |-> <<h>>]
Content(k, ps) == [kind |-> k, params |-> ps]
OfSecret(o, n, c, same, ws1, is) == [op |-> o, s |-> n, w |-> "w", content |-> c, keep |-> same, ws |-> ws1, ids |-> is]
NoContent == Content("", <<>>)
MakeSecret(n, ws1) == OfSecret("createSecret", n, Content("image", <<Login("u", "p", "x")>>), FALSE, ws1, {})
MoveSecret(ws1) == OfSecret("patchSecret", "s", NoContent, FALSE, ws1, {})
DropSecret(n) == OfSecret("deleteSecret", n, NoContent, FALSE, {}, {})
ChangeSecret == OfSecret("patchSecret", "s", Content("", <<Login("v", "q", "x")>>), TRUE, {}, {})
SetImages(is) == OfSecret("setImages", "s", NoContent, FALSE, {}, is)
SecretGoes == {MakeSecret("s", {"w"}), MakeSecret("s", {}), MoveSecret({}), MoveSecret({"v"}), DropSecret("s")}
ASecret == SecretGoes \union {ChangeSecret, SetImages({"s"}), SetImages({})}
TwoSecrets ==
    {MakeSecret("s", {}), MakeSecret("t", {"w"}), MoveSecret({"v"}), ChangeSecret, DropSecret("s"),
     SetImages({"s"}), SetImages({"s", "t"}), OfSecret("createCluster", "s", NoContent, FALSE, {}, {})}
Texts == {<<>>, <<"base64", "p">>, <<"x">>}
AnyContent ==
    {Content("general", <<[a |-> t]>>) : t \in Texts}
    \union {Content("image", ps) : ps \in {<<>>, <<Login("u", "p", "x")>>, <<Login("u", "p", "x"), Login("v", "q", "x")>>,
                                           <<Login("u", "p", "x"), Login("v", "q", "y")>>}}
    \union {Content("ssh", <<[username |-> <<"u">>, password |-> a, publicKey |-> b, privateKey |-> c]>>) :
              a \in Texts, b \in {<<>>, <<"base64", "p">>}, c \in {<<>>, <<"base64", "q">>}}
SecretKinds ==
    {OfSecret("createSecret", "s", c, FALSE, {"w"}, {}) : c \in AnyContent}
    \union {OfSecret("patchSecret", "s", c, TRUE, {}, {}) : c \in AnyContent}
    \union {[SetImages({}) EXCEPT !.op = o, !.w = "v"] : o \in {"createWorkspace", "deleteWorkspace"}}

\* An administrator, the manager of the workspace w and another user; what they ask for.
Users ==
    [a |-> [roles |-> {"system-admin"}, ws |-> {"w"}, managed |-> {}],
     m |-> [roles |-> {"default"}, ws |-> {"w"}, managed |-> {"w"}],
     u |-> [roles |-> {"default"}, ws |-> {}, managed |-> {}]]
Spaces == [w |-> {"m"}]
AnAsk(o, by, u, w, set) ==
    [op |-> o, by |-> by, u |-> u, w |-> w, ws |-> set[1], roles |-> set[2], managers |-> set[3],
     default |-> set[4], vols |-> set[5]]
OfUser(o, by, u, ss, rs) == AnAsk(o, by, u, "w", <<ss, rs, {}, {}, {}>>)
OfSpace(o, w, ms, d, vs) == AnAsk(o, "a", "a", w, <<{}, {}, ms, d, vs>>)
Volume(i, c) == [id |-> i, class |-> c]
PatchUsers ==
    {OfUser("patchUser", "m", "u", {s}, {}) : s \in {{}, {"w"}}}
    \union {OfUser("patchUser", "a", x, {}, {s}) : x \in {"m", "u"},
            s \in {{"default", "workspace-admin"}, {"system-admin", "default"}, {"system-admin-readonly"}}}
SetManagers(s) == OfSpace("patchWorkspace", "w", {s}, {}, {})
Both ==
    <<{SetManagers(s) : s \in SUBSET {"m", "u"}}
      \union {OfSpace("patchWorkspace", "w", {}, {}, {s}) :
                s \in {{}, {Volume(0, "x")}, {Volume(1, "x"), Volume(0, "y")}}}, PatchUsers>>
Alone ==
    <<PatchUsers \union {OfUser(o, "a", "m", {}, {}) : o \in {"deleteUser", "createUser"}}
      \union {SetManagers({"m"}), SetManagers({"m", "u"})}
      \union {OfSpace("patchWorkspace", "w", {}, {d}, {}) : d \in BOOLEAN}
      \union {OfSpace("createWorkspace", "v", {}, {FALSE}, {}), OfSpace("patchWorkspace", "v", {{"u"}}, {TRUE}, {})}, {}>>
Gone ==
    <<PatchUsers \union {SetManagers({"m", "u"}), OfSpace("deleteWorkspace", "w", {}, {}, {}),
                         OfSpace("createWorkspace", "v", {}, {FALSE}, {}), OfSpace("patchWorkspace", "v", {{"u"}}, {}, {})}, {}>>

-----------------------------------------------------------------------------
\* One monitor that reports the second failure in a row.
Agent == INSTANCE NodeAgent WITH
    Monitor <- {"m"}, ConsecutiveCount <- 2, MaxRetries <- 0, MaxErrors <- 2, MaxChanges <- 2,
    MaxKubelet <- 1, MaxQueue <- 2

\* A condition of the node agent, with an API error.
AgentFault == INSTANCE NodeFaults WITH
    Kind <- "primus", AutoRepair <- TRUE, CacheLags <- FALSE, MaxRetryCount <- 2,
    MaxErrors <- 1, MaxChanges <- 2, MaxUser <- 0, MaxRestarts <- 0

\* The same, with a user who takes the node out, deletes the fault or changes
\* the configuration.
UserFault == INSTANCE NodeFaults WITH
    Kind <- "primus", AutoRepair <- TRUE, CacheLags <- FALSE, MaxRetryCount <- 2,
    MaxErrors <- 0, MaxChanges <- 2, MaxUser <- 1, MaxRestarts <- 0

\* A condition of the kubelet.
KubeletFault == INSTANCE NodeFaults WITH
    Kind <- "k8s", AutoRepair <- TRUE, CacheLags <- FALSE, MaxRetryCount <- 2, MaxErrors <- 2,
    MaxChanges <- 2, MaxUser <- 1, MaxRestarts <- 0

\* A fault that is not repaired automatically.
ManualFault == INSTANCE NodeFaults WITH
    Kind <- "primus", AutoRepair <- FALSE, CacheLags <- FALSE, MaxRetryCount <- 2,
    MaxErrors <- 1, MaxChanges <- 2, MaxUser <- 0, MaxRestarts <- 0

\* The resource manager restarts.
RestartFault == INSTANCE NodeFaults WITH
    Kind <- "primus", AutoRepair <- TRUE, CacheLags <- FALSE, MaxRetryCount <- 2,
    MaxErrors <- 0, MaxChanges <- 2, MaxUser <- 1, MaxRestarts <- 1

\* The fault controller reads outdated nodes and runs out of retries.
StaleFault == INSTANCE NodeFaults WITH
    Kind <- "primus", AutoRepair <- TRUE, CacheLags <- TRUE, MaxRetryCount <- 1, MaxErrors <- 2,
    MaxChanges <- 2, MaxUser <- 1, MaxRestarts <- 0

\* A machine joins and leaves, and everything may happen to it.
Join == INSTANCE NodeManagement WITH
    HostIsName <- TRUE, MaxUser <- 4, MaxFailures <- 1, MaxHangs <- 1, MaxLost <- 1,
    MaxKubeletDown <- 1, MaxDeaths <- 1

\* The same with a machine that stays reachable.
Rejoin == INSTANCE NodeManagement WITH
    HostIsName <- TRUE, MaxUser <- 3, MaxFailures <- 1, MaxHangs <- 1, MaxLost <- 0,
    MaxKubeletDown <- 1, MaxDeaths <- 0

\* One workspace and three nodes.
Scale == INSTANCE WorkspaceNodes WITH
    Node <- {"n1", "n2", "n3"}, Workspace <- {"w1"}, MaxReplica <- 2, MaxUser <- 3,
    MaxNodeDeletes <- 0, MaxErrors <- 1, MaxWork <- 0, MaxRestarts <- 0

\* Two workspaces and one node, which is deleted, and a restart.
Share == INSTANCE WorkspaceNodes WITH
    Node <- {"n1"}, Workspace <- {"w1", "w2"}, MaxReplica <- 1, MaxUser <- 3,
    MaxNodeDeletes <- 1, MaxErrors <- 1, MaxWork <- 0, MaxRestarts <- 1

\* One workspace and two nodes, one of which is in use for a while.
Settle == INSTANCE WorkspaceNodes WITH
    Node <- {"n1", "n2"}, Workspace <- {"w1"}, MaxReplica <- 2, MaxUser <- 2,
    MaxNodeDeletes <- 0, MaxErrors <- 1, MaxWork <- 1, MaxRestarts <- 0

\* A cluster is made, used and deleted, twice under the same name; an installer
\* or a call may fail, and the manager may restart.
Made == INSTANCE ClusterPlane WITH
    MaxUid <- 2, Cicd <- TRUE, Forward <- TRUE, Lag <- FALSE, Patient <- TRUE, Budget <- Mishaps

\* One cluster, with a failing call and installer, a machine that is down for a
\* while and a restart.
Shaken == INSTANCE ClusterPlane WITH
    MaxUid <- 1, Cicd <- TRUE, Forward <- TRUE, Lag <- FALSE, Patient <- FALSE, Budget <- Faults

\* The name is used again while the garbage collector is behind.
Again == INSTANCE ClusterPlane WITH
    MaxUid <- 2, Cicd <- TRUE, Forward <- TRUE, Lag <- TRUE, Patient <- FALSE,
    Budget <- Installers

\* A cluster without forwarding and runners.
Plain == INSTANCE ClusterPlane WITH
    MaxUid <- 1, Cicd <- FALSE, Forward <- FALSE, Lag <- FALSE, Patient <- FALSE,
    Budget <- Downs

\* Requests that patch a node, one after the other or side by side, and lists
\* of three nodes.
NodePatch == INSTANCE NodeRequests WITH
    Creations <- {ANode}, Patches <- NodePatches, Specs <- SameGpus, MaxRequests <- 2,
    MaxEdits <- 3, MaxTries <- 2, Overlap <- FALSE, Populations <- {{}}, Queries <- {AllNodes},
    PageSize <- 2

NodeRace == INSTANCE NodeRequests WITH
    Creations <- {ANode}, Patches <- NodePatches, Specs <- OtherGpus, MaxRequests <- 2,
    MaxEdits <- 3, MaxTries <- 2, Overlap <- TRUE, Populations <- {{}}, Queries <- {AllNodes},
    PageSize <- 2

NodeList == INSTANCE NodeRequests WITH
    Creations <- {ANode}, Patches <- NodePatches, Specs <- SameGpus, MaxRequests <- 0,
    MaxEdits <- 0, MaxTries <- 2, Overlap <- FALSE, Populations <- ThreeNodes,
    Queries <- NodeQueries, PageSize <- 2

\* Users and the managers and volumes of a workspace change side by side; one
\* after the other with users and workspaces that come and go.
Tenant == INSTANCE Tenants WITH
    Client <- {1, 2}, User <- {"a", "m", "u"}, Workspace <- {"w", "v"}, Asked <- Both,
    FirstUsers <- Users, FirstWorkspaces <- Spaces, Retries <- 2, MaxAsked <- 3, Conflicts <- 1,
    Workloads <- 1

TenantAlone == INSTANCE Tenants WITH
    Client <- {1, 2}, User <- {"a", "m", "u"}, Workspace <- {"w", "v"}, Asked <- Alone,
    FirstUsers <- Users, FirstWorkspaces <- Spaces, Retries <- 2, MaxAsked <- 4, Conflicts <- 1,
    Workloads <- 0

TenantGone == INSTANCE Tenants WITH
    Client <- {1, 2}, User <- {"a", "m", "u"}, Workspace <- {"w", "v"}, Asked <- Gone,
    FirstUsers <- Users, FirstWorkspaces <- Spaces, Retries <- 2, MaxAsked <- 4, Conflicts <- 1,
    Workloads <- 0

\* A secret changes while the controller works, and calls fail; two requests at
\* a time; one after the other; what is sent and shown; a secret that is
\* deleted.
Keep == INSTANCE Secrets WITH
    Client <- {1}, Secret <- {"s"}, Workspace <- {"w", "v"}, Asked <- <<ASecret>>,
    Foreign <- {"v"}, Calm <- FALSE, Retries <- 2, MaxAsked <- 3, Downs <- 1, Restarts <- 1,
    Errors <- 1

KeepTwo == INSTANCE Secrets WITH
    Client <- {1, 2}, Secret <- {"s"}, Workspace <- {"w", "v"}, Asked <- <<ASecret, ASecret>>,
    Foreign <- {}, Calm <- FALSE, Retries <- 2, MaxAsked <- 3, Downs <- 0, Restarts <- 0,
    Errors <- 0

KeepCalm == INSTANCE Secrets WITH
    Client <- {1}, Secret <- {"s", "t"}, Workspace <- {"w", "v"}, Asked <- <<TwoSecrets>>,
    Foreign <- {}, Calm <- TRUE, Retries <- 2, MaxAsked <- 4, Downs <- 1, Restarts <- 0,
    Errors <- 0

KeepKinds == INSTANCE Secrets WITH
    Client <- {1}, Secret <- {"s"}, Workspace <- {"w", "v"}, Asked <- <<SecretKinds>>,
    Foreign <- {"v"}, Calm <- TRUE, Retries <- 2, MaxAsked <- 3, Downs <- 0, Restarts <- 0,
    Errors <- 0

KeepGoes == INSTANCE Secrets WITH
    Client <- {1}, Secret <- {"s"}, Workspace <- {"w", "v"}, Asked <- <<SecretGoes>>,
    Foreign <- {}, Calm <- FALSE, Retries <- 2, MaxAsked <- 3, Downs <- 1, Restarts <- 1,
    Errors <- 1

\* An addon is made, changed and deleted while the controller works; with a
\* Helm that fails; of a cluster, whose templates change and which goes; taken
\* back to an earlier revision; with calls that fail and a restart; and how it
\* ends.
Addon == INSTANCE Addons WITH
    Template <- {"t1", "t2"}, Values <- {"x"}, Default <- AddonDefaults,
    Ops <- {"create", "patch", "delete"}, Robust <- TRUE, Prompt <- FALSE, Failing <- {},
    MaxEdits <- 3, MaxRevisions <- 8, MaxFaults <- 0, MaxCrashes <- 0

AddonAsked == INSTANCE Addons WITH
    Template <- {"t1", "t2"}, Values <- {"x"}, Default <- AddonDefaults,
    Ops <- {"create", "patch"}, Robust <- FALSE, Prompt <- TRUE, Failing <- {"helm"},
    MaxEdits <- 3, MaxRevisions <- 8, MaxFaults <- 2, MaxCrashes <- 0

AddonOwned == INSTANCE Addons WITH
    Template <- {"t1", "t2"}, Values <- {"x"}, Default <- AddonDefaults,
    Ops <- {"default", "cluster", "delete"}, Robust <- FALSE, Prompt <- TRUE,
    Failing <- {"helm"}, MaxEdits <- 4, MaxRevisions <- 8, MaxFaults <- 1, MaxCrashes <- 0

AddonBack == INSTANCE Addons WITH
    Template <- {"t1", "t2"}, Values <- {"x"}, Default <- AddonDefaults,
    Ops <- {"create", "patch", "rollback"}, Robust <- FALSE, Prompt <- TRUE, Failing <- {},
    MaxEdits <- 4, MaxRevisions <- 8, MaxFaults <- 0, MaxCrashes <- 0

AddonFails == INSTANCE Addons WITH
    Template <- {"t1", "t2"}, Values <- {"x"}, Default <- AddonDefaults,
    Ops <- {"create", "delete"}, Robust <- TRUE, Prompt <- FALSE,
    Failing <- {"helm", "write", "grafana"}, MaxEdits <- 2, MaxRevisions <- 8, MaxFaults <- 2,
    MaxCrashes <- 1

AddonEnds == INSTANCE Addons WITH
    Template <- {"t1", "t2"}, Values <- {"x"}, Default <- AddonDefaults,
    Ops <- {"create", "patch", "delete"}, Robust <- TRUE, Prompt <- TRUE, Failing <- {"helm"},
    MaxEdits <- 3, MaxRevisions <- 8, MaxFaults <- 1, MaxCrashes <- 0

-----------------------------------------------------------------------------
(* A step of a module leaves the scenario and the others alone.             *)
NodeAgentOnly ==
    UNCHANGED <<scenario, k8s, seen, pending, fault, retries, faultQ, nodeQ, armed, due, conf, left, up,
               down, machine, messages, queued, timer, klabel, busy, ws, planned, expectations,
               later, cluster, pods, clients, plane, front, flavors, faults, patch, rec, reply,
               list, user, wsp, claims, used, proc, failed, sec, mirror, cref, ctl, req, addon,
               cached, rel, templates, clusterUp, endpoint, sources, crd, edits, crashes>>
NodeFaultsOnly ==
    UNCHANGED <<scenario, cfg, started, count, run, late, ex, copy, fresh, node, errors, changes, kubelet,
               up, down, machine, messages, queued, timer, klabel, busy, ws, planned,
               expectations, later, cluster, pods, clients, plane, front, flavors, faults,
               patch, rec, reply, list, user, wsp, claims, used, proc, failed, sec, mirror,
               cref, ctl, req, addon, cached, rel, templates, clusterUp, endpoint, sources, crd,
               edits, crashes>>
NodeManagementOnly ==
    UNCHANGED <<scenario, bad, cfg, started, count, run, late, queue, delayed, ex, copy, fresh, errors,
               changes, kubelet, seen, pending, fault, retries, faultQ, nodeQ, armed, due, conf,
               klabel, busy, ws, planned, expectations, later, cluster, pods, clients, plane,
               front, flavors, faults, patch, rec, reply, list, user, wsp, claims, used, proc,
               failed, sec, mirror, cref, ctl, req, addon, cached, rel, templates, clusterUp,
               endpoint, sources, crd, edits, crashes>>
WorkspaceNodesOnly ==
    UNCHANGED <<scenario, bad, cfg, started, count, run, late, delayed, ex, copy, fresh, node, errors,
               changes, kubelet, k8s, fault, retries, faultQ, nodeQ, armed, due, conf, up, down,
               machine, messages, queued, timer, cluster, pods, clients, plane, front, flavors,
               faults, patch, rec, reply, list, user, wsp, claims, used, proc, failed, sec,
               mirror, cref, ctl, req, addon, cached, rel, templates, clusterUp, endpoint,
               sources, crd, edits, crashes>>
ClusterPlaneOnly ==
    UNCHANGED <<scenario, bad, cfg, started, count, late, queue, delayed, ex, copy, fresh, errors, changes,
               kubelet, k8s, seen, pending, fault, retries, faultQ, nodeQ, armed, due, conf, up,
               down, messages, timer, klabel, busy, ws, planned, expectations, later, flavors,
               faults, patch, rec, reply, list, user, wsp, claims, used, proc, failed, sec,
               mirror, cref, ctl, req, addon, cached, rel, templates, clusterUp, endpoint,
               sources, crd, edits, crashes>>
NodeRequestsOnly ==
    UNCHANGED <<scenario, bad, cfg, started, count, run, late, queue, delayed, ex, copy, fresh, errors,
               changes, kubelet, seen, pending, fault, retries, faultQ, nodeQ, armed, due, conf,
               up, down, machine, messages, queued, timer, klabel, busy, ws, planned,
               expectations, later, cluster, pods, clients, plane, front, user, wsp, claims,
               used, proc, failed, sec, mirror, cref, ctl, req, addon, cached, rel, templates,
               clusterUp, endpoint, sources, crd, edits, crashes>>
TenantsOnly ==
    UNCHANGED <<scenario, bad, cfg, started, count, run, late, queue, delayed, ex, copy, fresh, node,
               errors, changes, kubelet, k8s, seen, pending, fault, retries, faultQ, nodeQ,
               armed, due, conf, up, down, machine, messages, queued, timer, klabel, busy, ws,
               planned, expectations, later, cluster, pods, clients, plane, front, flavors,
               faults, patch, rec, reply, list, sec, mirror, cref, ctl, req, addon, cached, rel,
               templates, clusterUp, endpoint, sources, crd, edits, crashes>>
SecretsOnly ==
    UNCHANGED <<scenario, bad, cfg, started, count, run, late, delayed, ex, copy, fresh, node, errors,
               changes, kubelet, k8s, seen, pending, fault, retries, faultQ, nodeQ, armed, due,
               conf, down, machine, messages, queued, timer, klabel, busy, ws, planned,
               expectations, later, cluster, pods, clients, plane, front, flavors, faults,
               patch, rec, reply, list, user, claims, used, proc, failed, addon, cached, rel,
               templates, clusterUp, endpoint, sources, crd, edits, crashes>>
AddonsOnly ==
    UNCHANGED <<scenario, bad, cfg, started, count, late, queue, delayed, ex, copy, fresh, node, errors,
               changes, kubelet, k8s, seen, pending, fault, retries, faultQ, nodeQ, armed, due,
               conf, left, up, down, machine, messages, timer, klabel, busy, ws, planned,
               expectations, later, cluster, pods, clients, plane, front, flavors, patch, rec,
               reply, list, user, wsp, claims, used, proc, failed, sec, mirror, cref, ctl, req>>

Init ==
    \/ /\ scenario = "agent" /\ Agent!Init
       /\ k8s = Unused /\ seen = Unused /\ pending = Unused /\ fault = Unused /\ retries = Unused
       /\ faultQ = Unused /\ nodeQ = Unused /\ armed = Unused /\ due = Unused /\ conf = Unused
       /\ left = Unused /\ up = Unused /\ down = Unused /\ machine = Unused
       /\ messages = Unused /\ queued = Unused /\ timer = Unused /\ klabel = Unused
       /\ busy = Unused /\ ws = Unused /\ planned = Unused /\ expectations = Unused
       /\ later = Unused /\ cluster = Unused /\ pods = Unused /\ clients = Unused
       /\ plane = Unused /\ front = Unused /\ flavors = Unused /\ faults = Unused
       /\ patch = Unused /\ rec = Unused /\ reply = Unused /\ list = Unused /\ user = Unused
       /\ wsp = Unused /\ claims = Unused /\ used = Unused /\ proc = Unused /\ failed = Unused
       /\ sec = Unused /\ mirror = Unused /\ cref = Unused /\ ctl = Unused /\ req = Unused
       /\ addon = Unused /\ cached = Unused /\ rel = Unused /\ templates = Unused
       /\ clusterUp = Unused /\ endpoint = Unused /\ sources = Unused /\ crd = Unused
       /\ edits = Unused /\ crashes = Unused
    \/ /\ \/ scenario = "agentFault" /\ AgentFault!Init
          \/ scenario = "userFault" /\ UserFault!Init
          \/ scenario = "kubeletFault" /\ KubeletFault!Init
          \/ scenario = "manualFault" /\ ManualFault!Init
          \/ scenario = "restartFault" /\ RestartFault!Init
          \/ scenario = "staleFault" /\ StaleFault!Init
       /\ cfg = Unused /\ started = Unused /\ count = Unused /\ run = Unused /\ late = Unused
       /\ ex = Unused /\ copy = Unused /\ fresh = Unused /\ node = Unused /\ errors = Unused
       /\ changes = Unused /\ kubelet = Unused /\ up = Unused /\ down = Unused
       /\ machine = Unused /\ messages = Unused /\ queued = Unused /\ timer = Unused
       /\ klabel = Unused /\ busy = Unused /\ ws = Unused /\ planned = Unused
       /\ expectations = Unused /\ later = Unused /\ cluster = Unused /\ pods = Unused
       /\ clients = Unused /\ plane = Unused /\ front = Unused /\ flavors = Unused
       /\ faults = Unused /\ patch = Unused /\ rec = Unused /\ reply = Unused /\ list = Unused
       /\ user = Unused /\ wsp = Unused /\ claims = Unused /\ used = Unused /\ proc = Unused
       /\ failed = Unused /\ sec = Unused /\ mirror = Unused /\ cref = Unused /\ ctl = Unused
       /\ req = Unused /\ addon = Unused /\ cached = Unused /\ rel = Unused
       /\ templates = Unused /\ clusterUp = Unused /\ endpoint = Unused /\ sources = Unused
       /\ crd = Unused /\ edits = Unused /\ crashes = Unused
    \/ /\ \/ scenario = "join" /\ Join!Init
          \/ scenario = "rejoin" /\ Rejoin!Init
       /\ bad = Unused /\ cfg = Unused /\ started = Unused /\ count = Unused /\ run = Unused
       /\ late = Unused /\ queue = Unused /\ delayed = Unused /\ ex = Unused /\ copy = Unused
       /\ fresh = Unused /\ errors = Unused /\ changes = Unused /\ kubelet = Unused
       /\ seen = Unused /\ pending = Unused /\ fault = Unused /\ retries = Unused
       /\ faultQ = Unused /\ nodeQ = Unused /\ armed = Unused /\ due = Unused /\ conf = Unused
       /\ klabel = Unused /\ busy = Unused /\ ws = Unused /\ planned = Unused
       /\ expectations = Unused /\ later = Unused /\ cluster = Unused /\ pods = Unused
       /\ clients = Unused /\ plane = Unused /\ front = Unused /\ flavors = Unused
       /\ faults = Unused /\ patch = Unused /\ rec = Unused /\ reply = Unused /\ list = Unused
       /\ user = Unused /\ wsp = Unused /\ claims = Unused /\ used = Unused /\ proc = Unused
       /\ failed = Unused /\ sec = Unused /\ mirror = Unused /\ cref = Unused /\ ctl = Unused
       /\ req = Unused /\ addon = Unused /\ cached = Unused /\ rel = Unused
       /\ templates = Unused /\ clusterUp = Unused /\ endpoint = Unused /\ sources = Unused
       /\ crd = Unused /\ edits = Unused /\ crashes = Unused
    \/ /\ \/ scenario = "scale" /\ Scale!Init
          \/ scenario = "share" /\ Share!Init
          \/ scenario = "settle" /\ Settle!Init
       /\ bad = Unused /\ cfg = Unused /\ started = Unused /\ count = Unused /\ run = Unused
       /\ late = Unused /\ delayed = Unused /\ ex = Unused /\ copy = Unused /\ fresh = Unused
       /\ node = Unused /\ errors = Unused /\ changes = Unused /\ kubelet = Unused
       /\ k8s = Unused /\ fault = Unused /\ retries = Unused /\ faultQ = Unused
       /\ nodeQ = Unused /\ armed = Unused /\ due = Unused /\ conf = Unused /\ up = Unused
       /\ down = Unused /\ machine = Unused /\ messages = Unused /\ queued = Unused
       /\ timer = Unused /\ cluster = Unused /\ pods = Unused /\ clients = Unused
       /\ plane = Unused /\ front = Unused /\ flavors = Unused /\ faults = Unused
       /\ patch = Unused /\ rec = Unused /\ reply = Unused /\ list = Unused /\ user = Unused
       /\ wsp = Unused /\ claims = Unused /\ used = Unused /\ proc = Unused /\ failed = Unused
       /\ sec = Unused /\ mirror = Unused /\ cref = Unused /\ ctl = Unused /\ req = Unused
       /\ addon = Unused /\ cached = Unused /\ rel = Unused /\ templates = Unused
       /\ clusterUp = Unused /\ endpoint = Unused /\ sources = Unused /\ crd = Unused
       /\ edits = Unused /\ crashes = Unused
    \/ /\ \/ scenario = "cluster" /\ Made!Init
          \/ scenario = "clusterFaults" /\ Shaken!Init
          \/ scenario = "clusterAgain" /\ Again!Init
          \/ scenario = "clusterPlain" /\ Plain!Init
       /\ bad = Unused /\ cfg = Unused /\ started = Unused /\ count = Unused /\ late = Unused
       /\ queue = Unused /\ delayed = Unused /\ ex = Unused /\ copy = Unused /\ fresh = Unused
       /\ errors = Unused /\ changes = Unused /\ kubelet = Unused /\ k8s = Unused
       /\ seen = Unused /\ pending = Unused /\ fault = Unused /\ retries = Unused
       /\ faultQ = Unused /\ nodeQ = Unused /\ armed = Unused /\ due = Unused /\ conf = Unused
       /\ up = Unused /\ down = Unused /\ messages = Unused /\ timer = Unused
       /\ klabel = Unused /\ busy = Unused /\ ws = Unused /\ planned = Unused
       /\ expectations = Unused /\ later = Unused /\ flavors = Unused /\ faults = Unused
       /\ patch = Unused /\ rec = Unused /\ reply = Unused /\ list = Unused /\ user = Unused
       /\ wsp = Unused /\ claims = Unused /\ used = Unused /\ proc = Unused /\ failed = Unused
       /\ sec = Unused /\ mirror = Unused /\ cref = Unused /\ ctl = Unused /\ req = Unused
       /\ addon = Unused /\ cached = Unused /\ rel = Unused /\ templates = Unused
       /\ clusterUp = Unused /\ endpoint = Unused /\ sources = Unused /\ crd = Unused
       /\ edits = Unused /\ crashes = Unused
    \/ /\ \/ scenario = "nodePatch" /\ NodePatch!Init
          \/ scenario = "nodeRace" /\ NodeRace!Init
          \/ scenario = "nodeList" /\ NodeList!Init
       /\ bad = Unused /\ cfg = Unused /\ started = Unused /\ count = Unused /\ run = Unused
       /\ late = Unused /\ queue = Unused /\ delayed = Unused /\ ex = Unused /\ copy = Unused
       /\ fresh = Unused /\ errors = Unused /\ changes = Unused /\ kubelet = Unused
       /\ seen = Unused /\ pending = Unused /\ fault = Unused /\ retries = Unused
       /\ faultQ = Unused /\ nodeQ = Unused /\ armed = Unused /\ due = Unused /\ conf = Unused
       /\ up = Unused /\ down = Unused /\ machine = Unused /\ messages = Unused
       /\ queued = Unused /\ timer = Unused /\ klabel = Unused /\ busy = Unused /\ ws = Unused
       /\ planned = Unused /\ expectations = Unused /\ later = Unused /\ cluster = Unused
       /\ pods = Unused /\ clients = Unused /\ plane = Unused /\ front = Unused
       /\ user = Unused /\ wsp = Unused /\ claims = Unused /\ used = Unused /\ proc = Unused
       /\ failed = Unused /\ sec = Unused /\ mirror = Unused /\ cref = Unused /\ ctl = Unused
       /\ req = Unused /\ addon = Unused /\ cached = Unused /\ rel = Unused
       /\ templates = Unused /\ clusterUp = Unused /\ endpoint = Unused /\ sources = Unused
       /\ crd = Unused /\ edits = Unused /\ crashes = Unused
    \/ /\ \/ scenario = "tenants" /\ Tenant!Init
          \/ scenario = "tenantsAlone" /\ TenantAlone!Init
          \/ scenario = "tenantsGone" /\ TenantGone!Init
       /\ bad = Unused /\ cfg = Unused /\ started = Unused /\ count = Unused /\ run = Unused
       /\ late = Unused /\ queue = Unused /\ delayed = Unused /\ ex = Unused /\ copy = Unused
       /\ fresh = Unused /\ node = Unused /\ errors = Unused /\ changes = Unused
       /\ kubelet = Unused /\ k8s = Unused /\ seen = Unused /\ pending = Unused
       /\ fault = Unused /\ retries = Unused /\ faultQ = Unused /\ nodeQ = Unused
       /\ armed = Unused /\ due = Unused /\ conf = Unused /\ up = Unused /\ down = Unused
       /\ machine = Unused /\ messages = Unused /\ queued = Unused /\ timer = Unused
       /\ klabel = Unused /\ busy = Unused /\ ws = Unused /\ planned = Unused
       /\ expectations = Unused /\ later = Unused /\ cluster = Unused /\ pods = Unused
       /\ clients = Unused /\ plane = Unused /\ front = Unused /\ flavors = Unused
       /\ faults = Unused /\ patch = Unused /\ rec = Unused /\ reply = Unused /\ list = Unused
       /\ sec = Unused /\ mirror = Unused /\ cref = Unused /\ ctl = Unused /\ req = Unused
       /\ addon = Unused /\ cached = Unused /\ rel = Unused /\ templates = Unused
       /\ clusterUp = Unused /\ endpoint = Unused /\ sources = Unused /\ crd = Unused
       /\ edits = Unused /\ crashes = Unused
    \/ /\ \/ scenario = "secrets" /\ Keep!Init
          \/ scenario = "secretsTwo" /\ KeepTwo!Init
          \/ scenario = "secretsCalm" /\ KeepCalm!Init
          \/ scenario = "secretKinds" /\ KeepKinds!Init
          \/ scenario = "secretGoes" /\ KeepGoes!Init
       /\ bad = Unused /\ cfg = Unused /\ started = Unused /\ count = Unused /\ run = Unused
       /\ late = Unused /\ delayed = Unused /\ ex = Unused /\ copy = Unused /\ fresh = Unused
       /\ node = Unused /\ errors = Unused /\ changes = Unused /\ kubelet = Unused
       /\ k8s = Unused /\ seen = Unused /\ pending = Unused /\ fault = Unused
       /\ retries = Unused /\ faultQ = Unused /\ nodeQ = Unused /\ armed = Unused
       /\ due = Unused /\ conf = Unused /\ down = Unused /\ machine = Unused
       /\ messages = Unused /\ queued = Unused /\ timer = Unused /\ klabel = Unused
       /\ busy = Unused /\ ws = Unused /\ planned = Unused /\ expectations = Unused
       /\ later = Unused /\ cluster = Unused /\ pods = Unused /\ clients = Unused
       /\ plane = Unused /\ front = Unused /\ flavors = Unused /\ faults = Unused
       /\ patch = Unused /\ rec = Unused /\ reply = Unused /\ list = Unused /\ user = Unused
       /\ claims = Unused /\ used = Unused /\ proc = Unused /\ failed = Unused
       /\ addon = Unused /\ cached = Unused /\ rel = Unused /\ templates = Unused
       /\ clusterUp = Unused /\ endpoint = Unused /\ sources = Unused /\ crd = Unused
       /\ edits = Unused /\ crashes = Unused
    \/ /\ \/ scenario = "addon" /\ Addon!Init
          \/ scenario = "addonAsked" /\ AddonAsked!Init
          \/ scenario = "addonOwned" /\ AddonOwned!Init
          \/ scenario = "addonBack" /\ AddonBack!Init
          \/ scenario = "addonFails" /\ AddonFails!Init
          \/ scenario = "addonEnds" /\ AddonEnds!Init
       /\ bad = Unused /\ cfg = Unused /\ started = Unused /\ count = Unused /\ late = Unused
       /\ queue = Unused /\ delayed = Unused /\ ex = Unused /\ copy = Unused /\ fresh = Unused
       /\ node = Unused /\ errors = Unused /\ changes = Unused /\ kubelet = Unused
       /\ k8s = Unused /\ seen = Unused /\ pending = Unused /\ fault = Unused
       /\ retries = Unused /\ faultQ = Unused /\ nodeQ = Unused /\ armed = Unused
       /\ due = Unused /\ conf = Unused /\ left = Unused /\ up = Unused /\ down = Unused
       /\ machine = Unused /\ messages = Unused /\ timer = Unused /\ klabel = Unused
       /\ busy = Unused /\ ws = Unused /\ planned = Unused /\ expectations = Unused
       /\ later = Unused /\ cluster = Unused /\ pods = Unused /\ clients = Unused
       /\ plane = Unused /\ front = Unused /\ flavors = Unused /\ patch = Unused
       /\ rec = Unused /\ reply = Unused /\ list = Unused /\ user = Unused /\ wsp = Unused
       /\ claims = Unused /\ used = Unused /\ proc = Unused /\ failed = Unused /\ sec = Unused
       /\ mirror = Unused /\ cref = Unused /\ ctl = Unused /\ req = Unused

ScenarioInit == scenario \in Scenarios /\ Init

Next ==
    \/ scenario = "agent" /\ Agent!Next /\ NodeAgentOnly
    \/ /\ \/ scenario = "agentFault" /\ AgentFault!Next
          \/ scenario = "userFault" /\ UserFault!Next
          \/ scenario = "kubeletFault" /\ KubeletFault!Next
          \/ scenario = "manualFault" /\ ManualFault!Next
          \/ scenario = "restartFault" /\ RestartFault!Next
          \/ scenario = "staleFault" /\ StaleFault!Next
       /\ NodeFaultsOnly
    \/ /\ \/ scenario = "join" /\ Join!Next
          \/ scenario = "rejoin" /\ Rejoin!Next
       /\ NodeManagementOnly
    \/ /\ \/ scenario = "scale" /\ Scale!Next
          \/ scenario = "share" /\ Share!Next
          \/ scenario = "settle" /\ Settle!Next
       /\ WorkspaceNodesOnly
    \/ /\ \/ scenario = "cluster" /\ Made!Next
          \/ scenario = "clusterFaults" /\ Shaken!Next
          \/ scenario = "clusterAgain" /\ Again!Next
          \/ scenario = "clusterPlain" /\ Plain!Next
       /\ ClusterPlaneOnly
    \/ /\ \/ scenario = "nodePatch" /\ NodePatch!Next
          \/ scenario = "nodeRace" /\ NodeRace!Next
          \/ scenario = "nodeList" /\ NodeList!Next
       /\ NodeRequestsOnly
    \/ /\ \/ scenario = "tenants" /\ Tenant!Next
          \/ scenario = "tenantsAlone" /\ TenantAlone!Next
          \/ scenario = "tenantsGone" /\ TenantGone!Next
       /\ TenantsOnly
    \/ /\ \/ scenario = "secrets" /\ Keep!Next
          \/ scenario = "secretsTwo" /\ KeepTwo!Next
          \/ scenario = "secretsCalm" /\ KeepCalm!Next
          \/ scenario = "secretKinds" /\ KeepKinds!Next
          \/ scenario = "secretGoes" /\ KeepGoes!Next
       /\ SecretsOnly
    \/ /\ \/ scenario = "addon" /\ Addon!Next
          \/ scenario = "addonAsked" /\ AddonAsked!Next
          \/ scenario = "addonOwned" /\ AddonOwned!Next
          \/ scenario = "addonBack" /\ AddonBack!Next
          \/ scenario = "addonFails" /\ AddonFails!Next
          \/ scenario = "addonEnds" /\ AddonEnds!Next
       /\ AddonsOnly

Spec == ScenarioInit /\ [][Next]_vars

-----------------------------------------------------------------------------
(* Fairness.                                                                *)
AgentDoes(A) == scenario = "agent" /\ A /\ NodeAgentOnly
FaultDoes(A, U, K, M) ==
    /\ \/ scenario = "agentFault" /\ A
       \/ scenario = "userFault" /\ U
       \/ scenario = "kubeletFault" /\ K
       \/ scenario = "manualFault" /\ M
    /\ NodeFaultsOnly
RejoinDoes(A) == scenario = "rejoin" /\ A /\ NodeManagementOnly
SettleDoes(A) == scenario = "settle" /\ A /\ WorkspaceNodesOnly
ClusterDoes(A, B, C) ==
    /\ \/ scenario = "clusterFaults" /\ A
       \/ scenario = "clusterAgain" /\ B
       \/ scenario = "clusterPlain" /\ C
    /\ ClusterPlaneOnly
SecretDoes(A) == scenario = "secretGoes" /\ A /\ SecretsOnly
AddonDoes(A) == scenario = "addonEnds" /\ A /\ AddonsOnly

\* The monitors' schedules and the reload of their configuration come back again
\* and again, also when a full queue held one up; the exporter and the refresh of
\* the agent's copy keep running.
AgentFairness ==
    /\ WF_vars(AgentDoes(Agent!Dispatch)) /\ WF_vars(AgentDoes(Agent!UpdateConditions))
    /\ WF_vars(AgentDoes(Agent!Sync)) /\ WF_vars(AgentDoes(Agent!RunEnd("m")))
    /\ WF_vars(AgentDoes(\E r \in late : Agent!RunEndsLate(r)))
    /\ WF_vars(AgentDoes(\E msg \in delayed : Agent!Requeue(msg)))
    /\ SF_vars(AgentDoes(Agent!RunStart("m"))) /\ SF_vars(AgentDoes(Agent!Reload("m")) \/ RejoinDoes(Rejoin!Reconcile))

\* Reports, the informer, the queues with their delayed retries, the two
\* reconcilers and the periodic check of a machine keep running.
FaultFairness ==
    /\ WF_vars(FaultDoes(AgentFault!Report, UserFault!Report, KubeletFault!Report, ManualFault!Report))
    /\ WF_vars(FaultDoes(AgentFault!NodeJoins, UserFault!NodeJoins, KubeletFault!NodeJoins, ManualFault!NodeJoins))
    /\ WF_vars(FaultDoes(AgentFault!NodeLeaves, UserFault!NodeLeaves, KubeletFault!NodeLeaves, ManualFault!NodeLeaves))
    /\ WF_vars(FaultDoes(AgentFault!TakeMessage, UserFault!TakeMessage, KubeletFault!TakeMessage, ManualFault!TakeMessage))
    /\ WF_vars(FaultDoes(AgentFault!Requeue, UserFault!Requeue, KubeletFault!Requeue, ManualFault!Requeue))
    /\ WF_vars(FaultDoes(AgentFault!NodeEvent, UserFault!NodeEvent, KubeletFault!NodeEvent, ManualFault!NodeEvent))
    /\ WF_vars(FaultDoes(AgentFault!Reconcile, UserFault!Reconcile, KubeletFault!Reconcile, ManualFault!Reconcile))
    /\ WF_vars(FaultDoes(AgentFault!ReconcileNode, UserFault!ReconcileNode, KubeletFault!ReconcileNode, ManualFault!ReconcileNode))
    /\ WF_vars(FaultDoes(AgentFault!Tick, UserFault!Tick, KubeletFault!Tick, ManualFault!Tick))

\* Pods end and grow old, machines boot, a workspace releases a node that is to go,
\* and messages and timers are handled; the reconciler (with AgentFairness) gets its
\* turn although a node may leave and enter its queue.
RejoinFairness ==
    /\ WF_vars(RejoinDoes(Rejoin!UpJoins))
    /\ WF_vars(RejoinDoes(Rejoin!UpEnds))
    /\ WF_vars(RejoinDoes(Rejoin!DownEnds))
    /\ WF_vars(RejoinDoes(Rejoin!UpAges))
    /\ WF_vars(RejoinDoes(Rejoin!DownAges))
    /\ WF_vars(RejoinDoes(Rejoin!Unbind))
    /\ WF_vars(RejoinDoes(Rejoin!Boots))
    /\ WF_vars(RejoinDoes(Rejoin!Message))
    /\ WF_vars(RejoinDoes(Rejoin!Due))

\* Workers, informers and the periodic requeue keep going; workloads end.
SettleFairness ==
    /\ \A n \in {"n1", "n2"} :
         /\ WF_vars(SettleDoes(Settle!NodeEvent(n))) /\ WF_vars(SettleDoes(Settle!NodeReconcile(n)))
         /\ WF_vars(SettleDoes(Settle!SyncLabel(n))) /\ WF_vars(SettleDoes(Settle!NodeGoes(n)))
         /\ WF_vars(SettleDoes(Settle!WorkEnds(n)))
    /\ WF_vars(SettleDoes(Settle!Reconcile("w1"))) /\ WF_vars(SettleDoes(Settle!Due("w1")))

\* The cluster's reconciler, the node controller and the garbage collector keep
\* running; installers end, and a machine that is down comes back; so do the controller of
\* secrets and the clients of a cluster.
ClusterFairness ==
    /\ WF_vars(ClusterDoes(Shaken!manage("control"), Again!manage("control"), Plain!manage("control")))
    /\ WF_vars(ClusterDoes(Shaken!manage("worker"), Again!manage("worker"), Plain!manage("worker")))
    /\ WF_vars(ClusterDoes(Shaken!CreateEnds, Again!CreateEnds, Plain!CreateEnds))
    /\ WF_vars(ClusterDoes(Shaken!ResetEnds, Again!ResetEnds, Plain!ResetEnds))
    /\ WF_vars(ClusterDoes(Shaken!CollectGarbage, Again!CollectGarbage, Plain!CollectGarbage))
    /\ WF_vars(ClusterDoes(Shaken!Reconciler, Again!Reconciler, Plain!Reconciler) \/ SecretDoes(KeepGoes!Controller)
                \/ AddonDoes(AddonEnds!Controller))
    /\ WF_vars(ClusterDoes(Shaken!MachineRecovers, Again!MachineRecovers, Plain!MachineRecovers)
                \/ SecretDoes(\E w \in {"w", "v"} : KeepGoes!ComesUp(w)) \/ AddonDoes(AddonEnds!HelmEnds))
    /\ WF_vars(AddonDoes(AddonEnds!Sync))

FairSpec == Spec /\ AgentFairness /\ FaultFairness /\ RejoinFairness /\ SettleFairness /\ ClusterFairness

-----------------------------------------------------------------------------
(* Properties.                                                              *)

TypeOK ==
    /\ scenario = "agent" => Agent!TypeOK
    /\ scenario = "staleFault" => StaleFault!TypeOK
    /\ scenario = "join" => Join!TypeOK
    /\ scenario = "scale" => Scale!TypeOK
    /\ scenario \in {"cluster", "clusterFaults"} => Made!TypeOK
    /\ scenario \in {"nodePatch", "nodeRace"} => NodeRace!TypeOK
    /\ scenario \in {"tenants", "tenantsAlone"} => Tenant!TypeOK
    /\ scenario \in {"secrets", "secretsTwo"} => Keep!TypeOK
    /\ scenario = "addon" => Addon!TypeOK

\* A fault that stays gets its condition and keeps it, and a condition goes when the
\* fault has gone or the monitor was switched off, whatever results the node agent
\* dropped, delayed or overtook before (the retries of the exporter).
ConditionsFollow ==
    /\ <>[](scenario = "agent" /\ Agent!AtFault("m"))
         => <>[](scenario = "agent" /\ Agent!Conditioned("m"))
    /\ <>[](scenario = "agent" /\ Agent!Quiet("m"))
         => <>[](scenario = "agent" /\ ~Agent!Conditioned("m"))

Faulting == scenario \in {"agentFault", "userFault", "kubeletFault"}

\* As long as the resource manager runs and the fault controller reads current nodes: a
\* node at fault that stays so while it is in the cluster and its monitor configured
\* has a fault in the end and is tainted for it; one that is well again, and stays so,
\* ends up without both if its repair is automatic, and keeps both if it is not, through
\* the informer, two controllers and what users and failed calls did meanwhile.
TaintsFollow ==
    /\ <>[](Faulting /\ ~bad) => <>[](Faulting /\ AgentFault!Clean)
    /\ <>[](scenario \in {"agentFault", "userFault"} /\ bad /\ AgentFault!Admin.managed /\ conf)
         => <>[](Faulting /\ AgentFault!Shown)
    /\ <>(scenario = "manualFault" /\ fault = "live") => <>[](scenario = "manualFault" /\ ManualFault!Shown)

\* The taint of the admin node belongs to a fault, also after a restart, as long as the
\* fault controller reads current nodes. A cluster that is ready, with
\* its reconciler at rest, can be used: its clients, its objects and what forwards to it
\* are there and are its own, not those of an earlier cluster of its name. A patch that is
\* reported done is done, the Kubernetes node gets the labels and the disk of the node, a
\* taint's key has its prefix once however often the patch was tried, and the pages of a
\* list hold every node once. The managers of a workspace are the users that manage it, they
\* may use it and find each other, a default workspace is everybody's, and a dispatched workload keeps its volume
\* claims, although an update writes its users before it is stored. Once all is at rest a
\* secret has its copies in the workspaces it names, a workspace and a cluster refer to its
\* latest version, and what is shown of a secret is what is stored. An addon that is shown
\* as running, with nothing left to do, is deployed with the template and the values it asks
\* for, although Helm fails, as long as nobody changes them between the controller's read and its
\* status write (shouldIgnoreUpgrade).
NothingDangles ==
    /\ scenario = "restartFault" => RestartFault!Owned
    /\ scenario = "cluster" => Made!ReadyIsUsable
    /\ scenario = "clusterFaults" => Shaken!ReadyIsUsable
    /\ scenario = "nodePatch" => NodePatch!LabelsFollow /\ NodePatch!PatchIsReal
    /\ scenario = "nodeRace" => NodeRace!KeysProper
    /\ scenario = "nodeList" => NodeList!PagesCover
    /\ scenario \in {"tenants", "tenantsAlone", "tenantsGone"} =>
          Tenant!ManagersAgree /\ Tenant!ManagersMayUse /\ Tenant!DefaultIsForAll
          /\ Tenant!ClaimsStay
    /\ scenario \in {"tenantsAlone", "tenantsGone"} => Tenant!MembersMeet
    /\ scenario = "secrets" => Keep!MirrorsFollow
    /\ scenario = "secretsTwo" => KeepTwo!MirrorsFollow
    /\ scenario = "secretsCalm" => KeepCalm!RefsFollow
    /\ scenario = "secretKinds" => KeepKinds!ShownIsStored
    /\ scenario = "addonAsked" => AddonAsked!RunningIsDeployed /\ AddonAsked!OneOperation
    /\ scenario = "addonOwned" => AddonOwned!RunningIsDeployed
    /\ scenario = "addonFails" => AddonFails!RunningIsDeployed
    /\ scenario = "addonBack" => AddonBack!RunningHasValues

\* A taint stays as long as its fault is there: only leaving the cluster or the
\* fault's deletion takes it from the admin node, although the fault controller
\* writes what it computed from an outdated node. And a taint is left without its fault
\* only by a controller that is behind the stored node or has used up its tries
\* (removeNodeTaint, retry).
TaintKept ==
    [][/\ scenario = "staleFault" /\ StaleFault!Untainted
            => fault = "deleting" \/ ~(StaleFault!Admin)'.managed
       /\ scenario = "staleFault" => ~StaleFault!Orphans]_vars

\* What is gone holds nothing: no workspace keeps a node that is reported as unmanaged,
\* and a workspace that is gone has left no node bound to it and nothing in the data
\* plane (its delete waits for the nodes before it removes the finalizer), as long as the
\* manager does not restart and no node is deleted. The nodes that
\* a cluster had taken in are not bound to it once it is gone, whatever call failed and
\* although the manager restarts, and they show no status either if nothing of that happened
\* (resetNodesOfCluster finds a node by the label that it removes first). A secret leaves no
\* copy that is known as one, and no reference unless it was set meanwhile. An addon that is
\* gone has left no release and no data source if neither Helm nor a write failed.
GoneIsClean ==
    /\ scenario = "join" => Join!UnmanagedIsFree
    /\ scenario = "scale" => Scale!GoneIsClean
    /\ scenario = "cluster" => Made!GoneIsFree
    /\ scenario = "secrets" => Keep!NoneLeft
    /\ scenario = "secretsCalm" => KeepCalm!NoneLeft
    /\ scenario = "addon" => Addon!GoneIsUninstalled

\* As long as the manager does not restart, a scale-up binds no more nodes than the replica asks
\* for, although it counts labels that lag behind the specs it has written (processWorkspace waits
\* for its expectations). A node does not pass from one workspace to another without being
\* free between (the node's webhook), over restarts and deletions of the node too. A machine
\* that stays up is reset before its cluster goes, whatever else fails. An addon does not go
\* before the release its status knows of, although Helm and writes fail and the manager
\* restarts (helmUninstall). A user gets the rights it is reported to have got.
BindingIsSafe ==
    [][/\ scenario = "scale" => ~Scale!OverBinds("w1")
       /\ scenario = "cluster" => ~Made!GoesInstalled
       /\ scenario = "share" => ~Share!Moves("n1")
       /\ scenario = "addonFails" => ~AddonFails!GoesDeployed
       /\ scenario \in {"tenants", "tenantsAlone"} => \A r \in DOMAIN proc : Tenant!GrantedAsAsked(r)]_vars

\* Once users are done a node that was added is managed or has failed to be, one that
\* was removed has left without trace or has failed to, and a workspace comes to rest
\* with the nodes it asked for if no node is deleted under it and the manager does not
\* restart. A cluster that is set up becomes ready or fails, and one
\* that is deleted goes, unless resetting it failed, whatever calls fail and although its machine
\* is down for a while and the manager restarts; if no requests are forwarded to it, as long as no
\* call fails (an admin.conf that cannot be read is only tried again by what forwarding
\* retries). A secret that was given workspaces goes once it is deleted. An addon comes to run as it
\* was asked for, or goes, although Helm fails, as long as calls to the API server succeed.
ComesToRest ==
    /\ <>[](/\ scenario = "rejoin" => Rejoin!AtRest
            /\ scenario = "settle" => Settle!Settled("w1"))
    /\ []<>(scenario \in {"clusterFaults", "clusterAgain", "clusterPlain"} => ~Shaken!Installing)
    /\ []<>(/\ scenario \in {"clusterFaults", "clusterAgain", "clusterPlain"} => ~Shaken!Leaving
            /\ scenario = "secretGoes" => ~KeepGoes!Leaving("s")
            /\ scenario = "addonEnds" => AddonEnds!Settled)
=============================================================================

------------------------------ MODULE Tenants ------------------------------
(***************************************************************************)
(* Users and workspaces. A user names the workspaces it may use and those  *)
(* it manages, a workspace names its managers and its volumes, and the     *)
(* admission webhooks keep the two sides together: an update of a          *)
(* workspace writes its users one by one before the workspace is stored,   *)
(* and each of these writes passes the webhook of the users.               *)
(***************************************************************************)
EXTENDS Integers, FiniteSetsExt, TLC

CONSTANTS
    Client,          \* the requests that may be in progress at a time
    User, Workspace,
    Asked,           \* what each of them may ask for: records of whom it is about and what it sets
    FirstUsers,      \* the users at the start, each with its role, its workspaces and those it manages
    FirstWorkspaces, \* the workspaces at the start, each with its managers
    Retries,         \* how often a request is tried (defaultRetryCount)
    MaxAsked, Conflicts, Workloads   \* bounds: requests, writes that meet another writer, workloads

VARIABLES
    user, wsp,       \* the objects
    claims,          \* the volume claims of each workspace in its data plane
    used,            \* the claims of its dispatched workloads
    proc,            \* each request
    failed,          \* whether some request was refused after it wrote users
    left             \* what remains of the bounds

vars == <<user, wsp, claims, used, proc, failed, left>>

Admin == "system-admin"
ReadOnly == "system-admin-readonly"
Manager == "workspace-admin"
Ordinary == "default"

\* What a request sets: an empty set where it leaves the value alone.
Given(x, old) == IF x = {} THEN old ELSE CHOOSE v \in x : TRUE

NoUser == [alive |-> FALSE, ws |-> {}, managed |-> {}, roles |-> {}, rv |-> 0]
NoWorkspace == [alive |-> FALSE, managers |-> {}, default |-> FALSE, vols |-> {}, rv |-> 0]
Idle == [at |-> "idle"]

----------------------------------------------------------------------------
(* Who may do what. *)

Rule(kinds, to, verbs) == [kinds |-> kinds, to |-> to, verbs |-> verbs]
Rules ==
    (Admin :> {Rule({"*"}, {"*"}, {"*"})}) @@
    (ReadOnly :> {Rule({"*"}, {"*"}, {"get", "list"})}) @@
    (Ordinary :> {Rule({"workload", "user", "secret"}, {"owner"}, {"get", "list", "update", "delete"}),
                  Rule({"workload"}, {"workspace-user"}, {"create", "get", "list"}),
                  Rule({"workspace", "user"}, {"workspace-user"}, {"get", "list"}),
                  Rule({"secret"}, {"workspace-user"}, {"create"})}) @@
    (Manager :> {Rule({"workload", "workspace"}, {"workspace-user"}, {"*"}),
                 Rule({"user/workspace"}, {"workspace-user"}, {"update"}),
                 Rule({"user"}, {"*"}, {"list"}), Rule({"secret"}, {"workspace-user"}, {"list"})})

\* The rules of a role for a kind and for what the user is to the object.
getPolicyRules(role, kind, owner, member) ==
    {r \in Rules[role] :
        /\ "*" \in r.kinds \/ kind \in r.kinds
        /\ \/ r.to = {} \/ "*" \in r.to
           \/ owner /\ "owner" \in r.to
           \/ member /\ "workspace-user" \in r.to}
isMatchVerb(rules, verb) == \E r \in rules : "*" \in r.verbs \/ verb \in r.verbs

\* A right in all of the workspaces that are named, and in at least one.
HasRight(mine, ws) == ws # {} /\ ws \subseteq mine
Authorize(me, kind, owner, ws, verb) ==
    \/ \E role \in me.roles : isMatchVerb(getPolicyRules(role, kind, owner, HasRight(me.ws, ws)), verb)
    \/ /\ me.managed # {}
       /\ isMatchVerb(getPolicyRules(Manager, kind, owner, HasRight(me.managed, ws)), verb)

\* Each part of a change of a user is authorized by itself.
authUserUpdate(q, target) ==
    LET me == user[q.by]
        moved == {w \in Given(q.ws, target.ws) \union target.ws :
                    ~(w \in Given(q.ws, target.ws) /\ w \in target.ws)}
    IN  /\ Given(q.roles, target.roles) # target.roles =>
              Authorize(me, "user/identity", q.by = q.u, target.ws, "update")
        /\ moved # {} => Authorize(me, "user/workspace", q.by = q.u, moved, "update")
isChanged(q, target) == Given(q.roles, target.roles) # target.roles \/ Given(q.ws, target.ws) # target.ws

\* A user is shown for any of its workspaces, or for the one that is asked about.
authUserGet(by, u, of, verb) ==
    LET ws == IF of = {} THEN user[u].ws ELSE of
    IN  IF ws = {} THEN Authorize(user[by], "user", by = u, {}, verb)
        ELSE \E w \in ws : Authorize(user[by], "user", by = u, {w}, verb)
getUser(by, u) == user[u].alive /\ authUserGet(by, u, {}, "get")
listUser(by, of) ==
    {u \in User : user[u].alive /\ (of # {} => HasRight(user[u].ws, of)) /\ authUserGet(by, u, of, "list")}
listWorkspace(by) == {w \in Workspace : wsp[w].alive /\ Authorize(user[by], "workspace", FALSE, {w}, "list")}

----------------------------------------------------------------------------
(* The webhook of the users. *)

mutateRoles(roles) ==
    IF Admin \in roles THEN IF Cardinality(roles) > 1 THEN {Admin} ELSE roles
    ELSE (roles \ {Manager}) \union {Ordinary}

\* Workspaces that are gone are dropped and the default ones added, if that changes their number.
mutateWorkspace(ws) ==
    LET all == {w \in Workspace : wsp[w].alive /\ (w \in ws \/ wsp[w].default)}
    IN  IF Cardinality(all) # Cardinality(ws) THEN all ELSE ws
mutateManagedWorkspaces(managed, ws, check) ==
    {w \in managed : wsp[w].alive /\ (check => w \in ws)}
\* A workspace that is still managed cannot be taken away.
validateAccessRemoved(new, old) == \A w \in old.ws : w \in new.ws \/ w \notin new.managed

Mutated(rec, creation) ==
    LET ws == mutateWorkspace(rec.ws)
    IN  [rec EXCEPT !.roles = mutateRoles(rec.roles), !.ws = ws,
                    !.managed = mutateManagedWorkspaces(rec.managed, ws, creation)]
\* What is stored in place of the user, and what it is stored under.
Stored(u, rec) ==
    LET new == [Mutated(rec, FALSE) EXCEPT !.rv = user[u].rv]
    IN  IF new = user[u] THEN user[u] ELSE [new EXCEPT !.rv = user[u].rv + 1]
Accepted(u, rec) == user[u].alive /\ validateAccessRemoved(Mutated(rec, FALSE), user[u])

----------------------------------------------------------------------------
(* The requests about users. *)

Done(r) == proc' = [proc EXCEPT ![r] = Idle]
Refused(r) == Done(r) /\ failed' = (failed \/ proc[r].wrote)
\* A write that meets another writer is tried again from a fresh object.
Again(r) ==
    IF proc[r].tries < Retries
    THEN proc' = [proc EXCEPT ![r].tries = @ + 1, ![r].at = "read"] /\ UNCHANGED failed
    ELSE Refused(r)
Conflict(r) ==
    /\ left.conflicts > 0 /\ left' = [left EXCEPT !.conflicts = @ - 1] /\ Again(r)
    /\ UNCHANGED <<user, wsp, claims, used>>

\* A request in progress: the copies it works on, the users it still has to write, and whether it wrote one.
Process(q, at) ==
    [at |-> at, q |-> q, tries |-> 1, mine |-> NoUser, snap |-> NoWorkspace, base |-> 0,
     adds |-> {}, dels |-> {}, defs |-> {}, ids |-> {}, wrote |-> FALSE]
Begin(r, q) ==
    /\ proc[r] = Idle /\ left.asked > 0 /\ user[q.by].alive
    /\ left' = [left EXCEPT !.asked = @ - 1] /\ proc' = [proc EXCEPT ![r] = Process(q, "check")]
    /\ UNCHANGED <<user, wsp, claims, used, failed>>

createUser(r) ==
    LET q == proc[r].q
    IN  /\ proc[r].at = "check" /\ q.op = "createUser" /\ Done(r)
        /\ user' = IF user[q.u].alive THEN user
                   ELSE [user EXCEPT ![q.u] = [Mutated(NoUser, TRUE) EXCEPT !.alive = TRUE, !.rv = user[q.u].rv + 1]]
        /\ UNCHANGED <<wsp, claims, used, failed, left>>

\* What is authorized is checked once, what is written is applied to the object of each try.
checkPatchUser(r) ==
    LET q == proc[r].q
    IN  /\ proc[r].at = "check" /\ q.op = "patchUser"
        /\ IF user[q.u].alive /\ isChanged(q, user[q.u]) /\ authUserUpdate(q, user[q.u])
           THEN proc' = [proc EXCEPT ![r].at = "user", ![r].mine = user[q.u]] ELSE Done(r)
        /\ UNCHANGED <<user, wsp, claims, used, failed, left>>
applyUserPatch(mine, q) == [mine EXCEPT !.ws = Given(q.ws, @), !.roles = Given(q.roles, @)]
patchUser(r) ==
    LET q == proc[r].q
        mine == applyUserPatch(proc[r].mine, q)
    IN  /\ proc[r].at = "user"
        /\ IF ~Accepted(q.u, mine) THEN Refused(r) /\ UNCHANGED user
           ELSE IF mine.rv # user[q.u].rv THEN Again(r) /\ UNCHANGED user
           ELSE user' = [user EXCEPT ![q.u] = Stored(q.u, mine)] /\ Done(r) /\ UNCHANGED failed
        /\ UNCHANGED <<wsp, claims, used, left>>
readUser(r) ==
    /\ proc[r].at = "read" /\ proc[r].q.op = "patchUser"
    /\ IF user[proc[r].q.u].alive THEN proc' = [proc EXCEPT ![r].at = "user", ![r].mine = user[proc[r].q.u]]
                                  ELSE Done(r)
    /\ UNCHANGED <<user, wsp, claims, used, failed, left>>

\* A user that is deleted first leaves the workspaces it manages.
deleteUser(r) ==
    LET q == proc[r].q
    IN  /\ proc[r].at = "check" /\ q.op = "deleteUser"
        /\ IF user[q.u].alive /\ Authorize(user[q.by], "user", q.by = q.u, user[q.u].ws, "delete")
           THEN proc' = [proc EXCEPT ![r].at = "leave", ![r].ids = user[q.u].managed] ELSE Done(r)
        /\ UNCHANGED <<user, wsp, claims, used, failed, left>>
removeWorkspaceManager(r) ==
    /\ proc[r].at = "leave" /\ proc[r].ids # {}
    /\ \E w \in proc[r].ids :
         LET rest == [proc[r] EXCEPT !.ids = @ \ {w}]
         IN  proc' = [proc EXCEPT ![r] =
                IF ~wsp[w].alive \/ proc[r].q.u \notin wsp[w].managers THEN rest
                ELSE [rest EXCEPT !.at = "patch", !.q.w = w, !.snap = wsp[w],
                                  !.q.managers = {wsp[w].managers \ {proc[r].q.u}}]]
    /\ UNCHANGED <<user, wsp, claims, used, failed, left>>
endDeleteUser(r) ==
    /\ proc[r].at = "leave" /\ proc[r].ids = {} /\ Done(r)
    /\ user' = [user EXCEPT ![proc[r].q.u] = [NoUser EXCEPT !.rv = user[proc[r].q.u].rv + 1]]
    /\ UNCHANGED <<wsp, claims, used, failed, left>>

----------------------------------------------------------------------------
(* The requests about workspaces, and the webhook of the workspaces. *)

checkWorkspace(r) ==
    LET q == proc[r].q
        verb == CASE q.op = "createWorkspace" -> "create" [] q.op = "deleteWorkspace" -> "delete" [] OTHER -> "update"
    IN  /\ proc[r].at = "check" /\ q.op \in {"createWorkspace", "patchWorkspace", "deleteWorkspace"}
        /\ IF /\ Authorize(user[q.by], "workspace", FALSE, IF verb = "create" THEN {} ELSE {q.w}, verb)
              /\ wsp[q.w].alive = (verb # "create")
           THEN proc' = [proc EXCEPT ![r].at = IF verb = "delete" THEN "delete" ELSE "read"] ELSE Done(r)
        /\ UNCHANGED <<user, wsp, claims, used, failed, left>>
readWorkspace(r) ==
    LET q == proc[r].q
    IN  /\ proc[r].at = "read" /\ q.op \in {"createWorkspace", "patchWorkspace"}
        /\ proc' = [proc EXCEPT ![r].at = "patch", ![r].snap = wsp[q.w]]
        /\ UNCHANGED <<user, wsp, claims, used, failed, left>>
applyWorkspacePatch(snap, q) ==
    [snap EXCEPT !.managers = Given(q.managers, @), !.default = Given(q.default, @), !.vols = Given(q.vols, @)]

\* New volumes are numbered after the highest number of the list.
mutateVolumes(vols) ==
    LET top == Max({v.id : v \in vols} \union {0})
    IN  {IF v.id = 0 THEN [v EXCEPT !.id = top + 1] ELSE v : v \in vols}
\* The webhook compares what is asked for with what is stored now.
admit(r) ==
    LET q == proc[r].q
        old == wsp[q.w]
        new == applyWorkspacePatch(IF q.op = "deleteUser" THEN old ELSE proc[r].snap, q)
    IN  /\ proc[r].at = "patch"
        /\ proc' = [proc EXCEPT ![r].at = "users", ![r].base = old.rv,
                    ![r].snap = [new EXCEPT !.vols = mutateVolumes(new.vols)],
                    ![r].adds = new.managers \ old.managers, ![r].dels = old.managers \ new.managers,
                    ![r].defs = IF new.default /\ ~(old.alive /\ old.default)
                                THEN {u \in User : user[u].alive} ELSE {}]
        /\ UNCHANGED <<user, wsp, claims, used, failed, left>>
\* A user is written as the webhook of the users makes it; one that is gone is no manager.
Write(r, u, rec, rest) ==
    IF ~user[u].alive \/ rec = user[u] THEN proc' = [proc EXCEPT ![r] = rest] /\ UNCHANGED <<user, failed>>
    ELSE IF ~Accepted(u, rec) THEN Refused(r) /\ UNCHANGED user
    ELSE /\ user' = [user EXCEPT ![u] = Stored(u, rec)]
         /\ proc' = [proc EXCEPT ![r] = [rest EXCEPT !.wrote = TRUE]] /\ UNCHANGED failed
mutateManagersAdd(r, u) ==
    LET w == proc[r].q.w
        rest == [proc[r] EXCEPT !.adds = @ \ {u}, !.snap.managers = IF user[u].alive THEN @ ELSE @ \ {u}]
    IN  /\ proc[r].at = "users" /\ u \in proc[r].adds
        /\ Write(r, u, [user[u] EXCEPT !.ws = @ \union {w}, !.managed = @ \union {w}], rest)
        /\ UNCHANGED <<wsp, claims, used, left>>
mutateManagersDel(r, u) ==
    /\ proc[r].at = "users" /\ proc[r].adds = {} /\ u \in proc[r].dels
    /\ Write(r, u, [user[u] EXCEPT !.managed = @ \ {proc[r].q.w}], [proc[r] EXCEPT !.dels = @ \ {u}])
    /\ UNCHANGED <<wsp, claims, used, left>>
mutateDefaultWorkspaceUsers(r, u) ==
    /\ proc[r].at = "users" /\ proc[r].adds = {} /\ proc[r].dels = {} /\ u \in proc[r].defs
    /\ Write(r, u, [user[u] EXCEPT !.ws = @ \union {proc[r].q.w}], [proc[r] EXCEPT !.defs = @ \ {u}])
    /\ UNCHANGED <<wsp, claims, used, left>>

\* A volume keeps its class, and stays while a workload has it.
validateVolumes(new, old) == \A v \in new, o \in old : v.id = o.id => v.class = o.class
validateVolumeRemoved(w, new, old) == {o.id : o \in old} \subseteq {v.id : v \in new} \/ used[w] = {}
\* The update is stored if nobody changed the workspace since the copy was taken; the patch of a
\* deletion is made again on the newer one.
storeWorkspace(r) ==
    LET q == proc[r].q
        old == wsp[q.w]
        new == proc[r].snap
        same == IF q.op = "deleteUser" THEN proc[r].base = old.rv ELSE new.rv = old.rv
        next == [proc[r] EXCEPT !.at = "leave"]
    IN  /\ proc[r].at = "users" /\ proc[r].adds \union proc[r].dels \union proc[r].defs = {}
        /\ IF ~(validateVolumes(new.vols, old.vols) /\ validateVolumeRemoved(q.w, new.vols, old.vols))
           THEN Refused(r) /\ UNCHANGED wsp
           ELSE IF q.op = "deleteUser" /\ ~same
           THEN proc' = [proc EXCEPT ![r].at = IF old.alive THEN "patch" ELSE "leave"] /\ UNCHANGED <<wsp, failed>>
           ELSE IF ~same THEN Again(r) /\ UNCHANGED wsp
           ELSE /\ wsp' = [wsp EXCEPT ![q.w] = [new EXCEPT !.alive = TRUE, !.rv = old.rv + 1]]
                /\ IF q.op = "deleteUser" THEN proc' = [proc EXCEPT ![r] = next] ELSE Done(r)
                /\ UNCHANGED failed
        /\ UNCHANGED <<user, claims, used, left>>
deleteWorkspace(r) ==
    LET w == proc[r].q.w
    IN  /\ proc[r].at = "delete" /\ Done(r)
        /\ wsp' = [wsp EXCEPT ![w] = [NoWorkspace EXCEPT !.rv = wsp[w].rv + 1]]
        /\ claims' = [claims EXCEPT ![w] = {}] /\ used' = [used EXCEPT ![w] = {}]
        /\ UNCHANGED <<user, failed, left>>

----------------------------------------------------------------------------
(* The data plane. *)

\* Claims of volumes that are no longer named go, those of volumes without one are created.
Current(w) == {c \in claims[w] : \E v \in wsp[w].vols : v.id = c.id}
syncDataPlanePVC(w) ==
    /\ wsp[w].alive
    /\ claims' = [claims EXCEPT ![w] =
          Current(w) \union {v \in wsp[w].vols : \A c \in claims[w] : c.id # v.id}]
    /\ claims' # claims
    /\ UNCHANGED <<user, wsp, used, proc, failed, left>>
\* A workload is dispatched with the volumes of its workspace, and ends.
Dispatch(w) ==
    /\ left.workloads > 0 /\ wsp[w].alive /\ used[w] = {} /\ wsp[w].vols # {} /\ wsp[w].vols \subseteq claims[w]
    /\ used' = [used EXCEPT ![w] = wsp[w].vols] /\ left' = [left EXCEPT !.workloads = @ - 1]
    /\ UNCHANGED <<user, wsp, claims, proc, failed>>
WorkloadEnds(w) ==
    /\ used[w] # {} /\ used' = [used EXCEPT ![w] = {}]
    /\ UNCHANGED <<user, wsp, claims, proc, failed, left>>

----------------------------------------------------------------------------
Init ==
    /\ user = [u \in User |-> IF u \in DOMAIN FirstUsers
                              THEN [NoUser EXCEPT !.alive = TRUE, !.roles = FirstUsers[u].roles, !.ws = FirstUsers[u].ws,
                                                  !.managed = FirstUsers[u].managed] ELSE NoUser]
    /\ wsp = [w \in Workspace |-> IF w \in DOMAIN FirstWorkspaces
                                  THEN [NoWorkspace EXCEPT !.alive = TRUE, !.managers = FirstWorkspaces[w]] ELSE NoWorkspace]
    /\ claims = [w \in Workspace |-> {}] /\ used = [w \in Workspace |-> {}]
    /\ proc = [r \in Client |-> Idle] /\ failed = FALSE
    /\ left = [asked |-> MaxAsked, conflicts |-> Conflicts, workloads |-> Workloads]

Step(r) ==
    \/ createUser(r) \/ checkPatchUser(r) \/ patchUser(r) \/ readUser(r)
    \/ deleteUser(r) \/ removeWorkspaceManager(r) \/ endDeleteUser(r)
    \/ checkWorkspace(r) \/ readWorkspace(r) \/ admit(r) \/ storeWorkspace(r) \/ deleteWorkspace(r)
    \/ \E u \in User : mutateManagersAdd(r, u) \/ mutateManagersDel(r, u) \/ mutateDefaultWorkspaceUsers(r, u)
    \/ proc[r].at \in {"user", "users"} /\ proc[r].q.op # "deleteUser" /\ Conflict(r)
Next ==
    \/ \E r \in Client : (\E q \in Asked[r] : Begin(r, q)) \/ Step(r)
    \/ \E w \in Workspace : syncDataPlanePVC(w) \/ Dispatch(w) \/ WorkloadEnds(w)
    \/ (\A r \in Client : proc[r] = Idle) /\ UNCHANGED vars

Spec == Init /\ [][Next]_vars

----------------------------------------------------------------------------
(* What a run may state. *)

Resting == ~failed /\ \A r \in Client : proc[r] = Idle
TypeOK ==
    /\ \A u \in User : user[u].alive =>
          /\ user[u].ws \union user[u].managed \subseteq Workspace
          /\ user[u].roles # {} /\ Manager \notin user[u].roles
          /\ IF Admin \in user[u].roles THEN user[u].roles = {Admin} ELSE Ordinary \in user[u].roles
    /\ \A w \in Workspace : wsp[w].managers \subseteq User /\ \A v \in wsp[w].vols : v.id > 0
    /\ \A r \in Client : proc[r].at \in {"idle", "check", "read", "user", "leave", "patch", "users", "delete"}
\* The managers of a workspace are the users that manage it.
ManagersAgree ==
    Resting => \A w \in Workspace, u \in User : wsp[w].alive /\ user[u].alive =>
                  (u \in wsp[w].managers <=> w \in user[u].managed)
\* Who manages a workspace may use it.
ManagersMayUse == \A u \in User : user[u].managed \subseteq user[u].ws
\* A default workspace is everybody's.
DefaultIsForAll ==
    Resting => \A w \in Workspace, u \in User :
                  wsp[w].alive /\ wsp[w].default /\ user[u].alive => w \in user[u].ws
\* A dispatched workload keeps its claims.
ClaimsStay == \A w \in Workspace : used[w] \subseteq claims[w]
\* Members of a workspace find it and each other in its list, and who may be read may be found.
MembersMeet ==
    \A u \in {x \in User : user[x].alive} :
        /\ {w \in user[u].ws : wsp[w].alive} \subseteq listWorkspace(u)
        /\ \A w \in user[u].ws : {v \in User : user[v].alive /\ w \in user[v].ws} \subseteq listUser(u, {w})
        /\ {v \in User : getUser(u, v)} \union UNION {listUser(u, {w}) : w \in Workspace} \subseteq listUser(u, {})
\* A user may do what its roles, as they were asked for, and its workspaces allow.
May(me) == {<<kind, own, ws, verb>> \in
              {"user", "user/workspace", "workspace", "secret"} \X BOOLEAN
              \X (SUBSET {w \in Workspace : wsp[w].alive}) \X {"list", "create", "update"} :
              Authorize(me, kind, own, ws, verb)}
GrantedAsAsked(r) ==
    LET asked == applyUserPatch(proc[r].mine, proc[r].q)
    IN  proc[r].at = "user" /\ user' # user /\ proc'[r] = Idle =>
           May([asked EXCEPT !.roles = @ \ {Manager}]) \subseteq May(user'[proc[r].q.u])
============================================================================

------------------------------ MODULE Secrets ------------------------------
(***************************************************************************)
(* Secrets and their copies. A secret of the admin plane names the         *)
(* workspaces that use it; a controller copies it into their namespaces in *)
(* the data plane, keeps the versions that workspaces and the cluster      *)
(* refer to, and takes all of that back when the secret is deleted.        *)
(* Authorization is left out.                                              *)
(***************************************************************************)
EXTENDS Integers, Sequences, FiniteSets, TLC

CONSTANTS
    Client,          \* requests in progress at a time
    Secret, Workspace,
    Asked,           \* what each client may ask for
    Foreign,         \* workspaces that have a secret of their own under each name
    Calm,            \* whether requests come when the controller is at rest
    Retries,         \* tries of a request that meets another writer (defaultRetryCount)
    MaxAsked, Downs, Restarts, Errors   \* bounds

VARIABLES
    sec,             \* the secrets
    wsp,             \* the workspaces and the image secrets they refer to
    mirror,          \* the secrets in the namespaces of the data plane
    cref,            \* the secret and the version that the cluster refers to
    up,              \* whether the clients of each workspace's cluster are ready
    queue, ctl,      \* the controller
    req,             \* the requests
    left

vars == <<sec, wsp, mirror, cref, up, queue, ctl, req, left>>

NoData == <<>>
NoSecret == [alive |-> FALSE, kind |-> "", data |-> NoData, ws |-> {}, deleting |-> FALSE, ver |-> 0]
NoMirror == [there |-> FALSE, managed |-> FALSE, data |-> NoData]
NoSpace == [alive |-> FALSE, images |-> {}, ver |-> 0]
Idle == [at |-> "idle"]
\* The workspaces annotation holds a list, also an empty one, or there is none.
GetSecretWorkspaces(x) == UNION x.ws

----------------------------------------------------------------------------
(* What is sent, stored and shown: text, and text in base 64. *)

Empty == <<>>
Base64Encode(v) == IF v = Empty THEN Empty ELSE <<"base64">> \o v
Base64Decode(v) == IF v # Empty /\ Head(v) = "base64" THEN Tail(v) ELSE Empty
Param(p, k) == IF k \in DOMAIN p THEN p[k] ELSE Empty
existKey(p, k) == Param(p, k) # Empty

ImageKeys == {"username", "password", "server"}
\* A later entry for a registry replaces an earlier one.
ImageData(params) ==
    LET Last(s) == CHOOSE i \in DOMAIN params : /\ params[i]["server"] = s
                                               /\ \A j \in DOMAIN params : params[j]["server"] = s => j <= i
    IN  [s \in {params[i]["server"] : i \in DOMAIN params} |->
            <<params[Last(s)]["username"], Base64Decode(params[Last(s)]["password"])>>]
SshData(p) ==
    ("username" :> p["username"]) @@
    IF existKey(p, "password") THEN "password" :> Base64Decode(p["password"])
    ELSE ("ssh-privatekey" :> Base64Decode(Param(p, "privateKey"))) @@
         ("ssh-publickey" :> Base64Decode(Param(p, "publicKey")))
Sendable(kind, params) ==
    CASE kind = "image" -> \A i \in DOMAIN params : \A k \in ImageKeys : existKey(params[i], k)
      [] kind = "ssh" -> /\ params # <<>> /\ existKey(params[1], "username")
                         /\ \/ existKey(params[1], "password")
                            \/ existKey(params[1], "publicKey") /\ existKey(params[1], "privateKey")
      [] kind = "general" -> params # <<>>
      [] OTHER -> FALSE
buildSecretData(kind, params) ==
    CASE kind = "image" -> ImageData(params)
      [] kind = "ssh" -> SshData(params[1])
      [] kind = "general" -> [k \in DOMAIN params[1] |-> Base64Decode(params[1][k])]

\* What is shown of a secret, in the form in which it was sent; entries come in any order.
cvtToGetSecretResponse(kind, data) ==
    CASE kind = "image" ->
           {("server" :> s) @@ ("username" :> data[s][1]) @@ ("password" :> Base64Encode(data[s][2])) : s \in DOMAIN data}
      [] kind = "ssh" ->
           {("username" :> data["username"]) @@
            IF existKey(data, "password") THEN "password" :> Base64Encode(data["password"])
            ELSE [k \in {x \in {"privateKey", "publicKey"} :
                           existKey(data, IF x = "privateKey" THEN "ssh-privatekey" ELSE "ssh-publickey")} |->
                    Base64Encode(data[IF k = "privateKey" THEN "ssh-privatekey" ELSE "ssh-publickey"])]}
      [] kind = "general" -> {[k \in DOMAIN data |-> Base64Encode(data[k])]}

----------------------------------------------------------------------------
(* The requests. *)

\* The controller hears of a new secret that names workspaces and of a change of its data, its
\* workspaces or its deletion.
Relevant(old, new) ==
    IF ~old.alive THEN new.alive /\ new.ws # {}
    ELSE new.alive /\ (new.deleting # old.deleting \/ new.ws # old.ws \/ new.data # old.data \/ new.kind # old.kind)
Put(s, new) ==
    /\ sec' = [sec EXCEPT ![s] = IF new = sec[s] THEN new ELSE [new EXCEPT !.ver = sec[s].ver + 1]]
    /\ queue' = IF Relevant(sec[s], new) THEN queue \union {s} ELSE queue
Same == UNCHANGED <<mirror, cref, up, ctl>>
Done(r) == req' = [req EXCEPT ![r] = Idle]

Resting == queue = {} /\ ctl = Idle
Begin(r, q) ==
    /\ req[r] = Idle /\ left.asked > 0 /\ (Calm => Resting /\ \A c \in Client : req[c] = Idle)
    /\ left' = [left EXCEPT !.asked = @ - 1]
    /\ req' = [req EXCEPT ![r] = [at |-> "start", q |-> q, snap |-> NoSecret, space |-> NoSpace, tries |-> 1,
                                  todo |-> {}, seen |-> <<>>, refs |-> {}]]
    /\ UNCHANGED <<sec, wsp, queue>> /\ Same
At(r, at, op) == req[r] # Idle /\ req[r].at = at /\ req[r].q.op = op

createSecret(r) ==
    LET q == req[r].q
    IN  /\ At(r, "start", "createSecret") /\ Done(r)
        /\ IF ~sec[q.s].alive /\ q.content.params # <<>> /\ Sendable(q.content.kind, q.content.params)
           THEN Put(q.s, [NoSecret EXCEPT !.alive = TRUE, !.kind = q.content.kind, !.ws = IF q.ws = {} THEN {} ELSE {q.ws},
                                          !.data = buildSecretData(q.content.kind, q.content.params)])
           ELSE UNCHANGED <<sec, queue>>
        /\ UNCHANGED <<wsp, left>> /\ Same
deleteSecret(r) ==
    LET s == req[r].q.s
    IN  /\ At(r, "start", "deleteSecret") /\ Done(r)
        /\ IF sec[s].alive THEN Put(s, [sec[s] EXCEPT !.deleting = TRUE]) ELSE UNCHANGED <<sec, queue>>
        /\ UNCHANGED <<wsp, left>> /\ Same

getAdminSecret(r) ==
    LET s == req[r].q.s
    IN  /\ At(r, "start", "patchSecret")
        /\ IF sec[s].alive THEN req' = [req EXCEPT ![r].at = "update", ![r].snap = sec[s]] ELSE Done(r)
        /\ UNCHANGED <<sec, queue, wsp, left>> /\ Same
\* The parameters are made into data of the type the secret has; the workspaces are replaced.
applySecretPatch(snap, q) ==
    [snap EXCEPT !.data = IF q.content.params = <<>> THEN @ ELSE buildSecretData(snap.kind, q.content.params),
                 !.ws = IF q.keep THEN @ ELSE {q.ws}]
patchSecret(r) ==
    LET q == req[r].q
        snap == req[r].snap
        valid == q.content.params = <<>> \/ Sendable(snap.kind, q.content.params)
        same == sec[q.s].alive /\ sec[q.s].ver = snap.ver
    IN  /\ At(r, "update", "patchSecret")
        /\ IF valid /\ same THEN Put(q.s, applySecretPatch(snap, q)) ELSE UNCHANGED <<sec, queue>>
        /\ IF valid /\ ~same /\ req[r].tries < Retries
           THEN req' = [req EXCEPT ![r].at = "start", ![r].tries = @ + 1] ELSE Done(r)
        /\ UNCHANGED <<wsp, left>> /\ Same

\* The image secrets of a workspace: all of them are read, each is told of the workspace if
\* it did not know it, and the workspace is stored with their versions.
getAdminWorkspace(r) ==
    LET w == req[r].q.w
    IN  /\ At(r, "start", "setImages")
        /\ IF ~wsp[w].alive THEN Done(r) ELSE req' = [req EXCEPT ![r].at = "secrets", ![r].space = wsp[w]]
        /\ UNCHANGED <<sec, queue, wsp, left>> /\ Same
readSecrets(r) ==
    LET q == req[r].q
    IN  /\ At(r, "secrets", "setImages")
        /\ IF \E s \in q.ids : ~sec[s].alive \/ sec[s].kind # "image" THEN Done(r)
           ELSE req' = [req EXCEPT ![r].at = "tell", ![r].todo = q.ids, ![r].refs = {}, ![r].seen = sec]
        /\ UNCHANGED <<sec, queue, wsp, left>> /\ Same
updateWorkspaceImageSecrets(r) ==
    LET q == req[r].q
        seen == req[r].seen
        refer(s, v) == [req EXCEPT ![r].todo = @ \ {s}, ![r].refs = @ \union {[s |-> s, ver |-> v]}]
    IN  /\ At(r, "tell", "setImages")
        /\ \E s \in req[r].todo :
             IF q.w \in GetSecretWorkspaces(seen[s]) THEN req' = refer(s, seen[s].ver) /\ UNCHANGED <<sec, queue>>
             ELSE IF ~sec[s].alive THEN Done(r) /\ UNCHANGED <<sec, queue>>
             ELSE /\ Put(s, [sec[s] EXCEPT !.ws = {GetSecretWorkspaces(seen[s]) \union {q.w}}])
                  /\ req' = refer(s, sec'[s].ver)
        /\ UNCHANGED <<wsp, left>> /\ Same
updateWorkspace(r) ==
    LET q == req[r].q
        same == wsp[q.w].alive /\ wsp[q.w].ver = req[r].space.ver
    IN  /\ At(r, "tell", "setImages") /\ req[r].todo = {}
        /\ wsp' = IF ~same \/ wsp[q.w].images = req[r].refs THEN wsp
                  ELSE [wsp EXCEPT ![q.w].images = req[r].refs, ![q.w].ver = @ + 1]
        /\ IF ~same /\ wsp[q.w].alive /\ req[r].tries < Retries
           THEN req' = [req EXCEPT ![r].at = "secrets", ![r].space = wsp[q.w], ![r].tries = @ + 1] ELSE Done(r)
        /\ UNCHANGED <<sec, queue, left>> /\ Same
\* A workspace comes and goes with its namespace, and a cluster is given a secret.
createWorkspace(r) ==
    LET w == req[r].q.w
    IN  /\ At(r, "start", "createWorkspace") /\ Done(r)
        /\ wsp' = IF wsp[w].alive THEN wsp ELSE [wsp EXCEPT ![w] = [NoSpace EXCEPT !.alive = TRUE, !.ver = wsp[w].ver + 1]]
        /\ UNCHANGED <<sec, queue, left>> /\ Same
deleteWorkspace(r) ==
    LET w == req[r].q.w
    IN  /\ At(r, "start", "deleteWorkspace") /\ Done(r)
        /\ wsp' = [wsp EXCEPT ![w] = [NoSpace EXCEPT !.ver = wsp[w].ver + 1]]
        /\ mirror' = [mirror EXCEPT ![w] = [s \in Secret |-> NoMirror]]
        /\ UNCHANGED <<sec, queue, left, cref, up, ctl>>
createCluster(r) ==
    LET s == req[r].q.s
    IN  /\ At(r, "start", "createCluster") /\ Done(r)
        /\ cref' = IF sec[s].alive /\ cref = {} THEN {[s |-> s, ver |-> sec[s].ver]} ELSE cref
        /\ UNCHANGED <<sec, queue, wsp, left, mirror, up, ctl>>

----------------------------------------------------------------------------
(* The controller, one secret at a time. *)

Alone == UNCHANGED <<sec, wsp, mirror, cref>>
Again == queue' = queue \union {ctl.s} /\ ctl' = Idle
Reconcile(s) ==
    /\ ctl = Idle /\ s \in queue /\ queue' = queue \ {s}
    /\ LET x == sec[s]
           start(at) == [at |-> at, s |-> s, snap |-> x, keep |-> GetSecretWorkspaces(x), todo |-> GetSecretWorkspaces(x),
                         spaces |-> wsp, w |-> {}]
       IN  ctl' = CASE ~x.alive -> Idle
                    [] x.alive /\ x.deleting -> [start("uncluster") EXCEPT !.keep = {}]
                    [] x.alive /\ ~x.deleting /\ GetSecretWorkspaces(x) = {} -> start("list")
                    [] OTHER -> start("sync")
    /\ Alone /\ UNCHANGED <<up, req, left>>

Copy == [there |-> TRUE, managed |-> TRUE, data |-> ctl.snap.data]
\* The copy in a workspace is made or brought up to date, from the workspace as it is read now.
syncSecretToWorkspace(w) ==
    /\ ctl.at = "sync" /\ w \in ctl.todo
    /\ IF ~wsp[w].alive THEN ctl' = [ctl EXCEPT !.todo = @ \ {w}] /\ UNCHANGED <<mirror, queue>>
       ELSE IF ~up[w] THEN Again /\ UNCHANGED mirror
       ELSE /\ mirror' = [mirror EXCEPT ![w][ctl.s] = Copy]
            /\ ctl' = [ctl EXCEPT !.at = "refer", !.w = {w}, !.spaces[w] = wsp[w], !.todo = @ \ {w}] /\ UNCHANGED queue
    /\ UNCHANGED <<sec, wsp, cref, up, req, left>>
\* A patch replaces the whole list by the one that was read, if it changes anything in it.
Replace(w, images) ==
    wsp' = IF images = ctl.spaces[w].images \/ ~wsp[w].alive THEN wsp
           ELSE [wsp EXCEPT ![w].images = images, ![w].ver = @ + 1]
Ref == [s |-> ctl.s, ver |-> ctl.snap.ver]
updateWorkspaceRefSecret ==
    /\ ctl.at = "refer"
    /\ \A w \in ctl.w : Replace(w, {IF i.s = ctl.s THEN Ref ELSE i : i \in ctl.spaces[w].images})
    /\ ctl' = [ctl EXCEPT !.at = "sync", !.w = {}]
    /\ UNCHANGED <<sec, mirror, cref, up, queue, req, left>>
updateClusterRefSecret ==
    /\ ctl.at = "sync" /\ ctl.todo = {}
    /\ cref' = {IF c.s = ctl.s THEN Ref ELSE c : c \in cref}
    /\ ctl' = [ctl EXCEPT !.at = "list"]
    /\ UNCHANGED <<sec, wsp, mirror, up, queue, req, left>>

removeSecretFromCluster ==
    /\ ctl.at = "uncluster" /\ cref' = {c \in cref : c.s # ctl.s}
    /\ ctl' = [ctl EXCEPT !.at = "unref"]
    /\ UNCHANGED <<sec, wsp, mirror, up, queue, req, left>>
Without(w) == {i \in ctl.spaces[w].images : i.s # ctl.s}
removeSecretFromWorkspaces(w) ==
    /\ ctl.at = "unref" /\ w \in ctl.todo
    /\ wsp' = IF ~wsp[w].alive \/ \A i \in wsp[w].images : i.s # ctl.s THEN wsp
              ELSE [wsp EXCEPT ![w].images = {i \in @ : i.s # ctl.s}, ![w].ver = @ + 1]
    /\ ctl' = [ctl EXCEPT !.todo = @ \ {w}]
    /\ UNCHANGED <<sec, mirror, cref, up, queue, req, left>>
endUnref ==
    /\ ctl.at = "unref" /\ ctl.todo = {}
    /\ ctl' = [ctl EXCEPT !.at = IF ctl.snap.ws # {} THEN "list" ELSE "end"]
    /\ UNCHANGED <<sec, wsp, mirror, cref, up, queue, req, left>>

\* Workspaces that are not to be kept are listed, and lose the reference and then the copy.
listWorkspaces ==
    /\ ctl.at = "list"
    /\ ctl' = [ctl EXCEPT !.at = "clean", !.spaces = wsp, !.todo = {w \in Workspace : wsp[w].alive} \ ctl.keep]
    /\ UNCHANGED <<sec, wsp, mirror, cref, up, queue, req, left>>
cleanupReference(w) ==
    /\ ctl.at = "clean" /\ ctl.w = {} /\ w \in ctl.todo
    /\ IF up[w] THEN Replace(w, Without(w)) /\ ctl' = [ctl EXCEPT !.w = {w}] /\ UNCHANGED queue
       ELSE Again /\ UNCHANGED wsp
    /\ UNCHANGED <<sec, mirror, cref, up, req, left>>
cleanupMirroredSecrets(w) ==
    /\ ctl.at = "clean" /\ w \in ctl.w
    /\ mirror' = IF mirror[w][ctl.s].managed THEN [mirror EXCEPT ![w][ctl.s] = NoMirror] ELSE mirror
    /\ ctl' = [ctl EXCEPT !.w = {}, !.todo = @ \ {w}]
    /\ UNCHANGED <<sec, wsp, cref, up, queue, req, left>>
endClean ==
    /\ ctl.at = "clean" /\ ctl.todo = {}
    /\ ctl' = IF ctl.snap.deleting THEN [ctl EXCEPT !.at = "end"] ELSE Idle
    /\ UNCHANGED <<sec, wsp, mirror, cref, up, queue, req, left>>
\* The finalizer is taken from the secret as it is by now, and then the secret is gone.
RemoveFinalizer ==
    /\ ctl.at = "end" /\ ctl' = Idle
    /\ sec' = [sec EXCEPT ![ctl.s] = [NoSecret EXCEPT !.ver = sec[ctl.s].ver + 1]]
    /\ UNCHANGED <<wsp, mirror, cref, up, queue, req, left>>

\* A call fails, the controller restarts and meets the secrets that name workspaces, or the
\* clients of a cluster are not ready for a while.
Fails ==
    /\ ctl # Idle /\ left.errors > 0 /\ left' = [left EXCEPT !.errors = @ - 1] /\ Again
    /\ Alone /\ UNCHANGED <<up, req>>
Restart ==
    /\ left.restarts > 0 /\ left' = [left EXCEPT !.restarts = @ - 1] /\ ctl' = Idle
    /\ queue' = {s \in Secret : Relevant(NoSecret, sec[s])}
    /\ Alone /\ UNCHANGED <<up, req>>
GoesDown(w) ==
    /\ up[w] /\ left.downs > 0 /\ left' = [left EXCEPT !.downs = @ - 1] /\ up' = [up EXCEPT ![w] = FALSE]
    /\ Alone /\ UNCHANGED <<queue, ctl, req>>
ComesUp(w) == ~up[w] /\ up' = [up EXCEPT ![w] = TRUE] /\ Alone /\ UNCHANGED <<queue, ctl, req, left>>

----------------------------------------------------------------------------
Init ==
    /\ sec = [s \in Secret |-> NoSecret] /\ wsp = [w \in Workspace |-> [NoSpace EXCEPT !.alive = TRUE]]
    /\ mirror = [w \in Workspace |-> [s \in Secret |->
                    IF w \in Foreign THEN [NoMirror EXCEPT !.there = TRUE] ELSE NoMirror]]
    /\ cref = {} /\ up = [w \in Workspace |-> TRUE] /\ queue = {} /\ ctl = Idle
    /\ req = [r \in Client |-> Idle]
    /\ left = [asked |-> MaxAsked, downs |-> Downs, restarts |-> Restarts, errors |-> Errors]

Request(r) ==
    \/ createSecret(r) \/ deleteSecret(r) \/ getAdminSecret(r) \/ patchSecret(r)
    \/ getAdminWorkspace(r) \/ readSecrets(r) \/ updateWorkspaceImageSecrets(r) \/ updateWorkspace(r)
    \/ createWorkspace(r) \/ deleteWorkspace(r) \/ createCluster(r)
Controller ==
    \/ \E s \in Secret : Reconcile(s)
    \/ ctl # Idle /\ (\/ updateWorkspaceRefSecret \/ updateClusterRefSecret
                      \/ removeSecretFromCluster \/ endUnref \/ listWorkspaces \/ endClean \/ RemoveFinalizer
                      \/ \E w \in Workspace : \/ syncSecretToWorkspace(w) \/ removeSecretFromWorkspaces(w)
                                              \/ cleanupReference(w) \/ cleanupMirroredSecrets(w))
Next ==
    \/ \E r \in Client : (\E q \in Asked[r] : Begin(r, q)) \/ Request(r)
    \/ Controller \/ Fails \/ Restart
    \/ \E w \in Workspace : GoesDown(w) \/ ComesUp(w)
    \/ Resting /\ UNCHANGED vars

Spec == Init /\ [][Next]_vars

----------------------------------------------------------------------------
(* What a run may state. *)

Quiet == Resting /\ (\A r \in Client : req[r] = Idle) /\ \A w \in Workspace : up[w]
TypeOK ==
    /\ \A s \in Secret : sec[s].alive \in BOOLEAN /\ GetSecretWorkspaces(sec[s]) \subseteq Workspace
    /\ \A w \in Workspace, s \in Secret : mirror[w][s].managed => mirror[w][s].there
    /\ queue \subseteq Secret /\ Cardinality(cref) <= 1
    /\ ctl.at \in {"idle", "sync", "refer", "uncluster", "unref", "list", "clean", "end"}
\* The copies of a secret are those its workspaces need, with its data.
MirrorsFollow ==
    Quiet => \A s \in Secret, w \in Workspace : sec[s].alive /\ wsp[w].alive /\ ~sec[s].deleting =>
                IF w \in GetSecretWorkspaces(sec[s])
                THEN mirror[w][s] = [there |-> TRUE, managed |-> TRUE, data |-> sec[s].data]
                ELSE ~mirror[w][s].managed
\* Nothing that the controller made outlives the secret.
NoneLeft ==
    /\ \A s \in Secret, w \in Workspace : ~sec[s].alive => ~mirror[w][s].managed
    /\ Calm /\ Quiet => \A w \in Workspace : \A i \in wsp[w].images : sec[i.s].alive
\* A workspace refers to secrets that know it, and all refer to the latest version.
RefsFollow ==
    Calm /\ Quiet =>
        /\ \A w \in Workspace : \A i \in wsp[w].images : w \in GetSecretWorkspaces(sec[i.s])
        /\ \A c \in cref \union UNION {wsp[w].images : w \in Workspace} :
                sec[c.s].alive /\ GetSecretWorkspaces(sec[c.s]) # {} => c.ver = sec[c.s].ver
\* What is shown of a secret, unless it has empty values, can be sent back and means the same.
ShownIsStored ==
    \A s \in Secret : sec[s].alive =>
        LET shown == cvtToGetSecretResponse(sec[s].kind, sec[s].data)
            sent == CHOOSE q \in [1..Cardinality(shown) -> shown] : {q[i] : i \in DOMAIN q} = shown
            full == \A k \in DOMAIN sec[s].data :
                        IF sec[s].kind = "image" THEN sec[s].data[k][2] # Empty ELSE sec[s].data[k] # Empty
        IN  full => Sendable(sec[s].kind, sent) /\ buildSecretData(sec[s].kind, sent) = sec[s].data
\* A secret that is being deleted and was given workspaces, be it none of them.
Leaving(s) == sec[s].alive /\ sec[s].deleting /\ sec[s].ws # {}
============================================================================

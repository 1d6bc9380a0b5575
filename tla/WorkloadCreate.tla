--------------------------- MODULE WorkloadCreate ---------------------------
(***************************************************************************)
(* Requests that create a workload with its secret and the workloads that  *)
(* load its images first, what they clean up when they fail, and requests  *)
(* that change the secret of a workload.  A request makes its objects one  *)
(* call at a time and any call may be refused.                             *)
(***************************************************************************)
EXTENDS Integers, FiniteSets

CONSTANTS
    Req,            \* requests, each made once
    Images,         \* images of the workload; one preheat each
    GivenNames,     \* names given by clients: "none", used "once", or used by "any" request
    Refusals,       \* calls that may fail: "create", "phase", "patch", "secret"
    Patches         \* whether clients change the secret of a workload

VARIABLES
    req,        \* each request: step, its kind, the name of its main workload, what is left to preheat
    workload,   \* workloads that exist, with the request that created them
    secrets,    \* secrets that exist, each with the workload it is owned by
    refersTo    \* the secret each workload names, "none" without one

vars == <<req, workload, secrets, refersTo>>

Given == <<"given", 0, "">>
Nobody == 0
Main(r) == IF req[r].named THEN Given ELSE <<"main", r, "">>
Preheat(r, i) == <<"preheat", r, i>>
Names == {Given} \cup {<<"main", r, "">> : r \in Req} \cup {<<"preheat", r, i>> : r \in Req, i \in Images}
Secret == {<<s, r>> : s \in {"auth", "new"}, r \in Req}
NoSecret == <<"none", 0>>

TypeOK ==
    /\ req \in [Req -> [step : {"idle", "preheat", "preheated", "main", "phase", "adopt", "clean", "drop",
                                "patch", "renew", "retire", "refer", "undo", "done"},
                        named : BOOLEAN, cicd : BOOLEAN,
                        left : SUBSET Images, listed : SUBSET Images, now : Images,
                        secret : Secret \cup {NoSecret}, old : Secret \cup {NoSecret}]]
    /\ workload \in [Names -> Req \cup {Nobody}]
    /\ secrets \in SUBSET (Secret \X Names)
    /\ refersTo \in [Names -> Secret \cup {NoSecret}]

Init ==
    /\ req \in [Req -> [step : {"idle"}, named : {FALSE}, cicd : {FALSE}, left : {{}}, listed : {{}},
                        now : {CHOOSE i \in Images : TRUE}, secret : {NoSecret}, old : {NoSecret}]]
    /\ workload = [n \in Names |-> Nobody]
    /\ secrets = {} /\ refersTo = [n \in Names |-> NoSecret]

Exists(n) == workload[n] # Nobody
Goto(r, s) == req' = [req EXCEPT ![r].step = s]
May(call) == call \in Refusals
MutSecretOf(r) == IF req[r].cicd THEN <<"display", r>> ELSE NoSecret

SecretOf(r) == IF req[r].cicd THEN <<"auth", r>> ELSE NoSecret

-----------------------------------------------------------------------------
(* The request becomes a workload; a runner set gets its secret here.       *)
generateCICDScaleRunnerSet(r, cicd, n) ==
    secrets' = IF cicd THEN secrets \cup {<<<<"auth", r>>, n>>} ELSE secrets

generateWorkload(r) ==
    /\ req[r].step = "idle"
    /\ \E named, cicd, preheat \in BOOLEAN :
         /\ named => \/ GivenNames = "any"
                     \/ GivenNames = "once" /\ \A q \in Req : ~req[q].named
         /\ generateCICDScaleRunnerSet(r, cicd, IF named THEN Given ELSE <<"main", r, "">>)
         /\ req' = [req EXCEPT ![r].named = named, ![r].cicd = cicd,
                               ![r].left = IF preheat THEN Images ELSE {},
                               ![r].step = "preheat"]
    /\ UNCHANGED <<workload, refersTo>>

(* A creation: refused, or done and then given its first phase.             *)
createWorkloadImpl(r, n, next) ==
    \/ /\ ~Exists(n)
       /\ workload' = [workload EXCEPT ![n] = r] /\ Goto(r, next)
    \/ /\ Exists(n) \/ May("create")
       /\ Goto(r, "clean") /\ UNCHANGED workload

createPreheatWorkloads(r) ==
    /\ req[r].step = "preheat" /\ req[r].left = {}
    /\ Goto(r, "main") /\ UNCHANGED <<workload, secrets, refersTo>>

createPreheatWorkload(r) ==
    /\ req[r].step = "preheat"
    /\ \E i \in req[r].left :
         \/ /\ workload' = [workload EXCEPT ![Preheat(r, i)] = r]
            /\ req' = [req EXCEPT ![r].step = "preheated", ![r].now = i]
         \/ /\ May("create")
            /\ Goto(r, "clean") /\ UNCHANGED workload
    /\ UNCHANGED <<secrets, refersTo>>

(* The preheat is on the list of the request once its phase is set.         *)
PreheatPhase(r) ==
    /\ req[r].step = "preheated"
    /\ \/ req' = [req EXCEPT ![r].step = "preheat", ![r].left = @ \ {req[r].now},
                             ![r].listed = @ \cup {req[r].now}]
       \/ May("phase") /\ Goto(r, "clean")
    /\ UNCHANGED <<workload, secrets, refersTo>>

createWorkload(r) ==
    /\ req[r].step = "main"
    /\ createWorkloadImpl(r, Main(r), "phase")
    /\ refersTo' = IF workload'[Main(r)] = workload[Main(r)] THEN refersTo
                   ELSE [refersTo EXCEPT ![Main(r)] = SecretOf(r)]
    /\ UNCHANGED secrets

updateWorkloadPhase(r) ==
    /\ req[r].step = "phase"
    /\ Goto(r, "adopt") \/ (May("phase") /\ Goto(r, "clean"))
    /\ UNCHANGED <<workload, secrets, refersTo>>

(* The preheats become owned by the main workload; a failure is logged.     *)
SetControllerReference(r) ==
    /\ req[r].step = "adopt"
    /\ Goto(r, "done") /\ UNCHANGED <<workload, secrets, refersTo>>

-----------------------------------------------------------------------------
(* Clean-up.  The secret that is deleted is the one called like the display *)
(* name, and createCICDSecret never uses that name.                         *)
cleanupCICDSecrets(r) == UNCHANGED secrets

MutCleanUp(r) ==
    /\ req[r].step = "clean"
    /\ cleanupCICDSecrets(r)
    /\ workload' = workload
    /\ Goto(r, "drop") /\ UNCHANGED refersTo

cleanUpWorkloads(r) ==
    /\ req[r].step = "clean"
    /\ cleanupCICDSecrets(r)
    /\ workload' = [n \in Names |-> IF n \in {Preheat(r, i) : i \in req[r].listed} THEN Nobody ELSE workload[n]]
    /\ Goto(r, "drop") /\ UNCHANGED refersTo

(* What goes with a workload: the secrets it owns.                          *)
Gone(n) ==
    /\ workload' = [workload EXCEPT ![n] = Nobody]
    /\ secrets' = {s \in secrets : s[2] # n}
    /\ refersTo' = [refersTo EXCEPT ![n] = NoSecret]

DeleteMain(r) ==
    /\ req[r].step = "drop" /\ Goto(r, "done")
    /\ IF Exists(Main(r))
       THEN Gone(Main(r))
       ELSE UNCHANGED <<workload, secrets, refersTo>>

-----------------------------------------------------------------------------
(* A patch of a workload that brings a new secret.                          *)
updateWorkload(r) ==
    /\ Patches /\ req[r].step = "idle"
    /\ Exists(Given) /\ refersTo[Given] # NoSecret
    /\ req' = [req EXCEPT ![r].step = "renew", ![r].named = TRUE,
                          ![r].old = IF <<refersTo[Given], Given>> \in secrets THEN refersTo[Given] ELSE NoSecret]
    /\ UNCHANGED <<workload, secrets, refersTo>>

createCICDSecret(r) ==
    /\ req[r].step = "renew"
    /\ \/ /\ secrets' = secrets \cup {<<<<"new", r>>, Given>>}
          /\ req' = [req EXCEPT ![r].secret = <<"new", r>>,
                                ![r].step = IF req[r].old = NoSecret THEN "refer" ELSE "retire"]
       \/ May("secret") /\ Goto(r, "done") /\ UNCHANGED secrets
    /\ UNCHANGED <<workload, refersTo>>

MutRetire(r) ==
    /\ req[r].step = "retire"
    /\ secrets' = secrets \ {<<req[r].old, Given>>, <<req[r].secret, Given>>}
    /\ Goto(r, "refer") /\ UNCHANGED <<workload, refersTo>>

(* The old secret is deleted, or the new one if that fails.                 *)
deleteSecretImpl(r) ==
    /\ req[r].step = "retire"
    /\ \/ secrets' = secrets \ {<<req[r].old, Given>>} /\ Goto(r, "refer")
       \/ /\ <<req[r].old, Given>> \notin secrets \/ May("secret")
          /\ Goto(r, "undo") /\ UNCHANGED secrets
    /\ UNCHANGED <<workload, refersTo>>

(* A failure of this deletion is ignored.                                   *)
UndoSecret(r) ==
    /\ req[r].step = "undo"
    /\ \/ secrets' = secrets \ {<<req[r].secret, Given>>}
       \/ May("secret") /\ UNCHANGED secrets
    /\ Goto(r, "done") /\ UNCHANGED <<workload, refersTo>>

updateCICDSecret(r) ==
    /\ req[r].step = "refer" /\ Goto(r, "done")
    /\ \/ /\ Exists(Given) /\ refersTo' = [refersTo EXCEPT ![Given] = req[r].secret]
       \/ (~Exists(Given) \/ May("patch")) /\ UNCHANGED refersTo
    /\ UNCHANGED <<workload, secrets>>

-----------------------------------------------------------------------------
Handler(r) ==
    \/ generateWorkload(r) \/ createPreheatWorkloads(r) \/ createPreheatWorkload(r) \/ PreheatPhase(r)
    \/ createWorkload(r) \/ updateWorkloadPhase(r) \/ SetControllerReference(r)
    \/ cleanUpWorkloads(r) \/ DeleteMain(r)
    \/ updateWorkload(r) \/ createCICDSecret(r) \/ deleteSecretImpl(r) \/ UndoSecret(r) \/ updateCICDSecret(r)

Next == \E r \in Req : Handler(r)

Spec == Init /\ [][Next]_vars

-----------------------------------------------------------------------------
Quiet == \A r \in Req : req[r].step \in {"idle", "done"}

(* A preheat belongs to a workload that was created: a request that failed  *)
(* leaves none behind.                                                      *)
NoOrphanPreheat ==
    Quiet => \A r \in Req, i \in Images : Exists(Preheat(r, i)) => Exists(Main(r))

(* A workload that uses a secret names one that exists.                     *)
SecretInPlace ==
    Quiet => \A n \in Names : Exists(n) /\ refersTo[n] # NoSecret => <<refersTo[n], n>> \in secrets

=============================================================================

------------------------------ MODULE NodeAgent ------------------------------
(***************************************************************************)
(* The node agent: monitors that run a script on a schedule, a queue of    *)
(* their results, and the exporter that turns results into conditions of   *)
(* the Kubernetes node, which the kubelet writes as well.                  *)
(***************************************************************************)
EXTENDS Integers, Sequences, FiniteSets

CONSTANTS
    Monitor,           \* the monitors
    ConsecutiveCount,  \* failures in a row before one is reported
    MaxRetries,        \* bound of the exporter's retries of a message
    MaxErrors,         \* bound: API errors and scripts without a verdict
    MaxChanges,        \* bound: changes of a configuration or of the hardware
    MaxKubelet,        \* bound: changes of the kubelet's own condition
    MaxQueue           \* bound: results under way

VARIABLES
    bad,               \* monitors whose script would fail now
    cfg,               \* the configuration files
    started,           \* the monitors that run
    count,             \* consecutiveCount
    run,               \* the script a monitor executes: none, or what it found
    late,              \* results of scripts whose monitor was stopped meanwhile
    queue,             \* messages for the exporter
    delayed,           \* messages that wait for another try
    ex,                \* the exporter: the message and the conditions it writes
    copy,              \* the agent's copy of the node's conditions
    fresh,             \* whether the copy is of the node's stored version
    node,              \* the stored conditions: of the monitors, of the kubelet
    errors, changes, kubelet

vars == <<bad, cfg, started, count, run, late, queue, delayed, ex, copy, fresh,
          node, errors, changes, kubelet>>
agent == <<started, count, run, late, queue, delayed, ex>>
bounds == <<errors, changes, kubelet>>

Code == {"ok", "error", "disable"}
Msg == [id : Monitor, code : Code, tries : 0 .. MaxRetries + 1]
Conditions == [mon : SUBSET Monitor, ready : BOOLEAN]
Idle == [pc |-> "idle"]

UnderWay == Len(queue) + Cardinality(delayed)
              + Cardinality({m \in Monitor : run[m] # "none"}) + Cardinality(late)

-----------------------------------------------------------------------------
(* Monitors.                                                                *)

\* The cron job starts the script unless it is still running.
RunStart(m) ==
    /\ started[m] /\ run[m] = "none" /\ UnderWay < MaxQueue
    /\ run' = [run EXCEPT ![m] = IF m \in bad THEN "error" ELSE "ok"]
    /\ UNCHANGED <<bad, cfg, started, count, late, queue, delayed, ex, copy, fresh, node, bounds>>

\* Mutant of Report: a failure is reported once, when the count is reached.
ReportOnce(m, code, n) ==
    IF code = "ok" \/ n + 1 = ConsecutiveCount
    THEN queue' = Append(queue, [id |-> m, code |-> code, tries |-> 0])
    ELSE UNCHANGED queue

\* Mutant of Report: a success is reported after failures only.
ReportChange(m, code, n) ==
    IF (code = "ok" /\ n > 0) \/ (code = "error" /\ n + 1 >= ConsecutiveCount)
    THEN queue' = Append(queue, [id |-> m, code |-> code, tries |-> 0])
    ELSE UNCHANGED queue

\* Which results Run reports, n failures having gone before.
Report(m, code, n) ==
    IF code = "ok" \/ n + 1 >= ConsecutiveCount
    THEN queue' = Append(queue, [id |-> m, code |-> code, tries |-> 0])
    ELSE UNCHANGED queue

RunEnd(m) ==
    /\ run[m] # "none"
    /\ run' = [run EXCEPT ![m] = "none"]
    /\ count' = [count EXCEPT ![m] = IF run[m] = "ok" THEN 0
                                     ELSE IF @ > ConsecutiveCount THEN @ ELSE @ + 1]
    /\ Report(m, run[m], count[m])
    /\ UNCHANGED <<bad, cfg, started, late, delayed, ex, copy, fresh, node, bounds>>

\* A script that times out or has another exit code is discarded.
RunUnknown(m) ==
    /\ run[m] # "none" /\ errors > 0
    /\ run' = [run EXCEPT ![m] = "none"]
    /\ errors' = errors - 1
    /\ UNCHANGED <<bad, cfg, started, count, late, queue, delayed, ex, copy, fresh, node,
                   changes, kubelet>>

RunEndsLate(r) ==
    /\ r \in late
    /\ late' = late \ {r}
    /\ Report(r.id, r.code, r.count)
    /\ UNCHANGED <<bad, cfg, started, count, run, delayed, ex, copy, fresh, node, bounds>>

-----------------------------------------------------------------------------
(* The monitor manager.                                                     *)

\* getMonitorConfigs: a configuration that is off and has left a condition.
DisableSeen(m) == cfg[m] = "off" /\ m \in copy.mon

Disabled(m) == [id |-> m, code |-> "disable", tries |-> 0]

\* reloadMonitors, for one monitor: it is added, or told off and stopped; a
\* script that is running then goes on to the end.
Reload(m) ==
    /\ UnderWay < MaxQueue
    /\ \/ /\ cfg[m] = "on" /\ ~started[m]
          /\ started' = [started EXCEPT ![m] = TRUE]
          /\ count' = [count EXCEPT ![m] = 0]
          /\ UNCHANGED <<queue, run, late>>
       \/ /\ cfg[m] # "on" /\ started[m]
          /\ started' = [started EXCEPT ![m] = FALSE]
          /\ queue' = (IF DisableSeen(m) THEN Append(queue, Disabled(m)) ELSE queue)
                        \o <<Disabled(m)>>
          /\ late' = IF run[m] = "none" THEN late
                     ELSE late \cup {[id |-> m, code |-> run[m], count |-> count[m]]}
          /\ run' = [run EXCEPT ![m] = "none"]
          /\ UNCHANGED count
       \/ /\ cfg[m] # "on" /\ ~started[m] /\ DisableSeen(m)
          /\ queue' = Append(queue, Disabled(m))
          /\ UNCHANGED <<started, count, run, late>>
    /\ UNCHANGED <<bad, cfg, delayed, ex, copy, fresh, node, bounds>>

-----------------------------------------------------------------------------
(* The exporter.                                                            *)

\* generateAddConditions and generateDeleteConditions, on the agent's copy.
NewConditions(msg) ==
    IF msg.code = "error" THEN [copy EXCEPT !.mon = @ \cup {msg.id}]
    ELSE [copy EXCEPT !.mon = @ \ {msg.id}]

\* Mutant of Dispatch: a message is retried for ever.
DispatchEndless ==
    /\ ex = Idle /\ queue # <<>>
    /\ queue' = Tail(queue)
    /\ LET msg == Head(queue) IN
         IF NewConditions(msg) = copy THEN UNCHANGED ex
         ELSE ex' = [pc |-> "write", msg |-> msg, conds |-> NewConditions(msg)]
    /\ UNCHANGED <<bad, cfg, started, count, run, late, delayed, copy, fresh, node, bounds>>

\* Dispatch: a message that was retried too often is dropped, one that changes
\* nothing is done.
Dispatch ==
    /\ ex = Idle /\ queue # <<>>
    /\ queue' = Tail(queue)
    /\ LET msg == Head(queue) IN
         IF msg.tries > MaxRetries \/ NewConditions(msg) = copy THEN UNCHANGED ex
         ELSE ex' = [pc |-> "write", msg |-> msg, conds |-> NewConditions(msg)]
    /\ UNCHANGED <<bad, cfg, started, count, run, late, delayed, copy, fresh, node, bounds>>

\* UpdateConditions: after a conflict the copy is refreshed, and the conditions
\* computed before are written again.
UpdateConditions ==
    /\ ex # Idle
    /\ IF fresh
       THEN node' = ex.conds /\ copy' = ex.conds /\ ex' = Idle /\ UNCHANGED fresh
       ELSE copy' = node /\ fresh' = TRUE /\ UNCHANGED <<node, ex>>
    /\ UNCHANGED <<bad, cfg, started, count, run, late, queue, delayed, bounds>>

UpdateFails ==
    /\ ex # Idle /\ errors > 0
    /\ errors' = errors - 1
    /\ delayed' = delayed \cup {[ex.msg EXCEPT !.tries = @ + 1]}
    /\ ex' = Idle
    /\ UNCHANGED <<bad, cfg, started, count, run, late, queue, copy, fresh, node,
                   changes, kubelet>>

\* A delayed message comes back behind the newer ones.
Requeue(msg) ==
    /\ msg \in delayed
    /\ delayed' = delayed \ {msg}
    /\ queue' = Append(queue, msg)
    /\ UNCHANGED <<bad, cfg, started, count, run, late, ex, copy, fresh, node, bounds>>

\* syncK8sNode, every few seconds.
Sync ==
    /\ ~fresh
    /\ copy' = node /\ fresh' = TRUE
    /\ UNCHANGED <<bad, cfg, agent, node, bounds>>

-----------------------------------------------------------------------------
(* The environment.                                                         *)

KubeletWrites ==
    /\ kubelet > 0 /\ kubelet' = kubelet - 1
    /\ node' = [node EXCEPT !.ready = ~@]
    /\ fresh' = FALSE
    /\ UNCHANGED <<bad, cfg, agent, copy, errors, changes>>

HardwareChanges(m) ==
    /\ changes > 0 /\ changes' = changes - 1
    /\ bad' = IF m \in bad THEN bad \ {m} ELSE bad \cup {m}
    /\ UNCHANGED <<cfg, agent, copy, fresh, node, errors, kubelet>>

ConfigChanges(m) ==
    /\ changes > 0 /\ changes' = changes - 1
    /\ \E c \in {"on", "off", "gone"} \ {cfg[m]} : cfg' = [cfg EXCEPT ![m] = c]
    /\ UNCHANGED <<bad, agent, copy, fresh, node, errors, kubelet>>

-----------------------------------------------------------------------------
Init ==
    /\ bad = {} /\ cfg = [m \in Monitor |-> "on"]
    /\ started = [m \in Monitor |-> FALSE] /\ count = [m \in Monitor |-> 0]
    /\ run = [m \in Monitor |-> "none"] /\ late = {}
    /\ queue = <<>> /\ delayed = {} /\ ex = Idle
    /\ node \in [mon : SUBSET Monitor, ready : {TRUE}]
    /\ copy = node /\ fresh = TRUE
    /\ errors = MaxErrors /\ changes = MaxChanges /\ kubelet = MaxKubelet

Next ==
    \/ Dispatch \/ UpdateConditions \/ UpdateFails \/ Sync \/ KubeletWrites
    \/ \E m \in Monitor :
         \/ RunStart(m) \/ RunEnd(m) \/ RunUnknown(m) \/ Reload(m)
         \/ HardwareChanges(m) \/ ConfigChanges(m)
    \/ \E r \in late : RunEndsLate(r)
    \/ \E msg \in delayed : Requeue(msg)

Spec == Init /\ [][Next]_vars

-----------------------------------------------------------------------------
(* Properties.                                                              *)

TypeOK ==
    /\ bad \subseteq Monitor /\ cfg \in [Monitor -> {"on", "off", "gone"}]
    /\ started \in [Monitor -> BOOLEAN]
    /\ count \in [Monitor -> 0 .. ConsecutiveCount + 1]
    /\ run \in [Monitor -> {"none", "ok", "error"}]
    /\ late \subseteq [id : Monitor, code : {"ok", "error"}, count : 0 .. ConsecutiveCount + 1]
    /\ queue \in Seq(Msg) /\ delayed \subseteq Msg
    /\ ex = Idle \/ ex \in [pc : {"write"}, msg : Msg, conds : Conditions]
    /\ copy \in Conditions /\ node \in Conditions /\ fresh \in BOOLEAN
    /\ errors \in Nat /\ changes \in Nat /\ kubelet \in Nat

\* Monitor m finds a fault; monitor m finds none or is off.
AtFault(m) == cfg[m] = "on" /\ m \in bad
Quiet(m) == (cfg[m] = "on" /\ m \notin bad) \/ cfg[m] = "off"

\* The node has the condition of monitor m.
Conditioned(m) == m \in node.mon
=============================================================================

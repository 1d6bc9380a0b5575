----------------------------- MODULE Optimization -----------------------------
(***************************************************************************)
(* An optimization task: it is stored, handed to an agent in a session of  *)
(* an external service, its stream of events is read, stored and passed to *)
(* viewers, and its end is recorded.  A second goroutine polls the session *)
(* and cuts the stream off; a restart of the API server takes the task up  *)
(* again from what is stored.                                              *)
(***************************************************************************)
EXTENDS Integers, Sequences, FiniteSets

CONSTANTS
    Raw,        \* what the agent may say: a sequence of "chat", "tool" and "phase"
    Actors,     \* who acts beside the server: "viewer", "interrupt", "delete"
    MaxHubs,    \* hubs between two restarts
    Budget      \* failing calls and restarts

VARIABLES
    row,        \* the task's row: state, status, whether it has a session
    submit,     \* step of the request that submits the task
    claw,       \* the session: sessions and prompts made, agent, what was said, report
    hubs, cur,  \* the hubs, and the one of the registry; 0 is none
    cons,       \* the goroutine that reads the stream
    stored,     \* the stored events: sequence number by id
    viewer,     \* a client of the event stream
    deleting,   \* whether a deletion has closed the hub and not yet hidden the row
    boot,       \* whether tasks are to be recovered
    left        \* what is left of the budget

vars == <<row, submit, claw, hubs, cur, cons, stored, viewer, deleting, boot, left>>

Ended == {"succeeded", "failed", "interrupted"}
NoHit == "none"
Off == [step |-> "off", hub |-> 0, last |-> 0, todo |-> <<>>, cast |-> FALSE, saw |-> FALSE, hit |-> NoHit,
        canceled |-> FALSE, verdict |-> NoHit]
Gone == [step |-> "off", last |-> 0, got |-> 0, buf |-> <<>>, hub |-> 0]

Init ==
    /\ row = [state |-> "none", status |-> "pending", session |-> FALSE]
    /\ submit = "idle" /\ deleting = FALSE /\ boot = FALSE
    /\ claw = [made |-> 0, prompts |-> 0, agent |-> "none", ran |-> FALSE, said |-> 0, report |-> FALSE]
    /\ hubs = <<>> /\ cur = 0
    /\ cons = Off /\ viewer = Gone
    /\ stored = << >>
    /\ left = Budget

Spend(what) == left[what] > 0 /\ left' = [left EXCEPT ![what] = @ - 1]
Highest == IF DOMAIN stored = {} THEN 0
           ELSE CHOOSE s \in {stored[id] : id \in DOMAIN stored} : \A id \in DOMAIN stored : stored[id] <= s

TypeOK ==
    /\ row \in [state : {"none", "live", "hidden"}, status : {"pending", "running"} \cup Ended, session : BOOLEAN]
    /\ submit \in {"idle", "persist", "create", "lookup", "confirm", "session", "running"}
    /\ cur \in 0..Len(hubs) /\ Len(hubs) <= MaxHubs
    /\ cons.step \in {"off", "stream", "check", "finalize", "record", "done"}
    /\ cons.last \in 0..Len(Raw)
    /\ viewer.step \in {"off", "replay", "hub", "join", "live", "closed"}

-----------------------------------------------------------------------------
(* The hubs: one for a task, with the numbers of its events.                *)
getOrCreate(seq) ==
    IF cur # 0 THEN UNCHANGED <<hubs, cur>>
    ELSE hubs' = Append(hubs, [seq |-> seq, open |-> TRUE]) /\ cur' = Len(hubs) + 1
HubOf == IF cur # 0 THEN cur ELSE Len(hubs) + 1
Room == cur # 0 \/ Len(hubs) < MaxHubs
Removed == IF cur = 0 THEN hubs ELSE [hubs EXCEPT ![cur].open = FALSE]

(* A subscriber of the hub gets the event, whatever it has seen before.     *)
broadcast(h, seq) ==
    viewer' = IF viewer.step = "live" /\ viewer.hub = h THEN [viewer EXCEPT !.buf = Append(@, seq)] ELSE viewer

-----------------------------------------------------------------------------
(* Submission.  The call that creates the session may be lost on its way    *)
(* back: a session of the task's name is taken over, and prompted again if  *)
(* its agent does not run.                                                  *)
UpdateOptimizationTaskStatus(s) == row' = [row EXCEPT !.status = s]

CreateTask ==
    /\ submit = "idle" /\ row.state = "none" /\ ~boot
    /\ row' = [row EXCEPT !.state = "live"]
    /\ submit' = "create"
    /\ UNCHANGED <<claw, hubs, cur, cons, stored, viewer, deleting, boot, left>>

NewSession(prompts) ==
    claw' = [claw EXCEPT !.made = @ + 1, !.prompts = prompts, !.agent = "idle", !.ran = FALSE, !.said = 0]

SubmitFails == submit' = "idle" /\ UpdateOptimizationTaskStatus("failed")

createClawSessionWithRetry ==
    /\ submit = "create"
    /\ \/ /\ NewSession(1) /\ submit' = "session" /\ UNCHANGED <<row, left>>
       \/ \* the answer is lost, or nothing was made
          /\ Spend("calls") /\ (NewSession(1) \/ UNCHANGED claw) /\ submit' = "lookup" /\ UNCHANGED row
       \/ \* refused for good, with or without a session that has no prompt
          /\ Spend("calls") /\ (NewSession(0) \/ UNCHANGED claw) /\ SubmitFails
    /\ UNCHANGED <<hubs, cur, cons, stored, viewer, deleting, boot>>

IsAgentRunning == claw.agent = "running"

reuseExistingClawSessionByName ==
    /\ submit = "lookup"
    /\ \/ /\ claw.made > 0 /\ IsAgentRunning
          /\ submit' = "session" /\ UNCHANGED <<row, claw, left>>
       \/ /\ claw.made > 0 /\ ~IsAgentRunning
          /\ submit' = "confirm" /\ UNCHANGED <<row, claw, left>>
       \/ /\ claw.made = 0 /\ submit' = "create" /\ UNCHANGED <<row, claw, left>>
       \/ /\ Spend("calls") /\ submit' = "create" /\ UNCHANGED <<row, claw>>
       \/ SubmitFails /\ UNCHANGED <<claw, left>>     \* out of time
    /\ UNCHANGED <<hubs, cur, cons, stored, viewer, deleting, boot>>

SendMessage ==
    /\ submit = "confirm"
    /\ \/ IsAgentRunning /\ submit' = "session" /\ UNCHANGED <<row, claw, left>>
       \/ /\ ~IsAgentRunning /\ submit' = "session"
          /\ claw' = [claw EXCEPT !.prompts = @ + 1, !.ran = FALSE] /\ UNCHANGED <<row, left>>
       \/ ~IsAgentRunning /\ Spend("calls") /\ SubmitFails /\ UNCHANGED claw
    /\ UNCHANGED <<hubs, cur, cons, stored, viewer, deleting, boot>>

UpdateOptimizationTaskClawSession ==
    /\ submit = "session"
    /\ row' = [row EXCEPT !.session = TRUE]
    /\ submit' = "running"
    /\ UNCHANGED <<claw, hubs, cur, cons, stored, viewer, deleting, boot, left>>

consumeClawStream(running) ==
    cons' = [Off EXCEPT !.step = "stream", !.hub = HubOf, !.saw = running]

submitTask ==
    /\ submit = "running" /\ Room
    /\ UpdateOptimizationTaskStatus("running")
    /\ getOrCreate(0)
    /\ consumeClawStream(IsAgentRunning)
    /\ submit' = "idle"
    /\ UNCHANGED <<claw, stored, viewer, deleting, boot, left>>

-----------------------------------------------------------------------------
(* The session and its agent.                                               *)
Agent ==
    /\ \/ /\ claw.prompts > 0 /\ ~claw.ran /\ claw.agent = "idle"
          /\ claw' = [claw EXCEPT !.agent = "running", !.ran = TRUE]
       \/ /\ IsAgentRunning /\ claw.said < Len(Raw)
          /\ claw' = [claw EXCEPT !.said = @ + 1]
       \/ /\ IsAgentRunning
          /\ \E r \in BOOLEAN : \E a \in {"idle", "failed"} : claw' = [claw EXCEPT !.agent = a, !.report = @ \/ r]
    /\ UNCHANGED <<row, submit, hubs, cur, cons, stored, viewer, deleting, boot, left>>

IsHardTerminal == claw.agent \in {"failed", "cancelled"}
IsTerminalAfterRunning(saw) == IsHardTerminal \/ (saw /\ claw.agent = "idle")
taskStatusFromClawSession(agent) == IF agent \in {"failed", "cancelled"} THEN "failed" ELSE "succeeded"

-----------------------------------------------------------------------------
(* Reading the stream.  An event of the stream becomes a log and, where it  *)
(* opens a phase, the end of the phase before and the start of its own; the *)
(* phase comes from what this reader has read.                              *)
PhasesIn(k) == Cardinality({j \in 1..k : Raw[j] = "phase"})

parseToolUsed == <<"log">>
transitionPhase(k) == IF PhasesIn(k) = 1 THEN <<"started">> ELSE <<"succeeded", "started">>
parseChat(k) == <<"log">> \o (IF Raw[k] = "phase" THEN transitionPhase(k) ELSE <<>>)
parse(k) == IF Raw[k] = "tool" THEN parseToolUsed ELSE parseChat(k)

stableClawEventID(k, i) == <<k, i>>

Open(h) == hubs[h].open

parseSSEStream == cons.last + 1

Stream ==
    /\ cons.step = "stream" /\ cons.todo = <<>> /\ ~cons.canceled /\ Open(cons.hub)
    /\ claw.agent # "gone"
    /\ \/ /\ cons.last < claw.said
          /\ cons' = [cons EXCEPT !.last = parseSSEStream,
                        !.todo = [i \in 1..Len(parse(parseSSEStream)) |-> stableClawEventID(parseSSEStream, i)]]
       \/ \* the stream ends or breaks
          /\ cons.last = claw.said \/ left.calls > 0
          /\ cons' = [cons EXCEPT !.step = "check"]
    /\ UNCHANGED <<row, submit, claw, hubs, cur, stored, viewer, deleting, boot, left>>

(* An event is stored unless its id is there already; only a new one is     *)
(* passed on, and a new phase is written to the row.                        *)
AppendOptimizationEvent ==
    /\ cons.step = "stream" /\ cons.todo # <<>> /\ ~cons.cast
    /\ LET id == Head(cons.todo)
           seq == hubs[cons.hub].seq + 1
       IN  /\ hubs' = [hubs EXCEPT ![cons.hub].seq = seq]
           /\ IF id \in DOMAIN stored
              THEN cons' = [cons EXCEPT !.todo = Tail(@)] /\ UNCHANGED stored
              ELSE /\ stored' = [d \in DOMAIN stored \cup {id} |-> IF d = id THEN seq ELSE stored[d]]
                   /\ cons' = [cons EXCEPT !.cast = TRUE]
    /\ UNCHANGED <<row, submit, claw, cur, viewer, deleting, boot, left>>

maybeUpdateTaskStatus(id) ==
    IF id[2] > 1 /\ row.state # "none" THEN UpdateOptimizationTaskStatus("running") ELSE UNCHANGED row

persistAndBroadcast ==
    /\ cons.step = "stream" /\ cons.cast
    /\ broadcast(cons.hub, hubs[cons.hub].seq)
    /\ maybeUpdateTaskStatus(Head(cons.todo))
    /\ cons' = [cons EXCEPT !.todo = Tail(@), !.cast = FALSE]
    /\ UNCHANGED <<submit, claw, hubs, cur, stored, deleting, boot, left>>

(* The poll and the check after the stream ask for the agent.               *)
observe ==
    LET saw == cons.saw \/ IsAgentRunning
    IN  [cons EXCEPT !.saw = saw, !.hit = IF IsTerminalAfterRunning(saw) THEN claw.agent ELSE @,
                     !.canceled = @ \/ IsTerminalAfterRunning(saw)]

Poll ==
    /\ cons.step \in {"stream", "check"} /\ ~cons.canceled /\ Open(cons.hub) /\ claw.agent # "gone"
    /\ cons' = observe
    /\ UNCHANGED <<row, submit, claw, hubs, cur, stored, viewer, deleting, boot, left>>

getSessionWithRetry ==
    /\ cons.step = "check" /\ Open(cons.hub) /\ ~cons.canceled
    /\ IF claw.agent # "gone" /\ IsTerminalAfterRunning(cons.saw \/ IsAgentRunning)
       THEN cons' = [observe EXCEPT !.step = "finalize"]
       ELSE cons' = [IF claw.agent = "gone" THEN cons ELSE observe EXCEPT !.step = "stream"]
    /\ UNCHANGED <<row, submit, claw, hubs, cur, stored, viewer, deleting, boot, left>>

Canceled ==
    /\ cons.step \in {"stream", "check"} /\ cons.todo = <<>>
    /\ cons.canceled \/ ~Open(cons.hub)
    /\ cons' = [cons EXCEPT !.step = "finalize"]
    /\ UNCHANGED <<row, submit, claw, hubs, cur, stored, viewer, deleting, boot, left>>

-----------------------------------------------------------------------------
(* The end of the stream.                                                   *)
hasOptimizationReport(ok) == claw.report \/ ~ok

WithReport(status, ok) == IF status = "succeeded" /\ ~hasOptimizationReport(ok) THEN "failed" ELSE status

resolveStatusFromClaw ==
    IF claw.agent # "gone" /\ IsTerminalAfterRunning(cons.saw) THEN taskStatusFromClawSession(claw.agent) ELSE "running"

Verdict(ok) ==
    IF row.status \in Ended THEN row.status
    ELSE WithReport(IF cons.hit # NoHit THEN taskStatusFromClawSession(cons.hit) ELSE resolveStatusFromClaw, ok)

finalizeTask ==
    /\ cons.step = "finalize"
    /\ \E ok \in BOOLEAN :
         /\ IF ok THEN UNCHANGED left ELSE Spend("calls")
         /\ LET v == IF row.state = "live" THEN Verdict(ok) ELSE "succeeded"
            IN  cons' = [cons EXCEPT !.verdict = v,
                           !.step = IF row.state = "live" /\ row.status \notin Ended /\ v # "running"
                                    THEN "record" ELSE "done"]
    /\ UNCHANGED <<row, submit, claw, hubs, cur, stored, viewer, deleting, boot>>

RecordEnd ==
    /\ cons.step = "record"
    /\ UpdateOptimizationTaskStatus(cons.verdict)
    /\ cons' = [cons EXCEPT !.step = "done"]
    /\ UNCHANGED <<submit, claw, hubs, cur, stored, viewer, deleting, boot, left>>

Done(seq) == <<0, seq>>

makeDoneEvent ==
    /\ cons.step = "done"
    /\ LET seq == hubs[cons.hub].seq + 1
       IN  IF cons.verdict = "running"
           THEN UNCHANGED <<stored, viewer>>
           ELSE /\ stored' = [d \in DOMAIN stored \cup {Done(seq)} |-> IF d \in DOMAIN stored THEN stored[d] ELSE seq]
                /\ broadcast(cons.hub, seq)
    /\ hubs' = Removed /\ cur' = 0
    /\ cons' = Off
    /\ UNCHANGED <<row, submit, claw, deleting, boot, left>>

-----------------------------------------------------------------------------
(* Users: viewers, interruptions and deletions.                             *)
ListOptimizationEvents ==
    /\ "viewer" \in Actors /\ viewer.step = "off" /\ row.state = "live" /\ ~boot
    /\ viewer' = [viewer EXCEPT !.last = Highest, !.got = Highest,
                    !.step = IF row.status \in Ended THEN "closed" ELSE "hub"]
    /\ UNCHANGED <<row, submit, claw, hubs, cur, cons, stored, deleting, boot, left>>

StreamEvents ==
    /\ viewer.step = "hub" /\ Room
    /\ getOrCreate(viewer.last)
    /\ viewer' = [viewer EXCEPT !.step = "join", !.hub = HubOf]
    /\ UNCHANGED <<row, submit, claw, cons, stored, deleting, boot, left>>

subscribe ==
    /\ viewer.step = "join"
    /\ viewer' = [viewer EXCEPT !.step = IF Open(viewer.hub) THEN "live" ELSE "closed"]
    /\ UNCHANGED <<row, submit, claw, hubs, cur, cons, stored, deleting, boot, left>>

writeSSEEvent ==
    /\ viewer.step = "live"
    /\ \/ /\ viewer.buf # <<>>
          /\ viewer' = [viewer EXCEPT !.got = Head(viewer.buf), !.buf = Tail(@)]
       \/ ~Open(viewer.hub) /\ viewer' = [viewer EXCEPT !.step = "closed"]
    /\ UNCHANGED <<row, submit, claw, hubs, cur, cons, stored, deleting, boot, left>>

InterruptTask ==
    /\ "interrupt" \in Actors /\ row.state = "live" /\ row.session /\ ~boot /\ row.status # "interrupted"
    /\ claw' = IF IsAgentRunning THEN [claw EXCEPT !.agent = "cancelled"] ELSE claw
    /\ UpdateOptimizationTaskStatus("interrupted")
    /\ UNCHANGED <<submit, hubs, cur, cons, stored, viewer, deleting, boot, left>>

DeleteTask ==
    /\ "delete" \in Actors /\ row.state = "live" /\ ~boot
    /\ \/ /\ ~deleting /\ deleting' = TRUE
          /\ claw' = IF row.session THEN [claw EXCEPT !.agent = "gone"] ELSE claw
          /\ hubs' = Removed /\ cur' = 0 /\ UNCHANGED row
       \/ /\ deleting /\ deleting' = FALSE
          /\ row' = [row EXCEPT !.state = "hidden"] /\ UNCHANGED <<claw, hubs, cur>>
    /\ UNCHANGED <<submit, cons, stored, viewer, boot, left>>

-----------------------------------------------------------------------------
(* A restart of the API server; running tasks are taken up again.           *)
Restart ==
    /\ Spend("restarts")
    /\ submit' = "idle" /\ hubs' = <<>> /\ cur' = 0 /\ cons' = Off /\ viewer' = Gone /\ deleting' = FALSE
    /\ boot' = TRUE
    /\ UNCHANGED <<row, claw, stored>>

LatestOptimizationEventSeq == Highest

recoverRunningTasks ==
    /\ boot /\ boot' = FALSE
    /\ IF row.state # "live" \/ row.status # "running"
       THEN UNCHANGED <<row, hubs, cur, cons, left>>
       ELSE IF ~row.session THEN UpdateOptimizationTaskStatus("failed") /\ UNCHANGED <<hubs, cur, cons, left>>
       ELSE \/ /\ claw.agent = "gone" /\ UNCHANGED <<row, hubs, cur, cons, left>>
            \/ /\ claw.agent # "gone" /\ IsTerminalAfterRunning(TRUE)
               /\ \E ok \in BOOLEAN :
                    /\ IF ok THEN UNCHANGED left ELSE Spend("calls")
                    /\ UpdateOptimizationTaskStatus(WithReport(taskStatusFromClawSession(claw.agent), ok))
               /\ UNCHANGED <<hubs, cur, cons>>
            \/ /\ claw.agent # "gone" /\ ~IsTerminalAfterRunning(TRUE)
               /\ getOrCreate(LatestOptimizationEventSeq)
               /\ consumeClawStream(TRUE)
               /\ UNCHANGED <<row, left>>
    /\ UNCHANGED <<submit, claw, stored, viewer, deleting>>

Submission == CreateTask \/ createClawSessionWithRetry \/ reuseExistingClawSessionByName \/ SendMessage
              \/ UpdateOptimizationTaskClawSession \/ submitTask
Consumer == Stream \/ AppendOptimizationEvent \/ persistAndBroadcast \/ getSessionWithRetry \/ Canceled
            \/ finalizeTask \/ RecordEnd \/ makeDoneEvent
DeletionEnds == deleting /\ DeleteTask
Viewer == ListOptimizationEvents \/ StreamEvents \/ subscribe \/ writeSSEEvent

Next == Submission \/ Agent \/ Consumer \/ Poll \/ Viewer \/ InterruptTask \/ DeleteTask \/ Restart \/ recoverRunningTasks

Spec == Init /\ [][Next]_vars

-----------------------------------------------------------------------------
(* A task counts as running only after its prompt was handed over, and as   *)
(* succeeded only with a report, as far as no call failed.                  *)
StatusIsReal ==
    /\ row.status = "running" => claw.prompts > 0
    /\ row.status = "succeeded" /\ left.calls = Budget.calls => claw.report

(* The stored events of the stream are in its order and without gaps, also  *)
(* after a restart that read the stream from its start again.               *)
EventsInOrder ==
    \A a, b \in {d \in DOMAIN stored : d[1] > 0} :
        a[1] < b[1] \/ (a[1] = b[1] /\ a[2] < b[2]) => stored[a] < stored[b]
NoGaps ==
    \A d \in DOMAIN stored : \A k \in 1..(d[1] - 1) : \A i \in 1..Len(parse(k)) : stableClawEventID(k, i) \in DOMAIN stored

(* A viewer never goes back in the sequence of events.                      *)
GoesBack == viewer'.got < viewer.got /\ viewer'.step # "off"

(* An end is only replaced by an interruption.                              *)
Reopens == row.status \in {"succeeded", "failed"} /\ row'.status \notin {row.status, "interrupted"}

Running == row.state = "live" /\ row.status = "running"
=============================================================================

------------------------------- MODULE Mailbox -------------------------------
(***************************************************************************)
(* What common/pkg/controller/keyed_controller.go promises its users (the   *)
(* scheduler, the syncer and the resource exporter), whatever the work      *)
(* queue underneath does: every key owns one mailbox that coalesces the     *)
(* messages posted for it, and at most one message per key is being handled *)
(* at any moment.                                                           *)
(***************************************************************************)

CONSTANTS
    Keys,            \* object identities, what keyFn returns
    Payloads,        \* message contents
    None,            \* "no message"
    Merge(_, _),     \* Merge(older, newer): the payload kept for a key
    Rewrites(_)      \* what a handler may turn a message into before it fails

VARIABLES
    box,             \* box[k]: the coalesced message waiting for k, or None
    active           \* active[k]: the message of k being handled, or None

vars == <<box, active>>

Post(old, new) == IF old = None THEN new ELSE Merge(old, new)

Init ==
    /\ box = [k \in Keys |-> None]
    /\ active = [k \in Keys |-> None]

Submit(k, m) ==
    /\ box' = [box EXCEPT ![k] = Post(@, m)]
    /\ UNCHANGED active

Deliver(k) ==
    /\ active[k] = None
    /\ box[k] # None
    /\ active' = [active EXCEPT ![k] = box[k]]
    /\ box' = [box EXCEPT ![k] = None]

Finish(k) ==
    /\ active[k] # None
    /\ active' = [active EXCEPT ![k] = None]
    /\ UNCHANGED box

\* The message that failed is older than whatever was posted meanwhile.
Retry(k) ==
    /\ active[k] # None
    /\ \E m \in Rewrites(active[k]) :
         box' = [box EXCEPT ![k] = IF @ = None THEN m ELSE Merge(m, @)]
    /\ active' = [active EXCEPT ![k] = None]

Next ==
    \E k \in Keys :
        \/ \E m \in Payloads : Submit(k, m)
        \/ Deliver(k)
        \/ Finish(k)
        \/ Retry(k)

Spec == Init /\ [][Next]_vars
=============================================================================

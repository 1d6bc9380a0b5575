--------------------------- MODULE ResourceMessage ---------------------------
(***************************************************************************)
(* The messages the syncer's informers post for one data-plane object, and  *)
(* how the queue coalesces them (job-manager/pkg/syncer/syncer.go).         *)
(***************************************************************************)
EXTENDS Naturals

Action == {"add", "update", "deleting", "delete"}

Message(Counts) == [action : Action, cnt : Counts]

\* mergeResourceMessage: the latest event wins, except that a pending delete
\* is never overwritten by anything else.
mergeResourceMessage(existing, incoming) ==
    IF existing.action = "delete" /\ incoming.action # "delete"
      THEN existing
      ELSE incoming

\* getK8sObjectStatus turns the message it was given into a delete when the
\* object is not found; a retry of that message then is the retry of a delete.
AsDeleted(m) == [m EXCEPT !.action = "delete"]
=============================================================================

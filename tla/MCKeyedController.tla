-------------------------- MODULE MCKeyedController --------------------------
(***************************************************************************)
(* The keyed controller as the syncer runs it.                              *)
(***************************************************************************)
EXTENDS KeyedController, ResourceMessage

MCPayloads == {[action |-> a, cnt |-> 1] : a \in {"update", "delete"}}
MCMerge(old, new) == mergeResourceMessage(old, new)
MCRewrites(m) == {m, AsDeleted(m)}

HasDelete(k) ==
    \/ pending[k] # None /\ pending[k].action = "delete"
    \/ \E w \in Workers : wkey[w] = k /\ wmsg[w] # None /\ wmsg[w].action = "delete"

\* A delete, once posted for a key, is only ever forgotten by a handler that
\* processed a delete of that key to the end: no later add or update, no retry
\* and no order of staging and restaging replaces it ("a late add/update event
\* must not resurrect its processing").
DeleteSurvives ==
    [][\A k \in Keys : HasDelete(k) /\ ~HasDelete(k)' =>
         \E w \in Workers :
            /\ wkey[w] = k /\ wpc[w] = "do" /\ wpc'[w] = "done"
            /\ wmsg[w].action = "delete"]_vars
=============================================================================

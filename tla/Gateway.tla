------------------------------ MODULE Gateway ------------------------------
(***************************************************************************)
(* The LLM gateway of the API server: a user binds the key of a model       *)
(* provider (the APIM key) to a virtual key of LiteLLM.  The binding is a   *)
(* row of the database, the virtual key an object of LiteLLM; both are      *)
(* written one after the other, by requests of which only creations exclude *)
(* each other (an advisory lock of the database).  One user is modelled:    *)
(* rows and keys of different users share nothing, since the alias of a key *)
(* is the user's email.                                                     *)
(***************************************************************************)
EXTENDS Integers

CONSTANTS Client,       \* the requests that may run at the same time
          Apim,         \* the provider's keys a user may bind
          Ops,          \* the operations asked for
          Failing,      \* the calls that may fail
          MaxFaults,    \* how many calls fail or lose their answer
          MaxExpiries,  \* how many creations outlive their 30 seconds
          MaxIds        \* how many virtual keys are made

VARIABLES row,     \* the binding: the id of its virtual key and the APIM key
          key,     \* LiteLLM's key of the user's alias
          lock,    \* the client that holds the advisory lock
          req,     \* what each client is doing
          said,    \* the last answer to each client
          faults, expiries, ids

gatewayVars == <<row, key, lock, req, said, faults, expiries, ids>>

NoRow == [id |-> 0, apim |-> "none"]
NoKey == [id |-> 0, apim |-> "none", budget |-> 0]
Free  == "nobody"

\* What a request knows: its step, the APIM key, the row it read, the key it made,
\* and whether its time is over.
Request(pc, apim, seen) ==
    [pc |-> pc, apim |-> apim, seen |-> seen, id |-> 0, late |-> FALSE]
Idle == Request("idle", "none", NoRow)

Init ==
    /\ row = NoRow /\ key = NoKey /\ lock = Free
    /\ req = [c \in Client |-> Idle]
    /\ said = [c \in Client |-> "nothing"]
    /\ faults = 0 /\ expiries = 0 /\ ids = 0

-----------------------------------------------------------------------------
(* Steps of a request.                                                      *)

At(c, pc) == req[c].pc = pc

Go(c, pc) == req' = [req EXCEPT ![c].pc = pc] /\ UNCHANGED said

\* The answer is sent, and the transaction that holds the lock ends.
Answer(c, what) ==
    /\ req' = [req EXCEPT ![c] = Idle]
    /\ said' = [said EXCEPT ![c] = what]

Unlock(c) == lock' = IF lock = c THEN Free ELSE lock

\* A call at the given place fails.
Fault(place) ==
    /\ place \in Failing /\ faults < MaxFaults
    /\ faults' = faults + 1

\* GetLLMBindingByEmail at the head of every other request.
Asks(c, op, pc) ==
    /\ op \in Ops /\ At(c, "idle")
    /\ IF row = NoRow THEN Answer(c, "not bound") /\ UNCHANGED faults
       ELSE \/ /\ req' = [req EXCEPT ![c] = Request(pc, "none", row)]
               /\ UNCHANGED <<said, faults>>
            \/ Fault("read") /\ Answer(c, "failed")
    /\ UNCHANGED <<row, key, lock, expiries, ids>>

-----------------------------------------------------------------------------
(* POST /binding.                                                           *)

\* CreateBinding takes the lock, or answers that another creation is running.
CreateBinding(c) ==
    /\ "create" \in Ops /\ At(c, "idle")
    /\ \/ /\ lock # Free /\ Answer(c, "busy") /\ UNCHANGED lock
       \/ /\ lock = Free /\ lock' = c
          /\ \E a \in Apim : req' = [req EXCEPT ![c] = Request("read", a, NoRow)]
          /\ UNCHANGED said
    /\ UNCHANGED <<row, key, faults, expiries, ids>>

\* createBindingLocked looks for a binding and makes the user.
ReadBinding(c) ==
    /\ At(c, "read")
    /\ \/ /\ row # NoRow \/ req[c].late
          /\ Answer(c, "refused") /\ Unlock(c) /\ UNCHANGED faults
       \/ /\ row = NoRow /\ ~req[c].late
          /\ \/ Go(c, "key") /\ UNCHANGED <<lock, faults>>
             \/ Fault("user") /\ Answer(c, "failed") /\ Unlock(c)
    /\ UNCHANGED <<row, key, expiries, ids>>

\* LiteLLM makes the key of the alias.
NewKey(c) ==
    /\ ids < MaxIds /\ ids' = ids + 1
    /\ key' = [id |-> ids + 1, apim |-> req[c].apim, budget |-> 0]

\* CreateKey and what createLiteLLMKeyWithRecovery makes of its outcome: a key, an
\* alias in use, an answer that is lost (before or after the key is made), an error.
CreateKey(c) ==
    /\ At(c, "key")
    /\ \/ /\ ~req[c].late /\ key = NoKey /\ NewKey(c)
          /\ req' = [req EXCEPT ![c].pc = "save", ![c].id = ids + 1]
          /\ UNCHANGED <<said, faults, lock>>
       \/ /\ ~req[c].late /\ key # NoKey
          /\ Go(c, "recheck")
          /\ UNCHANGED <<key, ids, lock, faults>>
       \/ /\ Fault("lost") \/ (req[c].late /\ UNCHANGED faults)
          /\ \/ key = NoKey /\ NewKey(c)
             \/ UNCHANGED <<key, ids>>
          /\ Go(c, "clean") /\ UNCHANGED lock
       \/ /\ Fault("key") /\ Answer(c, "failed") /\ Unlock(c)
          /\ UNCHANGED <<key, ids>>
    /\ UNCHANGED <<row, expiries>>

\* The alias is in use: is there a binding by now?
Recheck(c) ==
    /\ At(c, "recheck")
    /\ \/ /\ row = NoRow /\ ~req[c].late
          /\ Go(c, "clean") /\ UNCHANGED <<lock, faults>>
       \/ /\ row # NoRow \/ req[c].late
          /\ Answer(c, "refused") /\ Unlock(c) /\ UNCHANGED faults
    /\ UNCHANGED <<row, key, expiries, ids>>

\* deleteLiteLLMKeyByAlias, with a time limit of its own.
Clean(c) ==
    /\ At(c, "clean")
    /\ \/ key' = NoKey /\ Go(c, "again") /\ UNCHANGED <<lock, faults>>
       \/ /\ Fault("clean") /\ Answer(c, "failed") /\ Unlock(c)
          /\ UNCHANGED key
    /\ UNCHANGED <<row, expiries, ids>>

\* The second CreateKey: any failure of it ends the request.
CreateAgain(c) ==
    /\ At(c, "again")
    /\ \/ /\ key = NoKey /\ ~req[c].late /\ NewKey(c)
          /\ req' = [req EXCEPT ![c].pc = "save", ![c].id = ids + 1]
          /\ UNCHANGED <<said, faults, lock>>
       \/ /\ \/ (key # NoKey \/ req[c].late) /\ UNCHANGED <<key, ids, faults>>
             \/ Fault("key") /\ UNCHANGED <<key, ids>>
             \/ key = NoKey /\ Fault("lost") /\ NewKey(c)
          /\ Answer(c, "failed") /\ Unlock(c)
    /\ UNCHANGED <<row, expiries>>

\* CreateLLMBinding: an insert, which fails if there is a row.  Its error is taken for a
\* failure also if the row was stored and the answer lost.
SaveBinding(c) ==
    /\ At(c, "save")
    /\ \/ /\ row = NoRow /\ ~req[c].late
          /\ row' = [id |-> req[c].id, apim |-> req[c].apim]
          /\ Answer(c, "created") /\ Unlock(c)
          /\ UNCHANGED faults
       \/ /\ (Fault("save") \/ ((row # NoRow \/ req[c].late) /\ UNCHANGED faults))
          /\ Go(c, "rollback")
          /\ UNCHANGED <<row, lock>>
       \/ /\ row = NoRow /\ ~req[c].late /\ Fault("lostSave")
          /\ row' = [id |-> req[c].id, apim |-> req[c].apim]
          /\ Go(c, "rollback") /\ UNCHANGED lock
    /\ UNCHANGED <<key, expiries, ids>>

\* rollbackLiteLLMKeyByHash: an error is only logged.
Rollback(c) ==
    /\ At(c, "rollback")
    /\ \/ key' = (IF key.id = req[c].id THEN NoKey ELSE key) /\ UNCHANGED faults
       \/ Fault("clean") /\ UNCHANGED key
    /\ Answer(c, "failed") /\ Unlock(c)
    /\ UNCHANGED <<row, expiries, ids>>

\* The 30 seconds of a creation end: the transaction and its lock go at once, what
\* the request still does by the same context fails, its cleaning up does not.
Expire(c) ==
    /\ ~At(c, "idle") /\ lock = c /\ expiries < MaxExpiries
    /\ expiries' = expiries + 1
    /\ req' = [req EXCEPT ![c].late = TRUE]
    /\ lock' = Free
    /\ UNCHANGED <<row, key, said, faults, ids>>

-----------------------------------------------------------------------------
(* PUT and DELETE /binding, PUT and DELETE /budget: no lock.                *)

UpdateBinding(c) == Asks(c, "update", "update")
DeleteBinding(c) == Asks(c, "delete", "remove")
SetBudget(c)     == Asks(c, "budget", "budget")

\* UpdateKeyMetadata of the key the row named.
UpdateKeyMetadata(c) ==
    /\ At(c, "update")
    /\ \E a \in Apim :
         \/ /\ key.id = req[c].seen.id
            /\ key' = [key EXCEPT !.apim = a]
            /\ req' = [req EXCEPT ![c].pc = "store", ![c].apim = a]
            /\ UNCHANGED <<said, faults>>
         \/ /\ key.id # req[c].seen.id
            /\ Answer(c, "failed") /\ UNCHANGED <<key, faults>>
         \/ Fault("update") /\ Answer(c, "failed") /\ UNCHANGED key
         \/ /\ Fault("lostUpdate") /\ key.id = req[c].seen.id
            /\ key' = [key EXCEPT !.apim = a] /\ Answer(c, "failed")
    /\ UNCHANGED <<row, lock, expiries, ids>>

\* UpdateLLMBinding: an upsert.
StoreBinding(c) ==
    /\ At(c, "store")
    /\ \/ /\ row' = [id |-> req[c].seen.id, apim |-> req[c].apim]
          /\ Answer(c, "updated") /\ UNCHANGED faults
       \/ Fault("store") /\ Go(c, "restore") /\ UNCHANGED row
       \/ /\ Fault("lostStore") /\ Go(c, "restore")
          /\ row' = [id |-> req[c].seen.id, apim |-> req[c].apim]
    /\ UNCHANGED <<key, lock, expiries, ids>>

\* It failed: the key gets its old metadata back, if that does not fail too.
Restore(c) ==
    /\ At(c, "restore")
    /\ \/ /\ key' = IF key.id = req[c].seen.id THEN [key EXCEPT !.apim = req[c].seen.apim] ELSE key
          /\ UNCHANGED faults
       \/ Fault("restore") /\ UNCHANGED key
    /\ Answer(c, "failed")
    /\ UNCHANGED <<row, lock, expiries, ids>>

\* DeleteKey: by hash, and by alias if there is no such key; then an absent alias is
\* an error.
DeleteKey(c) ==
    /\ At(c, "remove")
    /\ \/ key # NoKey /\ key' = NoKey /\ Go(c, "drop") /\ UNCHANGED faults
       \/ key = NoKey /\ Answer(c, "failed") /\ UNCHANGED <<key, faults>>
       \/ Fault("remove") /\ Answer(c, "failed") /\ UNCHANGED key
       \/ Fault("lostRemove") /\ Answer(c, "failed") /\ key' = NoKey
    /\ UNCHANGED <<row, lock, expiries, ids>>

DropBinding(c) ==
    /\ At(c, "drop")
    /\ \/ row' = NoRow /\ Answer(c, "deleted") /\ UNCHANGED faults
       \/ Fault("drop") /\ Answer(c, "failed") /\ row' \in {row, NoRow}
    /\ UNCHANGED <<key, lock, expiries, ids>>

\* UpdateKeyBudget: a limit, or none (0).
UpdateKeyBudget(c) ==
    /\ At(c, "budget")
    /\ \/ /\ key.id = req[c].seen.id
          /\ \E b \in 0 .. 1 : key' = [key EXCEPT !.budget = b]
          /\ Answer(c, "limited") /\ UNCHANGED faults
       \/ /\ key.id # req[c].seen.id
          /\ Answer(c, "failed") /\ UNCHANGED <<key, faults>>
       \/ Fault("update") /\ Answer(c, "failed") /\ UNCHANGED key
    /\ UNCHANGED <<row, lock, expiries, ids>>

Next ==
    \E c \in Client :
       \/ CreateBinding(c) \/ ReadBinding(c) \/ CreateKey(c) \/ Recheck(c) \/ Clean(c)
       \/ CreateAgain(c) \/ SaveBinding(c) \/ Rollback(c) \/ Expire(c)
       \/ UpdateBinding(c) \/ UpdateKeyMetadata(c) \/ StoreBinding(c) \/ Restore(c)
       \/ DeleteBinding(c) \/ DeleteKey(c) \/ DropBinding(c)
       \/ SetBudget(c) \/ UpdateKeyBudget(c)

Spec == Init /\ [][Next]_gatewayVars

-----------------------------------------------------------------------------
(* Requests that change nothing.                                            *)

\* selectProxyAuthHeader: the header that names the caller, "none" if neither is set.
selectProxyAuthHeader(r) ==
    LET first == IF r.messages THEN "x-api-key" ELSE "authorization"
        other == IF r.messages THEN "authorization" ELSE "x-api-key"
    IN IF r.set[first] THEN first ELSE IF r.set[other] THEN other ELSE "none"

\* applyProxyVirtualKeyHeader: the headers of the request that goes to LiteLLM.
applyProxyVirtualKeyHeader(r) ==
    LET style == selectProxyAuthHeader(r)
    IN [h \in {"authorization", "x-api-key"} |->
          IF h = (IF style = "none" THEN "authorization" ELSE style) THEN "virtual" ELSE "absent"]

\* expandDateRangeForTimezone: the days (of UTC) that are asked for.
expandDateRangeForTimezone(start, end, offset) ==
    IF offset = 0 THEN start .. end ELSE start - 1 .. end + 1

-----------------------------------------------------------------------------
(* What must hold.                                                          *)

TypeOK ==
    /\ row.id \in 0 .. ids /\ key.id \in 0 .. ids
    /\ row.apim \in Apim \cup {"none"} /\ key.apim \in Apim \cup {"none"}
    /\ key.budget \in 0 .. 1 /\ (row.id = 0) = (row = NoRow)
    /\ lock \in Client \cup {Free}
    /\ \A c \in Client : /\ req[c].id \in 0 .. ids
                         /\ said[c] \in {"nothing", "busy", "refused", "failed", "created", "not bound",
                                         "updated", "deleted", "limited"}
    /\ faults \in 0 .. MaxFaults /\ expiries \in 0 .. MaxExpiries /\ ids \in 0 .. MaxIds

Resting == \A c \in Client : At(c, "idle")

\* A binding names the key that LiteLLM has, and both have the same APIM key: what
\* ProxyLLMRequest sends works and is charged to the key the user sees, except while
\* an update or a deletion is between its two writes.  It takes a write of which the answer
\* is lost, a deletion of the row that fails, or a change or deletion beside another
\* request to part them.
BindingIsReal ==
    row # NoRow /\ (\A c \in Client : req[c].pc \notin {"store", "restore", "drop"})
      => key.id = row.id /\ key.apim = row.apim

\* When no request runs a virtual key has its binding.
NoOrphan == Resting /\ row = NoRow => key = NoKey

\* A forwarded request has one credential, the virtual key; and the days asked for
\* have every hour of the user's days.
ForwardedOnce ==
    \A m, x, y \in BOOLEAN :
       LET r == [messages |-> m, set |-> [h \in {"authorization", "x-api-key"} |-> IF h = "authorization" THEN x ELSE y]]
           sent == applyProxyVirtualKeyHeader(r)
       IN \E h \in DOMAIN sent : sent[h] = "virtual" /\ \A g \in DOMAIN sent : g # h => sent[g] = "absent"

WholeDays ==
    \A start, end \in 1 .. 3, offset \in -14 .. 14 : \A h \in 24 * start .. 24 * end + 23 :
       (h - offset) \div 24 \in expandDateRangeForTimezone(start, end, offset)
=============================================================================

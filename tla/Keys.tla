-------------------------------- MODULE Keys --------------------------------
(***************************************************************************)
(* Who a request of the API server comes from: API keys and the platform    *)
(* keys that server replicas and a command-line tool make on demand, the    *)
(* sessions of single sign-on and the tokens of password logins, the token  *)
(* that replicas share for internal calls, and the public keys of users for *)
(* the SSH server.  Tokens are numbers, drawn at random in the code and     *)
(* never twice here; hashing and encryption are one to one, so a row keeps  *)
(* the token itself.                                                        *)
(***************************************************************************)
EXTENDS Integers, Sequences

CONSTANTS User, Admin,   \* the users, and those who may delete others' keys
          Nobody,        \* no user: a refused request
          Caller,        \* requests that run at the same time
          Tool,          \* those of them that are runs of the tool without -create
          Address,       \* client addresses
          Replica,       \* replicas of the API server
          Ops,           \* what is asked for
          TokenExpire,   \* the life of a password login's token, none if not positive
          MaxTTL, MaxNow, MaxRows, MaxTokens, MaxFaults

VARIABLES keys,      \* the rows of api_keys
          pubs,      \* the rows of public_key
          session,   \* the row of user_token of each user
          users,     \* the User objects
          cached,    \* the ones the server's cache has
          secret,    \* the secret of internal calls, 0 if there is none
          replica,   \* the start of each replica
          call,      \* what each caller is doing
          given,     \* what was handed out: API keys, sessions and tokens
          gone,      \* the API keys whose deletion was reported
          goneKey,   \* and the public keys
          now, fresh, faults

keysVars == <<keys, pubs, session, users, cached, secret, replica, call, given, gone, goneKey,
              now, fresh, faults>>

NoCall == [pc |-> "idle", user |-> Nobody, id |-> 0, token |-> 0]

Init ==
    /\ keys = <<>> /\ pubs = <<>>
    /\ session = [u \in User |-> [id |-> 0, exp |-> 0]]
    /\ users = {} /\ cached = {} /\ secret = 0
    /\ replica = [r \in Replica |-> [pc |-> "down", token |-> 0]]
    /\ call = [c \in Caller |-> NoCall]
    /\ given = {} /\ gone = {} /\ goneKey = {} /\ now = 0 /\ fresh = 1 /\ faults = 0

Free(c, op) == op \in Ops /\ call[c] = NoCall

Ends(c) == call' = [call EXCEPT ![c] = NoCall]

Fault == faults < MaxFaults /\ faults' = faults + 1

-----------------------------------------------------------------------------
(* API keys.                                                                *)

Row(u, kind, t, exp, list) ==
    [user |-> u, kind |-> kind, token |-> t, exp |-> exp, list |-> list, deleted |-> FALSE]

\* createApiKey: the token is shown once, when its row is stored.  A list of addresses
\* limits the clients, an empty one does not.
createApiKey(c) ==
    /\ Free(c, "key") /\ Len(keys) < MaxRows
    /\ \/ \E u \in User, ttl \in 1 .. MaxTTL, list \in SUBSET Address :
            /\ keys' = Append(keys, Row(u, "user", fresh, now + ttl, list))
            /\ given' = given \cup {[what |-> "key", user |-> u, token |-> fresh, exp |-> now + ttl, list |-> list]}
            /\ fresh' = fresh + 1 /\ UNCHANGED faults
       \/ Fault /\ UNCHANGED <<keys, given, fresh>>
    /\ UNCHANGED <<goneKey, pubs, session, users, cached, secret, replica, call, gone, now>>

\* deleteApiKey looks at the row: a platform key, a key of somebody else (unless the
\* caller is an administrator) and a deleted key are refused.
deleteApiKey(c) ==
    /\ Free(c, "key")
    /\ \E u \in User, i \in 1 .. Len(keys) :
         /\ keys[i].kind # "platform" /\ ~keys[i].deleted
         /\ keys[i].user = u \/ u \in Admin
         /\ call' = [call EXCEPT ![c] = [NoCall EXCEPT !.pc = "delete", !.user = u, !.id = i]]
    /\ UNCHANGED <<goneKey, keys, pubs, session, users, cached, secret, replica, given, gone, now, fresh, faults>>

\* SetApiKeyDeleted: only a row of the caller's; otherwise the answer is an error.
SetApiKeyDeleted(c) ==
    /\ call[c].pc = "delete" /\ Ends(c)
    /\ LET i == call[c].id IN
       \/ /\ keys[i].user = call[c].user
          /\ keys' = [keys EXCEPT ![i].deleted = TRUE]
          /\ gone' = gone \cup {keys[i].token} /\ UNCHANGED faults
       \/ keys[i].user # call[c].user /\ UNCHANGED <<keys, gone, faults>>
       \/ Fault /\ UNCHANGED <<keys, gone>>
    /\ UNCHANGED <<goneKey, pubs, session, users, cached, secret, replica, given, now, fresh>>

\* checkIPWhitelist and ValidateApiKey: the user a token stands for.
checkIPWhitelist(list, address) == list = {} \/ address \in list

ValidateApiKey(t, address) ==
    LET found == {i \in 1 .. Len(keys) :
                    /\ keys[i].token = t /\ ~keys[i].deleted
                    /\ keys[i].kind = "platform" \/ now <= keys[i].exp
                    /\ checkIPWhitelist(keys[i].list, address)}
    IN IF found = {} THEN Nobody ELSE keys[CHOOSE i \in found : TRUE].user

-----------------------------------------------------------------------------
(* Platform keys: one for each user, made when it is first asked for.       *)

PlatformRows(u) == {i \in 1 .. Len(keys) : keys[i].user = u /\ keys[i].kind = "platform" /\ ~keys[i].deleted}

Hands(c, u, t) == given' = given \cup {[what |-> "platform", user |-> u, token |-> t, exp |-> 0, list |-> {}]}

\* GetOrCreatePlatformKey and the tool's getOrCreate look for the row.
GetOrCreatePlatformKey(c) ==
    /\ Free(c, "platform")
    /\ \E u \in User :
         \/ \E i \in PlatformRows(u) : Hands(c, u, keys[i].token) /\ UNCHANGED <<call, fresh, faults>>
         \/ /\ PlatformRows(u) = {} /\ c \notin Tool /\ fresh <= MaxTokens
            /\ call' = [call EXCEPT ![c] = [NoCall EXCEPT !.pc = "insert", !.user = u, !.token = fresh]]
            /\ fresh' = fresh + 1 /\ UNCHANGED <<given, faults>>
         \/ /\ PlatformRows(u) = {} /\ c \in Tool
            /\ UNCHANGED <<given, call, fresh, faults>>
         \/ Fault /\ UNCHANGED <<given, call, fresh>>
    /\ UNCHANGED <<goneKey, keys, pubs, session, users, cached, secret, replica, gone, now>>

\* The insert: the unique index of the table allows one platform key of a user.
InsertPlatformKey(c) ==
    /\ call[c].pc = "insert"
    /\ LET u == call[c].user IN
       \/ /\ PlatformRows(u) = {}
          /\ keys' = Append(keys, Row(u, "platform", call[c].token, now, {}))
          /\ Hands(c, u, call[c].token) /\ Ends(c) /\ UNCHANGED faults
       \/ /\ PlatformRows(u) # {}
          /\ call' = [call EXCEPT ![c].pc = "reread"] /\ UNCHANGED <<keys, given, faults>>
       \/ Fault /\ Ends(c) /\ UNCHANGED <<keys, given>>
    /\ UNCHANGED <<goneKey, pubs, session, users, cached, secret, replica, gone, now, fresh>>

\* Another one was faster: its key is the answer.
RereadPlatformKey(c) ==
    /\ call[c].pc = "reread" /\ Ends(c)
    /\ \/ \E i \in PlatformRows(call[c].user) : Hands(c, call[c].user, keys[i].token) /\ UNCHANGED faults
       \/ Fault /\ UNCHANGED given
    /\ UNCHANGED <<goneKey, keys, pubs, session, users, cached, secret, replica, gone, now, fresh>>

-----------------------------------------------------------------------------
(* Logins.                                                                  *)

\* ssoToken.Login: the provider has confirmed the user; synchronizeUser looks for the
\* User object in the cache.
Login(c) ==
    /\ Free(c, "login")
    /\ \E u \in User :
         call' = [call EXCEPT ![c] = [NoCall EXCEPT !.pc = IF u \in cached THEN "session" ELSE "user", !.user = u]]
    /\ UNCHANGED <<goneKey, keys, pubs, session, users, cached, secret, replica, given, gone, now, fresh, faults>>

\* It creates the object.  If there is one by now the error is dropped and so is the
\* user (id 1): login has no user to answer with.
CreateUser(c) ==
    /\ call[c].pc = "user"
    /\ \/ /\ users' = users \cup {call[c].user}
          /\ call' = [call EXCEPT ![c].pc = "session", ![c].id = IF call[c].user \in users THEN 1 ELSE 0]
          /\ UNCHANGED faults
       \/ Fault /\ Ends(c) /\ UNCHANGED users
    /\ UNCHANGED <<goneKey, keys, pubs, session, cached, secret, replica, given, gone, now, fresh>>

\* updateUserInfoInDB: the upsert replaces the session the user had, and then the
\* answer goes out, or login fails for want of a user.
UpsertUserToken(c) ==
    /\ call[c].pc = "session" /\ Ends(c) /\ fresh <= MaxTokens
    /\ \/ /\ session' = [session EXCEPT ![call[c].user] = [id |-> fresh, exp |-> now + 1]]
          /\ fresh' = fresh + 1
          /\ given' = {g \in given : g.what # "session" \/ g.user # call[c].user}
                        \cup (IF call[c].id = 1 THEN {}
                              ELSE {[what |-> "session", user |-> call[c].user, token |-> fresh,
                                     exp |-> now + 1, list |-> {}]})
          /\ UNCHANGED faults
       \/ Fault /\ UNCHANGED <<session, given, fresh>>
    /\ UNCHANGED <<goneKey, keys, pubs, users, cached, secret, replica, gone, now>>

\* defaultToken.Login: the token carries all there is to know.
PasswordLogin ==
    /\ "password" \in Ops /\ fresh <= MaxTokens
    /\ \E u \in users :
         given' = given \cup {[what |-> "password", user |-> u, token |-> fresh, list |-> {},
                               exp |-> IF TokenExpire < 0 THEN -1 ELSE now + TokenExpire]}
    /\ fresh' = fresh + 1
    /\ UNCHANGED <<goneKey, keys, pubs, session, users, cached, secret, replica, call, gone, now, faults>>

CacheUsers ==
    /\ cached # users /\ cached' = users
    /\ UNCHANGED <<goneKey, keys, pubs, session, users, secret, replica, call, given, gone, now, fresh, faults>>

\* ssoToken.Validate: a row with this session that has not expired.
ValidateSession(t) ==
    LET found == {u \in User : session[u].id = t /\ session[u].exp > now}
    IN IF t = 0 \/ found = {} THEN Nobody ELSE CHOOSE u \in found : TRUE

\* defaultToken.Validate.
ValidatePassword(t) ==
    LET found == {g \in given : g.what = "password" /\ g.token = t
                                  /\ ~(TokenExpire > 0 /\ now > g.exp)}
    IN IF found = {} THEN Nobody ELSE (CHOOSE g \in found : TRUE).user

-----------------------------------------------------------------------------
(* The two ways in.  A request has a cookie with a token and a user type, an *)
(* Authorization header, or both; a token is an API key if it looks like one.*)

IsApiKey(t) == \E g \in given : g.token = t /\ g.what \in {"key", "platform"}

Validate(t, type) == IF t = 0 THEN Nobody
                     ELSE IF type = "sso" THEN ValidateSession(t) ELSE ValidatePassword(t)

\* ParseToken: an API key in the header, then the cookie, then another bearer token.
ParseToken(r) ==
    IF r.header # 0 /\ IsApiKey(r.header) THEN ValidateApiKey(r.header, r.address)
    ELSE IF r.cookie # 0 THEN Validate(r.cookie, r.type)
    ELSE IF r.scheme = "bearer" THEN Validate(r.header, r.type) ELSE Nobody

\* VerifyToken, for other services: the cookie, then the header.
VerifyToken(r) ==
    IF r.cookie # 0 THEN Validate(r.cookie, r.type)
    ELSE IF r.header # 0 /\ IsApiKey(r.header) THEN ValidateApiKey(r.header, r.address)
    ELSE IF r.scheme = "bearer" THEN Validate(r.header, r.type) ELSE Nobody

-----------------------------------------------------------------------------
(* The token of internal calls.                                             *)

\* initializeInternalAuth: the secret is read, or made if there is none.
StartReplica(r) ==
    /\ "replica" \in Ops /\ replica[r].pc = "down"
    /\ IF secret # 0
       THEN replica' = [replica EXCEPT ![r] = [pc |-> "up", token |-> secret]] /\ UNCHANGED fresh
       ELSE replica' = [replica EXCEPT ![r] = [pc |-> "create", token |-> fresh]] /\ fresh' = fresh + 1
    /\ UNCHANGED <<goneKey, keys, pubs, session, users, cached, secret, call, given, gone, now, faults>>

CreateSecret(r) ==
    /\ replica[r].pc = "create"
    /\ \/ secret = 0 /\ secret' = replica[r].token
          /\ replica' = [replica EXCEPT ![r].pc = "up"] /\ UNCHANGED faults
       \/ secret # 0 /\ replica' = [replica EXCEPT ![r].pc = "reread"] /\ UNCHANGED <<secret, faults>>
       \/ Fault /\ replica' = [replica EXCEPT ![r].pc = "failed"] /\ UNCHANGED secret
    /\ UNCHANGED <<goneKey, keys, pubs, session, users, cached, call, given, gone, now, fresh>>

RereadSecret(r) ==
    /\ replica[r].pc = "reread"
    /\ replica' = [replica EXCEPT ![r] = [pc |-> "up", token |-> secret]]
    /\ UNCHANGED <<goneKey, keys, pubs, session, users, cached, secret, call, given, gone, now, fresh, faults>>

-----------------------------------------------------------------------------
(* Public keys.                                                             *)

\* InsertPublicKey: the look for the same key compares delete_time with NULL and finds
\* none, and the unique index does not hold for rows whose delete_time is NULL.
createPublicKey ==
    /\ "public" \in Ops /\ Len(pubs) < MaxRows
    /\ \E u \in User : pubs' = Append(pubs, [user |-> u, on |-> TRUE, deleted |-> FALSE])
    /\ UNCHANGED <<goneKey, keys, session, users, cached, secret, replica, call, given, gone, now, fresh, faults>>

\* deletePublicKey, setPublicKeyStatus: an update of the caller's row; an id of another
\* user's row changes nothing and is no error.
changePublicKey ==
    /\ "public" \in Ops
    /\ \E u \in User, i \in 1 .. Len(pubs) :
         \/ /\ pubs' = IF pubs[i].user = u THEN [pubs EXCEPT ![i].deleted = TRUE] ELSE pubs
            /\ goneKey' = IF pubs[i].user = u THEN goneKey \cup {i} ELSE goneKey
         \/ \E on \in BOOLEAN :
              /\ pubs' = IF pubs[i].user = u THEN [pubs EXCEPT ![i].on = on] ELSE pubs
              /\ UNCHANGED goneKey
    /\ UNCHANGED <<keys, session, users, cached, secret, replica, call, given, gone, now, fresh, faults>>

\* GetPublicKeyByUserId: the rows the SSH server accepts for a user.
GetPublicKeyByUserId(u) == {i \in 1 .. Len(pubs) : pubs[i].user = u /\ pubs[i].on /\ ~pubs[i].deleted}

Tick ==
    /\ now < MaxNow /\ now' = now + 1
    /\ UNCHANGED <<goneKey, keys, pubs, session, users, cached, secret, replica, call, given, gone, fresh, faults>>

Next ==
    \/ \E c \in Caller : \/ createApiKey(c) \/ deleteApiKey(c) \/ SetApiKeyDeleted(c)
                         \/ GetOrCreatePlatformKey(c) \/ InsertPlatformKey(c) \/ RereadPlatformKey(c)
                         \/ Login(c) \/ CreateUser(c) \/ UpsertUserToken(c)
    \/ \E r \in Replica : StartReplica(r) \/ CreateSecret(r) \/ RereadSecret(r)
    \/ PasswordLogin \/ CacheUsers \/ createPublicKey \/ changePublicKey \/ Tick

Spec == Init /\ [][Next]_keysVars

-----------------------------------------------------------------------------
(* What must hold.                                                          *)

TypeOK ==
    /\ \A i \in DOMAIN keys : keys[i].token < fresh /\ keys[i].user \in User
    /\ cached \subseteq users /\ users \subseteq User
    /\ \A u \in User : session[u].id < fresh
    /\ \A c \in Caller : call[c].pc \in {"idle", "delete", "insert", "reread", "user", "session"}
    /\ \A r \in Replica : replica[r].pc \in {"down", "create", "reread", "up", "failed"}
    /\ now \in 0 .. MaxNow /\ faults \in 0 .. MaxFaults

\* What was handed out stands for its user: an API key from its addresses until it
\* expires or its deletion is reported, a platform key always, a session until it
\* expires or a later login, a password login's token until it expires.
GivenWorks ==
    \A g \in given :
       /\ g.what = "key" /\ g.token \notin gone /\ now <= g.exp
            => \A a \in Address : ValidateApiKey(g.token, a) = (IF g.list = {} \/ a \in g.list THEN g.user ELSE Nobody)
                                  \/ \E c \in Caller : call[c].pc = "delete" /\ keys[call[c].id].token = g.token
       /\ g.what = "platform" => \A a \in Address : ValidateApiKey(g.token, a) = g.user
       /\ g.what = "session" /\ now < g.exp => ValidateSession(g.token) = g.user
       /\ g.what = "password" /\ (TokenExpire <= 0 \/ now <= g.exp) => ValidatePassword(g.token) = g.user

\* All who ask for the platform key of a user get the same one, and every replica that
\* has started has the same internal token.
OnePlatformKey == \A g, h \in given : g.what = "platform" /\ h.what = "platform" /\ g.user = h.user => g = h
OneSecret == \A r, s \in Replica : replica[r].pc = "up" /\ replica[s].pc = "up" => replica[r].token = replica[s].token

\* What was reported as removed is never accepted again.
GoneIsRefused ==
    /\ \A i \in DOMAIN keys : keys[i].token \in gone => \A a \in Address : ValidateApiKey(keys[i].token, a) = Nobody
    /\ \A u \in User, i \in DOMAIN pubs : i \in goneKey => i \notin GetPublicKeyByUserId(u)

\* A request with one credential is the same user's for both ways in.
SameUser ==
    \A t \in 0 .. fresh, a \in Address, type \in {"sso", "default"}, inCookie \in BOOLEAN :
       LET r == [cookie |-> IF inCookie THEN t ELSE 0, header |-> IF inCookie THEN 0 ELSE t,
                 scheme |-> "bearer", type |-> type, address |-> a]
       IN ParseToken(r) = VerifyToken(r)

=============================================================================

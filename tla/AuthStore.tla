------------------------------ MODULE AuthStore ------------------------------
(***************************************************************************)
(* The server's store of users, refresh tokens and API keys                *)
(* (lightning-server/src/auth/store.rs, auth/cache.rs) and the handlers    *)
(* that use it (routes/auth.rs, routes/admin_users.rs).  Everything is     *)
(* kept twice, in database tables and in caches filled from them when the  *)
(* server starts; a Bloom filter and a set of revoked hashes stand in      *)
(* front of the caches.  Each database statement and each lock is a step   *)
(* of its own, and a statement may fail.                                   *)
(*                                                                         *)
(* A credential is its hash; ids are never used again.  A user is whether  *)
(* it is enabled and which password it has.  Time is left out: a token or  *)
(* a key expires at any moment.                                            *)
(***************************************************************************)
EXTENDS Naturals, FiniteSets, Functions

CONSTANTS
  Session, Admin,       \* threads serving /v1/auth and /v1/admin requests
  User, Token, Key,     \* ids that may ever be used
  MaxRestarts, MaxFailures, MaxPassword,    \* bounds
  Workload              \* how many requests each thread may serve: a set of functions

None == "none"
Credential == Token \cup Key

VARIABLES
  dbUsers, dbTokens, dbKeys,     \* the tables: user records and owners, partial functions
  users, tokens, keys,           \* users_cache, tokens_cache, api_keys_cache
  bloom, revoked,                \* the TokenCache
  expired,                       \* credentials whose expires_at has passed
  used,                          \* ids handed out so far
  op,                            \* what each thread is doing
  gc,                            \* purge_expired: its next step and the hashes it read
  returned, ended,               \* history: credentials whose request was answered, and
                                 \* credentials a request has ended
  restarts, failures,
  left                           \* requests each thread may still serve

db == <<dbUsers, dbTokens, dbKeys>>
caches == <<users, tokens, keys, bloom, revoked>>
history == <<returned, ended>>
faults == <<restarts, failures>>
vars == <<db, caches, expired, used, op, gc, history, faults, left>>

Idle == [at |-> "idle", u |-> None, c |-> None, new |-> None, old |-> {}, rec |-> None]

Insert(f, x, v) == [y \in DOMAIN f \cup {x} |-> IF y = x THEN v ELSE f[y]]
Remove(f, S) == Restrict(f, DOMAIN f \ S)
Owned(f, u) == {x \in DOMAIN f : f[x] = u}
\* A new id: it does not matter which.
Fresh(S) == IF S \subseteq used THEN {} ELSE {CHOOSE x \in S : x \notin used}

TypeOK ==
  /\ \A f \in {dbUsers, users} :
       DOMAIN f \subseteq User /\ \A u \in DOMAIN f : f[u].pw \in 1..MaxPassword
  /\ \A f \in {dbTokens, tokens} : DOMAIN f \subseteq Token /\ Range(f) \subseteq User
  /\ \A f \in {dbKeys, keys} : DOMAIN f \subseteq Key /\ Range(f) \subseteq User
  /\ bloom \subseteq Credential /\ revoked \subseteq Token
  /\ expired \subseteq used /\ used \subseteq User \cup Credential
  /\ DOMAIN op = Session \cup Admin

\* main: a server whose bootstrap_admin has made the first user.
Init ==
  /\ LET u == CHOOSE u \in User : TRUE IN
       /\ dbUsers = [x \in {u} |-> [enabled |-> TRUE, pw |-> 1]]
       /\ users = dbUsers /\ used = {u}
  /\ dbTokens = <<>> /\ dbKeys = <<>> /\ tokens = <<>> /\ keys = <<>>
  /\ bloom = {} /\ revoked = {} /\ expired = {}
  /\ op = [s \in Session \cup Admin |-> Idle]
  /\ gc = [at |-> "idle", read |-> {}]
  /\ returned = {} /\ ended = {} /\ restarts = 0 /\ failures = 0
  /\ left \in Workload

Enabled(u) == u \in DOMAIN users /\ users[u].enabled
-----------------------------------------------------------------------------
(* TokenCache *)

TokenCacheCheck(c) ==
  IF c \notin bloom THEN "DefinitelyNotIssued"
  ELSE IF c \in revoked THEN "Revoked" ELSE "MaybeValid"

Rebuild(hashes) == bloom' = hashes /\ revoked' = {}

\* validate_refresh_token and authenticate_api_key, past the TokenCache.
Known(c) ==
  \/ c \in DOMAIN tokens /\ c \notin expired /\ Enabled(tokens[c])
  \/ c \in DOMAIN keys /\ c \notin expired /\ Enabled(keys[c])

\* What they answer.  A Bloom filter may say MaybeValid of a hash it was not given.
ValidateRefreshToken(t) ==
  t \in Token /\ TokenCacheCheck(t) = "MaybeValid" /\ Known(t)

AuthenticateApiKey(k) ==
  k \in Key /\ TokenCacheCheck(k) = "MaybeValid" /\ Known(k)

MayBeAccepted(t) == t \notin revoked /\ Known(t)
-----------------------------------------------------------------------------
(* Steps *)

At(s, step) == op[s].at = step
Goto(s, step) == op' = [op EXCEPT ![s].at = step] /\ UNCHANGED left
Done(s) == op' = [op EXCEPT ![s] = Idle] /\ UNCHANGED left
Start(s) == At(s, "idle") /\ left[s] > 0 /\ left' = [left EXCEPT ![s] = @ - 1]

\* A statement fails: the handler answers with the error, or ignores it.
DbStep ==
  {"store_db", "revoke_db", "update_db", "delete_tokens", "delete_keys", "delete_user",
   "reset_db", "reset_tokens", "key_db", "unkey_db", "create_db"}

StatementFails(s) ==
  /\ op[s].at \in DbStep /\ failures < MaxFailures
  /\ failures' = failures + 1
  /\ IF At(s, "revoke_db") /\ op[s].new # None
     THEN Goto(s, "store_db")     \* refresh_handler drops the error
     ELSE Done(s)
  /\ UNCHANGED <<db, caches, expired, used, gc, history, restarts>>

(* login_handler: try_login with the right password, then store_refresh_token. *)

Login(s, u, pw) ==
  /\ Start(s) /\ Enabled(u) /\ users[u].pw = pw
  /\ \E t \in Fresh(Token) :
       /\ op' = [op EXCEPT ![s] = [Idle EXCEPT !.at = "store_db", !.u = u, !.new = t]]
       /\ used' = used \cup {t}
  /\ UNCHANGED <<db, caches, expired, gc, history, faults>>

StoreRefreshToken_Db(s) ==
  /\ At(s, "store_db") /\ Goto(s, "store_bloom")
  /\ dbTokens' = Insert(dbTokens, op[s].new, op[s].u)
  /\ UNCHANGED <<dbUsers, dbKeys, caches, expired, used, gc, history, faults>>

StoreRefreshToken_Bloom(s) ==
  /\ At(s, "store_bloom") /\ Goto(s, "store_cache")
  /\ bloom' = bloom \cup {op[s].new}
  /\ UNCHANGED <<db, users, tokens, keys, revoked, expired, used, gc, history, faults>>

StoreRefreshToken_Cache(s) ==
  /\ At(s, "store_cache") /\ Done(s)
  /\ tokens' = Insert(tokens, op[s].new, op[s].u)
  /\ returned' = returned \cup {op[s].new}
  /\ UNCHANGED <<db, users, keys, bloom, revoked, expired, used, gc, ended, faults>>

StoreRefreshToken(s) ==
  StoreRefreshToken_Db(s) \/ StoreRefreshToken_Bloom(s) \/ StoreRefreshToken_Cache(s)

(* refresh_handler: validate, revoke (an error is dropped), store a new token. *)

Refresh(s, t) ==
  /\ Start(s) /\ ValidateRefreshToken(t)
  /\ \E n \in Fresh(Token) :
       /\ op' = [op EXCEPT ![s] =
            [Idle EXCEPT !.at = "revoke", !.u = tokens[t], !.c = t, !.new = n]]
       /\ used' = used \cup {n}
  /\ UNCHANGED <<db, caches, expired, gc, history, faults>>

\* logout_handler drops the error of an unknown token.
Logout(s, t) ==
  /\ Start(s)
  /\ op' = [op EXCEPT ![s] = [Idle EXCEPT !.at = "revoke", !.c = t]]
  /\ UNCHANGED <<db, caches, expired, used, gc, history, faults>>

\* revoke_refresh_token of a token the cache does not hold: "refresh token not found".
RevokeRefreshToken_Check(s) ==
  /\ At(s, "revoke")
  /\ IF op[s].c \in DOMAIN tokens THEN Goto(s, "revoke_db")
     ELSE IF op[s].new # None THEN Goto(s, "store_db") ELSE Done(s)
  /\ UNCHANGED <<db, caches, expired, used, gc, history, faults>>

RevokeRefreshToken_Db(s) ==
  /\ At(s, "revoke_db") /\ Goto(s, "revoke_cache")
  /\ dbTokens' = Remove(dbTokens, {op[s].c})
  /\ UNCHANGED <<dbUsers, dbKeys, caches, expired, used, gc, history, faults>>

RevokeRefreshToken_MarkOnly(s) ==
  /\ At(s, "revoke_cache") /\ Goto(s, "revoke_mark")
  /\ UNCHANGED <<db, caches, expired, used, gc, history, faults>>

RevokeRefreshToken_Cache(s) ==
  /\ At(s, "revoke_cache") /\ Goto(s, "revoke_mark")
  /\ tokens' = Remove(tokens, {op[s].c})
  /\ UNCHANGED <<db, users, keys, bloom, revoked, expired, used, gc, history, faults>>

\* mark_revoked; the handler then answers, or goes on to store the new token.
RevokeRefreshToken_Mark(s) ==
  /\ At(s, "revoke_mark")
  /\ revoked' = revoked \cup {op[s].c}
  /\ ended' = ended \cup {op[s].c}
  /\ IF op[s].new # None THEN Goto(s, "store_db") ELSE Done(s)
  /\ UNCHANGED <<db, users, tokens, keys, bloom, expired, used, gc, returned, faults>>

RevokeRefreshToken(s) ==
  \/ RevokeRefreshToken_Check(s) \/ RevokeRefreshToken_Db(s)
  \/ RevokeRefreshToken_Cache(s) \/ RevokeRefreshToken_Mark(s)
-----------------------------------------------------------------------------
(* The administrator's handlers *)

CreateUser(s) ==
  /\ Start(s)
  /\ \E u \in Fresh(User) :
       /\ op' = [op EXCEPT ![s] = [Idle EXCEPT !.at = "create_db", !.u = u]]
       /\ used' = used \cup {u}
  /\ UNCHANGED <<db, caches, expired, gc, history, faults>>

NewUser == [enabled |-> TRUE, pw |-> 1]

DbCreateUser(s) ==
  /\ At(s, "create_db") /\ Goto(s, "create_cache")
  /\ dbUsers' = Insert(dbUsers, op[s].u, NewUser)
  /\ UNCHANGED <<dbTokens, dbKeys, caches, expired, used, gc, history, faults>>

CreateUser_Cache(s) ==
  /\ At(s, "create_cache") /\ Done(s)
  /\ users' = Insert(users, op[s].u, NewUser)
  /\ UNCHANGED <<db, tokens, keys, bloom, revoked, expired, used, gc, history, faults>>

\* update_user clones the cached record, changes it, and puts it back after the statement.
UpdateUser(s, u, enabled) ==
  /\ Start(s) /\ u \in DOMAIN users
  /\ op' = [op EXCEPT ![s] = [Idle EXCEPT !.at = "update_db", !.u = u,
                                          !.rec = [users[u] EXCEPT !.enabled = enabled]]]
  /\ UNCHANGED <<db, caches, expired, used, gc, history, faults>>

\* Only the fields that were given are set.
UpdateUser_Db(s) ==
  /\ At(s, "update_db") /\ Goto(s, "update_cache")
  /\ dbUsers' = IF op[s].u \in DOMAIN dbUsers
                THEN [dbUsers EXCEPT ![op[s].u].enabled = op[s].rec.enabled] ELSE dbUsers
  /\ UNCHANGED <<dbTokens, dbKeys, caches, expired, used, gc, history, faults>>

UpdateUser_NotCached(s) ==
  /\ At(s, "update_cache") /\ Done(s)
  /\ UNCHANGED <<db, caches, expired, used, gc, history, faults>>

UpdateUser_Cache(s) ==
  /\ At(s, "update_cache") /\ Done(s)
  /\ users' = Insert(users, op[s].u, op[s].rec)
  /\ UNCHANGED <<db, tokens, keys, bloom, revoked, expired, used, gc, history, faults>>

\* history: the tokens whose owner has been given them and that this request must end.
Ending(s, u) == Owned(tokens, u) \cap returned

DeleteUser(s, u) ==
  /\ Start(s) /\ u \in DOMAIN users
  /\ op' = [op EXCEPT ![s] = [Idle EXCEPT !.at = "delete_tokens", !.u = u,
                                          !.old = Ending(s, u)]]
  /\ UNCHANGED <<db, caches, expired, used, gc, history, faults>>

DeleteUser_Db(s) ==
  /\ \/ /\ At(s, "delete_tokens") /\ Goto(s, "delete_keys")
        /\ dbTokens' = Remove(dbTokens, Owned(dbTokens, op[s].u))
        /\ UNCHANGED <<dbKeys, dbUsers>>
     \/ /\ At(s, "delete_keys") /\ Goto(s, "delete_user")
        /\ dbKeys' = Remove(dbKeys, Owned(dbKeys, op[s].u))
        /\ UNCHANGED <<dbTokens, dbUsers>>
     \/ /\ At(s, "delete_user") /\ Goto(s, "drop_tokens")
        /\ dbUsers' = Remove(dbUsers, {op[s].u})
        /\ UNCHANGED <<dbTokens, dbKeys>>
  /\ UNCHANGED <<caches, expired, used, gc, history, faults>>

DeleteUser_Caches(s) ==
  /\ \/ /\ At(s, "drop_tokens") /\ Goto(s, "drop_keys")
        /\ tokens' = Remove(tokens, Owned(tokens, op[s].u))
        /\ UNCHANGED <<keys, users, ended>>
     \/ /\ At(s, "drop_keys") /\ Goto(s, "drop_user")
        /\ keys' = Remove(keys, Owned(keys, op[s].u))
        /\ UNCHANGED <<tokens, users, ended>>
     \/ /\ At(s, "drop_user") /\ Done(s)
        /\ users' = Remove(users, {op[s].u})
        /\ ended' = ended \cup op[s].old
        /\ UNCHANGED <<tokens, keys>>
  /\ UNCHANGED <<db, bloom, revoked, expired, used, gc, returned, faults>>

\* reset_password does not look whether the user exists.
ResetPassword(s, u) ==
  /\ Start(s) /\ u \in DOMAIN users /\ users[u].pw < MaxPassword
  /\ op' = [op EXCEPT ![s] = [Idle EXCEPT !.at = "reset_db", !.u = u, !.old = Ending(s, u),
                                          !.rec = users[u].pw + 1]]
  /\ UNCHANGED <<db, caches, expired, used, gc, history, faults>>

ResetPassword_Db(s) ==
  /\ \/ /\ At(s, "reset_db") /\ Goto(s, "reset_tokens")
        /\ dbUsers' = IF op[s].u \in DOMAIN dbUsers
                      THEN [dbUsers EXCEPT ![op[s].u].pw = op[s].rec] ELSE dbUsers
        /\ UNCHANGED dbTokens
     \/ /\ At(s, "reset_tokens") /\ Goto(s, "reset_cache")
        /\ dbTokens' = Remove(dbTokens, Owned(dbTokens, op[s].u))
        /\ UNCHANGED dbUsers
  /\ UNCHANGED <<dbKeys, caches, expired, used, gc, history, faults>>

ResetPassword_Caches(s) ==
  /\ \/ /\ At(s, "reset_cache") /\ Goto(s, "reset_user")
        /\ revoked' = revoked \cup Owned(tokens, op[s].u)
        /\ tokens' = Remove(tokens, Owned(tokens, op[s].u))
        /\ UNCHANGED <<users, ended>>
     \/ /\ At(s, "reset_user") /\ Done(s)
        /\ users' = IF op[s].u \in DOMAIN users
                    THEN [users EXCEPT ![op[s].u].pw = op[s].rec] ELSE users
        /\ ended' = ended \cup op[s].old
        /\ UNCHANGED <<tokens, revoked>>
  /\ UNCHANGED <<db, keys, bloom, expired, used, gc, returned, faults>>

CreateApiKey(s, u) ==
  /\ Start(s) /\ Enabled(u)
  /\ \E k \in Fresh(Key) :
       /\ op' = [op EXCEPT ![s] = [Idle EXCEPT !.at = "key_db", !.u = u, !.c = k]]
       /\ used' = used \cup {k}
  /\ UNCHANGED <<db, caches, expired, gc, history, faults>>

CreateApiKey_Store(s) ==
  /\ \/ /\ At(s, "key_db") /\ Goto(s, "key_bloom")
        /\ dbKeys' = Insert(dbKeys, op[s].c, op[s].u)
        /\ UNCHANGED <<bloom, keys, returned>>
     \/ /\ At(s, "key_bloom") /\ Goto(s, "key_cache")
        /\ bloom' = bloom \cup {op[s].c}
        /\ UNCHANGED <<dbKeys, keys, returned>>
     \/ /\ At(s, "key_cache") /\ Done(s)
        /\ keys' = Insert(keys, op[s].c, op[s].u)
        /\ returned' = returned \cup {op[s].c}
        /\ UNCHANGED <<dbKeys, bloom>>
  /\ UNCHANGED <<dbUsers, dbTokens, users, tokens, revoked, expired, used, gc, ended,
                 faults>>

RevokeApiKey(s, k) ==
  /\ Start(s) /\ k \in DOMAIN keys
  /\ op' = [op EXCEPT ![s] = [Idle EXCEPT !.at = "unkey_db", !.c = k]]
  /\ UNCHANGED <<db, caches, expired, used, gc, history, faults>>

RevokeApiKey_Drop(s) ==
  /\ \/ /\ At(s, "unkey_db") /\ Goto(s, "unkey_cache")
        /\ dbKeys' = Remove(dbKeys, {op[s].c})
        /\ UNCHANGED <<keys, ended>>
     \/ /\ At(s, "unkey_cache") /\ Done(s)
        /\ keys' = Remove(keys, {op[s].c})
        /\ ended' = ended \cup {op[s].c}
        /\ UNCHANGED dbKeys
  /\ UNCHANGED <<dbUsers, dbTokens, users, tokens, bloom, revoked, expired, used, gc,
                 returned, faults>>
-----------------------------------------------------------------------------
(* Time, the collector and restarts *)

Expire(c) ==
  /\ c \in (DOMAIN dbTokens \cup DOMAIN dbKeys) \ expired
  /\ expired' = expired \cup {c}
  /\ UNCHANGED <<db, caches, used, op, gc, history, faults, left>>

\* purge_expired: the two statements and the two caches, taken together; then
\* rebuild_cache reads both caches, and rebuilds the TokenCache from what it read, with no
\* revoked hash.
PurgeExpired ==
  /\ gc.at = "idle" /\ gc' = [gc EXCEPT !.at = "read"]
  /\ dbTokens' = Remove(dbTokens, expired) /\ dbKeys' = Remove(dbKeys, expired)
  /\ tokens' = Remove(tokens, expired) /\ keys' = Remove(keys, expired)
  /\ UNCHANGED <<dbUsers, users, bloom, revoked, expired, used, op, history, faults, left>>

RebuildCache_TokensOnly ==
  /\ \/ gc.at = "read" /\ gc' = [at |-> "rebuild", read |-> DOMAIN tokens]
        /\ UNCHANGED <<bloom, revoked>>
     \/ gc.at = "rebuild" /\ gc' = [at |-> "idle", read |-> {}] /\ Rebuild(gc.read)
  /\ UNCHANGED <<db, users, tokens, keys, expired, used, op, history, faults, left>>

RebuildCache ==
  /\ \/ /\ gc.at = "read"
        /\ gc' = [at |-> "rebuild", read |-> DOMAIN tokens \cup DOMAIN keys]
        /\ UNCHANGED <<bloom, revoked>>
     \/ gc.at = "rebuild" /\ gc' = [at |-> "idle", read |-> {}] /\ Rebuild(gc.read)
  /\ UNCHANGED <<db, users, tokens, keys, expired, used, op, history, faults, left>>

Gc == PurgeExpired \/ RebuildCache

\* What AuthStore::new loads of the tables.  A credential that has expired stays in its
\* table until the collector runs.
LoadUsers == dbUsers
LoadTokens == Remove(dbTokens, expired)
LoadApiKeys == Remove(dbKeys, expired)

\* The server stops and starts again, and the TokenCache is rebuilt from the tokens alone.
Restart ==
  /\ restarts < MaxRestarts /\ restarts' = restarts + 1
  /\ users' = LoadUsers /\ tokens' = LoadTokens /\ keys' = LoadApiKeys
  /\ Rebuild(DOMAIN LoadTokens)
  /\ op' = [s \in Session \cup Admin |-> Idle]
  /\ gc' = [at |-> "idle", read |-> {}]
  /\ UNCHANGED <<db, expired, used, history, failures, left>>
-----------------------------------------------------------------------------
SessionStep(s) == StoreRefreshToken(s) \/ RevokeRefreshToken(s)

SessionRequest(s) ==
  \/ \E u \in User, pw \in 1..MaxPassword : Login(s, u, pw)
  \/ \E t \in Token : Refresh(s, t) \/ (t \in used /\ Logout(s, t))

AdminStep(s) ==
  \/ DbCreateUser(s) \/ CreateUser_Cache(s) \/ UpdateUser_Db(s) \/ UpdateUser_Cache(s)
  \/ DeleteUser_Db(s) \/ DeleteUser_Caches(s)
  \/ ResetPassword_Db(s) \/ ResetPassword_Caches(s)
  \/ CreateApiKey_Store(s) \/ RevokeApiKey_Drop(s)

AdminRequest(s) ==
  \/ CreateUser(s)
  \/ \E u \in User : DeleteUser(s, u) \/ ResetPassword(s, u) \/ CreateApiKey(s, u)
  \/ \E u \in User, e \in BOOLEAN : UpdateUser(s, u, e)
  \/ \E k \in Key : RevokeApiKey(s, k)

Next ==
  \/ \E s \in Session : SessionRequest(s) \/ SessionStep(s) \/ StatementFails(s)
  \/ \E s \in Admin : AdminRequest(s) \/ AdminStep(s) \/ StatementFails(s)
  \/ \E c \in Credential : Expire(c)
  \/ Gc \/ Restart

\* A handler runs to its end, and the collector's thread loops for ever.
Fairness ==
  /\ \A s \in Session : WF_vars(SessionStep(s))
  /\ \A s \in Admin : WF_vars(AdminStep(s))
  /\ WF_vars(Gc)

Spec == Init /\ [][Next]_vars /\ Fairness
-----------------------------------------------------------------------------
(* Properties *)

\* A refresh token that a logout, a rotation, a password reset or the deletion of its user
\* has ended, and a revoked API key, is never accepted again: not when the collector
\* rebuilds the TokenCache and forgets what was revoked, not after a restart that reloads
\* the tables, whatever ran at the same time.
EndedStaysEnded == \A c \in ended : ~MayBeAccepted(c)

\* With one administrator at a time and no failed statement, whenever no administrator's
\* request is in progress the users in the cache are the users in the table, so a restart
\* changes neither who may log in nor with which password.
UsersAgree ==
  Cardinality(Admin) = 1 /\ failures = 0 /\ (\A s \in Admin : At(s, "idle"))
    => users = dbUsers

\* A token or key that is stored and live is accepted, or will be once the collector has
\* run: neither a collector that rebuilds the Bloom filter while the credential is being
\* stored, nor a restart, which rebuilds it without the keys, shuts it out for good.
SettledUse(c) ==
  ValidateRefreshToken(c) \/ AuthenticateApiKey(c) \/ ~Known(c) \/ c \in revoked
LiveIsUsable == \A c \in Credential : Known(c) ~> SettledUse(c)
=============================================================================

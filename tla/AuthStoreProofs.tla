--------------------------- MODULE AuthStoreProofs ---------------------------
(***************************************************************************)
(* What was ended stays ended, and the users of the cache are those of the *)
(* table: the invariants behind EndedStaysEnded and UsersAgree of          *)
(* AuthStore, and their proofs for any number of sessions, administrators, *)
(* accounts, credentials, restarts and failures.                           *)
(***************************************************************************)
EXTENDS AuthStore, TLAPS

Thread == Session \cup Admin

\* No credential is called "none", and a token is not a key.
Ids == None \notin Credential /\ Token \cap Key = {}

Steps ==
  DbStep \cup {"idle", "store_bloom", "store_cache", "revoke", "revoke_cache", "revoke_mark",
               "create_cache", "update_cache", "drop_tokens", "drop_keys", "drop_user",
               "reset_cache", "reset_user", "key_bloom", "key_cache", "unkey_cache"}

OpType(o) ==
  o \in [at : Steps, u : {o.u}, c : Credential \cup {None}, new : Token \cup {None},
         old : SUBSET Token, rec : {o.rec}]

\* What each step knows of its operation.
OpFields(o) ==
  /\ o.at \in {"revoke", "revoke_db", "revoke_cache", "revoke_mark"} => o.c \in Token
  /\ o.at \in {"key_db", "key_bloom", "key_cache", "unkey_db", "unkey_cache"} => o.c \in Key
  /\ o.at \in {"store_db", "store_bloom", "store_cache"} => o.new \in Token
  /\ o.new # None =>
       o.at \in {"revoke", "revoke_db", "revoke_cache", "revoke_mark", "store_db",
                 "store_bloom", "store_cache"}
  /\ o.old # {} =>
       o.at \in {"delete_tokens", "delete_keys", "delete_user", "drop_tokens", "drop_keys",
                 "drop_user", "reset_db", "reset_tokens", "reset_cache", "reset_user"}

Types ==
  /\ DOMAIN dbTokens \subseteq Token /\ DOMAIN tokens \subseteq Token
  /\ DOMAIN dbKeys \subseteq Key /\ DOMAIN keys \subseteq Key
  /\ op = [s \in Thread |-> op[s]]
  /\ \A s \in Thread : OpType(op[s]) /\ OpFields(op[s])

\* A request that will store the credential x, or is storing it.
Stores(o, x) == o.new = x \/ (o.c = x /\ o.at \in {"key_db", "key_bloom", "key_cache"})
Storing(s, x) == Stores(op[s], x)

\* x was handed out, and nobody will store it any more.
Over(x) == x \in used /\ \A s \in Thread : ~Storing(s, x)

\* Ids are handed out once.
Unique ==
  /\ \A s \in Thread : {op[s].c, op[s].new} \subseteq used \cup {None}
  /\ DOMAIN dbTokens \cup DOMAIN dbKeys \subseteq used
  /\ \A x \in Credential : \A s, t \in Thread :
       Storing(s, x) /\ Storing(t, x) => s = t

\* What a cache holds has been stored, and belongs to whom the table says.
Cached ==
  /\ \A x \in DOMAIN tokens \cup DOMAIN keys : Over(x)
  /\ \A x \in DOMAIN tokens \cap DOMAIN dbTokens : tokens[x] = dbTokens[x]
  /\ \A x \in DOMAIN dbTokens : \A s \in Thread :
       op[s].new = x => dbTokens[x] = op[s].u

\* How far the request s has got in ending a credential.
Revoking(s) ==
  /\ op[s].at \in {"revoke_db", "revoke_cache", "revoke_mark", "unkey_db", "unkey_cache"}
       => Over(op[s].c)
  /\ op[s].at \in {"revoke_cache", "revoke_mark"} => op[s].c \notin DOMAIN dbTokens
  /\ op[s].at = "revoke_mark" => op[s].c \notin DOMAIN tokens
  /\ op[s].at = "unkey_cache" => op[s].c \notin DOMAIN dbKeys

\* The same for the tokens of a user who is deleted or whose password is reset.
EndingAll(s) ==
  \A x \in op[s].old :
    /\ Over(x)
    /\ x \in DOMAIN dbTokens =>
         op[s].at \in {"delete_tokens", "reset_db", "reset_tokens"} /\ dbTokens[x] = op[s].u
    /\ x \in DOMAIN tokens =>
         op[s].at \notin {"drop_keys", "drop_user", "reset_user"} /\ tokens[x] = op[s].u

\* An ended credential is in no table and no cache.
Gone ==
  \A x \in ended :
    /\ Over(x) /\ x \in Credential
    /\ x \notin DOMAIN tokens \cup DOMAIN dbTokens \cup DOMAIN keys \cup DOMAIN dbKeys

EndInv ==
  /\ Types /\ Unique /\ Cached /\ Gone
  /\ \A s \in Thread : Revoking(s) /\ EndingAll(s)
-----------------------------------------------------------------------------
(* A step of one request *)

\* What a step of s may do to its operation and to the credentials: it stores only what it
\* was given, and ends only what is gone.
Move(s) ==
  /\ op' = [op EXCEPT ![s] = op'[s]] /\ OpType(op'[s]) /\ OpFields(op'[s])
  /\ used \subseteq used' /\ {op'[s].c, op'[s].new} \subseteq used' \cup {None}
  /\ \A x \in Credential : Stores(op'[s], x) => Storing(s, x) \/ x \notin used
  /\ op'[s].new # None => op'[s].u = op[s].u \/ op'[s].new \notin used
  /\ \A x \in DOMAIN dbTokens' :
       \/ x \in DOMAIN dbTokens /\ dbTokens'[x] = dbTokens[x]
       \/ x \in Token /\ x = op[s].new /\ x = op'[s].new /\ dbTokens'[x] = op'[s].u
  /\ \A x \in DOMAIN dbKeys' :
       x \in DOMAIN dbKeys \/ (x \in Key /\ Storing(s, x) /\ Stores(op'[s], x))
  /\ \A x \in DOMAIN tokens' :
       \/ x \in DOMAIN tokens /\ tokens'[x] = tokens[x]
       \/ /\ x \in Token /\ x = op[s].new /\ ~Stores(op'[s], x)
          /\ tokens'[x] = op[s].u /\ dbTokens' = dbTokens
  /\ \A x \in DOMAIN keys' :
       x \in DOMAIN keys \/ (x \in Key /\ Storing(s, x) /\ ~Stores(op'[s], x))
  /\ \A x \in ended' : x \in ended \/
       /\ x \in Credential /\ Over(x)
       /\ x \notin DOMAIN tokens' \cup DOMAIN dbTokens' \cup DOMAIN keys' \cup DOMAIN dbKeys'

LEMMA OverKept ==
  ASSUME Ids, EndInv, NEW s \in Thread, Move(s), NEW x \in Credential, Over(x)
  PROVE  Over(x)'
<1>1. \A t \in Thread : t # s => op'[t] = op[t]
  BY Zenon DEF Move, EndInv, Types
<1>2. ~Stores(op'[s], x)
  BY Zenon DEF Move, Over
<1>3. \A t \in Thread : ~Stores(op'[t], x)
  BY Zenon, <1>1, <1>2 DEF Over, Storing
<1> QED
  BY Zenon, <1>3 DEF Over, Storing, Move

LEMMA MoveKeeps ==
  ASSUME Ids, EndInv, NEW s \in Thread, Move(s), Revoking(s)', EndingAll(s)'
  PROVE  EndInv'
<1>0. \A t \in Thread : t # s => op'[t] = op[t]
  BY Zenon DEF Move, EndInv, Types
<1>1. Types'
  <2>1. /\ DOMAIN dbTokens' \subseteq Token /\ DOMAIN tokens' \subseteq Token
        /\ DOMAIN dbKeys' \subseteq Key /\ DOMAIN keys' \subseteq Key
    BY Zenon DEF Move, EndInv, Types
  <2>2. op' = [t \in Thread |-> op'[t]]
    BY Zenon DEF Move, EndInv, Types
  <2>3. \A t \in Thread : OpType(op'[t]) /\ OpFields(op'[t])
    BY Zenon, <1>0 DEF Move, EndInv, Types
  <2> QED
    BY Zenon, <2>1, <2>2, <2>3 DEF Types
<1>u. \A x \in Credential : Over(x) => Over(x)'
  BY Zenon, OverKept
<1>k. \A x : x \in Token \/ x \in Key => x \in Credential /\ x # None
  BY Zenon DEF Ids, Credential
<1>2. Unique'
  <2>1. \A t \in Thread : {op'[t].c, op'[t].new} \subseteq used' \cup {None}
    BY <1>0 DEF Move, EndInv, Unique
  <2>2. DOMAIN dbTokens' \cup DOMAIN dbKeys' \subseteq used'
    <3>1. \A x \in Credential : Storing(s, x) => x \in used
      BY Zenon DEF EndInv, Unique, Storing, Stores, Ids
    <3>2. used \subseteq used'
      BY Zenon DEF Move
    <3>3. \A x \in DOMAIN dbTokens' : x \in DOMAIN dbTokens \/ (x \in Credential /\ Storing(s, x))
      BY Zenon, <1>k DEF Move, Storing, Stores
    <3>4. \A x \in DOMAIN dbKeys' : x \in DOMAIN dbKeys \/ (x \in Credential /\ Storing(s, x))
      BY Zenon, <1>k DEF Move
    <3> QED
      BY Zenon, <3>1, <3>2, <3>3, <3>4 DEF EndInv, Unique
  <2>3. ASSUME NEW x \in Credential, NEW t \in Thread, NEW w \in Thread,
               Storing(t, x)', Storing(w, x)'
        PROVE  t = w
    <3>1. \A v \in Thread : Storing(v, x) => x \in used
      BY DEF EndInv, Unique, Storing, Stores, Ids
    <3>2. \A v \in Thread : Storing(v, x)' => Storing(v, x) \/ (v = s /\ x \notin used)
      BY Zenon, <1>0 DEF Move, Storing
    <3> QED
      BY Zenon, <2>3, <3>1, <3>2 DEF EndInv, Unique
  <2> QED
    BY Zenon, <2>1, <2>2, <2>3 DEF Unique
<1>3. Cached'
  <2>1. ASSUME NEW x \in DOMAIN tokens' \cup DOMAIN keys'
        PROVE  Over(x)'
    <3>1. CASE x \in DOMAIN tokens \cup DOMAIN keys
      BY Zenon, <3>1, <1>u, <1>k DEF EndInv, Cached, Types
    <3>2. CASE x \in Credential /\ Storing(s, x) /\ ~Stores(op'[s], x)
      <4>1. x \in used'
        BY <3>2 DEF EndInv, Unique, Storing, Stores, Ids, Move
      <4>2. \A t \in Thread : t # s => ~Storing(t, x)
        BY Zenon, <3>2 DEF EndInv, Unique
      <4> QED
        BY Zenon, <3>2, <4>1, <4>2, <1>0 DEF Over, Storing
    <3> QED
      BY Zenon, <2>1, <3>1, <3>2, <1>k DEF Move, Storing, Stores
  <2>2. ASSUME NEW x \in DOMAIN tokens' \cap DOMAIN dbTokens'
        PROVE  tokens'[x] = dbTokens'[x]
    <3>1. CASE x \in DOMAIN tokens /\ tokens'[x] = tokens[x]
      <4>1. x # op[s].new
        BY Zenon, <3>1, <1>k DEF EndInv, Cached, Over, Storing, Stores
      <4>2. x \in DOMAIN dbTokens /\ dbTokens'[x] = dbTokens[x]
        BY Zenon, <4>1 DEF Move
      <4> QED
        BY Zenon, <3>1, <4>2 DEF EndInv, Cached
    <3>2. CASE x = op[s].new /\ tokens'[x] = op[s].u /\ dbTokens' = dbTokens
      BY Zenon, <3>2 DEF EndInv, Cached
    <3> QED
      BY Zenon, <3>1, <3>2 DEF Move
  <2>3. ASSUME NEW x \in DOMAIN dbTokens', NEW t \in Thread, op'[t].new = x
        PROVE  dbTokens'[x] = op'[t].u
    <3>1. x \in Credential /\ x # None
      BY Zenon, <1>1, <1>k DEF Types
    <3>2. CASE x \in DOMAIN dbTokens /\ dbTokens'[x] = dbTokens[x] /\ t # s
      BY <2>3, <3>2, <1>0 DEF EndInv, Cached
    <3>3. CASE x \in DOMAIN dbTokens /\ dbTokens'[x] = dbTokens[x] /\ t = s
      <4>1. x \in used
        BY Zenon, <3>3 DEF EndInv, Unique
      <4>2. op[s].u = op'[s].u
        BY Zenon, <2>3, <3>1, <3>3, <4>1 DEF Move
      <4>3. Storing(s, x)
        BY Zenon, <2>3, <3>1, <3>3, <4>1 DEF Move, Stores
      <4>4. x \in Token
        BY Zenon, <3>3 DEF EndInv, Types
      <4>5. op[s].new = x
        BY Zenon, <4>3, <4>4 DEF Storing, Stores, EndInv, Types, OpFields, Ids
      <4> QED
        BY Zenon, <3>3, <4>2, <4>5 DEF EndInv, Cached
    <3>4. CASE x = op[s].new /\ x = op'[s].new /\ dbTokens'[x] = op'[s].u
      <4>1. t # s => Storing(t, x) /\ Storing(s, x)
        BY Zenon, <2>3, <3>4, <1>0 DEF Storing, Stores
      <4> QED
        BY Zenon, <3>1, <3>4, <4>1 DEF EndInv, Unique
    <3> QED
      BY Zenon, <3>2, <3>3, <3>4 DEF Move
  <2> QED
    BY Zenon, <2>1, <2>2, <2>3 DEF Cached
<1>m. \A x \in Credential : Over(x) =>
        /\ x \in DOMAIN dbTokens' => x \in DOMAIN dbTokens /\ dbTokens'[x] = dbTokens[x]
        /\ x \in DOMAIN tokens' => x \in DOMAIN tokens /\ tokens'[x] = tokens[x]
        /\ x \in DOMAIN dbKeys' => x \in DOMAIN dbKeys
        /\ x \in DOMAIN keys' => x \in DOMAIN keys
  BY DEF Move, Over, Storing, Stores
<1>4. Gone'
  BY Zenon, <1>u, <1>m DEF Move, EndInv, Gone
<1>5. ASSUME NEW t \in Thread, t # s
      PROVE  Revoking(t)' /\ EndingAll(t)'
  <2>0. op'[t] = op[t]
    BY Zenon, <1>0, <1>5
  <2>1. Revoking(t)'
    <3>1. op[t].at \in {"revoke_db", "revoke_cache", "revoke_mark", "unkey_db", "unkey_cache"}
            => op[t].c \in Credential /\ Over(op[t].c)
      BY Zenon, <1>k DEF EndInv, Types, OpFields, Revoking
    <3> QED
      BY <2>0, <3>1, <1>u, <1>m DEF EndInv, Revoking
  <2>2. EndingAll(t)'
    <3>1. \A x \in op[t].old : x \in Credential /\ Over(x)
      BY Zenon, <1>k DEF EndInv, Types, OpType, EndingAll
    <3> QED
      BY <2>0, <3>1, <1>u, <1>m DEF EndInv, EndingAll
  <2> QED
    BY Zenon, <2>1, <2>2
<1> QED
  BY Zenon, <1>1, <1>2, <1>3, <1>4, <1>5 DEF EndInv
-----------------------------------------------------------------------------
(* How operations change *)

LEMMA GotoIs ==
  ASSUME Types, NEW s \in Thread, NEW step \in Steps, Goto(s, step)
  PROVE  /\ op' = [op EXCEPT ![s] = op'[s]] /\ OpType(op'[s]) /\ op'[s].at = step
         /\ op'[s].u = op[s].u /\ op'[s].c = op[s].c /\ op'[s].new = op[s].new
         /\ op'[s].old = op[s].old /\ op'[s].rec = op[s].rec
<1>1. OpType(op[s]) /\ op = [t \in Thread |-> op[t]]
  BY Zenon DEF Types
<1>2. op' = [op EXCEPT ![s] = [op[s] EXCEPT !.at = step]]
  BY Zenon DEF Goto
<1>3. op'[s] = [op[s] EXCEPT !.at = step]
  BY Zenon, <1>1, <1>2
<1>4. OpType([op[s] EXCEPT !.at = step])
  BY Zenon, <1>1 DEF OpType
<1> QED
  BY Zenon, <1>1, <1>2, <1>3, <1>4 DEF OpType

LEMMA IdleIs ==
  /\ OpType(Idle) /\ OpFields(Idle) /\ Idle.at = "idle" /\ Idle.c = None /\ Idle.new = None
  /\ Idle.old = {}
BY Zenon DEF Idle, OpType, OpFields, Steps

LEMMA DoneIs ==
  ASSUME Types, NEW s \in Thread, Done(s)
  PROVE  op' = [op EXCEPT ![s] = op'[s]] /\ op'[s] = Idle
BY Zenon DEF Done, Types

\* A request that is over, or has not begun to end anything.
LEMMA Calm ==
  ASSUME Ids, EndInv, NEW s \in Thread, Move(s), op'[s].old = {},
         op'[s].at \notin {"revoke_db", "revoke_cache", "revoke_mark", "unkey_db", "unkey_cache"}
  PROVE  EndInv'
<1>1. Revoking(s)' /\ EndingAll(s)'
  BY Zenon DEF Revoking, EndingAll
<1> QED
  BY Zenon, <1>1, MoveKeeps

\* A step that changes no credential.
LEMMA Untouched ==
  ASSUME Ids, EndInv, NEW s \in Thread,
         UNCHANGED <<dbTokens, dbKeys, tokens, keys, ended>>,
         op' = [op EXCEPT ![s] = op'[s]], OpType(op'[s]), OpFields(op'[s]),
         used \subseteq used', {op'[s].c, op'[s].new} \subseteq used' \cup {None},
         \A x \in Credential : Stores(op'[s], x) => Storing(s, x) \/ x \notin used,
         op'[s].new # None => op'[s].u = op[s].u \/ op'[s].new \notin used
  PROVE  Move(s)
BY Zenon DEF Move

\* ... and goes on to another step of the same request.
LEMMA GoesOn ==
  ASSUME Ids, EndInv, NEW s \in Thread, NEW step \in Steps, Goto(s, step),
         UNCHANGED <<dbTokens, dbKeys, tokens, keys, ended, used>>,
         OpFields(op'[s]),
         step \in {"key_db", "key_bloom", "key_cache"} =>
           op[s].at \in {"key_db", "key_bloom", "key_cache"}
  PROVE  Move(s)
<1>1. /\ op' = [op EXCEPT ![s] = op'[s]] /\ OpType(op'[s]) /\ op'[s].at = step
      /\ op'[s].u = op[s].u /\ op'[s].c = op[s].c /\ op'[s].new = op[s].new
  BY Zenon, GotoIs DEF EndInv
<1>2. {op[s].c, op[s].new} \subseteq used \cup {None}
  BY Zenon DEF EndInv, Unique
<1>3. \A x \in Credential : Stores(op'[s], x) => Storing(s, x)
  BY Zenon, <1>1 DEF Stores, Storing
<1> QED
  BY Zenon, <1>1, <1>2, <1>3, Untouched

\* ... and ends it.
LEMMA GivesUp ==
  ASSUME Ids, EndInv, NEW s \in Thread, Done(s),
         UNCHANGED <<dbTokens, dbKeys, tokens, keys, ended, used>>
  PROVE  EndInv'
<1>1. op' = [op EXCEPT ![s] = op'[s]] /\ op'[s] = Idle
  BY Zenon, DoneIs DEF EndInv
<1>2. \A x \in Credential : ~Stores(op'[s], x)
  BY Zenon, <1>1, IdleIs DEF Stores, Ids
<1>3. Move(s)
  BY Zenon, <1>1, <1>2, IdleIs, Untouched
<1> QED
  BY Zenon, <1>1, <1>3, IdleIs, Calm

LEMMA FreshIs ==
  ASSUME NEW S, NEW x \in Fresh(S)
  PROVE  x \in S /\ x \notin used
BY Zenon DEF Fresh
-----------------------------------------------------------------------------
(* Sessions *)

LEMMA LoginStep ==
  ASSUME Ids, EndInv, NEW s \in Thread, NEW u \in User, NEW pw, Login(s, u, pw)
  PROVE  EndInv'
<1>1. PICK t \in Fresh(Token) :
        /\ op' = [op EXCEPT ![s] = [Idle EXCEPT !.at = "store_db", !.u = u, !.new = t]]
        /\ used' = used \cup {t}
  BY Zenon DEF Login
<1>2. t \in Token /\ t \notin used
  BY Zenon, FreshIs
<1>3. /\ op' = [op EXCEPT ![s] = op'[s]]
      /\ op'[s] = [Idle EXCEPT !.at = "store_db", !.u = u, !.new = t]
  BY Zenon, <1>1 DEF EndInv, Types
<1>4. /\ OpType(op'[s]) /\ OpFields(op'[s]) /\ op'[s].at = "store_db" /\ op'[s].new = t
      /\ op'[s].c = None /\ op'[s].old = {}
  BY ZenonT(30), <1>2, <1>3 DEF Idle, OpType, OpFields, Steps, DbStep
<1>5. Move(s)
  <2>1. UNCHANGED <<dbTokens, dbKeys, tokens, keys, ended>>
    BY Zenon DEF Login, db, caches, history
  <2>2. \A x \in Credential : Stores(op'[s], x) => x = t
    BY Zenon, <1>4 DEF Stores, Ids
  <2>3. {op'[s].c, op'[s].new} \subseteq used' \cup {None} /\ used \subseteq used'
    BY Zenon, <1>1, <1>4
  <2> QED
    BY Zenon, <1>2, <1>3, <1>4, <2>1, <2>2, <2>3, Untouched
<1> QED
  BY Zenon, <1>4, <1>5, Calm

LEMMA StoreStep ==
  ASSUME Ids, EndInv, NEW s \in Thread, StoreRefreshToken(s)
  PROVE  EndInv'
<1>0. /\ op[s].at \in {"store_db", "store_bloom", "store_cache"}
      /\ OpFields(op[s]) /\ OpType(op[s]) /\ op[s].new \in Token /\ op[s].old = {}
      /\ {op[s].c, op[s].new} \subseteq used \cup {None}
  BY Zenon DEF EndInv, Types, Unique, OpFields, StoreRefreshToken, StoreRefreshToken_Db,
         StoreRefreshToken_Bloom, StoreRefreshToken_Cache, At
<1>1. CASE StoreRefreshToken_Db(s)
  <2>1. /\ op' = [op EXCEPT ![s] = op'[s]] /\ OpType(op'[s]) /\ op'[s].at = "store_bloom"
        /\ op'[s].u = op[s].u /\ op'[s].c = op[s].c /\ op'[s].new = op[s].new
        /\ op'[s].old = op[s].old
    BY Zenon, <1>1, GotoIs DEF StoreRefreshToken_Db, EndInv, Steps
  <2>2. OpFields(op'[s])
    BY Zenon, <1>0, <2>1 DEF OpFields
  <2>3. Move(s)
    BY Zenon, <1>0, <1>1, <2>1, <2>2 DEF Move, StoreRefreshToken_Db, Insert, Stores, Storing,
       caches,
                                  history
  <2> QED
    BY Zenon, <1>0, <2>1, <2>3, Calm
<1>2. CASE StoreRefreshToken_Bloom(s)
  <2>1. /\ op' = [op EXCEPT ![s] = op'[s]] /\ OpType(op'[s]) /\ op'[s].at = "store_cache"
        /\ op'[s].u = op[s].u /\ op'[s].c = op[s].c /\ op'[s].new = op[s].new
        /\ op'[s].old = op[s].old
    BY Zenon, <1>2, GotoIs DEF StoreRefreshToken_Bloom, EndInv, Steps
  <2>2. OpFields(op'[s])
    BY Zenon, <1>0, <2>1 DEF OpFields
  <2>3. Move(s)
    BY Zenon, <1>2, <2>2, GoesOn DEF StoreRefreshToken_Bloom, Steps, db, history
  <2> QED
    BY Zenon, <1>0, <2>1, <2>3, Calm
<1>3. CASE StoreRefreshToken_Cache(s)
  <2>1. op' = [op EXCEPT ![s] = op'[s]] /\ op'[s] = Idle
    BY Zenon, <1>3, DoneIs DEF StoreRefreshToken_Cache, EndInv
  <2>2. \A x \in Credential : ~Stores(op'[s], x)
    BY Zenon, <2>1, IdleIs DEF Stores, Ids
  <2>3. Move(s)
    BY Zenon, <1>0, <1>3, <2>1, <2>2, IdleIs
       DEF Move, StoreRefreshToken_Cache, Insert, db, Credential
  <2> QED
    BY Zenon, <2>1, <2>3, IdleIs, Calm
<1> QED
  BY Zenon, <1>1, <1>2, <1>3 DEF StoreRefreshToken

LEMMA RefreshStep ==
  ASSUME Ids, EndInv, NEW s \in Thread, NEW t \in Token, Refresh(s, t)
  PROVE  EndInv'
<1>0. t \in used /\ t \in DOMAIN tokens
  <2>1. t \in DOMAIN tokens \cup DOMAIN keys /\ t \notin Key
    BY Zenon DEF Refresh, ValidateRefreshToken, Known, Ids
  <2> QED
    BY Zenon, <2>1 DEF EndInv, Cached, Over, Types
<1>1. PICK n \in Fresh(Token) :
        /\ op' = [op EXCEPT ![s] = [Idle EXCEPT !.at = "revoke", !.u = tokens[t], !.c = t,
                                                !.new = n]]
        /\ used' = used \cup {n}
  BY Zenon DEF Refresh
<1>2. n \in Token /\ n \notin used
  BY Zenon, FreshIs
<1>3. /\ op' = [op EXCEPT ![s] = op'[s]]
      /\ op'[s] = [Idle EXCEPT !.at = "revoke", !.u = tokens[t], !.c = t, !.new = n]
  BY Zenon, <1>1 DEF EndInv, Types
<1>4. /\ OpType(op'[s]) /\ OpFields(op'[s]) /\ op'[s].at = "revoke" /\ op'[s].new = n
      /\ op'[s].c = t /\ op'[s].old = {}
  <2>1. op'[s] = [at |-> "revoke", u |-> tokens[t], c |-> t, new |-> n, old |-> {}, rec |-> None]
    BY Zenon, <1>3 DEF Idle
  <2>2. OpType(op'[s]) /\ op'[s].at = "revoke" /\ op'[s].new = n /\ op'[s].c = t /\ op'[s].old = {}
    BY <1>2, <2>1 DEF OpType, Steps, DbStep, Credential
  <2> QED
    BY Zenon, <2>2 DEF OpFields
<1>5. Move(s)
  <2>1. UNCHANGED <<dbTokens, dbKeys, tokens, keys, ended>>
    BY Zenon DEF Refresh, db, caches, history
  <2>2. \A x \in Credential : Stores(op'[s], x) => x = n
    BY Zenon, <1>4 DEF Stores
  <2>3. {op'[s].c, op'[s].new} \subseteq used' \cup {None} /\ used \subseteq used'
    BY Zenon, <1>0, <1>1, <1>4
  <2> QED
    BY Zenon, <1>2, <1>3, <1>4, <2>1, <2>2, <2>3, Untouched
<1> QED
  BY Zenon, <1>4, <1>5, Calm

LEMMA LogoutStep ==
  ASSUME Ids, EndInv, NEW s \in Thread, NEW t \in Token, t \in used, Logout(s, t)
  PROVE  EndInv'
<1>3. /\ op' = [op EXCEPT ![s] = op'[s]]
      /\ op'[s] = [Idle EXCEPT !.at = "revoke", !.c = t]
  BY Zenon DEF EndInv, Types, Logout
<1>4. /\ OpType(op'[s]) /\ OpFields(op'[s]) /\ op'[s].at = "revoke" /\ op'[s].new = None
      /\ op'[s].c = t /\ op'[s].old = {}
  BY Zenon, <1>3 DEF Idle, OpType, OpFields, Steps, DbStep, Credential
<1>5. Move(s)
  <2>1. UNCHANGED <<dbTokens, dbKeys, tokens, keys, ended, used>>
    BY Zenon DEF Logout, db, caches, history
  <2>2. \A x \in Credential : ~Stores(op'[s], x)
    BY Zenon, <1>4 DEF Stores, Ids
  <2> QED
    BY Zenon, <1>3, <1>4, <2>1, <2>2, Untouched
<1> QED
  BY Zenon, <1>4, <1>5, Calm

\* A token that is in the cache is over; the table goes first, then the cache, and then
\* the token has ended.
LEMMA RevokeStep ==
  ASSUME Ids, EndInv, NEW s \in Thread, RevokeRefreshToken(s)
  PROVE  EndInv'
<1>0. /\ op[s].at \in {"revoke", "revoke_db", "revoke_cache", "revoke_mark"}
      /\ OpFields(op[s]) /\ OpType(op[s]) /\ op[s].c \in Token /\ op[s].old = {}
      /\ op[s].c \in Credential /\ op[s].c \notin Key
      /\ {op[s].c, op[s].new} \subseteq used \cup {None}
  BY Zenon DEF EndInv, Types, Unique, OpFields, RevokeRefreshToken, RevokeRefreshToken_Check,
         RevokeRefreshToken_Db, RevokeRefreshToken_Cache, RevokeRefreshToken_Mark, At,
         Credential, Ids
<1>g. ASSUME NEW step \in {"revoke_db", "revoke_cache", "revoke_mark", "store_db"},
             step = "store_db" => op[s].new # None, Goto(s, step)
      PROVE  /\ op' = [op EXCEPT ![s] = op'[s]] /\ OpType(op'[s]) /\ op'[s].at = step
             /\ op'[s].u = op[s].u /\ op'[s].c = op[s].c /\ op'[s].new = op[s].new
             /\ op'[s].old = {} /\ OpFields(op'[s])
             /\ \A x \in Credential : Stores(op'[s], x) <=> Storing(s, x)
  <2>1. /\ op' = [op EXCEPT ![s] = op'[s]] /\ OpType(op'[s]) /\ op'[s].at = step
        /\ op'[s].u = op[s].u /\ op'[s].c = op[s].c /\ op'[s].new = op[s].new
        /\ op'[s].old = op[s].old
    BY Zenon, <1>g, GotoIs DEF EndInv, Steps, DbStep
  <2>2. op[s].new \in Token \cup {None}
    BY Zenon, <1>0 DEF OpType
  <2>3. OpFields(op'[s])
    BY Zenon, <1>0, <1>g, <2>1, <2>2 DEF OpFields
  <2> QED
    BY Zenon, <1>0, <2>1, <2>3 DEF Stores, Storing
<1>1. CASE RevokeRefreshToken_Check(s)
  <2>1. UNCHANGED <<dbTokens, dbKeys, tokens, keys, ended, used>>
    BY Zenon, <1>1 DEF RevokeRefreshToken_Check, db, caches, history
  <2>2. CASE op[s].c \in DOMAIN tokens
    <3>1. Goto(s, "revoke_db")
      BY Zenon, <1>1, <2>2 DEF RevokeRefreshToken_Check
    <3>2. Move(s)
      BY Zenon, <2>1, <3>1, <1>g, <1>0, Untouched
    <3>3. Over(op[s].c)'
      <4>1. \A x \in Credential : Over(x) => Over(x)'
        BY Zenon, <3>2, OverKept
      <4> QED
        BY Zenon, <1>0, <2>2, <3>1, <4>1, <1>g DEF EndInv, Cached
    <3>4. Revoking(s)' /\ EndingAll(s)'
      BY Zenon, <3>1, <3>3, <1>g DEF Revoking, EndingAll
    <3> QED
      BY Zenon, <3>2, <3>4, MoveKeeps
  <2>3. CASE op[s].c \notin DOMAIN tokens /\ op[s].new # None
    <3>1. Goto(s, "store_db")
      BY Zenon, <1>1, <2>3 DEF RevokeRefreshToken_Check
    <3>2. Move(s)
      BY Zenon, <2>1, <2>3, <3>1, <1>g, <1>0, Untouched
    <3> QED
      BY Zenon, <2>3, <3>1, <3>2, <1>g, Calm
  <2>4. CASE op[s].c \notin DOMAIN tokens /\ op[s].new = None
    BY Zenon, <1>1, <2>1, <2>4, GivesUp DEF RevokeRefreshToken_Check
  <2> QED
    BY Zenon, <2>2, <2>3, <2>4
<1>2. CASE RevokeRefreshToken_Db(s)
  <2>1. Goto(s, "revoke_cache") /\ op[s].at = "revoke_db"
    BY Zenon, <1>2 DEF RevokeRefreshToken_Db, At
  <2>2. /\ dbTokens' = Remove(dbTokens, {op[s].c})
        /\ UNCHANGED <<dbKeys, tokens, keys, ended, used>>
    BY Zenon, <1>2 DEF RevokeRefreshToken_Db, caches, history
  <2>3. /\ op[s].c \notin DOMAIN dbTokens'
        /\ \A x \in DOMAIN dbTokens' : x \in DOMAIN dbTokens /\ dbTokens'[x] = dbTokens[x]
    BY Zenon, <2>2 DEF Remove, Restrict
  <2>4. Move(s)
    BY Zenon, <1>0, <1>g, <2>1, <2>2, <2>3 DEF Move
  <2>5. Over(op[s].c)'
    <3>1. \A x \in Credential : Over(x) => Over(x)'
      BY Zenon, <2>4, OverKept
    <3> QED
      BY Zenon, <1>0, <2>1, <3>1, <1>g DEF EndInv, Revoking
  <2>6. Revoking(s)' /\ EndingAll(s)'
    BY Zenon, <2>1, <2>3, <2>5, <1>g DEF Revoking, EndingAll
  <2> QED
    BY Zenon, <2>4, <2>6, MoveKeeps
<1>3. CASE RevokeRefreshToken_Cache(s)
  <2>1. Goto(s, "revoke_mark") /\ op[s].at = "revoke_cache"
    BY Zenon, <1>3 DEF RevokeRefreshToken_Cache, At
  <2>2. /\ tokens' = Remove(tokens, {op[s].c})
        /\ UNCHANGED <<dbTokens, dbKeys, keys, ended, used>>
    BY Zenon, <1>3 DEF RevokeRefreshToken_Cache, db, history
  <2>3. /\ op[s].c \notin DOMAIN tokens'
        /\ \A x \in DOMAIN tokens' : x \in DOMAIN tokens /\ tokens'[x] = tokens[x]
    BY Zenon, <2>2 DEF Remove, Restrict
  <2>4. Move(s)
    BY ZenonT(30), <1>0, <1>g, <2>1, <2>2, <2>3 DEF Move
  <2>5. Over(op[s].c)' /\ op'[s].c \notin DOMAIN dbTokens'
    <3>1. \A x \in Credential : Over(x) => Over(x)'
      BY Zenon, <2>4, OverKept
    <3> QED
      BY Zenon, <1>0, <2>1, <2>2, <3>1, <1>g DEF EndInv, Revoking
  <2>6. Revoking(s)' /\ EndingAll(s)'
    BY Zenon, <2>1, <2>3, <2>5, <1>g DEF Revoking, EndingAll
  <2> QED
    BY Zenon, <2>4, <2>6, MoveKeeps
<1>4. CASE RevokeRefreshToken_Mark(s)
  <2>1. op[s].at = "revoke_mark" /\ ended' = ended \cup {op[s].c}
    BY Zenon, <1>4 DEF RevokeRefreshToken_Mark, At
  <2>2. UNCHANGED <<dbTokens, tokens, dbKeys, keys, used>>
    BY Zenon, <1>4 DEF RevokeRefreshToken_Mark, db
  <2>3. /\ op[s].c \in Credential /\ Over(op[s].c)
        /\ op[s].c \notin DOMAIN tokens \cup DOMAIN dbTokens \cup DOMAIN keys \cup DOMAIN dbKeys
    BY Zenon, <1>0, <2>1 DEF EndInv, Revoking, Types
  <2>4. CASE op[s].new # None
    <3>1. Goto(s, "store_db")
      BY Zenon, <1>4, <2>4 DEF RevokeRefreshToken_Mark
    <3>2. Move(s)
      BY <1>0, <2>1, <2>2, <2>3, <2>4, <3>1, <1>g DEF Move
    <3> QED
      BY Zenon, <2>4, <3>1, <3>2, <1>g, Calm
  <2>5. CASE op[s].new = None
    <3>1. op' = [op EXCEPT ![s] = op'[s]] /\ op'[s] = Idle
      BY Zenon, <1>4, <2>5, DoneIs DEF RevokeRefreshToken_Mark, EndInv
    <3>2. \A x \in Credential : ~Stores(op'[s], x)
      BY Zenon, <3>1, IdleIs DEF Stores, Ids
    <3>3. Move(s)
      BY Zenon, <2>1, <2>2, <2>3, <3>1, <3>2, IdleIs DEF Move
    <3> QED
      BY Zenon, <3>1, <3>3, IdleIs, Calm
  <2> QED
    BY Zenon, <2>4, <2>5
<1> QED
  BY Zenon, <1>1, <1>2, <1>3, <1>4 DEF RevokeRefreshToken

\* A failed statement ends the request, or a rotation goes on to store the new token.
LEMMA FailStep ==
  ASSUME Ids, EndInv, NEW s \in Thread, StatementFails(s)
  PROVE  EndInv'
<1>1. UNCHANGED <<dbTokens, dbKeys, tokens, keys, ended, used>>
  BY Zenon DEF StatementFails, db, caches, history
<1>2. CASE op[s].at = "revoke_db" /\ op[s].new # None
  <2>1. Goto(s, "store_db")
    BY Zenon, <1>2 DEF StatementFails, At
  <2>2. OpFields(op[s]) /\ op[s].new \in Token /\ op[s].old = {}
    BY Zenon, <1>2 DEF EndInv, Types, OpType, OpFields
  <2>3. /\ op'[s].at = "store_db" /\ op'[s].c = op[s].c /\ op'[s].new = op[s].new
        /\ op'[s].old = op[s].old
    BY Zenon, <2>1, GotoIs DEF EndInv, Steps, DbStep
  <2>4. OpFields(op'[s])
    BY Zenon, <2>2, <2>3 DEF OpFields
  <2>5. Move(s)
    BY Zenon, <1>1, <2>1, <2>4, GoesOn DEF Steps, DbStep
  <2> QED
    BY Zenon, <2>2, <2>3, <2>5, Calm
<1>3. CASE ~(op[s].at = "revoke_db" /\ op[s].new # None)
  BY Zenon, <1>1, <1>3, GivesUp DEF StatementFails, At
<1> QED
  BY Zenon, <1>2, <1>3
-----------------------------------------------------------------------------
(* Administrators *)

\* A request begins that stores no credential.
LEMMA Begins ==
  ASSUME Ids, EndInv, NEW s \in Thread, used \subseteq used',
         UNCHANGED <<dbTokens, dbKeys, tokens, keys, ended>>,
         op' = [op EXCEPT ![s] = op'[s]], OpType(op'[s]),
         op'[s].c = None, op'[s].new = None,
         op'[s].at \in {"create_db", "update_db", "delete_tokens", "reset_db"},
         op'[s].old # {} => op'[s].at \in {"delete_tokens", "reset_db"}
  PROVE  Move(s)
<1>1. OpFields(op'[s])
  BY Zenon DEF OpFields
<1>2. \A x \in Credential : ~Stores(op'[s], x)
  BY Zenon DEF Stores, Ids
<1> QED
  BY Zenon, <1>1, <1>2, Untouched

Part(g, f) == \A x \in DOMAIN g : x \in DOMAIN f /\ g[x] = f[x]

LEMMA RemoveIs ==
  ASSUME NEW f, NEW S
  PROVE  Part(Remove(f, S), f) /\ \A x \in DOMAIN Remove(f, S) : x \notin S
BY Zenon DEF Part, Remove, Restrict

\* A step of a request that stores nothing takes credentials away.
LEMMA Drops ==
  ASSUME Ids, EndInv, NEW s \in Thread, NEW step \in Steps, Goto(s, step),
         UNCHANGED <<ended, used>>, Part(dbTokens', dbTokens), Part(tokens', tokens),
         Part(dbKeys', dbKeys), Part(keys', keys), OpFields(op'[s]),
         step \notin {"key_db", "key_bloom", "key_cache"}
  PROVE  Move(s)
<1>1. /\ op' = [op EXCEPT ![s] = op'[s]] /\ OpType(op'[s]) /\ op'[s].at = step
      /\ op'[s].u = op[s].u /\ op'[s].c = op[s].c /\ op'[s].new = op[s].new
  BY Zenon, GotoIs DEF EndInv
<1>2. {op[s].c, op[s].new} \subseteq used \cup {None}
  BY Zenon DEF EndInv, Unique
<1>3. \A x \in Credential : Stores(op'[s], x) => Storing(s, x)
  BY Zenon, <1>1 DEF Stores, Storing
<1> QED
  BY <1>1, <1>2, <1>3 DEF Move, Part

AllSteps ==
  {"delete_tokens", "delete_keys", "delete_user", "drop_tokens", "drop_keys", "drop_user",
   "reset_db", "reset_tokens", "reset_cache", "reset_user"}

\* delete_user and reset_password: the table is emptied of the user's tokens, then the cache.
LEMMA EndsAll ==
  ASSUME Ids, EndInv, NEW s \in Thread, op[s].at \in AllSteps, NEW step \in AllSteps,
         Goto(s, step), UNCHANGED <<ended, used>>,
         Part(dbTokens', dbTokens), Part(tokens', tokens),
         Part(dbKeys', dbKeys), Part(keys', keys),
         \A x \in op[s].old : x \in DOMAIN dbTokens' =>
           step \in {"delete_tokens", "reset_db", "reset_tokens"},
         \A x \in op[s].old : x \in DOMAIN tokens' =>
           step \notin {"drop_keys", "drop_user", "reset_user"}
  PROVE  EndInv'
<1>0. step \in Steps /\ OpFields(op[s]) /\ OpType(op[s])
  BY Zenon DEF AllSteps, Steps, DbStep, EndInv, Types
<1>1. /\ op'[s].at = step /\ op'[s].u = op[s].u /\ op'[s].new = op[s].new
      /\ op'[s].old = op[s].old
  BY Zenon, <1>0, GotoIs DEF EndInv
<1>2. op[s].new = None
  BY Zenon, <1>0 DEF OpFields, AllSteps
<1>3. OpFields(op'[s])
  BY Zenon, <1>1, <1>2 DEF OpFields, AllSteps
<1>4. Move(s)
  BY Zenon, <1>0, <1>3, Drops DEF AllSteps
<1>5. \A x \in Credential : Over(x) => Over(x)'
  BY Zenon, <1>4, OverKept
<1>6. \A x \in op[s].old :
        /\ x \in Credential /\ Over(x)
        /\ x \in DOMAIN dbTokens => dbTokens[x] = op[s].u
        /\ x \in DOMAIN tokens => tokens[x] = op[s].u
  BY Zenon, <1>0 DEF EndInv, EndingAll, OpType, Credential
<1>7. EndingAll(s)'
  BY Zenon, <1>1, <1>5, <1>6 DEF EndingAll, Part
<1>8. Revoking(s)'
  BY Zenon, <1>1 DEF Revoking, AllSteps
<1> QED
  BY Zenon, <1>4, <1>7, <1>8, MoveKeeps

\* The request is over, and what it took away has ended.
LEMMA EndsNow ==
  ASSUME Ids, EndInv, NEW s \in Thread, Done(s), UNCHANGED used,
         Part(dbTokens', dbTokens), Part(tokens', tokens),
         Part(dbKeys', dbKeys), Part(keys', keys),
         \A x \in ended' : x \in ended \/
           /\ x \in Credential /\ Over(x)
           /\ x \notin DOMAIN tokens' \cup DOMAIN dbTokens' \cup DOMAIN keys' \cup DOMAIN dbKeys'
  PROVE  EndInv'
<1>1. op' = [op EXCEPT ![s] = op'[s]] /\ op'[s] = Idle
  BY Zenon, DoneIs DEF EndInv
<1>2. \A x \in Credential : ~Stores(op'[s], x)
  BY Zenon, <1>1, IdleIs DEF Stores, Ids
<1>3. Move(s)
  BY Zenon, <1>1, <1>2, IdleIs DEF Move, Part
<1> QED
  BY Zenon, <1>1, <1>3, IdleIs, Calm

LEMMA CreateUserStep ==
  ASSUME Ids, EndInv, NEW s \in Thread, CreateUser(s)
  PROVE  EndInv'
<1>1. PICK u \in Fresh(User) :
        /\ op' = [op EXCEPT ![s] = [Idle EXCEPT !.at = "create_db", !.u = u]]
        /\ used' = used \cup {u}
  BY Zenon DEF CreateUser
<1>2. /\ op' = [op EXCEPT ![s] = op'[s]]
      /\ op'[s] = [at |-> "create_db", u |-> u, c |-> None, new |-> None, old |-> {}, rec |-> None]
  BY Zenon, <1>1 DEF EndInv, Types, Idle
<1>3. /\ OpType(op'[s]) /\ op'[s].at = "create_db" /\ op'[s].c = None /\ op'[s].new = None
      /\ op'[s].old = {}
  BY <1>2 DEF OpType, Steps, DbStep
<1>4. UNCHANGED <<dbTokens, dbKeys, tokens, keys, ended>>
  BY Zenon DEF CreateUser, db, caches, history
<1>5. Move(s)
  BY Zenon, <1>1, <1>2, <1>3, <1>4, Begins
<1> QED
  BY Zenon, <1>3, <1>5, Calm

LEMMA UpdateUserStep ==
  ASSUME Ids, EndInv, NEW s \in Thread, NEW u \in User, NEW e \in BOOLEAN, UpdateUser(s, u, e)
  PROVE  EndInv'
<1>1. op' = [op EXCEPT ![s] = [Idle EXCEPT !.at = "update_db", !.u = u,
                                           !.rec = [users[u] EXCEPT !.enabled = e]]]
  BY Zenon DEF UpdateUser
<1>2. /\ op' = [op EXCEPT ![s] = op'[s]]
      /\ op'[s] = [at |-> "update_db", u |-> u, c |-> None, new |-> None, old |-> {},
                   rec |-> [users[u] EXCEPT !.enabled = e]]
  BY Zenon, <1>1 DEF EndInv, Types, Idle
<1>3. /\ OpType(op'[s]) /\ op'[s].at = "update_db" /\ op'[s].c = None /\ op'[s].new = None
      /\ op'[s].old = {}
  BY <1>2 DEF OpType, Steps, DbStep
<1>4. UNCHANGED <<dbTokens, dbKeys, tokens, keys, ended, used>>
  BY Zenon DEF UpdateUser, db, caches, history
<1>5. Move(s)
  BY Zenon, <1>2, <1>3, <1>4, Begins
<1> QED
  BY Zenon, <1>3, <1>5, Calm

\* The tokens to end are in the cache, so they are over and the table agrees on the owner.
LEMMA EndingStep ==
  ASSUME Ids, EndInv, NEW s \in Thread, NEW u \in User, DeleteUser(s, u) \/ ResetPassword(s, u)
  PROVE  EndInv'
<1>1. /\ op' = [op EXCEPT ![s] = op'[s]]
      /\ \E step \in {"delete_tokens", "reset_db"} :
           op'[s] = [at |-> step, u |-> u, c |-> None, new |-> None, old |-> Ending(s, u),
                     rec |-> op'[s].rec]
  <2>1. CASE DeleteUser(s, u)
    <3>1. op' = [op EXCEPT ![s] = [Idle EXCEPT !.at = "delete_tokens", !.u = u,
                                               !.old = Ending(s, u)]]
      BY Zenon, <2>1 DEF DeleteUser
    <3> QED
      BY Zenon, <3>1 DEF EndInv, Types, Idle
  <2>2. CASE ResetPassword(s, u)
    <3>1. op' = [op EXCEPT ![s] = [Idle EXCEPT !.at = "reset_db", !.u = u, !.old = Ending(s, u),
                                               !.rec = users[u].pw + 1]]
      BY Zenon, <2>2 DEF ResetPassword
    <3> QED
      BY Zenon, <3>1 DEF EndInv, Types, Idle
  <2> QED
    BY Zenon, <2>1, <2>2
<1>2. Ending(s, u) \in SUBSET Token
  BY Zenon DEF Ending, Owned, EndInv, Types
<1>3. /\ OpType(op'[s]) /\ op'[s].at \in {"delete_tokens", "reset_db"} /\ op'[s].c = None
      /\ op'[s].new = None /\ op'[s].old = Ending(s, u) /\ op'[s].u = u
  BY <1>1, <1>2 DEF OpType, Steps, DbStep
<1>4. UNCHANGED <<dbTokens, dbKeys, tokens, keys, ended, used>>
  BY Zenon DEF DeleteUser, ResetPassword, db, caches, history
<1>5. Move(s)
  BY Zenon, <1>1, <1>3, <1>4, Begins
<1>6. \A x \in Credential : Over(x) => Over(x)'
  BY Zenon, <1>5, OverKept
<1>7. \A x \in Ending(s, u) :
        /\ x \in Credential /\ Over(x) /\ tokens[x] = u
        /\ x \in DOMAIN dbTokens => dbTokens[x] = u
  BY Zenon, <1>2 DEF Ending, Owned, EndInv, Cached, Credential
<1>8. EndingAll(s)'
  BY Zenon, <1>3, <1>4, <1>6, <1>7 DEF EndingAll
<1>9. Revoking(s)'
  BY Zenon, <1>3 DEF Revoking
<1> QED
  BY Zenon, <1>5, <1>8, <1>9, MoveKeeps

LEMMA DeleteUserStep ==
  ASSUME Ids, EndInv, NEW s \in Thread, DeleteUser_Db(s) \/ DeleteUser_Caches(s)
  PROVE  EndInv'
<1>0. \A f : Part(f, f)
  BY Zenon DEF Part
<1>r. EndingAll(s) /\ OpType(op[s])
  BY Zenon DEF EndInv, Types
<1>1. CASE DeleteUser_Db(s)
  <2>0. UNCHANGED <<tokens, keys, ended, used>>
    BY Zenon, <1>1 DEF DeleteUser_Db, caches, history
  <2>1. CASE op[s].at = "delete_tokens"
    <3>1. /\ Goto(s, "delete_keys") /\ dbTokens' = Remove(dbTokens, Owned(dbTokens, op[s].u))
          /\ UNCHANGED dbKeys
      BY Zenon, <1>1, <2>1 DEF DeleteUser_Db, At
    <3>2. Part(dbTokens', dbTokens) /\ \A x \in op[s].old : x \notin DOMAIN dbTokens'
      BY <1>r, <3>1, RemoveIs DEF EndingAll, Owned, Part
    <3> QED
      BY Zenon, <1>0, <2>0, <2>1, <3>1, <3>2, EndsAll DEF AllSteps
  <2>2. CASE op[s].at = "delete_keys"
    <3>1. /\ Goto(s, "delete_user") /\ dbKeys' = Remove(dbKeys, Owned(dbKeys, op[s].u))
          /\ UNCHANGED dbTokens
      BY Zenon, <1>1, <2>2 DEF DeleteUser_Db, At
    <3>2. Part(dbKeys', dbKeys) /\ \A x \in op[s].old : x \notin DOMAIN dbTokens'
      BY Zenon, <1>r, <2>2, <3>1, RemoveIs DEF EndingAll
    <3> QED
      BY Zenon, <1>0, <2>0, <2>2, <3>1, <3>2, EndsAll DEF AllSteps
  <2>3. CASE op[s].at = "delete_user"
    <3>1. Goto(s, "drop_tokens") /\ UNCHANGED <<dbTokens, dbKeys>>
      BY Zenon, <1>1, <2>3 DEF DeleteUser_Db, At
    <3>2. \A x \in op[s].old : x \notin DOMAIN dbTokens'
      BY Zenon, <1>r, <2>3, <3>1 DEF EndingAll
    <3> QED
      BY Zenon, <1>0, <2>0, <2>3, <3>1, <3>2, EndsAll DEF AllSteps
  <2> QED
    BY Zenon, <1>1, <2>1, <2>2, <2>3 DEF DeleteUser_Db, At
<1>2. CASE DeleteUser_Caches(s)
  <2>0. UNCHANGED <<dbTokens, dbKeys, used>>
    BY Zenon, <1>2 DEF DeleteUser_Caches, db
  <2>1. CASE op[s].at = "drop_tokens"
    <3>1. /\ Goto(s, "drop_keys") /\ tokens' = Remove(tokens, Owned(tokens, op[s].u))
          /\ UNCHANGED <<keys, ended>>
      BY Zenon, <1>2, <2>1 DEF DeleteUser_Caches, At
    <3>2. Part(tokens', tokens)
          /\ \A x \in op[s].old : x \notin DOMAIN tokens' /\ x \notin DOMAIN dbTokens'
      BY <1>r, <2>0, <2>1, <3>1, RemoveIs DEF EndingAll, Owned, Part
    <3> QED
      BY Zenon, <1>0, <2>0, <2>1, <3>1, <3>2, EndsAll DEF AllSteps
  <2>2. CASE op[s].at = "drop_keys"
    <3>1. /\ Goto(s, "drop_user") /\ keys' = Remove(keys, Owned(keys, op[s].u))
          /\ UNCHANGED <<tokens, ended>>
      BY Zenon, <1>2, <2>2 DEF DeleteUser_Caches, At
    <3>2. Part(keys', keys)
          /\ \A x \in op[s].old : x \notin DOMAIN tokens' /\ x \notin DOMAIN dbTokens'
      BY Zenon, <1>r, <2>0, <2>2, <3>1, RemoveIs DEF EndingAll
    <3> QED
      BY Zenon, <1>0, <2>0, <2>2, <3>1, <3>2, EndsAll DEF AllSteps
  <2>3. CASE op[s].at = "drop_user"
    <3>1. Done(s) /\ ended' = ended \cup op[s].old /\ UNCHANGED <<tokens, keys>>
      BY Zenon, <1>2, <2>3 DEF DeleteUser_Caches, At
    <3>2. \A x \in op[s].old :
            /\ x \in Credential /\ Over(x)
            /\ x \notin DOMAIN tokens' \cup DOMAIN dbTokens' \cup DOMAIN keys' \cup DOMAIN dbKeys'
      BY Zenon, <1>r, <2>0, <2>3, <3>1 DEF EndingAll, OpType, Credential, EndInv, Types, Ids
    <3> QED
      BY Zenon, <1>0, <2>0, <3>1, <3>2, EndsNow
  <2> QED
    BY Zenon, <1>2, <2>1, <2>2, <2>3 DEF DeleteUser_Caches, At
<1> QED
  BY Zenon, <1>1, <1>2

LEMMA ResetPasswordStep ==
  ASSUME Ids, EndInv, NEW s \in Thread, ResetPassword_Db(s) \/ ResetPassword_Caches(s)
  PROVE  EndInv'
<1>0. \A f : Part(f, f)
  BY Zenon DEF Part
<1>r. EndingAll(s) /\ OpType(op[s])
  BY Zenon DEF EndInv, Types
<1>1. CASE ResetPassword_Db(s)
  <2>0. UNCHANGED <<dbKeys, tokens, keys, ended, used>>
    BY Zenon, <1>1 DEF ResetPassword_Db, caches, history
  <2>1. CASE op[s].at = "reset_db"
    <3>1. Goto(s, "reset_tokens") /\ UNCHANGED dbTokens
      BY Zenon, <1>1, <2>1 DEF ResetPassword_Db, At
    <3> QED
      BY Zenon, <1>0, <2>0, <2>1, <3>1, EndsAll DEF AllSteps
  <2>2. CASE op[s].at = "reset_tokens"
    <3>1. Goto(s, "reset_cache") /\ dbTokens' = Remove(dbTokens, Owned(dbTokens, op[s].u))
      BY Zenon, <1>1, <2>2 DEF ResetPassword_Db, At
    <3>2. Part(dbTokens', dbTokens) /\ \A x \in op[s].old : x \notin DOMAIN dbTokens'
      BY <1>r, <3>1, RemoveIs DEF EndingAll, Owned, Part
    <3> QED
      BY Zenon, <1>0, <2>0, <2>2, <3>1, <3>2, EndsAll DEF AllSteps
  <2> QED
    BY Zenon, <1>1, <2>1, <2>2 DEF ResetPassword_Db, At
<1>2. CASE ResetPassword_Caches(s)
  <2>0. UNCHANGED <<dbTokens, dbKeys, keys, used>>
    BY Zenon, <1>2 DEF ResetPassword_Caches, db
  <2>1. CASE op[s].at = "reset_cache"
    <3>1. /\ Goto(s, "reset_user") /\ tokens' = Remove(tokens, Owned(tokens, op[s].u))
          /\ UNCHANGED ended
      BY Zenon, <1>2, <2>1 DEF ResetPassword_Caches, At
    <3>2. Part(tokens', tokens)
          /\ \A x \in op[s].old : x \notin DOMAIN tokens' /\ x \notin DOMAIN dbTokens'
      BY <1>r, <2>0, <2>1, <3>1, RemoveIs DEF EndingAll, Owned, Part
    <3> QED
      BY Zenon, <1>0, <2>0, <2>1, <3>1, <3>2, EndsAll DEF AllSteps
  <2>2. CASE op[s].at = "reset_user"
    <3>1. Done(s) /\ ended' = ended \cup op[s].old /\ UNCHANGED tokens
      BY Zenon, <1>2, <2>2 DEF ResetPassword_Caches, At
    <3>2. \A x \in op[s].old :
            /\ x \in Credential /\ Over(x)
            /\ x \notin DOMAIN tokens' \cup DOMAIN dbTokens' \cup DOMAIN keys' \cup DOMAIN dbKeys'
      BY Zenon, <1>r, <2>0, <2>2, <3>1 DEF EndingAll, OpType, Credential, EndInv, Types, Ids
    <3> QED
      BY Zenon, <1>0, <2>0, <3>1, <3>2, EndsNow
  <2> QED
    BY Zenon, <1>2, <2>1, <2>2 DEF ResetPassword_Caches, At
<1> QED
  BY Zenon, <1>1, <1>2

\* The steps that change only accounts.
LEMMA AccountStep ==
  ASSUME Ids, EndInv, NEW s \in Thread,
         DbCreateUser(s) \/ CreateUser_Cache(s) \/ UpdateUser_Db(s) \/ UpdateUser_Cache(s)
  PROVE  EndInv'
<1>1. UNCHANGED <<dbTokens, dbKeys, tokens, keys, ended, used>>
  BY Zenon DEF DbCreateUser, CreateUser_Cache, UpdateUser_Db, UpdateUser_Cache, db, caches,
     history
<1>2. CASE CreateUser_Cache(s) \/ UpdateUser_Cache(s)
  BY Zenon, <1>1, <1>2, GivesUp DEF CreateUser_Cache, UpdateUser_Cache
<1>3. CASE DbCreateUser(s) \/ UpdateUser_Db(s)
  <2>1. PICK step \in {"create_cache", "update_cache"} : Goto(s, step)
    BY Zenon, <1>3 DEF DbCreateUser, UpdateUser_Db
  <2>2. OpFields(op[s]) /\ op[s].at \in {"create_db", "update_db"}
    BY Zenon, <1>3 DEF DbCreateUser, UpdateUser_Db, At, EndInv, Types
  <2>3. /\ op'[s].at = step /\ op'[s].new = op[s].new /\ op'[s].old = op[s].old
        /\ op'[s].c = op[s].c
    BY Zenon, <2>1, GotoIs DEF EndInv, Steps
  <2>4. OpFields(op'[s]) /\ op'[s].old = {}
    BY Zenon, <2>2, <2>3 DEF OpFields
  <2>5. Move(s)
    BY Zenon, <1>1, <2>1, <2>4, GoesOn DEF Steps
  <2> QED
    BY Zenon, <2>3, <2>4, <2>5, Calm
<1> QED
  BY Zenon, <1>2, <1>3

LEMMA CreateApiKeyStep ==
  ASSUME Ids, EndInv, NEW s \in Thread, NEW u \in User, CreateApiKey(s, u)
  PROVE  EndInv'
<1>1. PICK k \in Fresh(Key) :
        /\ op' = [op EXCEPT ![s] = [Idle EXCEPT !.at = "key_db", !.u = u, !.c = k]]
        /\ used' = used \cup {k}
  BY Zenon DEF CreateApiKey
<1>2. k \in Key /\ k \notin used
  BY Zenon, FreshIs
<1>3. /\ op' = [op EXCEPT ![s] = op'[s]]
      /\ op'[s] = [at |-> "key_db", u |-> u, c |-> k, new |-> None, old |-> {}, rec |-> None]
  BY Zenon, <1>1 DEF EndInv, Types, Idle
<1>4. /\ OpType(op'[s]) /\ op'[s].at = "key_db" /\ op'[s].new = None
      /\ op'[s].c = k /\ op'[s].old = {}
  BY <1>2, <1>3 DEF OpType, Steps, DbStep, Credential
<1>5. Move(s)
  <2>1. UNCHANGED <<dbTokens, dbKeys, tokens, keys, ended>>
    BY Zenon DEF CreateApiKey, db, caches, history
  <2>2. \A x \in Credential : Stores(op'[s], x) => x = k
    BY Zenon, <1>4 DEF Stores, Ids
  <2>3. {op'[s].c, op'[s].new} \subseteq used' \cup {None} /\ used \subseteq used'
    BY Zenon, <1>1, <1>4
  <2>4. OpFields(op'[s])
    BY Zenon, <1>2, <1>4 DEF OpFields
  <2> QED
    BY Zenon, <1>2, <1>3, <1>4, <2>1, <2>2, <2>3, <2>4, Untouched
<1> QED
  BY Zenon, <1>4, <1>5, Calm

LEMMA StoreKeyStep ==
  ASSUME Ids, EndInv, NEW s \in Thread, CreateApiKey_Store(s)
  PROVE  EndInv'
<1>0. /\ op[s].at \in {"key_db", "key_bloom", "key_cache"} /\ OpFields(op[s])
      /\ op[s].c \in Key /\ op[s].c \in Credential /\ op[s].new = None /\ op[s].old = {}
      /\ {op[s].c, op[s].new} \subseteq used \cup {None}
  BY Zenon DEF CreateApiKey_Store, At, EndInv, Types, Unique, OpFields, Credential
<1>1. UNCHANGED <<dbTokens, tokens, ended, used>>
  BY Zenon DEF CreateApiKey_Store
<1>2. CASE op[s].at \in {"key_db", "key_bloom"}
  <2>1. PICK step \in {"key_bloom", "key_cache"} : Goto(s, step)
    BY Zenon, <1>2 DEF CreateApiKey_Store, At
  <2>2. UNCHANGED keys /\ (dbKeys' = Insert(dbKeys, op[s].c, op[s].u) \/ dbKeys' = dbKeys)
    BY Zenon, <1>2 DEF CreateApiKey_Store, At
  <2>3. /\ op' = [op EXCEPT ![s] = op'[s]] /\ OpType(op'[s]) /\ op'[s].at = step
        /\ op'[s].c = op[s].c /\ op'[s].new = op[s].new /\ op'[s].old = op[s].old
    BY Zenon, <2>1, GotoIs DEF EndInv, Steps
  <2>4. OpFields(op'[s])
    BY Zenon, <1>0, <2>3 DEF OpFields
  <2>5. \A x \in Credential : Stores(op'[s], x) <=> Storing(s, x)
    BY Zenon, <1>0, <2>3 DEF Stores, Storing
  <2>6. \A x \in DOMAIN dbKeys' : x \in DOMAIN dbKeys \/ x = op[s].c
    BY <2>2 DEF Insert
  <2>7. Storing(s, op[s].c) /\ Stores(op'[s], op[s].c)
    BY Zenon, <1>0, <2>3 DEF Storing, Stores
  <2>8. Move(s)
    BY Zenon, <1>0, <1>1, <2>2, <2>3, <2>4, <2>5, <2>6, <2>7 DEF Move
  <2> QED
    BY Zenon, <1>0, <2>3, <2>8, Calm
<1>3. CASE op[s].at = "key_cache"
  <2>1. Done(s) /\ keys' = Insert(keys, op[s].c, op[s].u) /\ UNCHANGED dbKeys
    BY Zenon, <1>3 DEF CreateApiKey_Store, At
  <2>2. op' = [op EXCEPT ![s] = op'[s]] /\ op'[s] = Idle
    BY Zenon, <2>1, DoneIs DEF EndInv
  <2>3. \A x \in Credential : ~Stores(op'[s], x)
    BY Zenon, <2>2, IdleIs DEF Stores, Ids
  <2>4. \A x \in DOMAIN keys' : x \in DOMAIN keys \/ x = op[s].c
    BY Zenon, <2>1 DEF Insert
  <2>5. Storing(s, op[s].c)
    BY Zenon, <1>0 DEF Storing, Stores
  <2>6. Move(s)
    BY Zenon, <1>0, <1>1, <2>1, <2>2, <2>3, <2>4, <2>5, IdleIs DEF Move
  <2> QED
    BY Zenon, <2>2, <2>6, IdleIs, Calm
<1> QED
  BY Zenon, <1>0, <1>2, <1>3

LEMMA RevokeApiKeyStep ==
  ASSUME Ids, EndInv, NEW s \in Thread, NEW k \in Key, RevokeApiKey(s, k)
  PROVE  EndInv'
<1>0. k \in DOMAIN keys /\ k \in Credential /\ Over(k) /\ k \in used
  BY Zenon DEF RevokeApiKey, EndInv, Cached, Credential, Over
<1>1. op' = [op EXCEPT ![s] = [Idle EXCEPT !.at = "unkey_db", !.c = k]]
  BY Zenon DEF RevokeApiKey
<1>3. /\ op' = [op EXCEPT ![s] = op'[s]]
      /\ op'[s] = [at |-> "unkey_db", u |-> None, c |-> k, new |-> None, old |-> {}, rec |-> None]
  BY Zenon, <1>1 DEF EndInv, Types, Idle
<1>4. /\ OpType(op'[s]) /\ op'[s].at = "unkey_db" /\ op'[s].new = None
      /\ op'[s].c = k /\ op'[s].old = {}
  BY <1>0, <1>3 DEF OpType, Steps, DbStep
<1>5. Move(s)
  <2>1. UNCHANGED <<dbTokens, dbKeys, tokens, keys, ended, used>>
    BY Zenon DEF RevokeApiKey, db, caches, history
  <2>2. \A x \in Credential : ~Stores(op'[s], x)
    BY Zenon, <1>4 DEF Stores, Ids
  <2>3. OpFields(op'[s])
    BY Zenon, <1>4 DEF OpFields
  <2> QED
    BY Zenon, <1>0, <1>3, <1>4, <2>1, <2>2, <2>3, Untouched
<1>6. Over(k)'
  BY Zenon, <1>0, <1>5, OverKept
<1>7. Revoking(s)' /\ EndingAll(s)'
  BY Zenon, <1>4, <1>6 DEF Revoking, EndingAll
<1> QED
  BY Zenon, <1>5, <1>7, MoveKeeps

LEMMA DropKeyStep ==
  ASSUME Ids, EndInv, NEW s \in Thread, RevokeApiKey_Drop(s)
  PROVE  EndInv'
<1>0. /\ op[s].at \in {"unkey_db", "unkey_cache"} /\ OpFields(op[s]) /\ Over(op[s].c)
      /\ op[s].c \in Key /\ op[s].c \in Credential /\ op[s].new = None /\ op[s].old = {}
  BY Zenon DEF RevokeApiKey_Drop, At, EndInv, Types, OpFields, Credential, Revoking
<1>1. UNCHANGED <<dbTokens, tokens, used>>
  BY Zenon DEF RevokeApiKey_Drop
<1>p. \A f : Part(f, f)
  BY Zenon DEF Part
<1>2. CASE op[s].at = "unkey_db"
  <2>1. Goto(s, "unkey_cache") /\ dbKeys' = Remove(dbKeys, {op[s].c}) /\ UNCHANGED <<keys, ended>>
    BY Zenon, <1>2 DEF RevokeApiKey_Drop, At
  <2>2. /\ op'[s].at = "unkey_cache" /\ op'[s].c = op[s].c /\ op'[s].new = op[s].new
        /\ op'[s].old = op[s].old
    BY Zenon, <2>1, GotoIs DEF EndInv, Steps
  <2>3. OpFields(op'[s])
    BY Zenon, <1>0, <2>2 DEF OpFields
  <2>4. Part(dbKeys', dbKeys) /\ op[s].c \notin DOMAIN dbKeys'
    BY Zenon, <2>1, RemoveIs
  <2>5. Move(s)
    BY Zenon, <1>1, <1>p, <2>1, <2>3, <2>4, Drops DEF Steps
  <2>6. \A x \in Credential : Over(x) => Over(x)'
    BY Zenon, <2>5, OverKept
  <2>7. Revoking(s)' /\ EndingAll(s)'
    BY Zenon, <1>0, <2>2, <2>4, <2>6 DEF Revoking, EndingAll
  <2> QED
    BY Zenon, <2>5, <2>7, MoveKeeps
<1>3. CASE op[s].at = "unkey_cache"
  <2>1. Done(s) /\ keys' = Remove(keys, {op[s].c}) /\ ended' = ended \cup {op[s].c}
        /\ UNCHANGED dbKeys
    BY Zenon, <1>3 DEF RevokeApiKey_Drop, At
  <2>2. Part(keys', keys) /\ op[s].c \notin DOMAIN keys'
    BY Zenon, <2>1, RemoveIs
  <2>3. op[s].c \notin DOMAIN tokens' \cup DOMAIN dbTokens' \cup DOMAIN dbKeys'
    BY Zenon, <1>0, <1>1, <1>3, <2>1 DEF EndInv, Types, Revoking, Ids
  <2> QED
    BY Zenon, <1>0, <1>1, <1>p, <2>1, <2>2, <2>3, EndsNow
<1> QED
  BY Zenon, <1>0, <1>2, <1>3
-----------------------------------------------------------------------------
(* The collector and the restart *)

\* Credentials are taken away between the steps of all requests.
LEMMA Shrinks ==
  ASSUME Ids, EndInv, UNCHANGED <<op, used, ended>>,
         Part(dbTokens', dbTokens), Part(tokens', tokens),
         Part(dbKeys', dbKeys), Part(keys', keys)
  PROVE  EndInv'
<1>1. \A x : Over(x) <=> Over(x)'
  BY Zenon DEF Over, Storing
<1>2. Types' /\ Unique'
  BY Zenon DEF EndInv, Types, Unique, Part, Storing
<1>3. Cached' /\ Gone'
  BY <1>1 DEF EndInv, Cached, Gone, Part
<1>4. \A s \in Thread : Revoking(s)' /\ EndingAll(s)'
  BY <1>1 DEF EndInv, Revoking, EndingAll, Part
<1> QED
  BY Zenon, <1>2, <1>3, <1>4 DEF EndInv

LEMMA BackgroundStep ==
  ASSUME Ids, EndInv, (\E c \in Credential : Expire(c)) \/ Gc \/ UNCHANGED vars
  PROVE  EndInv'
<1>0. \A f : Part(f, f)
  BY Zenon DEF Part
<1>1. CASE PurgeExpired
  BY Zenon, <1>1, RemoveIs, Shrinks DEF PurgeExpired, history
<1>2. CASE ~PurgeExpired
  <2>1. UNCHANGED <<op, used, ended, dbTokens, dbKeys, tokens, keys>>
    BY Zenon, <1>2 DEF Expire, Gc, RebuildCache, vars, db, caches, history
  <2> QED
    BY Zenon, <1>0, <2>1, Shrinks
<1> QED
  BY Zenon, <1>1, <1>2

\* The caches are loaded from the tables, and no request is left.
LEMMA RestartStep ==
  ASSUME Ids, EndInv, Restart
  PROVE  EndInv'
<1>0. /\ Part(tokens', dbTokens) /\ Part(keys', dbKeys)
      /\ UNCHANGED <<dbTokens, dbKeys, used, ended>> /\ op' = [s \in Thread |-> Idle]
  BY Zenon, RemoveIs DEF Restart, LoadTokens, LoadApiKeys, db, history, Thread
<1>1. \A s \in Thread : op'[s] = Idle
  BY Zenon, <1>0
<1>2. \A s \in Thread : \A x \in Credential : ~Storing(s, x)'
  BY Zenon, <1>1, IdleIs DEF Storing, Stores, Ids
<1>3. \A x \in Credential : x \in used => Over(x)'
  BY Zenon, <1>0, <1>2 DEF Over
<1>4. Types'
  BY Zenon, <1>0, <1>1, IdleIs DEF EndInv, Types, Part
<1>5. Unique'
  BY Zenon, <1>0, <1>1, <1>2, IdleIs DEF EndInv, Unique, Part
<1>6. Cached'
  <2>1. \A x \in DOMAIN tokens' \cup DOMAIN keys' : Over(x)'
    BY Zenon, <1>0, <1>3 DEF EndInv, Types, Unique, Credential, Part
  <2>2. \A x \in DOMAIN dbTokens' : \A s \in Thread : op'[s].new # x
    BY <1>1, <1>4, IdleIs DEF Types, Ids, Credential
  <2> QED
    BY Zenon, <1>0, <2>1, <2>2 DEF Cached, Part
<1>7. Gone'
  BY Zenon, <1>0, <1>3 DEF EndInv, Gone, Over, Part
<1>8. \A s \in Thread : Revoking(s)' /\ EndingAll(s)'
  BY Zenon, <1>1, IdleIs DEF Revoking, EndingAll
<1> QED
  BY Zenon, <1>4, <1>5, <1>6, <1>7, <1>8 DEF EndInv
-----------------------------------------------------------------------------
(* The theorem *)

LEMMA InitEnds ==
  ASSUME Ids, Init
  PROVE  EndInv
<1>1. \A s \in Thread : op[s] = Idle
  BY Zenon DEF Init, Thread
<1>2. DOMAIN dbTokens = {} /\ DOMAIN dbKeys = {} /\ DOMAIN tokens = {} /\ DOMAIN keys = {}
  BY DEF Init
<1>3. Types
  BY Zenon, <1>1, <1>2, IdleIs DEF Types, Init, Thread
<1>4. Unique /\ Cached /\ Gone
  BY Zenon, <1>1, <1>2, IdleIs DEF Unique, Cached, Gone, Storing, Stores, Ids, Init
<1>5. \A s \in Thread : Revoking(s) /\ EndingAll(s)
  BY Zenon, <1>1, IdleIs DEF Revoking, EndingAll
<1> QED
  BY Zenon, <1>3, <1>4, <1>5 DEF EndInv

LEMMA NextEnds ==
  ASSUME Ids, EndInv, [Next]_vars
  PROVE  EndInv'
<1>1. ASSUME NEW s \in Session, SessionRequest(s) \/ SessionStep(s)
      PROVE  EndInv'
  <2>0. s \in Thread
    BY Zenon DEF Thread
  <2> QED
    BY Zenon, <1>1, <2>0, LoginStep, RefreshStep, LogoutStep, StoreStep, RevokeStep
       DEF SessionRequest, SessionStep
<1>2. ASSUME NEW s \in Admin, AdminRequest(s)
      PROVE  EndInv'
  <2>0. s \in Thread
    BY Zenon DEF Thread
  <2> QED
    BY Zenon, <1>2, <2>0, CreateUserStep, EndingStep, CreateApiKeyStep, UpdateUserStep,
       RevokeApiKeyStep DEF AdminRequest
<1>3. ASSUME NEW s \in Admin, AdminStep(s)
      PROVE  EndInv'
  <2>0. s \in Thread
    BY Zenon DEF Thread
  <2> QED
    BY Zenon, <1>3, <2>0, AccountStep, DeleteUserStep, ResetPasswordStep, StoreKeyStep,
       DropKeyStep
       DEF AdminStep
<1>4. ASSUME NEW s \in Thread, StatementFails(s)
      PROVE  EndInv'
  BY Zenon, <1>4, FailStep
<1> QED
  BY Zenon, <1>1, <1>2, <1>3, <1>4, BackgroundStep, RestartStep DEF Next, Thread

\* A refresh token that a logout, a rotation, a password reset or the deletion of its user has
\* ended, and an API key that was revoked, is not accepted again, whatever the sessions, the
\* administrators, the collector and restarts do, in any order and with any statement failing.
THEOREM EndedForGood ==
  ASSUME Ids
  PROVE  Spec => []EndedStaysEnded
<1>1. Init => EndInv
  BY Zenon, InitEnds
<1>2. EndInv /\ [Next]_vars => EndInv'
  BY Zenon, NextEnds
<1>3. EndInv => EndedStaysEnded
  BY Zenon DEF EndInv, Gone, EndedStaysEnded, MayBeAccepted, Known
<1> QED
  BY <1>1, <1>2, <1>3, PTL DEF Spec
-----------------------------------------------------------------------------
(* The users of the cache and of the table *)

IsUser(r) == r = [enabled |-> r.enabled, pw |-> r.pw]
IsTable(f) == f = [x \in DOMAIN f |-> f[x]] /\ \A x \in DOMAIN f : IsUser(f[x])

\* What update_user makes of a cached record, and its statement of the table.
Changed(r, e) == [r EXCEPT !.enabled = e]
ChangedIn(f, u, e) == [f EXCEPT ![u].enabled = e]
\* What reset_password does to both.
ResetIn(f, u, pw) == IF u \in DOMAIN f THEN [f EXCEPT ![u].pw = pw] ELSE f

Dropping == {"drop_tokens", "drop_keys", "drop_user"}
Resetting == {"reset_tokens", "reset_cache", "reset_user"}

\* An administrator's request whose statement on the users has run, and that has not yet
\* done to the cache what it did to the table.
Behind(o) == o.at \in {"create_cache", "update_cache"} \cup Dropping \cup Resetting

\* What the table has and the cache has not is what the request has still to do.
Agree(o) ==
  /\ ~Behind(o) => users = dbUsers
  /\ o.at = "update_db" =>
       o.u \in DOMAIN users /\ o.rec = Changed(users[o.u], o.rec.enabled)
  /\ o.at = "create_cache" => dbUsers = Insert(users, o.u, NewUser)
  /\ o.at = "update_cache" => dbUsers = Insert(users, o.u, o.rec)
  /\ o.at \in Dropping => dbUsers = Remove(users, {o.u})
  /\ o.at \in Resetting =>
       dbUsers = ResetIn(users, o.u, o.rec)

\* Of a server with one administrator on which no statement has failed.
AccountInv ==
  /\ failures \in Nat
  /\ failures = 0 =>
       IsTable(users) /\ IsTable(dbUsers) /\ \A s \in Admin : Agree(op[s])

LEMMA InsertTable ==
  ASSUME NEW f, IsTable(f), NEW x, NEW r, IsUser(r)
  PROVE  IsTable(Insert(f, x, r))
BY Zenon DEF IsTable, Insert

LEMMA RemoveTable ==
  ASSUME NEW f, IsTable(f), NEW S
  PROVE  IsTable(Remove(f, S))
BY Zenon DEF IsTable, Remove, Restrict

LEMMA ResetTable ==
  ASSUME NEW f, IsTable(f), NEW u, NEW pw
  PROVE  IsTable(ResetIn(f, u, pw))
<1>0. SUFFICES ASSUME u \in DOMAIN f PROVE IsTable([f EXCEPT ![u].pw = pw])
  BY Zenon DEF ResetIn
<1>1. IsUser([f[u] EXCEPT !.pw = pw])
  <2>1. f[u] = [enabled |-> f[u].enabled, pw |-> f[u].pw]
    BY Zenon, <1>0 DEF IsTable, IsUser
  <2> QED
    BY <2>1 DEF IsUser
<1> QED
  BY Zenon, <1>0, <1>1 DEF IsTable

\* The statement sets what the cached record will have.
LEMMA EnableTable ==
  ASSUME NEW f, IsTable(f), NEW u \in DOMAIN f, NEW r, r = Changed(f[u], r.enabled)
  PROVE  IsUser(r) /\ ChangedIn(f, u, r.enabled) = Insert(f, u, r)
<1>1. f[u] = [enabled |-> f[u].enabled, pw |-> f[u].pw]
  BY Zenon DEF IsTable, IsUser
<1>2. r = [enabled |-> r.enabled, pw |-> f[u].pw] /\ r.pw = f[u].pw
  BY <1>1 DEF Changed
<1>3. IsUser(r)
  BY Zenon, <1>2 DEF IsUser
<1>4. ChangedIn(f, u, r.enabled) = [f EXCEPT ![u] = r]
  BY Zenon DEF Changed, ChangedIn
<1>5. [f EXCEPT ![u] = r] = Insert(f, u, r)
  BY Zenon DEF IsTable, Insert
<1> QED
  BY Zenon, <1>3, <1>4, <1>5

OneAdmin == \A s, t \in Admin : s = t

\* A request that owes the cache nothing.
Settled(o) == ~Behind(o) /\ o.at # "update_db"

LEMMA Elsewhere ==
  ASSUME AccountInv, UNCHANGED <<users, dbUsers, failures>>,
         \A t \in Admin : op'[t] = op[t] \/ (Settled(op[t]) /\ Settled(op'[t]))
  PROVE  AccountInv'
<1>1. ASSUME NEW t \in Admin, Agree(op[t]), users = dbUsers \/ op'[t] = op[t]
      PROVE  Agree(op[t])'
  BY Zenon, <1>1 DEF Agree, Settled, Behind, Dropping, Resetting
<1> QED
  BY Zenon, <1>1 DEF AccountInv, Agree, Settled

\* A step of s between settled steps.
LEMMA SettledStep ==
  ASSUME Types, AccountInv, NEW s \in Thread, UNCHANGED <<users, dbUsers, failures>>,
         op' = [op EXCEPT ![s] = op'[s]], Settled(op[s]), Settled(op'[s])
  PROVE  AccountInv'
<1>1. \A t \in Thread : t # s => op'[t] = op[t]
  BY Zenon DEF Types
<1> QED
  BY Zenon, <1>1, Elsewhere DEF Thread

LEMMA SettledGoto ==
  ASSUME Types, AccountInv, NEW s \in Thread, UNCHANGED <<users, dbUsers, failures>>,
         NEW step \in Steps, Goto(s, step), Settled(op[s]),
         step \notin {"create_cache", "update_cache", "update_db"} \cup Dropping \cup Resetting
  PROVE  AccountInv'
<1>1. op' = [op EXCEPT ![s] = op'[s]] /\ op'[s].at = step
  BY Zenon, GotoIs
<1> QED
  BY Zenon, <1>1, SettledStep DEF Settled, Behind

LEMMA SettledDone ==
  ASSUME Types, AccountInv, NEW s \in Thread, UNCHANGED <<users, dbUsers, failures>>,
         Done(s), Settled(op[s])
  PROVE  AccountInv'
<1>1. op' = [op EXCEPT ![s] = op'[s]] /\ op'[s] = Idle
  BY Zenon, DoneIs
<1>2. Settled(Idle)
  BY Zenon, IdleIs DEF Settled, Behind, Dropping, Resetting
<1> QED
  BY Zenon, <1>1, <1>2, SettledStep

\* A request of any kind but update_user is accepted.
LEMMA SettledStart ==
  ASSUME Types, AccountInv, NEW s \in Thread, UNCHANGED <<users, dbUsers, failures>>,
         At(s, "idle"), op' = [op EXCEPT ![s] = op'[s]],
         op'[s].at \in {"store_db", "revoke", "create_db", "delete_tokens", "reset_db", "key_db",
                        "unkey_db"}
  PROVE  AccountInv'
<1>1. Settled(op[s]) /\ Settled(op'[s])
  BY Zenon DEF Settled, Behind, Dropping, Resetting, At
<1> QED
  BY Zenon, <1>1, SettledStep

LEMMA AccountSession ==
  ASSUME Types, AccountInv, NEW s \in Thread, SessionRequest(s) \/ SessionStep(s)
  PROVE  AccountInv'
<1>1. UNCHANGED <<users, dbUsers, failures>>
  BY Zenon DEF SessionRequest, SessionStep, Login, Refresh, Logout, StoreRefreshToken,
     StoreRefreshToken_Db, StoreRefreshToken_Bloom, StoreRefreshToken_Cache,
     RevokeRefreshToken, RevokeRefreshToken_Check, RevokeRefreshToken_Db,
     RevokeRefreshToken_Cache, RevokeRefreshToken_Mark, db, caches, faults
<1>2. CASE SessionRequest(s)
  <2>1. At(s, "idle")
    BY Zenon, <1>2 DEF SessionRequest, Login, Refresh, Logout, Start
  <2>2. ASSUME NEW u, NEW pw, Login(s, u, pw)
        PROVE  op' = [op EXCEPT ![s] = op'[s]] /\ op'[s].at = "store_db"
    BY Zenon, <2>2 DEF Login, Idle, Types
  <2>3. ASSUME NEW t, Refresh(s, t)
        PROVE  op' = [op EXCEPT ![s] = op'[s]] /\ op'[s].at = "revoke"
    BY Zenon, <2>3 DEF Refresh, Idle, Types
  <2>4. ASSUME NEW t, Logout(s, t)
        PROVE  op' = [op EXCEPT ![s] = op'[s]] /\ op'[s].at = "revoke"
    BY Zenon, <2>4 DEF Logout, Idle, Types
  <2> QED
    BY Zenon, <1>1, <1>2, <2>1, <2>2, <2>3, <2>4, SettledStart DEF SessionRequest
<1>3. CASE SessionStep(s)
  <2>1. Settled(op[s])
    BY Zenon, <1>3 DEF SessionStep, StoreRefreshToken, StoreRefreshToken_Db,
       StoreRefreshToken_Bloom, StoreRefreshToken_Cache, RevokeRefreshToken,
       RevokeRefreshToken_Check, RevokeRefreshToken_Db, RevokeRefreshToken_Cache,
       RevokeRefreshToken_Mark, At, Settled, Behind, Dropping, Resetting
  <2>2. \/ Done(s)
        \/ \E step \in {"store_db", "store_bloom", "store_cache", "revoke_db", "revoke_cache",
                        "revoke_mark"} : Goto(s, step)
    BY Zenon, <1>3 DEF SessionStep, StoreRefreshToken, StoreRefreshToken_Db,
       StoreRefreshToken_Bloom, StoreRefreshToken_Cache, RevokeRefreshToken,
       RevokeRefreshToken_Check, RevokeRefreshToken_Db, RevokeRefreshToken_Cache,
       RevokeRefreshToken_Mark
  <2> QED
    BY Zenon, <1>1, <2>1, <2>2, SettledGoto, SettledDone
       DEF Steps, DbStep, Dropping, Resetting
<1> QED
  BY Zenon, <1>2, <1>3

LEMMA AccountRequest ==
  ASSUME Types, AccountInv, NEW s \in Thread,
         \/ CreateUser(s)
         \/ \E u \in User : DeleteUser(s, u) \/ ResetPassword(s, u) \/ CreateApiKey(s, u)
         \/ \E k \in Key : RevokeApiKey(s, k)
  PROVE  AccountInv'
<1>1. UNCHANGED <<users, dbUsers, failures>> /\ At(s, "idle")
  BY Zenon DEF CreateUser, DeleteUser, ResetPassword, CreateApiKey, RevokeApiKey, Start, db,
     caches, faults
<1>2. ASSUME CreateUser(s)
      PROVE  op' = [op EXCEPT ![s] = op'[s]] /\ op'[s].at = "create_db"
  BY Zenon, <1>2 DEF CreateUser, Idle, Types
<1>3. ASSUME NEW u, DeleteUser(s, u)
      PROVE  op' = [op EXCEPT ![s] = op'[s]] /\ op'[s].at = "delete_tokens"
  BY Zenon, <1>3 DEF DeleteUser, Idle, Types
<1>4. ASSUME NEW u, ResetPassword(s, u)
      PROVE  op' = [op EXCEPT ![s] = op'[s]] /\ op'[s].at = "reset_db"
  BY Zenon, <1>4 DEF ResetPassword, Idle, Types
<1>5. ASSUME NEW u, CreateApiKey(s, u)
      PROVE  op' = [op EXCEPT ![s] = op'[s]] /\ op'[s].at = "key_db"
  BY Zenon, <1>5 DEF CreateApiKey, Idle, Types
<1>6. ASSUME NEW k, RevokeApiKey(s, k)
      PROVE  op' = [op EXCEPT ![s] = op'[s]] /\ op'[s].at = "unkey_db"
  BY Zenon, <1>6 DEF RevokeApiKey, Idle, Types
<1> QED
  BY Zenon, <1>1, <1>2, <1>3, <1>4, <1>5, <1>6, SettledStart

\* The steps of an administrator's request that are not about the users.
LEMMA AccountKeys ==
  ASSUME Types, AccountInv, NEW s \in Thread, CreateApiKey_Store(s) \/ RevokeApiKey_Drop(s)
  PROVE  AccountInv'
<1>1. UNCHANGED <<users, dbUsers, failures>> /\ Settled(op[s])
  BY Zenon DEF CreateApiKey_Store, RevokeApiKey_Drop, At, Settled, Behind, Dropping, Resetting,
     faults
<1>2. \/ Done(s)
      \/ \E step \in {"key_bloom", "key_cache", "unkey_cache"} : Goto(s, step)
  BY Zenon DEF CreateApiKey_Store, RevokeApiKey_Drop
<1> QED
  BY Zenon, <1>1, <1>2, SettledGoto, SettledDone DEF Steps, DbStep, Dropping, Resetting

\* The only administrator's request has got from one step to the next.
LEMMA AdminMoves ==
  ASSUME OneAdmin, AccountInv, NEW s \in Admin, UNCHANGED failures,
         failures = 0 => IsTable(users') /\ IsTable(dbUsers') /\ Agree(op[s])'
  PROVE  AccountInv'
BY Zenon DEF AccountInv, OneAdmin

LEMMA AccountCreate ==
  ASSUME Types, OneAdmin, AccountInv, NEW s \in Admin, DbCreateUser(s) \/ CreateUser_Cache(s)
  PROVE  AccountInv'
<1>0. s \in Thread /\ UNCHANGED failures
  BY Zenon DEF Thread, DbCreateUser, CreateUser_Cache, faults
<1>1. SUFFICES ASSUME failures = 0
               PROVE  IsTable(users') /\ IsTable(dbUsers') /\ Agree(op[s])'
  BY Zenon, <1>0, AdminMoves
<1>2. IsTable(users) /\ IsTable(dbUsers) /\ Agree(op[s])
  BY Zenon, <1>1 DEF AccountInv
<1>3. IsUser(NewUser)
  BY DEF IsUser, NewUser
<1>4. CASE DbCreateUser(s)
  <2>1. /\ Goto(s, "create_cache") /\ dbUsers' = Insert(dbUsers, op[s].u, NewUser)
        /\ users' = users /\ op[s].at = "create_db"
    BY Zenon, <1>4 DEF DbCreateUser, caches, At
  <2>2. op'[s].at = "create_cache" /\ op'[s].u = op[s].u
    BY Zenon, <1>0, <2>1, GotoIs DEF Steps
  <2>3. users = dbUsers
    BY Zenon, <1>2, <2>1 DEF Agree, Behind, Dropping, Resetting
  <2>4. Agree(op[s])'
    BY Zenon, <2>1, <2>2, <2>3 DEF Agree, Behind, Dropping, Resetting
  <2> QED
    BY Zenon, <1>2, <1>3, <2>1, <2>4, InsertTable
<1>5. CASE CreateUser_Cache(s)
  <2>1. /\ Done(s) /\ users' = Insert(users, op[s].u, NewUser)
        /\ dbUsers' = dbUsers /\ op[s].at = "create_cache"
    BY Zenon, <1>5 DEF CreateUser_Cache, db, At
  <2>2. users' = dbUsers'
    BY Zenon, <1>2, <2>1 DEF Agree
  <2>3. op'[s].at = "idle"
    BY Zenon, <1>0, <2>1, DoneIs, IdleIs
  <2>4. Agree(op[s])'
    BY Zenon, <2>2, <2>3 DEF Agree, Dropping, Resetting
  <2> QED
    BY Zenon, <1>2, <2>1, <2>2, <2>4
<1> QED
  BY Zenon, <1>4, <1>5

LEMMA AccountUpdate ==
  ASSUME Types, OneAdmin, AccountInv, NEW s \in Admin,
         (\E u \in User, e \in BOOLEAN : UpdateUser(s, u, e)) \/ UpdateUser_Db(s)
           \/ UpdateUser_Cache(s)
  PROVE  AccountInv'
<1>0. s \in Thread /\ UNCHANGED failures
  BY Zenon DEF Thread, UpdateUser, UpdateUser_Db, UpdateUser_Cache, faults
<1>1. SUFFICES ASSUME failures = 0
               PROVE  IsTable(users') /\ IsTable(dbUsers') /\ Agree(op[s])'
  BY Zenon, <1>0, AdminMoves
<1>2. IsTable(users) /\ IsTable(dbUsers) /\ Agree(op[s])
  BY Zenon, <1>1 DEF AccountInv
<1>3. ASSUME NEW u \in User, NEW e \in BOOLEAN, UpdateUser(s, u, e)
      PROVE  IsTable(users') /\ IsTable(dbUsers') /\ Agree(op[s])'
  <2>1. /\ op[s].at = "idle" /\ u \in DOMAIN users /\ UNCHANGED <<users, dbUsers>>
        /\ op' = [op EXCEPT ![s] = [Idle EXCEPT !.at = "update_db", !.u = u,
                                                !.rec = [users[u] EXCEPT !.enabled = e]]]
    BY Zenon, <1>3 DEF UpdateUser, Start, At, db, caches
  <2>2. op'[s] = [at |-> "update_db", u |-> u, c |-> None, new |-> None, old |-> {},
                  rec |-> Changed(users[u], e)]
    BY Zenon, <1>0, <2>1 DEF Types, Idle, Changed
  <2>3. op'[s].at = "update_db" /\ op'[s].u = u /\ op'[s].rec = Changed(users[u], e)
    BY <2>2
  <2>4. users[u] = [enabled |-> users[u].enabled, pw |-> users[u].pw]
    BY Zenon, <1>2, <2>1 DEF IsTable, IsUser
  <2>5. op'[s].rec.enabled = e
    BY <2>3, <2>4 DEF Changed
  <2>6. users = dbUsers
    BY Zenon, <1>2, <2>1 DEF Agree, Behind, Dropping, Resetting
  <2>7. Agree(op[s])'
    BY Zenon, <2>1, <2>3, <2>5, <2>6 DEF Agree, Behind, Dropping, Resetting
  <2> QED
    BY Zenon, <1>2, <2>1, <2>7
<1>4. CASE UpdateUser_Db(s)
  <2>1. /\ Goto(s, "update_cache") /\ users' = users /\ op[s].at = "update_db"
        /\ dbUsers' = IF op[s].u \in DOMAIN dbUsers
                      THEN [dbUsers EXCEPT ![op[s].u].enabled = op[s].rec.enabled] ELSE dbUsers
    BY Zenon, <1>4 DEF UpdateUser_Db, caches, At
  <2>2. op'[s].at = "update_cache" /\ op'[s].u = op[s].u /\ op'[s].rec = op[s].rec
    BY Zenon, <1>0, <2>1, GotoIs DEF Steps
  <2>3. /\ users = dbUsers /\ op[s].u \in DOMAIN users
        /\ op[s].rec = Changed(users[op[s].u], op[s].rec.enabled)
    BY Zenon, <1>2, <2>1 DEF Agree, Behind, Dropping, Resetting
  <2>4. dbUsers' = Insert(users, op[s].u, op[s].rec) /\ IsUser(op[s].rec)
    <3>1. dbUsers' = ChangedIn(users, op[s].u, op[s].rec.enabled)
      BY Zenon, <2>1, <2>3 DEF ChangedIn
    <3> QED
      BY Zenon, <1>2, <2>3, <3>1, EnableTable
  <2>5. Agree(op[s])'
    BY Zenon, <2>1, <2>2, <2>4 DEF Agree, Behind, Dropping, Resetting
  <2>6. users' = users /\ IsTable(Insert(users, op[s].u, op[s].rec))
    BY Zenon, <1>2, <2>1, <2>4, InsertTable
  <2> QED
    BY Zenon, <1>2, <2>4, <2>5, <2>6
<1>5. CASE UpdateUser_Cache(s)
  <2>1. /\ Done(s) /\ users' = Insert(users, op[s].u, op[s].rec)
        /\ dbUsers' = dbUsers /\ op[s].at = "update_cache"
    BY Zenon, <1>5 DEF UpdateUser_Cache, db, At
  <2>2. users' = dbUsers'
    BY Zenon, <1>2, <2>1 DEF Agree
  <2>3. op'[s].at = "idle"
    BY Zenon, <1>0, <2>1, DoneIs, IdleIs
  <2>4. Agree(op[s])'
    BY Zenon, <2>2, <2>3 DEF Agree, Dropping, Resetting
  <2> QED
    BY Zenon, <1>2, <2>1, <2>2, <2>4
<1> QED
  BY Zenon, <1>3, <1>4, <1>5

LEMMA AccountDelete ==
  ASSUME Types, OneAdmin, AccountInv, NEW s \in Admin, DeleteUser_Db(s) \/ DeleteUser_Caches(s)
  PROVE  AccountInv'
<1>0. s \in Thread /\ UNCHANGED failures
  BY Zenon DEF Thread, DeleteUser_Db, DeleteUser_Caches, faults
<1>1. SUFFICES ASSUME failures = 0
               PROVE  IsTable(users') /\ IsTable(dbUsers') /\ Agree(op[s])'
  BY Zenon, <1>0, AdminMoves
<1>2. IsTable(users) /\ IsTable(dbUsers) /\ Agree(op[s])
  BY Zenon, <1>1 DEF AccountInv
<1>3. CASE op[s].at \in {"delete_tokens", "delete_keys"}
  <2>1. \E step \in {"delete_keys", "delete_user"} : Goto(s, step)
    BY Zenon, <1>3 DEF DeleteUser_Db, DeleteUser_Caches, At
  <2>2. UNCHANGED <<users, dbUsers>>
    BY Zenon, <1>3 DEF DeleteUser_Db, DeleteUser_Caches, At, caches
  <2>3. op'[s].at \in {"delete_keys", "delete_user"}
    BY Zenon, <1>0, <2>1, GotoIs DEF Steps, DbStep
  <2>4. Agree(op[s])'
    BY Zenon, <1>2, <1>3, <2>2, <2>3 DEF Agree, Behind, Dropping, Resetting
  <2> QED
    BY Zenon, <1>2, <2>2, <2>4
<1>4. CASE op[s].at = "delete_user"
  <2>1. Goto(s, "drop_tokens") /\ dbUsers' = Remove(dbUsers, {op[s].u}) /\ users' = users
    BY Zenon, <1>4 DEF DeleteUser_Db, DeleteUser_Caches, At, caches
  <2>2. op'[s].at = "drop_tokens" /\ op'[s].u = op[s].u
    BY Zenon, <1>0, <2>1, GotoIs DEF Steps
  <2>3. users = dbUsers
    BY Zenon, <1>2, <1>4 DEF Agree, Behind, Dropping, Resetting
  <2>4. Agree(op[s])'
    BY Zenon, <2>1, <2>2, <2>3 DEF Agree, Behind, Dropping, Resetting
  <2> QED
    BY Zenon, <1>2, <2>1, <2>4, RemoveTable
<1>5. CASE op[s].at \in {"drop_tokens", "drop_keys"}
  <2>1. \E step \in {"drop_keys", "drop_user"} : Goto(s, step)
    BY Zenon, <1>5 DEF DeleteUser_Db, DeleteUser_Caches, At
  <2>2. UNCHANGED <<users, dbUsers>>
    BY Zenon, <1>5 DEF DeleteUser_Db, DeleteUser_Caches, At, db
  <2>3. op'[s].at \in {"drop_keys", "drop_user"} /\ op'[s].u = op[s].u
    BY Zenon, <1>0, <2>1, GotoIs DEF Steps
  <2>4. Agree(op[s])'
    BY Zenon, <1>2, <1>5, <2>2, <2>3 DEF Agree, Behind, Dropping, Resetting
  <2> QED
    BY Zenon, <1>2, <2>2, <2>4
<1>6. CASE op[s].at = "drop_user"
  <2>1. Done(s) /\ users' = Remove(users, {op[s].u}) /\ dbUsers' = dbUsers
    BY Zenon, <1>6 DEF DeleteUser_Db, DeleteUser_Caches, At, db
  <2>2. users' = dbUsers'
    BY Zenon, <1>2, <1>6, <2>1 DEF Agree, Dropping
  <2>3. op'[s].at = "idle"
    BY Zenon, <1>0, <2>1, DoneIs, IdleIs
  <2>4. Agree(op[s])'
    BY Zenon, <2>2, <2>3 DEF Agree, Dropping, Resetting
  <2> QED
    BY Zenon, <1>2, <2>1, <2>2, <2>4
<1> QED
  BY Zenon, <1>3, <1>4, <1>5, <1>6 DEF DeleteUser_Db, DeleteUser_Caches, At

LEMMA AccountReset ==
  ASSUME Types, OneAdmin, AccountInv, NEW s \in Admin,
         ResetPassword_Db(s) \/ ResetPassword_Caches(s)
  PROVE  AccountInv'
<1>0. s \in Thread /\ UNCHANGED failures
  BY Zenon DEF Thread, ResetPassword_Db, ResetPassword_Caches, faults
<1>1. SUFFICES ASSUME failures = 0
               PROVE  IsTable(users') /\ IsTable(dbUsers') /\ Agree(op[s])'
  BY Zenon, <1>0, AdminMoves
<1>2. IsTable(users) /\ IsTable(dbUsers) /\ Agree(op[s])
  BY Zenon, <1>1 DEF AccountInv
<1>3. CASE op[s].at = "reset_db"
  <2>1. Goto(s, "reset_tokens") /\ dbUsers' = ResetIn(dbUsers, op[s].u, op[s].rec)
        /\ users' = users
    BY Zenon, <1>3 DEF ResetPassword_Db, ResetPassword_Caches, At, caches, ResetIn
  <2>2. op'[s].at = "reset_tokens" /\ op'[s].u = op[s].u /\ op'[s].rec = op[s].rec
    BY Zenon, <1>0, <2>1, GotoIs DEF Steps, DbStep
  <2>3. users = dbUsers
    BY Zenon, <1>2, <1>3 DEF Agree, Behind, Dropping, Resetting
  <2>4. Agree(op[s])'
    BY Zenon, <2>1, <2>2, <2>3 DEF Agree, Behind, Dropping, Resetting
  <2> QED
    BY Zenon, <1>2, <2>1, <2>4, ResetTable
<1>4. CASE op[s].at \in {"reset_tokens", "reset_cache"}
  <2>1. \E step \in {"reset_cache", "reset_user"} : Goto(s, step)
    BY Zenon, <1>4 DEF ResetPassword_Db, ResetPassword_Caches, At
  <2>2. UNCHANGED <<users, dbUsers>>
    BY Zenon, <1>4 DEF ResetPassword_Db, ResetPassword_Caches, At, caches, db
  <2>3. /\ op'[s].at \in {"reset_cache", "reset_user"}
        /\ op'[s].u = op[s].u /\ op'[s].rec = op[s].rec
    BY Zenon, <1>0, <2>1, GotoIs DEF Steps
  <2>4. Agree(op[s])'
    BY Zenon, <1>2, <1>4, <2>2, <2>3 DEF Agree, Behind, Dropping, Resetting
  <2> QED
    BY Zenon, <1>2, <2>2, <2>4
<1>5. CASE op[s].at = "reset_user"
  <2>1. Done(s) /\ users' = ResetIn(users, op[s].u, op[s].rec) /\ dbUsers' = dbUsers
    BY Zenon, <1>5 DEF ResetPassword_Db, ResetPassword_Caches, At, db, ResetIn
  <2>2. users' = dbUsers'
    BY Zenon, <1>2, <1>5, <2>1 DEF Agree, Resetting
  <2>3. op'[s].at = "idle"
    BY Zenon, <1>0, <2>1, DoneIs, IdleIs
  <2>4. Agree(op[s])'
    BY Zenon, <2>2, <2>3 DEF Agree, Dropping, Resetting
  <2> QED
    BY Zenon, <1>2, <2>1, <2>2, <2>4
<1> QED
  BY Zenon, <1>3, <1>4, <1>5 DEF ResetPassword_Db, ResetPassword_Caches, At

\* A failure, time, the collector, a restart.
LEMMA AccountOther ==
  ASSUME Types, AccountInv,
         \/ \E s \in Thread : StatementFails(s)
         \/ \E c \in Credential : Expire(c)
         \/ Gc \/ Restart \/ UNCHANGED vars
  PROVE  AccountInv'
<1>1. CASE \E s \in Thread : StatementFails(s)
  <2>1. failures \in Nat /\ failures' = failures + 1
    BY Zenon, <1>1 DEF AccountInv, StatementFails
  <2>2. failures' \in Nat /\ failures' # 0
    BY <2>1
  <2> QED
    BY Zenon, <2>2 DEF AccountInv
<1>2. CASE (\E c \in Credential : Expire(c)) \/ Gc \/ UNCHANGED vars
  <2>1. UNCHANGED <<users, dbUsers, failures, op>>
    BY Zenon, <1>2 DEF Expire, Gc, PurgeExpired, RebuildCache, vars, db, caches, faults
  <2> QED
    BY Zenon, <2>1, Elsewhere
<1>3. CASE Restart
  <2>1. users' = dbUsers' /\ UNCHANGED <<dbUsers, failures>> /\ op' = [s \in Thread |-> Idle]
    BY Zenon, <1>3 DEF Restart, LoadUsers, db, Thread
  <2>2. \A s \in Admin : op'[s].at = "idle"
    BY Zenon, <2>1, IdleIs DEF Thread
  <2>3. \A s \in Admin : Agree(op[s])'
    BY Zenon, <2>1, <2>2 DEF Agree, Dropping, Resetting
  <2> QED
    BY Zenon, <2>1, <2>3 DEF AccountInv
<1> QED
  BY Zenon, <1>1, <1>2, <1>3

LEMMA InitAccounts ==
  ASSUME Init
  PROVE  AccountInv
<1>1. PICK u : dbUsers = [x \in {u} |-> NewUser] /\ users = dbUsers
  BY Zenon DEF Init, NewUser
<1>2. IsUser(NewUser)
  BY DEF IsUser, NewUser
<1>3. IsTable(users) /\ IsTable(dbUsers)
  BY Zenon, <1>1, <1>2 DEF IsTable
<1>4. \A s \in Admin : op[s].at = "idle"
  BY Zenon, IdleIs DEF Init
<1>5. \A s \in Admin : Agree(op[s])
  BY Zenon, <1>1, <1>4 DEF Agree, Dropping, Resetting
<1>6. failures \in Nat
  BY DEF Init
<1> QED
  BY Zenon, <1>3, <1>5, <1>6 DEF AccountInv

LEMMA NextAccounts ==
  ASSUME Types, OneAdmin, AccountInv, [Next]_vars
  PROVE  AccountInv'
<1>1. ASSUME NEW s \in Session, SessionRequest(s) \/ SessionStep(s)
      PROVE  AccountInv'
  BY Zenon, <1>1, AccountSession DEF Thread
<1>2. ASSUME NEW s \in Admin, AdminRequest(s)
      PROVE  AccountInv'
  BY Zenon, <1>2, AccountRequest, AccountUpdate DEF AdminRequest, Thread
<1>3. ASSUME NEW s \in Admin, AdminStep(s)
      PROVE  AccountInv'
  BY Zenon, <1>3, AccountCreate, AccountUpdate, AccountDelete, AccountReset, AccountKeys
     DEF AdminStep, Thread
<1> QED
  BY Zenon, <1>1, <1>2, <1>3, AccountOther DEF Next, Thread
-----------------------------------------------------------------------------
INSTANCE FiniteSetTheorems

\* With one administrator and no failed statement, the cached users are the users of the
\* table whenever that administrator has no request in progress, whatever the sessions, the
\* collector and restarts do meanwhile.
THEOREM AccountsAgree ==
  ASSUME Ids, IsFiniteSet(Admin)
  PROVE  Spec => []UsersAgree
<1>1. CASE Cardinality(Admin) # 1
  <2>1. UsersAgree
    BY Zenon, <1>1 DEF UsersAgree
  <2> QED
    BY <2>1, PTL
<1>2. CASE Cardinality(Admin) = 1
  <2>1. PICK a : Admin = {a}
    BY Zenon, <1>2, FS_Singleton
  <2>2. OneAdmin /\ a \in Admin
    BY Zenon, <2>1 DEF OneAdmin
  <2>3. Init => EndInv /\ AccountInv
    BY Zenon, InitEnds, InitAccounts
  <2>4. EndInv /\ AccountInv /\ [Next]_vars => EndInv' /\ AccountInv'
    BY Zenon, <2>2, NextEnds, NextAccounts DEF EndInv
  <2>5. AccountInv => UsersAgree
    BY Zenon, <2>2 DEF AccountInv, UsersAgree, Agree, Behind, Dropping, Resetting, At
  <2> QED
    BY <2>3, <2>4, <2>5, PTL DEF Spec
<1> QED
  BY <1>1, <1>2
=============================================================================

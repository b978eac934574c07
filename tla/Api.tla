--------------------------------- MODULE Api ---------------------------------
(***************************************************************************)
(* The wire contract between the client libraries and the server.  One     *)
(* call goes through the client's validation and its request (ApiClients), *)
(* the server's middleware, request types and handlers, and back through   *)
(* the client's decoding.                                                  *)
(***************************************************************************)
EXTENDS ApiClients, FiniteSets

CONSTANTS
  Plain, Arguments,       \* ordinary arguments, and others to try as an administrator
  Administrator, Callers, \* credential, mode and role of an administrator, and of others
  CallerArguments(_)      \* the arguments the others try with a method

VARIABLES
  call,       \* the call in progress
  at,         \* the step it is at
  request,    \* what the client sends: route and fields
  role,       \* of the authenticated user, or "none"
  answer,     \* the server's: what went wrong, the status, the body, what the handler changed
  outcome     \* what the caller sees

vars == <<call, at, request, role, answer, outcome>>
-----------------------------------------------------------------------------
(* The server's routes and the role each needs *)

PublicRoutes == {<<"GET", "/health">>, <<"GET", "/metrics">>, <<"POST", "/v1/auth/login">>}

ReaderRoutes ==
  ({"POST"} \X {"/v1/query", "/v1/query/stream", "/v1/memory/recall",
                "/v1/memory/recall-recent", "/v1/memory/recall-by-type",
                "/v1/memory/entity-history", "/v1/graph/expand", "/v1/rag/query",
                "/v1/auth/refresh", "/v1/auth/logout"})
  \cup ({"GET"} \X {"/v1/subscribe", "/v1/snapshots", "/v1/auth/me"})

WriterRoutes ==
  {"POST"} \X {"/v1/memory/store", "/v1/memory/store-batch", "/v1/memory/forget",
               "/v1/memory/decay", "/v1/memory/consolidate", "/v1/graph/associate"}

AdminRoutes ==
  ({"POST"} \X {"/v1/admin/checkpoint", "/v1/admin/vacuum", "/v1/admin/users",
                "/v1/admin/users/{id}", "/v1/admin/users/{id}/reset-password",
                "/v1/admin/users/{id}/keys"})
  \cup ({"GET"} \X {"/v1/admin/users", "/v1/admin/users/{id}/keys"})
  \cup ({"DELETE"} \X {"/v1/admin/users/{id}", "/v1/admin/users/{id}/keys/{key}"})

Routes == PublicRoutes \cup ReaderRoutes \cup WriterRoutes \cup AdminRoutes

Rank(r) == CASE r = "none" -> 0 [] r = "reader" -> 1 [] r = "writer" -> 2 [] r = "admin" -> 3

RequiredRole_WriterAsReader(route) ==
  CASE route \in ReaderRoutes \cup WriterRoutes -> "reader"
    [] route \in AdminRoutes -> "admin" [] OTHER -> "none"

RequiredRole(route) ==
  CASE route \in ReaderRoutes -> "reader" [] route \in WriterRoutes -> "writer"
    [] route \in AdminRoutes -> "admin" [] OTHER -> "none"

\* auth_middleware: the user's role, or "refused".
AuthMiddleware(route, c) ==
  IF route[2] \in {r[2] : r \in PublicRoutes} THEN "none" ELSE
  CASE c.mode = "none" -> "admin"
    [] c.mode = "token" -> IF c.credential = "static" THEN "admin" ELSE "refused"
    [] c.mode = "jwt" -> IF c.credential \in {"access", "api_key"} THEN c.role ELSE "refused"
-----------------------------------------------------------------------------
(* The request types: the fields a body must hold, and the ones that are read as well *)

QueryRequest == [must |-> {"query"}, may |-> {"params", "snapshotTs", "snapshot", "timeoutMs"}]
StoreRequest == [must |-> {"id", "content"},
                 may |-> {"entityType", "metadata", "embedding"} \cup Stamps]
StoreBatchRequest == [must |-> {"entities"} \cup StoreRequest.must, may |-> StoreRequest.may]
RecallRequest == [must |-> {}, may |-> {"query", "embedding", "topK"}]
RecallRecentRequest == [must |-> {}, may |-> {"topK"}]
RecallByTypeRequest == [must |-> {"entityType"}, may |-> {"topK"}]
ForgetRequest == [must |-> {"id"}, may |-> {}]
AssociateRequest == [must |-> {"srcId", "dstId", "relType"}, may |-> {"weight"}]
ExpandRequest == [must |-> {"entityId"}, may |-> {"hops", "edgeTypes"}]
RagRequest == [must |-> {"query"}, may |-> {"embedding", "topK"} \cup Weights]
EntityHistoryRequest == [must |-> {"id"}, may |-> {}]
ConsolidateRequest == [must |-> {}, may |-> Thresholds \cup {"includeDetails"}]
LoginRequest == [must |-> {"username", "password"}, may |-> {}]
RefreshTokenRequest == [must |-> {"refreshToken"}, may |-> {}]
LogoutRequest == [must |-> {"refreshToken"}, may |-> {}]
CreateUserRequest == [must |-> {"username", "password"}, may |-> {"role"}]
UpdateUserRequest == [must |-> {}, may |-> {"role", "enabled"}]
ResetPasswordRequest == [must |-> {"password"}, may |-> {}]
CreateApiKeyRequest == [must |-> {"name"}, may |-> {"roleOverride", "expiresAt"}]
NoRequest == [must |-> {}, may |-> {}]

RequestType(route) ==
  IF route[1] # "POST" THEN NoRequest ELSE
  CASE route[2] \in {"/v1/query", "/v1/query/stream"} -> QueryRequest
    [] route[2] = "/v1/memory/store" -> StoreRequest
    [] route[2] = "/v1/memory/store-batch" -> StoreBatchRequest
    [] route[2] = "/v1/memory/recall" -> RecallRequest
    [] route[2] = "/v1/memory/recall-recent" -> RecallRecentRequest
    [] route[2] = "/v1/memory/recall-by-type" -> RecallByTypeRequest
    [] route[2] = "/v1/memory/forget" -> ForgetRequest
    [] route[2] = "/v1/graph/associate" -> AssociateRequest
    [] route[2] = "/v1/graph/expand" -> ExpandRequest
    [] route[2] = "/v1/rag/query" -> RagRequest
    [] route[2] = "/v1/memory/entity-history" -> EntityHistoryRequest
    [] route[2] = "/v1/memory/consolidate" -> ConsolidateRequest
    [] route[2] = "/v1/auth/login" -> LoginRequest
    [] route[2] = "/v1/auth/refresh" -> RefreshTokenRequest
    [] route[2] = "/v1/auth/logout" -> LogoutRequest
    [] route[2] = "/v1/admin/users" -> CreateUserRequest
    [] route[2] = "/v1/admin/users/{id}" -> UpdateUserRequest
    [] route[2] = "/v1/admin/users/{id}/reset-password" -> ResetPasswordRequest
    [] route[2] = "/v1/admin/users/{id}/keys" -> CreateApiKeyRequest
    [] OTHER -> NoRequest
-----------------------------------------------------------------------------
(* The handlers.  r is what the store, the database or the user store answers. *)

DbCodes == {"not_found", "already_exists", "syntax_error", "query_error", "config_error",
            "internal", "database", "io_error"}

DbStatus(code) ==
  CASE code = "not_found" -> 404 [] code = "already_exists" -> 409
    [] code \in {"syntax_error", "query_error", "config_error"} -> 400
    [] code = "database" -> 503 [] OTHER -> 500

AppStatus(error) ==
  CASE error = "bad_request" -> 400 [] error = "timeout" -> 408 [] error = "unauthorized" -> 401
    [] error = "forbidden" -> 403 [] error = "too_many_requests" -> 429 [] OTHER -> 500

Ok(data) ==
  [error |-> "none", status |-> 200, wrapped |-> TRUE, fields |-> data, change |-> "none"]
Refused(error, code) ==
  [error |-> error, status |-> code, wrapped |-> FALSE, fields |-> {}, change |-> "none"]
Error(e) == Refused(e, AppStatus(e))
FromDb(r, data) == IF r = "ok" THEN Ok(data) ELSE Refused("db", DbStatus(r))
\* The user store's errors are strings, answered as bad requests.
FromUsers(r, data) == IF r = "ok" THEN Ok(data) ELSE Refused("users", 400)
Validated(valid, answered) == IF valid THEN answered ELSE Error("bad_request")
\* What a successful handler changed: rows, tables, files (a checkpoint or VACUUM), accounts
\* or the caller's session.
Changing(what, ans) == IF ans.status = 200 THEN [ans EXCEPT !.change = what] ELSE ans

EntityItem == {"id", "type", "content", "metadata", "createdAt", "lastAccessed",
               "accessCount", "ttlSeconds", "validFrom", "validUntil"}
ApiKeyItem == {"id", "name", "prefix", "createdAt", "expiresAt", "revoked"}
UserListItem == {"id", "username", "role", "enabled", "createdAt", "lastLogin"}

StoreValidate(a) == Within(a.id, 1, 4096) /\ a.content <= 1000000
StoreHandler(c, r) == Validated(StoreValidate(c.a), Changing("rows", FromDb(r, {})))
StoreBatchHandler(c, r) ==
  Validated(StoreValidate(c.a), Changing("rows", FromDb(r, {"stored"})))

RecallHandler(c, r) ==
  Validated(Within(c.a.topK, 1, 10000),
            FromDb(r, {"results", "id", "content", "type", "score", "metadata"}))
RecallRecentHandler(c, r) == FromDb(r, {"entities"} \cup EntityItem)
RecallByTypeHandler(c, r) == FromDb(r, {"entities"} \cup EntityItem)
ForgetHandler(c, r) == Changing("rows", FromDb(r, {"deleted"}))
DecayHandler(c, r) == Changing("rows", FromDb(r, {"expired"}))
EntityHistoryHandler(c, r) == FromDb(r, {"versions"} \cup EntityItem)

ConsolidateHandler(c, r) ==
  LET given == request.fields \cap Thresholds
      details == "includeDetails" \in request.fields /\ "includeDetails" \in c.a.opts
  IN Validated(given \in {{}, Thresholds},
               Changing("rows", FromDb(r,
                 {"linksCreated", "contradictionsFound", "totalEntities", "warnings"}
                   \cup (IF details THEN {"links", "sourceId", "relType"} ELSE {}))))

AssociateHandler(c, r) == Changing("rows", FromDb(r, {}))
ExpandHandler(c, r) == Validated(Within(c.a.hops, 1, 20), FromDb(r, {"entities"} \cup EntityItem))

RagValidate(c) ==
  /\ Within(c.a.topK, 1, 1000)
  /\ "expansionDepth" \in request.fields => c.a.depth <= 10
  /\ "maxTokens" \in request.fields => c.a.tokens <= 1000000
RagQueryHandler(c, r) ==
  Validated(RagValidate(c),
            FromDb(r, {"context", "sources", "totalSources", "warnings", "id", "score", "type",
                       "excerpt"}))

\* validate_no_auth_table_access: a statement that names an authentication table fails
\* before it runs.
Ran_AnyTable(c, r) == r
Ran(c, r) == IF c.a.statement = "accounts" THEN "query_error" ELSE r

\* What a statement that runs to its end changes, whoever sent it: the role is not looked at
\* again.  Rows are the transaction's to publish; tables and files change in place.
Effect(c, publishes) ==
  CASE c.a.statement = "read" -> "none"
    [] c.a.statement \in {"rows", "accounts"} -> IF publishes THEN c.a.statement ELSE "none"
    [] OTHER -> c.a.statement

\* execute_at runs in a read-only transaction, whose commit publishes nothing.
AtSnapshot == request.fields \cap {"snapshotTs", "snapshot"} # {}

QueryHandler_SnakeCase(c, r) ==
  LET ran == Ran(c, r) IN
  CASE ran = "timeout" -> Error("timeout") [] ran = "panic" -> Error("internal")
    [] ran = "late" -> [Error("timeout") EXCEPT !.change = Effect(c, ~AtSnapshot)]
    [] OTHER -> Changing(Effect(c, ~AtSnapshot), FromDb(ran, {"columns", "rows", "num_rows"}))

\* "late": the request times out, and its thread still completes the statement.
QueryHandler(c, r) ==
  LET ran == Ran(c, r) IN
  CASE ran = "timeout" -> Error("timeout") [] ran = "panic" -> Error("internal")
    [] ran = "late" -> [Error("timeout") EXCEPT !.change = Effect(c, ~AtSnapshot)]
    [] OTHER -> Changing(Effect(c, ~AtSnapshot), FromDb(ran, {"columns", "rows", "numRows"}))

\* A stream's errors are events in it.  execute_stream does not commit: the rows of its
\* transaction are rolled back when it is dropped.
QueryStreamHandler(c, r) ==
  IF Ran(c, r) = "ok" THEN Changing(Effect(c, FALSE), Ok({"done"})) ELSE Ok({"done"})
SubscribeHandler(c, r) == FromDb(r, {"timestamp", "bytesWritten", "totalWalBytes", "entityId",
                                     "operationType"})
SnapshotsHandler(c, r) == Ok({"snapshots", "ts", "iso", "ageDays", "label"})

CheckpointHandler(c, r) == Validated(~c.readOnly, Changing("files", FromDb(r, {})))
VacuumHandler(c, r) == Validated(~c.readOnly, Changing("files", FromDb(r, {})))
MetricsHandler(c, r) == [Ok({"text"}) EXCEPT !.wrapped = FALSE]
HealthHandler(c, r) == [Ok({"status", "version", "database"}) EXCEPT !.wrapped = FALSE]

Session == {"accessToken", "refreshToken", "expiresIn"}
LoginHandler(c, r) ==
  IF c.mode # "jwt" THEN Error("unauthorized")
  ELSE IF c.a.name = 0 \/ c.a.password = 0 THEN Error("bad_request")
  ELSE CASE r = "refused" -> Error("unauthorized") [] r = "locked" -> Error("too_many_requests")
         [] OTHER -> Changing("session", Ok(Session))
RefreshHandler(c, r) ==
  IF c.mode # "jwt" \/ r = "refused" THEN Error("unauthorized")
  ELSE Changing("session", Ok(Session))
LogoutHandler(c, r) ==
  IF c.mode # "jwt" THEN Error("unauthorized") ELSE Changing("session", Ok({}))
MeHandler(c, r) == Ok({"userId", "username", "role"})

\* Role::from_str: these names, in lower case.
RoleNames == {"reader", "read", "writer", "write", "admin", "administrator"}
RoleParses(c, field) == field \in request.fields => c.a.role \in RoleNames

ListUsersHandler(c, r) == Ok({"users"} \cup UserListItem)
CreateUserHandler(c, r) ==
  Validated(c.a.name > 0 /\ c.a.password >= 8 /\ RoleParses(c, "role"),
            Changing("accounts", FromUsers(r, {"id"})))
\* An administrator neither disables, demotes nor deletes themselves.
KeepsAdmin(c) ==
  /\ "enabled" \in request.fields => c.a.enabled
  /\ "role" \in request.fields => c.a.role \in {"admin", "administrator"}
UpdateUserHandler(c, r) ==
  Validated(RoleParses(c, "role") /\ (c.self => KeepsAdmin(c)),
            Changing("accounts", FromUsers(r, {})))
DeleteUserHandler(c, r) == Validated(~c.self, Changing("accounts", FromUsers(r, {})))
ResetPasswordHandler(c, r) ==
  Validated(c.a.password >= 8, Changing("accounts", FromUsers(r, {})))
ListApiKeysHandler(c, r) == Ok({"keys"} \cup ApiKeyItem)
CreateApiKeyHandler(c, r) ==
  Validated(c.a.name > 0 /\ RoleParses(c, "roleOverride"),
            Changing("accounts", FromUsers(r, {"id", "key"})))
DeleteApiKeyHandler(c, r) == Changing("accounts", FromUsers(r, {}))

HandlerOf(route, c, r) ==
  CASE route[2] = "/v1/memory/store" -> StoreHandler(c, r)
    [] route[2] = "/v1/memory/store-batch" -> StoreBatchHandler(c, r)
    [] route[2] = "/v1/memory/recall" -> RecallHandler(c, r)
    [] route[2] = "/v1/memory/recall-recent" -> RecallRecentHandler(c, r)
    [] route[2] = "/v1/memory/recall-by-type" -> RecallByTypeHandler(c, r)
    [] route[2] = "/v1/memory/forget" -> ForgetHandler(c, r)
    [] route[2] = "/v1/memory/decay" -> DecayHandler(c, r)
    [] route[2] = "/v1/memory/entity-history" -> EntityHistoryHandler(c, r)
    [] route[2] = "/v1/memory/consolidate" -> ConsolidateHandler(c, r)
    [] route[2] = "/v1/graph/associate" -> AssociateHandler(c, r)
    [] route[2] = "/v1/graph/expand" -> ExpandHandler(c, r)
    [] route[2] = "/v1/rag/query" -> RagQueryHandler(c, r)
    [] route[2] = "/v1/query" -> QueryHandler(c, r)
    [] route[2] = "/v1/query/stream" -> QueryStreamHandler(c, r)
    [] route[2] = "/v1/subscribe" -> SubscribeHandler(c, r)
    [] route[2] = "/v1/snapshots" -> SnapshotsHandler(c, r)
    [] route[2] = "/v1/admin/checkpoint" -> CheckpointHandler(c, r)
    [] route[2] = "/v1/admin/vacuum" -> VacuumHandler(c, r)
    [] route[2] = "/metrics" -> MetricsHandler(c, r)
    [] route[2] = "/health" -> HealthHandler(c, r)
    [] route[2] = "/v1/auth/login" -> LoginHandler(c, r)
    [] route[2] = "/v1/auth/refresh" -> RefreshHandler(c, r)
    [] route[2] = "/v1/auth/logout" -> LogoutHandler(c, r)
    [] route[2] = "/v1/auth/me" -> MeHandler(c, r)
    [] route = <<"GET", "/v1/admin/users">> -> ListUsersHandler(c, r)
    [] route = <<"POST", "/v1/admin/users">> -> CreateUserHandler(c, r)
    [] route = <<"POST", "/v1/admin/users/{id}">> -> UpdateUserHandler(c, r)
    [] route = <<"DELETE", "/v1/admin/users/{id}">> -> DeleteUserHandler(c, r)
    [] route[2] = "/v1/admin/users/{id}/reset-password" -> ResetPasswordHandler(c, r)
    [] route = <<"GET", "/v1/admin/users/{id}/keys">> -> ListApiKeysHandler(c, r)
    [] route = <<"POST", "/v1/admin/users/{id}/keys">> -> CreateApiKeyHandler(c, r)
    [] OTHER -> DeleteApiKeyHandler(c, r)

\* What may be answered to the handler of a route.
Results(route) ==
  CASE route \in AdminRoutes /\ route[2] \notin {"/v1/admin/checkpoint", "/v1/admin/vacuum"} ->
         {"ok", "refused"}
    [] route[2] = "/v1/auth/login" -> {"ok", "refused", "locked"}
    [] route[2] = "/v1/auth/refresh" -> {IF call.refreshGood THEN "ok" ELSE "refused"}
    [] route[2] = "/v1/query" -> {"ok", "timeout", "late", "panic"} \cup DbCodes
    [] OTHER -> {"ok"} \cup DbCodes
-----------------------------------------------------------------------------
(* Decoding: the fields of the answer a client cannot do without *)

RustNeeds(m) ==
  CASE m \in {"login", "login_with_api_key"} -> Session
    [] m = "refresh" -> {"accessToken", "expiresIn"}
    [] m = "me" -> {"userId", "username", "role"}
    [] m = "list_users" -> {"users", "userId", "username", "role"}
    [] m \in {"create_user", "update_user"} -> {"userId", "username", "role"}
    [] m = "list_api_keys" -> {"keys", "id", "label", "prefix", "createdAt"}
    [] m = "create_api_key" -> {"id", "label", "key", "createdAt"}
    [] m = "store_batch" -> {"stored"}
    [] m = "recall" -> {"results", "id", "content", "type", "score", "metadata"}
    [] m \in {"recall_recent", "recall_by_type", "expand"} -> {"entities"} \cup EntityItem
    [] m = "entity_history" -> {"versions"} \cup EntityItem
    [] m = "forget" -> {"deleted"}
    [] m = "decay" -> {"expired"}
    [] m = "consolidate" -> {"linksCreated", "contradictionsFound", "totalEntities"}
    [] m = "rag_query" -> {"context", "sources", "totalSources", "id", "score", "type",
                           "excerpt"}
    [] m = "query" -> {"columns", "rows", "numRows"}
    [] m = "snapshots" -> {"snapshots", "ts", "iso", "ageDays", "label"}
    [] OTHER -> {}

PyNeeds(m) ==
  CASE m = "login" -> {"accessToken", "refreshToken"}
    [] m = "store_batch" -> {"stored"}
    [] m = "recall" -> {"results"}
    [] m \in {"recall_recent", "recall_by_type", "expand"} -> {"entities"}
    [] m = "entity_history" -> {"versions"}
    [] m = "forget" -> {"deleted"}
    [] m = "decay" -> {"expired"}
    [] m = "consolidate" -> {"linksCreated", "contradictionsFound", "totalEntities"}
    [] m = "rag_query" -> {"context", "sources", "totalSources"}
    [] OTHER -> {}

\* json.Unmarshal of a missing "data" fails; a missing field keeps its zero value.
GoDecodes(m, ans) == ans.wrapped \/ "text" \in ans.fields

\* LinkDetail(**l) takes source_id, not sourceId.
PyDecodes(m, ans) == PyNeeds(m) \subseteq ans.fields /\ "sourceId" \notin ans.fields

Decodes(client, m, ans) ==
  CASE client \in {"rust", "rust_blocking"} -> RustNeeds(m) \subseteq ans.fields
    [] client = "go" -> GoDecodes(m, ans)
    [] client = "ts" -> TRUE
    [] OTHER -> PyDecodes(m, ans)
-----------------------------------------------------------------------------
(* A call *)

NoAnswer == Refused("none", 0)

Clients == {"rust", "rust_blocking", "go", "ts", "python", "python_async"}
Call(client, m, a, who) == [client |-> client, method |-> m, a |-> a] @@ who

Calls(client, m) ==
  {Call(client, m, a, Administrator) : a \in Arguments}
    \cup {Call(client, m, a, who) : a \in CallerArguments(m), who \in Callers}

Init ==
  /\ \E client \in Clients : \E m \in DOMAIN Methods(client, Plain) : call \in Calls(client, m)
  /\ at = "client"
  /\ request = Invalid
  /\ role = "none"
  /\ answer = NoAnswer
  /\ outcome = "none"

Continue(step) == at' = step /\ UNCHANGED <<answer, outcome>>
Answer(ans) == at' = "answered" /\ answer' = ans /\ UNCHANGED outcome

Request ==
  /\ at = "client"
  /\ LET r == Methods(call.client, call.a)[call.method]
     IN IF r = Invalid
        THEN at' = "done" /\ outcome' = "invalid" /\ UNCHANGED <<request, answer>>
        ELSE request' = r /\ Continue("layers")
  /\ UNCHANGED <<call, role>>

BodySize == IF "content" \in request.fields THEN call.a.content * call.a.batch ELSE 0

\* The body limit of the outermost layers, then authentication; an unknown route gets
\* through both.
Layers ==
  /\ at = "layers"
  /\ IF BodySize > 10 * 1024 * 1024
     THEN Answer(Refused("too_large", 413)) /\ UNCHANGED role
     ELSE LET who == AuthMiddleware(request.route, call)
          IN IF who = "refused"
             THEN Answer(Error("unauthorized")) /\ UNCHANGED role
             ELSE role' = who /\ Continue("role")
  /\ UNCHANGED <<call, request>>

CheckRole ==
  /\ at = "role"
  /\ IF request.route \notin Routes THEN Answer(Refused("no_route", 404))
     ELSE IF Rank(role) < Rank(RequiredRole(request.route)) THEN Answer(Error("forbidden"))
     ELSE Continue("extract")
  /\ UNCHANGED <<call, request, role>>

\* axum's Json: at most 2 MB, and every field the type requires.
Extract ==
  /\ at = "extract"
  /\ IF BodySize > 2 * 1024 * 1024 THEN Answer(Refused("too_large", 413))
     ELSE IF ~(RequestType(request.route).must \subseteq request.fields)
     THEN Answer(Refused("missing", 422))
     ELSE Continue("handle")
  /\ UNCHANGED <<call, request, role>>

Handle ==
  /\ at = "handle"
  /\ \E r \in Results(request.route) : Answer(HandlerOf(request.route, call, r))
  /\ UNCHANGED <<call, request, role>>

Decode ==
  /\ at = "answered"
  /\ at' = "done"
  /\ outcome' = IF answer.status # 200 THEN "error"
                ELSE IF Decodes(call.client, call.method, answer) THEN "ok" ELSE "undecodable"
  /\ UNCHANGED <<call, request, role, answer>>

Next == Request \/ Layers \/ CheckRole \/ Extract \/ Handle \/ Decode

Spec == Init /\ [][Next]_vars
-----------------------------------------------------------------------------
(* The Rust calls whose request the server cannot read: login_with_api_key sends apiKey,
   logout no refresh token, reset_password newPassword and create_api_key a label. *)
Misnamed == {"login_with_api_key", "logout", "reset_password", "create_api_key"}

(* Arguments a client lets through and the server does not: contents above 1,000,000 bytes
   or batches above its body limit, some but not all of the consolidation thresholds,
   expansion depths and token budgets, empty user names and short or empty passwords, roles
   under another name than Role::from_str knows (among them "Reader" and "Writer", which
   src/README.md:172 and 178 send), an administrator who demotes or deletes themselves,
   and maintenance of a read-only server. *)
Unchecked(c) ==
  \/ c.client \notin {"rust", "rust_blocking"} /\ c.a.content > 1000000
  \/ c.a.content * c.a.batch > 2 * 1024 * 1024
  \/ c.method = "store_batch" /\ ~Within(c.a.id, 1, 4096)
  \/ Given(c.a, Thresholds) \notin {{}, Thresholds}
  \/ c.a.depth > 10 \/ c.a.tokens > 1000000
  \/ c.method \in {"login", "create_user"} /\ c.a.name = 0
  \/ c.method = "login" /\ c.a.password = 0
  \/ c.method = "create_user" /\ c.a.password < 8
  \/ c.method \in {"create_user", "update_user"} /\ c.a.role \notin RoleNames
  \/ c.method = "update_user" /\ c.self /\ c.a.role \notin {"admin", "administrator"}
  \/ c.method = "delete_user" /\ c.self
  \/ c.method \in {"checkpoint", "vacuum"} /\ c.readOnly

(* What the clients' validation promises: apart from the calls and arguments named above, a
   request that a client lets through is one the server routes, reads and accepts, whatever
   the database answers.  The four libraries and the server each have limits of their own. *)
AcceptedByServer ==
  answer.error \in {"bad_request", "missing", "too_large", "no_route"} =>
    call.method \in Misnamed \/ Unchecked(call)

(* An optional argument reaches the server: it is sent under a name the request type reads.
   The Rust client's snapshot selectors and the user name and password of its update_user
   are sent under names the server ignores, and so are silently without effect. *)
OptionsReachServer ==
  at = "handle" =>
    \/ request.fields \subseteq RequestType(request.route).must \cup RequestType(request.route).may
    \/ call.client \in {"rust", "rust_blocking"} /\ call.method \in {"query", "query_stream", "update_user"}

(* No request is served for a role below the one its route is guarded with, however it was
   authenticated, and without valid credentials only /health, /metrics and the login answer.
   What is changed is changed for the role it takes: accounts by an administrator through the
   administration routes, rows by a writer, files by an administrator.  The query routes are
   the exception: guarded for readers, they run any statement of the language, so that a
   reader changes rows and tables and starts checkpoints through them; the statements that
   name an authentication table are the only ones refused there. *)
RoleEnforced ==
  /\ answer.status = 200 =>
       \/ request.route \in PublicRoutes
       \/ /\ Rank(role) >= Rank(RequiredRole(request.route))
          /\ call.mode = "jwt" =>
               call.credential \in {"access", "api_key"} /\ Rank(call.role) >= Rank(role)
          /\ call.mode = "token" => call.credential = "static"
  /\ answer.change = "accounts" => role = "admin" /\ request.route \in AdminRoutes
  /\ answer.change # "none" => role # "none" \/ answer.change = "session"
  /\ request.route[2] \notin {"/v1/query", "/v1/query/stream"} =>
       /\ answer.change \in {"rows", "tables"} => Rank(role) >= Rank("writer")
       /\ answer.change = "files" => role = "admin"

(* The answers the Rust client cannot read (ids under other names, nothing where a user is
   expected), Go's Health (which has no "data") and the details of Python's consolidate. *)
Unreadable(c) ==
  \/ c.client = "rust" /\ c.method \in {"list_users", "create_user", "update_user",
                                       "list_api_keys", "create_api_key"}
  \/ c.client = "go" /\ c.method = "health"
  \/ c.client \in {"python", "python_async"} /\ c.method = "consolidate"
       /\ "includeDetails" \in c.a.opts

(* Apart from those, what was done on the server is reported as done: a successful answer has
   every field the client's types need, under the name the client expects. *)
Decodable == outcome = "undecodable" => Unreadable(call)
=============================================================================

----------------------------- MODULE ApiClients -----------------------------
(***************************************************************************)
(* The client libraries' side of a call: what the Rust, Go, TypeScript and *)
(* Python clients validate and which request each method sends.  A string  *)
(* is its length, a body the set of the fields it holds, a route its verb  *)
(* and path.                                                               *)
(***************************************************************************)
EXTENDS Naturals, TLC

\* Arguments of a call: lengths and numbers, and the optional arguments that are given.
Given(a, S) == a.opts \cap S
Stamps == {"ttlSeconds", "createdAt", "lastAccessed", "accessCount", "validFrom",
           "validUntil"}
Thresholds == {"similarityThreshold", "contradictionJaccardMax", "contradictionCosineMin",
               "contradictionLengthSimMin", "maxComparisonsPerEntity"}
Weights == {"expansionDepth", "searchWeight", "recencyWeight", "degreeWeight", "maxTokens"}
Selectors == {"iso", "relative", "label"}

None == <<"", "">>
Invalid == [route |-> None, fields |-> {}]
Post(path, body) == [route |-> <<"POST", path>>, fields |-> body]
Get(path) == [route |-> <<"GET", path>>, fields |-> {}]
Delete(path) == [route |-> <<"DELETE", path>>, fields |-> {}]
Checked(valid, r) == IF valid THEN r ELSE Invalid
-----------------------------------------------------------------------------
(* Validation.  max_top_k and max_batch_entities have their default, 1000. *)

Within(n, low, high) == low <= n /\ n <= high
EmbeddingOk(a, dim) == "embedding" \in a.opts => Within(a.embedding, 1, dim)

RustId(n) == Within(n, 1, 512)
RustContent(n) == Within(n, 1, 1000000)
RustType(n) == Within(n, 1, 128)
RustTopK(n) == Within(n, 1, 1000)
RustBatch(n) == Within(n, 1, 1000)
RustEmbedding(a) == EmbeddingOk(a, 8192)
RustQueryString(n) == Within(n, 1, 100000)
RustHops(n) == Within(n, 1, 10)

GoId(n) == Within(n, 1, 1024)
GoContent(n) == n <= 10 * 1024 * 1024
GoType(n) == Within(n, 1, 256)
GoEmbedding(a) == EmbeddingOk(a, 16384)
GoTopK(n) == Within(n, 1, 1000)
GoHops(n) == Within(n, 1, 10)
GoQueryString(n) == n <= 100000
\* "" is not JSON.
GoMetadata(n) == Within(n, 1, 1024 * 1024)
GoStoreParams(a) ==
  /\ GoId(a.id) /\ GoContent(a.content)
  /\ GoType(a.type) /\ GoMetadata(a.meta) /\ GoEmbedding(a)

TsId(n) == Within(n, 1, 1024)
TsContent(n) == n <= 10 * 1024 * 1024
TsType(n) == Within(n, 1, 256)
TsEmbedding(a) == EmbeddingOk(a, 16384)
TsTopK(n) == Within(n, 1, 1000)
TsQueryString(n) == n <= 100000
TsHops(n) == Within(n, 1, 10)
TsBatch(a) == Within(a.batch, 1, 1000)
TsMetadata(n) == n > 0

PyId(n) == Within(n, 1, 1024)
PyContent(n) == n <= 10 * 1024 * 1024
PyType(n) == Within(n, 1, 256)
PyMetadata(n) == Within(n, 1, 1024 * 1024)
PyEmbedding(a) == EmbeddingOk(a, 16384)
PyTopK(n) == Within(n, 1, 1000)
PyQueryString(n) == n <= 100000
PyBatch(a) == Within(a.batch, 1, 1000) /\ PyId(a.id) /\ PyContent(a.content)
PyHops(n) == Within(n, 1, 10)
PyStoreParams(a) ==
  PyId(a.id) /\ PyContent(a.content) /\ PyType(a.type) /\ PyMetadata(a.meta) /\ PyEmbedding(a)
-----------------------------------------------------------------------------
(* The Rust client *)

\* An empty entity type is sent as "memory", empty metadata not at all.
RustStore(a) ==
  Checked(RustId(a.id) /\ RustContent(a.content) /\ (a.type = 0 \/ RustType(a.type))
            /\ RustEmbedding(a),
          Post("/v1/memory/store", {"id", "content", "entityType"}
            \cup Given(a, Stamps \cup {"embedding"})
            \cup (IF a.meta = 0 THEN {} ELSE {"metadata"})))

RustStoreBatch(a) ==
  Checked(RustBatch(a.batch) /\ RustId(a.id) /\ RustContent(a.content),
          Post("/v1/memory/store-batch", {"entities", "id", "content", "entityType", "metadata"}
            \cup Given(a, Stamps \cup {"embedding"})))

RustRecall_AnyTopK(a) ==
  Checked(RustQueryString(a.query) /\ RustEmbedding(a),
          Post("/v1/memory/recall", {"query", "topK"} \cup Given(a, {"embedding"})))

RustRecall(a) ==
  Checked(RustQueryString(a.query) /\ RustTopK(a.topK) /\ RustEmbedding(a),
          Post("/v1/memory/recall", {"query", "topK"} \cup Given(a, {"embedding"})))

RustRecallRecent(a) ==
  Checked(RustTopK(a.topK), Post("/v1/memory/recall-recent", {"topK"}))

RustRecallByType(a) ==
  Checked(RustType(a.type) /\ RustTopK(a.topK),
          Post("/v1/memory/recall-by-type", {"entityType", "topK"}))

RustForget(a) == Checked(RustId(a.id), Post("/v1/memory/forget", {"id"}))
RustDecay(a) == Post("/v1/memory/decay", {})
RustEntityHistory(a) == Checked(RustId(a.id), Post("/v1/memory/entity-history", {"id"}))

RustConsolidate(a) ==
  Post("/v1/memory/consolidate", {"includeDetails"} \cup Given(a, Thresholds))

RustAssociate(a) ==
  Checked(RustId(a.id), Post("/v1/graph/associate", {"srcId", "dstId", "relType", "weight"}))

RustExpand(a) ==
  Checked(RustId(a.id) /\ RustHops(a.hops),
          Post("/v1/graph/expand", {"entityId", "hops"} \cup Given(a, {"edgeTypes"})))

RustRagQuery(a) ==
  Checked(RustQueryString(a.query) /\ RustTopK(a.topK) /\ RustEmbedding(a),
          Post("/v1/rag/query", {"query", "topK"} \cup Given(a, Weights \cup {"embedding"})))

\* The selector is sent flat: snapshotIso, snapshotRelative, snapshotLabel.
RustSelector(a) == {CASE s = "iso" -> "snapshotIso" [] s = "relative" -> "snapshotRelative"
                      [] s = "label" -> "snapshotLabel" : s \in Given(a, Selectors)}

RustQuery(a) ==
  Checked(RustQueryString(a.query),
          Post("/v1/query", {"query", "timeoutMs"} \cup Given(a, {"params"}) \cup RustSelector(a)))

RustQueryStream(a) ==
  Checked(RustQueryString(a.query),
          Post("/v1/query/stream",
               {"query", "timeoutMs", "stream"} \cup Given(a, {"params"}) \cup RustSelector(a)))

RustSnapshots(a) == Get("/v1/snapshots")
RustLoginWithApiKey(a) == Post("/v1/auth/login", {"apiKey"})
RustLogin(a) == Post("/v1/auth/login", {"username", "password"})
RustRefresh(a) == Post("/v1/auth/refresh", {"refreshToken"})
RustLogout(a) == Post("/v1/auth/logout", {})
RustMe(a) == Get("/v1/auth/me")
RustCheckpoint(a) == Post("/v1/admin/checkpoint", {})
RustVacuum(a) == Post("/v1/admin/vacuum", {})
RustListUsers(a) == Get("/v1/admin/users")
RustCreateUser(a) == Post("/v1/admin/users", {"username", "password", "role"})
RustUpdateUser(a) ==
  Post("/v1/admin/users/{id}", Given(a, {"username", "password", "role"}))
RustDeleteUser(a) == Delete("/v1/admin/users/{id}")
RustResetPassword(a) == Post("/v1/admin/users/{id}/reset-password", {"newPassword"})
RustListApiKeys(a) == Get("/v1/admin/users/{id}/keys")
RustCreateApiKey(a) == Post("/v1/admin/users/{id}/keys", {"label"})
RustDeleteApiKey(a) == Delete("/v1/admin/users/{id}/keys/{key}")
RustHealth(a) == Get("/health")
RustMetrics(a) == Get("/metrics")
RustSubscribe(a) == Get("/v1/subscribe")

RustMethods(a) ==
  [store |-> RustStore(a), store_batch |-> RustStoreBatch(a), recall |-> RustRecall(a),
   recall_recent |-> RustRecallRecent(a), recall_by_type |-> RustRecallByType(a),
   forget |-> RustForget(a), decay |-> RustDecay(a), entity_history |-> RustEntityHistory(a),
   consolidate |-> RustConsolidate(a), associate |-> RustAssociate(a),
   expand |-> RustExpand(a), rag_query |-> RustRagQuery(a), query |-> RustQuery(a),
   query_stream |-> RustQueryStream(a), snapshots |-> RustSnapshots(a),
   login_with_api_key |-> RustLoginWithApiKey(a), login |-> RustLogin(a),
   refresh |-> RustRefresh(a), logout |-> RustLogout(a), me |-> RustMe(a),
   checkpoint |-> RustCheckpoint(a), vacuum |-> RustVacuum(a), list_users |-> RustListUsers(a),
   create_user |-> RustCreateUser(a), update_user |-> RustUpdateUser(a),
   delete_user |-> RustDeleteUser(a), reset_password |-> RustResetPassword(a),
   list_api_keys |-> RustListApiKeys(a), create_api_key |-> RustCreateApiKey(a),
   delete_api_key |-> RustDeleteApiKey(a), health |-> RustHealth(a),
   metrics |-> RustMetrics(a), subscribe |-> RustSubscribe(a)]

(* Its blocking API, written out a second time in the source *)

RustBlockingMemory(a) ==
  [store |-> RustStore(a), store_batch |-> RustStoreBatch(a), recall |-> RustRecall(a)]

RustBlockingLookups(a) ==
  [recall_recent |-> RustRecallRecent(a), recall_by_type |-> RustRecallByType(a),
   forget |-> RustForget(a), decay |-> RustDecay(a), entity_history |-> RustEntityHistory(a),
   consolidate |-> RustConsolidate(a)]

RustBlockingGraph(a) ==
  [associate |-> RustAssociate(a), expand |-> RustExpand(a), rag_query |-> RustRagQuery(a)]

RustBlockingOther(a) ==
  [query |-> RustQuery(a), health |-> RustHealth(a), metrics |-> RustMetrics(a),
   login |-> RustLogin(a), me |-> RustMe(a)]

RustBlockingMethods(a) ==
  RustBlockingMemory(a) @@ RustBlockingLookups(a) @@ RustBlockingGraph(a)
    @@ RustBlockingOther(a)
-----------------------------------------------------------------------------
(* The Go client *)

GoStore(a) ==
  LET b == IF a.type = 0 THEN [a EXCEPT !.type = 6] ELSE a    \* "memory"
  IN Checked(GoMetadata(a.meta) /\ GoStoreParams(b),
             Post("/v1/memory/store", {"id", "content", "entityType", "metadata"}
               \cup Given(a, Stamps \cup {"embedding"})))

\* The entities themselves are not looked at.
GoStoreBatch(a) ==
  Checked(Within(a.batch, 1, 1000),
          Post("/v1/memory/store-batch", {"entities", "id", "content", "entityType", "metadata"}
            \cup Given(a, Stamps \cup {"embedding"})))

GoRecall(a) ==
  Checked(GoTopK(a.topK) /\ GoEmbedding(a),
          Post("/v1/memory/recall", {"query", "topK"} \cup Given(a, {"embedding"})))

GoRecallRecent(a) == Checked(GoTopK(a.topK), Post("/v1/memory/recall-recent", {"topK"}))

GoRecallByType(a) ==
  Checked(GoType(a.type) /\ GoTopK(a.topK),
          Post("/v1/memory/recall-by-type", {"entityType", "topK"}))

GoForget(a) == Checked(GoId(a.id), Post("/v1/memory/forget", {"id"}))
GoDecay(a) == Post("/v1/memory/decay", {})
GoEntityHistory(a) == Checked(GoId(a.id), Post("/v1/memory/entity-history", {"id"}))
GoConsolidate(a) == Post("/v1/memory/consolidate", Given(a, Thresholds))

GoAssociate(a) ==
  Checked(GoId(a.id), Post("/v1/graph/associate", {"srcId", "dstId", "relType", "weight"}))

GoExpand(a) ==
  Checked(GoId(a.id) /\ GoHops(a.hops),
          Post("/v1/graph/expand", {"entityId", "hops"} \cup Given(a, {"edgeTypes"})))

GoRagQuery(a) ==
  Checked(GoQueryString(a.query) /\ GoTopK(a.topK) /\ GoEmbedding(a),
          Post("/v1/rag/query", {"query", "topK"} \cup Given(a, Weights \cup {"embedding"})))

GoQuery(a) ==
  Checked(GoQueryString(a.query),
          Post("/v1/query", {"query", "timeoutMs"} \cup Given(a, {"params", "snapshotTs"})))

GoCheckpoint(a) == Post("/v1/admin/checkpoint", {})
GoVacuum(a) == Post("/v1/admin/vacuum", {})
GoHealth(a) == Get("/health")
GoMetrics(a) == Get("/metrics")
GoSubscribe(a) == Get("/v1/subscribe")

GoMethods(a) ==
  [store |-> GoStore(a), store_batch |-> GoStoreBatch(a), recall |-> GoRecall(a),
   recall_recent |-> GoRecallRecent(a), recall_by_type |-> GoRecallByType(a),
   forget |-> GoForget(a), decay |-> GoDecay(a), entity_history |-> GoEntityHistory(a),
   consolidate |-> GoConsolidate(a), associate |-> GoAssociate(a), expand |-> GoExpand(a),
   rag_query |-> GoRagQuery(a), query |-> GoQuery(a), checkpoint |-> GoCheckpoint(a),
   vacuum |-> GoVacuum(a), health |-> GoHealth(a), metrics |-> GoMetrics(a),
   subscribe |-> GoSubscribe(a)]
-----------------------------------------------------------------------------
(* The TypeScript client *)

TsStore(a) ==
  Checked(TsId(a.id) /\ TsContent(a.content) /\ TsType(a.type) /\ TsMetadata(a.meta)
            /\ TsEmbedding(a),
          Post("/v1/memory/store", {"id", "content", "entityType", "metadata"}
            \cup Given(a, Stamps \cup {"embedding"})))

TsStoreBatch(a) ==
  Checked(TsBatch(a),
          Post("/v1/memory/store-batch", {"entities", "id", "content"}
            \cup Given(a, Stamps \cup {"embedding"})))

TsRecall(a) ==
  Checked(TsTopK(a.topK) /\ TsEmbedding(a),
          Post("/v1/memory/recall", {"query", "topK"} \cup Given(a, {"embedding"})))

TsRecallRecent(a) == Checked(TsTopK(a.topK), Post("/v1/memory/recall-recent", {"topK"}))

TsRecallByType(a) ==
  Checked(TsType(a.type) /\ TsTopK(a.topK),
          Post("/v1/memory/recall-by-type", {"entityType", "topK"}))

TsForget(a) == Checked(TsId(a.id), Post("/v1/memory/forget", {"id"}))
TsDecay(a) == Post("/v1/memory/decay", {})
TsEntityHistory(a) == Checked(TsId(a.id), Post("/v1/memory/entity-history", {"id"}))

TsConsolidate(a) ==
  Post("/v1/memory/consolidate", Given(a, Thresholds \cup {"includeDetails"}))

TsAssociate(a) ==
  Checked(TsId(a.id), Post("/v1/graph/associate", {"srcId", "dstId", "relType", "weight"}))

TsExpand(a) ==
  Checked(TsId(a.id) /\ TsHops(a.hops),
          Post("/v1/graph/expand", {"entityId", "hops"} \cup Given(a, {"edgeTypes"})))

TsRagQuery(a) ==
  Checked(TsQueryString(a.query) /\ TsTopK(a.topK) /\ TsEmbedding(a),
          Post("/v1/rag/query", {"query", "topK"} \cup Given(a, Weights \cup {"embedding"})))

\* A selector replaces snapshotTs.
Snapshot(a) == IF Given(a, Selectors) = {} THEN Given(a, {"snapshotTs"}) ELSE {"snapshot"}

TsQuery_Flat(a) ==
  Checked(TsQueryString(a.query),
          Post("/v1/query", {"query", "timeoutMs"} \cup Given(a, {"params"} \cup Selectors)))

TsQuery(a) ==
  Checked(TsQueryString(a.query),
          Post("/v1/query", {"query", "timeoutMs"} \cup Given(a, {"params"}) \cup Snapshot(a)))

TsAdmin(a) ==
  [checkpoint |-> Post("/v1/admin/checkpoint", {}), vacuum |-> Post("/v1/admin/vacuum", {}),
   health |-> Get("/health"), metrics |-> Get("/metrics")]

TsLogin(a) == Post("/v1/auth/login", {"username", "password"})
\* request() on a 401, without the access token.
TsRefresh(a) == Post("/v1/auth/refresh", {"refreshToken"})
TsSubscribe(a) == Get("/v1/subscribe")

TsMethods(a) ==
  [store |-> TsStore(a), store_batch |-> TsStoreBatch(a), recall |-> TsRecall(a),
   recall_recent |-> TsRecallRecent(a), recall_by_type |-> TsRecallByType(a),
   forget |-> TsForget(a), decay |-> TsDecay(a), entity_history |-> TsEntityHistory(a),
   consolidate |-> TsConsolidate(a), associate |-> TsAssociate(a), expand |-> TsExpand(a),
   rag_query |-> TsRagQuery(a), query |-> TsQuery(a), login |-> TsLogin(a),
   refresh |-> TsRefresh(a), subscribe |-> TsSubscribe(a)] @@ TsAdmin(a)
-----------------------------------------------------------------------------
(* The Python client, and its asynchronous twin *)

PyLogin(a) == Post("/v1/auth/login", {"username", "password"})

PyStore(a) ==
  Checked(PyStoreParams(a),
          Post("/v1/memory/store", {"id", "content", "entityType", "metadata"}
            \cup Given(a, Stamps \cup {"embedding"})))

PyStoreBatch(a) ==
  Checked(PyBatch(a),
          Post("/v1/memory/store-batch", {"entities", "id", "content"}
            \cup Given(a, Stamps \cup {"embedding"})))

PyRecall(a) ==
  Checked(PyTopK(a.topK) /\ PyEmbedding(a),
          Post("/v1/memory/recall", {"query", "topK"} \cup Given(a, {"embedding"})))

PyRecallRecent(a) == Checked(PyTopK(a.topK), Post("/v1/memory/recall-recent", {"topK"}))

PyRecallByType(a) ==
  Checked(PyType(a.type) /\ PyTopK(a.topK),
          Post("/v1/memory/recall-by-type", {"entityType", "topK"}))

PyForget(a) == Checked(PyId(a.id), Post("/v1/memory/forget", {"id"}))
PyDecay(a) == Post("/v1/memory/decay", {})
PyEntityHistory(a) == Checked(PyId(a.id), Post("/v1/memory/entity-history", {"id"}))

PyConsolidate(a) ==
  Post("/v1/memory/consolidate", Given(a, Thresholds \cup {"includeDetails"}))

PyAssociate(a) ==
  Checked(PyId(a.id), Post("/v1/graph/associate", {"srcId", "dstId", "relType", "weight"}))

PyExpand(a) ==
  Checked(PyId(a.id) /\ PyHops(a.hops),
          Post("/v1/graph/expand", {"entityId", "hops"} \cup Given(a, {"edgeTypes"})))

PyRagQuery(a) ==
  Checked(PyQueryString(a.query) /\ PyTopK(a.topK) /\ PyEmbedding(a),
          Post("/v1/rag/query", {"query", "topK"} \cup Given(a, Weights \cup {"embedding"})))

PyQuery(a) ==
  Checked(PyQueryString(a.query),
          Post("/v1/query", {"query", "timeoutMs"} \cup Given(a, {"params"}) \cup Snapshot(a)))

PyQueryStream(a) ==
  Checked(PyQueryString(a.query),
          Post("/v1/query/stream", {"query"} \cup Given(a, {"params"})))

PyAdmin(a) ==
  [checkpoint |-> Post("/v1/admin/checkpoint", {}), vacuum |-> Post("/v1/admin/vacuum", {}),
   health |-> Get("/health"), metrics |-> Get("/metrics")]

PySubscribe(a) == Get("/v1/subscribe")

PyMethods(a) ==
  [login |-> PyLogin(a), store |-> PyStore(a), store_batch |-> PyStoreBatch(a),
   recall |-> PyRecall(a), recall_recent |-> PyRecallRecent(a),
   recall_by_type |-> PyRecallByType(a), forget |-> PyForget(a), decay |-> PyDecay(a),
   entity_history |-> PyEntityHistory(a), consolidate |-> PyConsolidate(a),
   associate |-> PyAssociate(a), expand |-> PyExpand(a), rag_query |-> PyRagQuery(a),
   query |-> PyQuery(a), query_stream |-> PyQueryStream(a), subscribe |-> PySubscribe(a)]
    @@ PyAdmin(a)

(* The asynchronous client, written out a second time in the source *)

PyAsyncStore(a) ==
  [login |-> PyLogin(a), store |-> PyStore(a), store_batch |-> PyStoreBatch(a)]

PyAsyncLookups(a) ==
  [recall |-> PyRecall(a), recall_recent |-> PyRecallRecent(a),
   recall_by_type |-> PyRecallByType(a), forget |-> PyForget(a), decay |-> PyDecay(a),
   entity_history |-> PyEntityHistory(a)]

PyAsyncGraph(a) ==
  [consolidate |-> PyConsolidate(a), associate |-> PyAssociate(a), expand |-> PyExpand(a)]

PyAsyncQueries(a) ==
  [rag_query |-> PyRagQuery(a), query |-> PyQuery(a), query_stream |-> PyQueryStream(a),
   subscribe |-> PySubscribe(a)] @@ PyAdmin(a)

PyAsyncMethods(a) ==
  PyAsyncStore(a) @@ PyAsyncLookups(a) @@ PyAsyncGraph(a) @@ PyAsyncQueries(a)

Methods(client, a) ==
  CASE client = "rust" -> RustMethods(a)
    [] client = "rust_blocking" -> RustBlockingMethods(a)
    [] client = "go" -> GoMethods(a)
    [] client = "ts" -> TsMethods(a)
    [] client = "python" -> PyMethods(a)
    [] client = "python_async" -> PyAsyncMethods(a)
=============================================================================

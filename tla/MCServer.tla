------------------------------ MODULE MCServer ------------------------------
(***************************************************************************)
(* A request on its way: the client libraries and the server, the query    *)
(* compiler, the statements and path searches it runs, and the columns     *)
(* they read and write, checked together.  "part" is chosen once, and the  *)
(* variables s1..s17 are those of the module it names.                     *)
(***************************************************************************)
EXTENDS Naturals, FiniteSets, TLC

CONSTANTS
  p1, p2, p3,   \* threads
  null, oob,    \* the null value, and a column read beyond its row
  junk          \* bytes that are no value

VARIABLES part, s1, s2, s3, s4, s5, s6, s7, s8, s9, s10, s11, s12, s13, s14, s15, s16, s17

from7 == <<s7, s8, s9, s10>>
from11 == <<s11, s12, s13, s14, s15, s16, s17>>
vars == <<part, s1, s2, s3, s4, s5, s6, from7, from11>>
-----------------------------------------------------------------------------
(* Two sessions and an administrator: two requests of one session beside one of the other,
   one beside one of the administrator, or two of the administrator. *)
A == INSTANCE AuthStore WITH
  Session <- {p1, p2}, Admin <- {p3}, User <- {"u1", "u2"}, Token <- {"t1", "t2"},
  Key <- {"k1"}, MaxRestarts <- 1, MaxFailures <- 1, MaxPassword <- 2,
  Workload <- {(p1 :> 2 @@ p2 :> 1 @@ p3 :> 0), (p1 :> 1 @@ p2 :> 0 @@ p3 :> 1),
               (p1 :> 0 @@ p2 :> 0 @@ p3 :> 2)},
  dbUsers <- s1, dbTokens <- s2, dbKeys <- s3, users <- s4, tokens <- s5, keys <- s6,
  bloom <- s7, revoked <- s8, expired <- s9, used <- s10, op <- s11, gc <- s12,
  returned <- s13, ended <- s14, restarts <- s15, failures <- s16, left <- s17

(* Two logins at once from two addresses for one name; windows of two ticks. *)
T == INSTANCE Throttles WITH
  Client <- {p1, p2}, Ip <- {"i1", "i2"}, Name <- {"n1"}, MaxRequests <- 2, RateWindow <- 1,
  MaxWindows <- 1, MaxLoginAttempts <- 3, LoginWindow <- 2, Lockout <- 2, MaxTime <- 5,
  now <- s1, windows <- s2, ipRecord <- s3, nameRecord <- s4, pc <- s5, who <- s6,
  admitted <- s7, passed <- s8, wrong <- s9
-----------------------------------------------------------------------------
(* Every method of every client: with each of the arguments at and beyond its limits and
   each option alone, as an administrator; and with ordinary arguments under every
   credential, mode and role, a query also with each kind of statement, now and at a
   snapshot. *)
Plain == [id |-> 1, content |-> 1, type |-> 1, meta |-> 2, query |-> 1, embedding |-> 3,
          topK |-> 1, hops |-> 1, batch |-> 1, depth |-> 3, tokens |-> 100, name |-> 1,
          password |-> 8, role |-> "reader", enabled |-> TRUE, statement |-> "read",
          opts |-> {}]

Edges ==
  {[Plain EXCEPT !.id = n] : n \in {0, 512, 1024, 4096, 4097}}
    \cup {[Plain EXCEPT !.content = n] : n \in {0, 1000000, 1000001, 3000000, 10485761}}
    \cup {[Plain EXCEPT !.type = n] : n \in {0, 128, 256, 257}}
    \cup {[Plain EXCEPT !.meta = n] : n \in {0, 1048577}}
    \cup {[Plain EXCEPT !.query = n] : n \in {0, 100000, 100001}}
    \cup {[Plain EXCEPT !.topK = n] : n \in {0, 1000, 1001, 10001}}
    \cup {[Plain EXCEPT !.hops = n] : n \in {0, 10, 11, 21}}
    \cup {[Plain EXCEPT !.batch = n] : n \in {0, 1000, 1001}}
    \cup {[Plain EXCEPT !.batch = 3, !.content = 1000000]}
    \cup {[Plain EXCEPT !.embedding = n, !.opts = {"embedding"}] : n \in {0, 8192, 8193, 16385}}
    \cup {[Plain EXCEPT !.depth = 11, !.opts = {"expansionDepth"}],
          [Plain EXCEPT !.tokens = 1000001, !.opts = {"maxTokens"}],
          [Plain EXCEPT !.name = 0], [Plain EXCEPT !.password = 0], [Plain EXCEPT !.password = 7],
          [Plain EXCEPT !.role = "Reader"], [Plain EXCEPT !.role = "Writer", !.opts = {"role"}]}

Options ==
  {"params", "snapshotTs", "iso", "relative", "label", "edgeTypes", "embedding",
   "includeDetails", "username", "password", "role", "ttlSeconds", "createdAt",
   "lastAccessed", "accessCount", "validFrom", "validUntil", "similarityThreshold",
   "expansionDepth", "searchWeight", "recencyWeight", "degreeWeight", "maxTokens"}

Arguments ==
  {Plain} \cup Edges \cup {[Plain EXCEPT !.opts = {o}] : o \in Options}
    \cup {[Plain EXCEPT !.opts = {"iso", "snapshotTs"}],
          [Plain EXCEPT !.opts = {"similarityThreshold", "contradictionJaccardMax",
                                  "contradictionCosineMin", "contradictionLengthSimMin",
                                  "maxComparisonsPerEntity", "includeDetails"}]}

Caller(credential, mode, role) ==
  [credential |-> credential, mode |-> mode, role |-> role, self |-> FALSE,
   readOnly |-> FALSE, refreshGood |-> TRUE]

Callers ==
  {Caller(k, "jwt", r) : k \in {"access", "api_key", "expired", "none"},
                         r \in {"reader", "writer", "admin"}}
    \cup {Caller(k, "token", "none") : k \in {"static", "none"}}
    \cup {Caller("none", "none", "none")}
    \cup {[Caller("access", "jwt", "admin") EXCEPT !.self = TRUE, !.readOnly = TRUE,
                                                  !.refreshGood = FALSE]}

CallerArguments(m) ==
  CASE m \in {"query", "query_stream"} ->
         {[Plain EXCEPT !.statement = s, !.opts = o] :
            s \in {"read", "rows", "tables", "files", "accounts"}, o \in {{}, {"snapshotTs"}, {"iso"}}}
    [] m = "update_user" ->
         {Plain} \cup {[Plain EXCEPT !.role = r, !.opts = {"role"}] : r \in {"writer", "admin"}}
    [] OTHER -> {Plain}

P == INSTANCE Api WITH
  Plain <- Plain, Arguments <- Arguments, Administrator <- Caller("access", "jwt", "admin"),
  Callers <- Callers, CallerArguments <- CallerArguments,
  call <- s1, at <- s2, request <- s3, role <- s4, answer <- s5, outcome <- s6
-----------------------------------------------------------------------------
(* Two node tables and two relationship tables; every query of MCQuery. *)
QNodeTables == {"P", "Q"}
QRelTables == <<"R", "S">>
QWidth(t) == CASE t = "P" -> 3 [] t = "Q" -> 2 [] t = "R" -> 3 [] t = "S" -> 2
QFromTable(t) == "P"
QToTable(t) == "P"
QVarNames == <<"a", "b", "c", "r", "s", "x", "y">>
QSubName(v) == CASE v = "a" -> "_a" [] v = "b" -> "_b" [] v = "c" -> "_c"
                  [] v = "r" -> "_r" [] v = "s" -> "_s" [] OTHER -> "_"
QIndexed(t) == {1}

Q == INSTANCE MCQuery WITH
  NodeTables <- QNodeTables, RelTables <- QRelTables, Width <- QWidth,
  FromTable <- QFromTable, ToTable <- QToTable, VarNames <- QVarNames, SubName <- QSubName,
  Indexed <- QIndexed, Null <- null, Oob <- oob,
  phase <- s1, plan <- s2, off <- s3, rule <- s4, round <- s5, count <- s6, db <- s7,
  query <- s8
-----------------------------------------------------------------------------
(* Four statements on up to three nodes and two relationships. *)
G == INSTANCE Graph WITH
  Keys <- {1, 2}, Vals <- {1, 2}, MaxNodes <- 3, MaxRels <- 2, MaxStatements <- 4,
  MaxDepth <- 3,
  keyed <- s1, ftsDeletes <- s2, db <- s3, left <- s4, truth <- s5, clean <- s6,
  searchable <- s7, bare <- s8

(* Every graph of four nodes and up to five relationships. *)
W == INSTANCE Paths WITH
  PNodes <- 4, MaxEdges <- 5, Depths <- {1, 2, 3}, fwd <- s1, bwd <- s2
-----------------------------------------------------------------------------
(* Columns of every type, of up to five rows, in pages of two to eight values, and blocks
   of two; string 2 is a long one.  One page beyond the cap of a direct scan can be
   filled, one row beyond the analyzer's sample.  Until the first of the causes Column
   names. *)
Col == INSTANCE Column WITH
  Kinds <- {"int32", "int64", "node", "double", "string"}, Vals <- {1, 2},
  Batches <- {<<1>>, <<null, 1>>, <<2, 1, 1>>}, Touched <- {0},
  Block <- 2, Radix <- 64, MaxExp <- 1, MaxFac <- 2, PageUnits <- 8, StringUnits <- 4,
  Sample <- 4, OverCap <- 2, MaxRows <- 5, MaxSteps <- 4,
  col <- s1, data <- s2, old <- s3, pend <- s4, over <- s5, stats <- s6, compressed <- s7,
  saved <- s8, marks <- s9, tx <- s10, harm <- s11, steps <- s12
-----------------------------------------------------------------------------
Unused ==
  s11 = 0 /\ s12 = 0 /\ s13 = 0 /\ s14 = 0 /\ s15 = 0 /\ s16 = 0 /\ s17 = 0

Init ==
  \/ part = "auth" /\ A!Init
  \/ part \in {"rate", "login"} /\ T!Init /\ s10 = 0 /\ Unused
  \/ part = "api" /\ P!Init /\ s7 = 0 /\ s8 = 0 /\ s9 = 0 /\ s10 = 0 /\ Unused
  \/ part = "query" /\ Q!Init /\ s9 = 0 /\ s10 = 0 /\ Unused
  \/ /\ part = "column" /\ Col!Init
     /\ s13 = 0 /\ s14 = 0 /\ s15 = 0 /\ s16 = 0 /\ s17 = 0
  \/ part = "graph" /\ G!Init /\ s9 = 0 /\ s10 = 0 /\ Unused
  \/ /\ part = "paths" /\ W!Init
     /\ s3 = 0 /\ s4 = 0 /\ s5 = 0 /\ s6 = 0 /\ s7 = 0 /\ s8 = 0 /\ s9 = 0 /\ s10 = 0 /\ Unused

Next ==
  \/ part = "auth" /\ A!Next /\ UNCHANGED part
  \/ part = "rate" /\ T!LimiterNext /\ UNCHANGED <<part, s10, from11>>
  \/ part = "login" /\ T!LoginNext /\ UNCHANGED <<part, s10, from11>>
  \/ part = "api" /\ P!Next /\ UNCHANGED <<part, from7, from11>>
  \/ part = "query" /\ Q!Next /\ UNCHANGED <<part, s9, s10, from11>>
  \/ part = "column" /\ s11 = {} /\ Col!Next /\ UNCHANGED <<part, s13, s14, s15, s16, s17>>
  \/ part = "graph" /\ G!Next /\ UNCHANGED <<part, s9, s10, from11>>
  \/ part = "paths" /\ W!Next /\ UNCHANGED <<part, s3, s4, s5, s6, from7, from11>>

Spec == Init /\ [][Next]_vars
-----------------------------------------------------------------------------
(* The properties of the parts; each is stated in its module. *)

(* What a logout, rotation, reset, deletion or revocation ended stays ended (AuthStore). *)
EndedStaysEnded == part = "auth" => A!EndedStaysEnded

(* Tables and caches are well-formed, and the users in the cache are the users in the table
   (AuthStore). *)
UsersAgree == part = "auth" => A!TypeOK /\ A!UsersAgree

(* No window holds more than max_requests requests of an address, and fewer than
   MAX_LOGIN_ATTEMPTS attempts of an address, or wrong passwords for a name since its last
   success, reach the password check in one; the counters stay within their bounds
   (Throttles). *)
RequestsBounded ==
  /\ part = "rate" => T!TypeOK /\ T!RateBounded
  /\ part = "login" => T!TypeOK /\ T!AttemptsBounded /\ T!GuessesBounded

(* What a client lets through is routed, read and accepted by the server, an option is sent
   under a name the server reads, and the answer can be decoded (Api). *)
ClientsAgree ==
  part = "api" => P!AcceptedByServer /\ P!OptionsReachServer /\ P!Decodable

(* No request is served for a role below the one its route is guarded with, and apart from
   the query routes nothing is changed for a role below the one the change takes (Api). *)
RoleEnforced == part = "api" => P!RoleEnforced

(* A query's plan, optimised, returns what the query asks for (QueryCompiler). *)
PlanRight == part = "query" => Q!PlanRight

(* The tables hold the graph the statements describe and answer with it, no relationship is
   left at a node deleted with its relationships, and a text search finds every row whose
   text an indexing path wrote (Graph). *)
StatementsRight ==
  part = "graph" => G!GraphRight /\ G!AnswerRight /\ G!NoneDangling /\ G!TextFound

(* A variable-length pattern follows the paths it describes (Graph), all shortest paths are
   found, and the two-sided search finds one of them (Paths). *)
PathsRight ==
  /\ part = "graph" => G!WalkRight
  /\ part = "paths" => W!AllShortestRight /\ W!OneShortestRight

(* A read of a column gives what was written to the row (Column). *)
ValuesKept == part = "column" => Col!ValuesKept
=============================================================================

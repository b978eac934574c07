----------------------------- MODULE MCStorage ------------------------------
(***************************************************************************)
(* What a table is made of, checked together: its schema, its primary-key  *)
(* index, the CSR index of a relationship table, and the memory API that   *)
(* keeps entities in all of them.  "part" is chosen once, and the          *)
(* variables s1..s15 are those of the module it names.                     *)
(***************************************************************************)
EXTENDS Naturals, Sequences, TLC

CONSTANTS p1, p2    \* transactions, clients or threads

VARIABLES part, s1, s2, s3, s4, s5, s6, s7, s8, s9, s10, s11, s12, s13, s14, s15

Symmetric == Permutations({p1, p2})

vars == <<part, s1, s2, s3, s4, s5, s6, s7, s8, s9, s10, s11, s12, s13, s14, s15>>
-----------------------------------------------------------------------------
Node(t) == [op |-> "createNode", t |-> t, cols |-> <<"a">>, pk |-> TRUE]
Rel(t) == [op |-> "createRel", t |-> t, cols |-> <<>>, from |-> "t", to |-> "t"]

(* Tables and columns made, dropped and renamed over each other. *)
TableWork ==
  [setup |-> <<Node("t")>>, queried |-> {}, loaded |-> {}, max |-> 3,
   statements |->
     {Node("t"), Rel("u")}
       \cup {[op |-> "dropTable", t |-> t] : t \in {"t", "u"}}
       \cup {[op |-> o, t |-> "t", col |-> c] : o \in {"addColumn", "dropColumn"}, c \in {"a", "b"}}
       \cup {[op |-> "dropColumn", t |-> "t", col |-> "_id"],
             [op |-> "renameTable", t |-> "t", new |-> "u"],
             [op |-> "renameColumn", t |-> "t", col |-> "a", new |-> "b"]}]

(* The schema objects that hang on a table. *)
ObjectWork ==
  [setup |-> <<Node("t")>>, queried |-> {}, loaded |-> {}, max |-> 3,
   statements |->
     {[op |-> "createConstraint", name |-> n, t |-> "t", prop |-> "a"] : n \in {"c", "k"}}
       \cup {[op |-> "dropConstraint", name |-> "c"],
             [op |-> "createIndex", name |-> "i", t |-> "t", prop |-> "a"],
             [op |-> "dropIndex", name |-> "i"],
             [op |-> "createSequence", name |-> "q"],
             [op |-> "createMacro", name |-> "m"],
             [op |-> "createSearchIndex", t |-> "t", kind |-> "fts"],
             [op |-> "dropTable", t |-> "t"]}]

(* Rows and queries while columns change. *)
ReaderWork ==
  [setup |-> <<Node("t")>>, queried |-> {"t"}, loaded |-> {"t"}, max |-> 2,
   statements |->
     {[op |-> "renameTable", t |-> "t", new |-> "u"],
      [op |-> "addColumn", t |-> "t", col |-> "b"],
      [op |-> "dropColumn", t |-> "t", col |-> "_id"]}]

S == INSTANCE Schema WITH
  Txs <- {p1, p2}, Workloads <- {TableWork, ObjectWork, ReaderWork},
  MaxReopens <- 1,
  work <- s1, cat <- s2, sto <- s3, files <- s4, undo <- s5, disk <- s6, dirty <- s7,
  caches <- s8, query <- s9, steps <- s10, reopens <- s11, before <- s12, mixed <- s13,
  clearing <- s14, keyless <- s15
-----------------------------------------------------------------------------
(* A node and a relationship of one id hash alike; the third key shares their bucket until
   the index is resized; the last one does not fit a slot. *)
HKeys == {[tag |-> "node", val |-> "1"], [tag |-> "rel", val |-> "1"],
          [tag |-> "string", val |-> "s"], [tag |-> "string", val |-> "longer than a slot"]}
HHash == [h \in {"node", "string"} \X {k.val : k \in HKeys} |-> IF h[1] = "string" THEN 3 ELSE 1]

H == INSTANCE HashIndex WITH
  Txs <- {p1, p2}, Keys <- HKeys, HashOf <- HHash,
  InitialBuckets <- 2, PageEntries <- 1, MaxOps <- 3, MaxResizes <- 1,
  pages <- s1, fileLen <- s2, numBuckets <- s3, own <- s4, reader <- s5, commit <- s14, ops <- s6,
  resizes <- s7, truth <- s8, mine <- s9, base <- s10, commits <- s11, overlapped <- s12,
  resized <- s13
-----------------------------------------------------------------------------
Entity(text, emb, ttl, until) == [text |-> text, emb |-> emb, ttl |-> ttl, until |-> until]

(* Two clients; entities that stay, that expire and that are valid until a time. *)
M == INSTANCE Memory WITH
  Clients <- {p1, p2}, Ids <- {"a", "b"},
  Entities <- {Entity("x", TRUE, 0, 0), Entity("y", FALSE, 1, 0)},
  Batches <- {<<[id |-> "a", ent |-> Entity("x", TRUE, 1, 0)],
                [id |-> "b", ent |-> Entity("x", FALSE, 0, 0)]>>,
              <<[id |-> "b", ent |-> Entity("y", FALSE, 0, 2)]>>},
  Pairs <- {<<"a", "b">>}, ChanCap <- 1, MaxTime <- 2, MaxOps <- 3,
  rows <- s1, pk <- s2, fts <- s3, vec <- s4, rels <- s5, fwd <- s6, bwd <- s7, chan <- s8,
  now <- s9, lastTs <- s10, op <- s11, used <- s12, ftsDeletes <- s13, expect <- s14,
  linked <- s15

(* Two threads on three nodes, in one page, until the first of the disturbances
   CsrIndex names. *)
C == INSTANCE CsrIndex WITH
  N <- 3, Threads <- {p1, p2}, MaxRows <- 2, PageWords <- 64, MaxOther <- 2,
  rows <- s1, gone <- s2, base <- s3, paged <- s4, pend <- s5, dels <- s6, fresh <- s7,
  task <- s8, others <- s9, clean <- s10
-----------------------------------------------------------------------------
Init ==
  \/ part = "schema" /\ S!Init
  \/ part = "hash" /\ H!Init /\ s15 = 0
  \/ part = "memory" /\ M!Init
  \/ part = "csr" /\ C!Init /\ s11 = 0 /\ s12 = 0 /\ s13 = 0 /\ s14 = 0 /\ s15 = 0

Next ==
  \/ part = "schema" /\ S!Next /\ UNCHANGED part
  \/ part = "hash" /\ ~s12 /\ H!Next /\ UNCHANGED <<part, s15>>
  \/ part = "memory" /\ M!Next /\ UNCHANGED part
  \/ part = "csr" /\ s10 /\ C!Next /\ UNCHANGED <<part, s11, s12, s13, s14, s15>>

Spec == Init /\ [][Next]_vars
-----------------------------------------------------------------------------
(* The properties of the parts; each is stated in its module. *)

(* The catalog and the storage manager describe the same tables (Schema). *)
SchemasAgree == part = "schema" => S!SchemasAgree

(* A catalog that differs from the one on disk is marked dirty (Schema). *)
NeverSilentlyLost == part = "schema" => S!NeverSilentlyLost

(* A query, and what it leaves in the plan caches, matches the schema (Schema). *)
CachedPlansCurrent == part = "schema" => S!CachedPlansCurrent

(* A rollback undoes every schema change of its transaction (Schema). *)
RollbackUndoes == [][part = "schema" => S!RollbackUndone]_vars

(* A lookup answers what the index held for its key while it ran, though commits publish
   one page at a time, and no committed key leaves the index by itself (HashIndex). *)
IndexRight == part = "hash" => H!LookupRight /\ H!NoKeyLost

(* What was forgotten is found nowhere (Memory). *)
Forgotten == part = "memory" => M!Forgotten

(* What was stored is found, by id, by text and by vector, and from the entities it was
   associated with (Memory). *)
Retrievable == part = "memory" => M!Stored /\ M!Linked

(* The neighbours a CSR index answers are the relationships created (CsrIndex). *)
NeighborsRight == part = "csr" => C!NeighborsRight
=============================================================================

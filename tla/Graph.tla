------------------------------- MODULE Graph -------------------------------
(***************************************************************************)
(* The statements that write a graph, one at a time on one connection:     *)
(* CREATE, MERGE, SET, DELETE and DETACH DELETE over a node table and a    *)
(* relationship table between its nodes, with the primary-key index, the   *)
(* full-text index and the row counts each keeps up by hand                *)
(* (processor/operators/dml.rs), and the walk of a variable-length pattern *)
(* over what they leave (processor/operators/recursive_join.rs).           *)
(*                                                                         *)
(* Beside the tables runs the graph the statements describe: a set of      *)
(* nodes and a set of relationships, each known by the order in which it   *)
(* was created.  Row ids are counted from 1.  A statement is a             *)
(* transaction: RowIds and TransactionManager have transactions overlap.   *)
(***************************************************************************)
EXTENDS Naturals, Sequences, FiniteSets, SequencesExt

CONSTANTS
  Keys, Vals,      \* of the key and the text column; 0 is in neither
  MaxNodes,        \* bound on the rows of the node table
  MaxRels,         \* bound on the rows of the relationship table
  MaxStatements,   \* bound on the statements
  MaxDepth         \* bound on the depth of a walk

VARIABLES
  keyed,        \* the node table has a primary key
  ftsDeletes,   \* whether delete_term finds the document (inverted_index.rs:37)
  db,           \* the two tables, their indexes and counts, the last answer
  left,         \* statements left
  truth,        \* history: the graph and the answer the statements describe
  clean,        \* history: no statement has run that is known to go wrong
  searchable,   \* history: rows whose text was last written by an indexing path
  bare          \* history: nodes deleted without DETACH

vars == <<keyed, ftsDeletes, db, left, truth, clean, searchable, bare>>
setting == <<keyed, ftsDeletes>>

Gone == [key |-> 0, val |-> 0]     \* a row whose columns are null: scans skip it
Cut == <<0, 0>>                    \* a relationship row with null endpoints

Init ==
  /\ keyed \in BOOLEAN /\ ftsDeletes \in BOOLEAN
  /\ db = [nodes |-> <<>>, rels |-> <<>>, pk |-> [k \in Keys |-> <<>>], fts |-> {},
           cardN |-> 0, cardR |-> 0, out |-> <<>>, ok |-> TRUE]
  /\ left = MaxStatements
  /\ truth = [nodes |-> {}, edges |-> <<>>, ids |-> 0, out |-> {}, ok |-> TRUE]
  /\ clean = TRUE /\ searchable = {} /\ bare = {}
-----------------------------------------------------------------------------
(* Reading *)

Live(d) == {r \in DOMAIN d.nodes : d.nodes[r] # Gone}
Upto(n) == [i \in 1..n |-> i]

\* MATCH (n {key: k}): row ids in column 0, in scan order.
Scan(d, k) ==
  SelectSeq(Upto(Len(d.nodes)), LAMBDA r : r \in Live(d) /\ d.nodes[r].key = k)

\* MATCH (a)-[r]->(b {key: k}): relationship rows; column 0 holds the row id of a.
Matched(d, k) ==
  SelectSeq(Upto(Len(d.rels)),
            LAMBDA i : /\ d.rels[i] # Cut /\ d.rels[i][1] \in Live(d)
                       /\ d.rels[i][2] \in Live(d) /\ d.nodes[d.rels[i][2]].key = k)
Column0(d, is) == [i \in DOMAIN is |-> d.rels[is[i]][1]]

\* read_node_batch, rows_to_batch: the rows a statement hands to RETURN.
Answer(ns, ids) == [i \in DOMAIN ids |-> <<ids[i], ns[ids[i]]>>]

InAnswer(ids, r) == \E i \in DOMAIN ids : ids[i] = r
-----------------------------------------------------------------------------
(* Creating *)

\* Standalone CREATE: the key is indexed, the text is not.
CreateOne(d, k, v) ==
  LET r == Len(d.nodes) + 1
      row == [key |-> k, val |-> v]
  IN  IF keyed /\ d.pk[k] # <<>>
      THEN [d EXCEPT !.out = <<>>, !.ok = FALSE]
      ELSE [d EXCEPT !.nodes = Append(@, row), !.cardN = @ + 1,
                     !.pk[k] = IF keyed THEN Append(@, r) ELSE @,
                     !.out = <<<<r, row>>>>, !.ok = TRUE]

\* CREATE below another clause: the text is indexed, the key is not, nor is it
\* checked.
CreateBatch(d, new) ==
  LET base == Len(d.nodes)
      ids == [i \in DOMAIN new |-> base + i]
  IN  [d EXCEPT !.nodes = @ \o new, !.cardN = @ + Len(new),
                !.fts = @ \cup {<<base + i, new[i].val>> : i \in DOMAIN new},
                !.out = Answer(d.nodes \o new, ids), !.ok = TRUE]

\* lookup_internal_id: a node id as it is, a key by scanning the key column.
LookupInternalId(d, end, byKey) ==
  IF byKey THEN Head(Scan(d, d.nodes[end].key)) ELSE end

CreateRels(d, pairs, byKey) ==
  LET new == [i \in DOMAIN pairs |->
                 [j \in 1..2 |-> LookupInternalId(d, pairs[i][j], byKey)]]
  IN  [d EXCEPT !.rels = @ \o new, !.cardR = @ + Len(new),
                !.out = [i \in DOMAIN new |-> <<Len(d.rels) + i, new[i]>>], !.ok = TRUE]
-----------------------------------------------------------------------------
(* MERGE *)

\* By the index when the pattern has the key, else by scan_match, which does not
\* see the rows this statement has buffered: ns are the rows before it.
MergeMatch(d, ns, k) ==
  LET hits == SelectSeq(Upto(Len(ns)), LAMBDA r : ns[r] # Gone /\ ns[r].key = k)
  IN  IF keyed /\ d.pk[k] # <<>> THEN <<Head(d.pk[k])>>
      ELSE IF hits = <<>> THEN <<>> ELSE <<Head(hits)>>

\* The row is buffered; its key and text are indexed.
MergeCreate(d, k, v) ==
  LET r == Len(d.nodes) + 1
      row == [key |-> k, val |-> v]
  IN  [d EXCEPT !.nodes = Append(@, row), !.cardN = @ + 1,
                !.pk[k] = IF keyed THEN Append(@, r) ELSE @,
                !.fts = @ \cup {<<r, v>>},
                !.out = Append(@, <<r, row>>)]

\* No index is kept up, and the row is not marked for conflicts.
MergeUpdate(d, r, v) ==
  LET row == [d.nodes[r] EXCEPT !.val = v]
  IN  [d EXCEPT !.nodes[r] = row, !.out = Append(@, <<r, row>>)]

\* One row of the input.  A node already answered for is left alone.
MergeRow(d, before, k, onCreate, onMatch) ==
  LET hit == MergeMatch(d, SubSeq(d.nodes, 1, before), k)
      affected == [i \in DOMAIN d.out |-> d.out[i][1]]
  IN  CASE hit = <<>> -> MergeCreate(d, k, onCreate)
        [] hit # <<>> /\ InAnswer(affected, Head(hit)) -> d
        [] OTHER -> MergeUpdate(d, Head(hit), onMatch)

MergeAll(d, ks, onCreate, onMatch) ==
  FoldLeft(LAMBDA acc, k : MergeRow(acc, Len(d.nodes), k, onCreate, onMatch),
           [d EXCEPT !.out = <<>>, !.ok = TRUE], ks)
-----------------------------------------------------------------------------
(* SET *)

Reindex_DeletesLast(fts, r, text) ==
  IF ftsDeletes THEN {doc \in fts : doc[1] # r} ELSE fts \cup {<<r, text>>}

\* The document is deleted and built again from all the text columns.
Reindex(fts, r, text) ==
  (IF ftsDeletes THEN {doc \in fts : doc[1] # r} ELSE fts) \cup {<<r, text>>}

\* Rows are those of column 0, whichever variable is assigned.  A new key gets an
\* entry in the index; the old one stays.
SetRows(d, ids, row) ==
  LET Set1(acc, r) ==
        LET new == [key |-> IF row.key = 0 THEN acc.nodes[r].key ELSE row.key,
                    val |-> IF row.val = 0 THEN acc.nodes[r].val ELSE row.val]
        IN  [acc EXCEPT !.nodes[r] = new, !.fts = Reindex(@, r, new.val),
                        !.pk = IF keyed /\ row.key # 0
                               THEN [@ EXCEPT ![row.key] = Append(@, r)] ELSE @]
      done == FoldLeft(Set1, d, ids)
  IN  [done EXCEPT !.out = Answer(done.nodes, ids), !.ok = TRUE]
-----------------------------------------------------------------------------
(* DELETE *)

DeleteEntry_Kept(pk, k, r) == pk

DeleteEntry(pk, k, r) == [pk EXCEPT ![k] = SelectSeq(@, LAMBDA e : e # r)]

DeletedRows_AsLeft(before, after, ids) == Answer(after, ids)

\* DELETE n RETURN n: the values before the columns were nulled.
DeletedRows(before, after, ids) == Answer(before, ids)

DeleteNodes(d, ids) ==
  LET Delete1(acc, r) ==
        [acc EXCEPT !.nodes[r] = Gone,
                    !.pk = IF keyed THEN DeleteEntry(@, acc.nodes[r].key, r) ELSE @,
                    !.fts = IF ftsDeletes THEN {doc \in @ : doc[1] # r} ELSE @]
      done == FoldLeft(Delete1, d, ids)
  IN  [done EXCEPT !.cardN = @ - Len(ids), !.out = DeletedRows(d.nodes, done.nodes, ids),
                   !.ok = TRUE]

Touches_SourceOnly(rel, ids) == rel # Cut /\ InAnswer(ids, rel[1])

\* The relationship rows of deleted nodes, looked for at both ends.
Touches(rel, ids) == rel # Cut /\ (InAnswer(ids, rel[1]) \/ InAnswer(ids, rel[2]))

Detach(d, ids) ==
  LET hit == {i \in DOMAIN d.rels : Touches(d.rels[i], ids)}
  IN  [d EXCEPT !.rels = [i \in DOMAIN @ |-> IF i \in hit THEN Cut ELSE @[i]],
                !.cardR = @ - Cardinality(hit)]

\* DELETE r: relationship rows at the row ids of column 0, which are those of a.
DeleteRels(d, is) ==
  LET ids == Column0(d, is)
  IN  [d EXCEPT !.rels = [i \in DOMAIN @ |-> IF InAnswer(ids, i) THEN Cut ELSE @[i]],
                !.cardR = IF @ >= Len(ids) THEN @ - Len(ids) ELSE 0,
                !.out = [i \in DOMAIN ids |->
                            <<ids[i], IF ids[i] \in DOMAIN d.rels THEN d.rels[ids[i]] ELSE Cut>>],
                !.ok = TRUE]
-----------------------------------------------------------------------------
(* What the statements describe *)

Named(k) == {n \in truth.nodes : n.key = k}
Row(n) == <<n.id, [key |-> n.key, val |-> n.val]>>
Rows(ns) == {Row(n) : n \in ns}

\* Nodes made in the order of new; the others as they were.
Plus(new) ==
  {[id |-> truth.ids + i, key |-> new[i].key, val |-> new[i].val] : i \in DOMAIN new}

DescribeCreate(new) ==
  truth' = [truth EXCEPT !.nodes = @ \cup Plus(new), !.ids = @ + Len(new),
                         !.out = Rows(Plus(new)), !.ok = TRUE]

DescribeRefusal == truth' = [truth EXCEPT !.out = {}, !.ok = FALSE]

DescribeChange(old, new) ==
  truth' = [truth EXCEPT !.nodes = (@ \ old) \cup new, !.out = Rows(new), !.ok = TRUE]

\* A node takes its relationships with it.
DescribeDelete(old) ==
  LET dead == {n.id : n \in old}
  IN  truth' = [truth EXCEPT !.nodes = @ \ old, !.out = Rows(old), !.ok = TRUE,
                             !.edges = SelectSeq(@, LAMBDA e : {e[1], e[2]} \cap dead = {})]

\* The node a MERGE finds: the first with the key.
First(k) == CHOOSE n \in Named(k) : \A m \in Named(k) : n.id <= m.id

DescribeMerge(ks, onCreate, onMatch) ==
  LET absent == SelectSeq(Upto(Len(ks)), LAMBDA i : /\ Named(ks[i]) = {}
                                                    /\ \A j \in 1..i - 1 : ks[j] # ks[i])
      made == Plus([i \in DOMAIN absent |-> [key |-> ks[absent[i]], val |-> onCreate]])
      old == {First(k) : k \in {k \in Range(ks) : Named(k) # {}}}
      new == {[n EXCEPT !.val = onMatch] : n \in old}
  IN  truth' = [truth EXCEPT !.nodes = (@ \ old) \cup new \cup made, !.ids = @ + Len(absent),
                             !.out = Rows(new \cup made), !.ok = TRUE]
-----------------------------------------------------------------------------
(* Statements *)

Runs == left > 0 /\ left' = left - 1
Fits(n) == Len(db.nodes) + n <= MaxNodes

\* CREATE (:N {key: k, val: v}).  A refused statement is rolled back.
Create(k, v) ==
  /\ Runs /\ Fits(1)
  /\ db' = CreateOne(db, k, v)
  /\ IF keyed /\ Named(k) # {} THEN DescribeRefusal
     ELSE DescribeCreate(<<[key |-> k, val |-> v]>>)
  /\ UNCHANGED <<setting, clean, searchable, bare>>

\* UNWIND [k1, k2] AS x CREATE (:N {key: x, val: v}).
Batch(k1, k2, v) ==
  LET new == <<[key |-> k1, val |-> v], [key |-> k2, val |-> v]>>
  IN  /\ Runs /\ Fits(2)
      /\ db' = CreateBatch(db, new)
      /\ DescribeCreate(new)
      /\ clean' = (clean /\ ~keyed)
      /\ searchable' = searchable \cup {Len(db.nodes) + 1, Len(db.nodes) + 2}
      /\ UNCHANGED <<setting, bare>>

\* MATCH (a {key: k1}), (b {key: k2}) CREATE (a)-[:R]->(b).
CreateRel(k1, k2, byKey) ==
  LET as == Scan(db, k1)
      bs == Scan(db, k2)
      pairs == [i \in 1..Len(as) * Len(bs) |->
                  <<as[1 + ((i - 1) \div Len(bs))], bs[1 + ((i - 1) % Len(bs))]>>]
      described == SetToSeq({<<a.id, b.id>> : a \in Named(k1), b \in Named(k2)})
  IN  /\ Runs /\ pairs # <<>> /\ Len(db.rels) + Len(pairs) <= MaxRels
      /\ db' = CreateRels(db, pairs, byKey)
      /\ truth' = [truth EXCEPT !.edges = @ \o described, !.ok = TRUE,
                                !.out = {<<Len(db.rels) + i, pairs[i]>> : i \in DOMAIN pairs}]
      /\ clean' = (clean /\ (byKey => Len(as) = 1 /\ Len(bs) = 1))
      /\ UNCHANGED <<setting, searchable, bare>>

\* UNWIND ks AS x MERGE (n:N {key: x}) ON CREATE SET n.val = .. ON MATCH SET n.val = ..
Merge(ks, onCreate, onMatch) ==
  LET new == MergeAll(db, ks, onCreate, onMatch)
      rows == {r[1] : r \in Range(new.out)}
  IN  /\ Runs /\ Fits(Len(ks))
      /\ db' = new
      /\ DescribeMerge(ks, onCreate, onMatch)
      /\ clean' = (clean /\ (keyed \/ IsInjective(ks) \/ Named(Head(ks)) # {}))
      /\ searchable' = (searchable \ rows) \cup (DOMAIN new.nodes \ DOMAIN db.nodes)
      /\ UNCHANGED <<setting, bare>>

\* MATCH (n {key: k}) SET n.val = v.
SetVal(k, v) ==
  LET ids == Scan(db, k)
  IN  /\ Runs
      /\ db' = SetRows(db, ids, [key |-> 0, val |-> v])
      /\ DescribeChange(Named(k), {[n EXCEPT !.val = v] : n \in Named(k)})
      /\ searchable' = searchable \cup Range(ids)
      /\ UNCHANGED <<setting, clean, bare>>

\* MATCH (n {key: k}) SET n.key = k2.
SetKey(k, k2) ==
  LET ids == Scan(db, k)
  IN  /\ Runs /\ ids # <<>>
      /\ db' = SetRows(db, ids, [key |-> k2, val |-> 0])
      /\ DescribeChange(Named(k), {[n EXCEPT !.key = k2] : n \in Named(k)})
      /\ clean' = (clean /\ ~keyed)
      /\ searchable' = searchable \cup Range(ids)
      /\ UNCHANGED <<setting, bare>>

\* MATCH (a)-[r]->(b {key: k}) SET b.val = v.
SetJoined(k, v) ==
  LET ids == Column0(db, Matched(db, k))
  IN  /\ Runs /\ ids # <<>>
      /\ db' = SetRows(db, ids, [key |-> 0, val |-> v])
      /\ DescribeChange(Named(k), {[n EXCEPT !.val = v] : n \in Named(k)})
      /\ clean' = FALSE
      /\ searchable' = searchable \cup Range(ids)
      /\ UNCHANGED <<setting, bare>>

\* MATCH (n {key: k}) [DETACH] DELETE n.
Delete(k, detach) ==
  LET ids == Scan(db, k)
      done == DeleteNodes(db, ids)
  IN  /\ Runs /\ ids # <<>>
      /\ db' = IF detach THEN Detach(done, ids) ELSE done
      /\ DescribeDelete(Named(k))
      /\ searchable' = searchable \ Range(ids)
      /\ bare' = IF detach THEN bare ELSE bare \cup Range(ids)
      /\ UNCHANGED <<setting, clean>>

\* MATCH (a)-[r]->(b {key: k}) DELETE r.
DeleteRel(k) ==
  LET is == Matched(db, k)
  IN  /\ Runs /\ is # <<>>
      /\ db' = DeleteRels(db, is)
      /\ clean' = FALSE
      /\ UNCHANGED <<setting, truth, searchable, bare>>

Next ==
  \/ \E k \in Keys, v \in Vals : Create(k, v)
  \/ \E k1, k2 \in Keys, v \in Vals : Batch(k1, k2, v)
  \/ \E k1, k2 \in Keys, byKey \in BOOLEAN : CreateRel(k1, k2, byKey)
  \/ \E k1, k2 \in Keys, v, w \in Vals : Merge(<<k1, k2>>, v, w)
  \/ \E k \in Keys, v \in Vals : SetVal(k, v)
  \/ \E k, k2 \in Keys : SetKey(k, k2)
  \/ \E k \in Keys, v \in Vals : SetJoined(k, v)
  \/ \E k \in Keys, detach \in BOOLEAN : Delete(k, detach)
  \/ \E k \in Keys : DeleteRel(k)

Spec == Init /\ [][Next]_vars
-----------------------------------------------------------------------------
(* Walking *)

\* The scan behind a walk where the table has no adjacency index: the first
\* cardinality rows.
Adjacent(d, n) ==
  {d.rels[i][2] : i \in {i \in 1..d.cardR : i <= Len(d.rels) /\ d.rels[i] # Cut
                                            /\ d.rels[i][1] = n}}

Seen_AnyDepth(visited, n, depth) == \E d \in 0..MaxDepth : <<n, d>> \in visited

\* A node is walked to once for every depth.
Seen(visited, n, depth) == <<n, depth>> \in visited

\* The queue of get_next: <<node, depth>>.
RECURSIVE Walk(_, _, _, _, _)
Walk(d, queue, visited, lo, hi) ==
  IF queue = <<>> THEN {}
  ELSE LET n == Head(queue)[1]
           depth == Head(queue)[2]
           fresh == IF depth < hi
                    THEN {<<m, depth + 1>> : m \in {m \in Adjacent(d, n) :
                                                      ~Seen(visited, m, depth + 1)}}
                    ELSE {}
       IN  (IF depth >= lo /\ depth > 0 THEN {<<n, depth>>} ELSE {})
             \cup Walk(d, Tail(queue) \o SetToSeq(fresh), visited \cup fresh, lo, hi)

RecursiveJoin(d, start, lo, hi) == Walk(d, <<<<start, 0>>>>, {<<start, 0>>}, lo, hi)

\* Some path of that many relationships leads there.
Leads(start, n, depth) ==
  \E path \in [1..depth -> DOMAIN truth.edges] :
    LET At(i) == truth.edges[path[i]]
    IN  /\ At(1)[1] = start /\ At(depth)[2] = n
        /\ \A i \in 2..depth : At(i)[1] = At(i - 1)[2]
-----------------------------------------------------------------------------
(* Properties *)

VisibleNodes == {[id |-> r, key |-> db.nodes[r].key, val |-> db.nodes[r].val] : r \in Live(db)}
VisibleEdges == SelectSeq(db.rels, LAMBDA e : e # Cut /\ e[1] \in Live(db) /\ e[2] \in Live(db))
Times(s, e) == Cardinality({i \in DOMAIN s : s[i] = e})

\* After any sequence of statements, the tables hold the nodes and relationships
\* the statements describe: MERGE finds what is there and makes what is not, a
\* primary key is refused exactly when it is taken, DETACH DELETE takes every
\* relationship of a node (dml.rs:182, 449, 726, 1039, 1340).
GraphRight ==
  clean => /\ VisibleNodes = truth.nodes
           /\ \A a, b \in 1..truth.ids :
                Times(VisibleEdges, <<a, b>>) = Times(truth.edges, <<a, b>>)
           /\ db.ok = truth.ok

\* What a statement hands to RETURN is what it wrote, and what it deleted as it
\* was before (dml.rs:22, 72, 945).
AnswerRight == clean => Range(db.out) = truth.out

\* DETACH DELETE leaves no relationship row of a deleted node behind, whatever ran
\* before: a row that still names a deleted node names one deleted without DETACH
\* (dml.rs:824).
NoneDangling ==
  \A i \in DOMAIN db.rels : db.rels[i] # Cut => Range(db.rels[i]) \subseteq Live(db) \cup bare

\* Text written by a batch CREATE, a SET or the creating half of MERGE is found by
\* the full-text index (dml.rs:237, 586, 1549).
TextFound == \A r \in searchable : <<r, db.nodes[r].val>> \in db.fts

\* A walk between two depths finds a node at a depth exactly when a path of that
\* many relationships leads to it, while no relationship row has been deleted and no
\* node with relationships has (recursive_join.rs:107).
WalkRight ==
  (clean /\ db.cardR = Len(db.rels) /\ Len(VisibleEdges) = Len(db.rels)) =>
    \A start \in Live(db), lo \in 1..2 :
      RecursiveJoin(db, start, lo, MaxDepth) =
        {<<n, depth>> \in (1..truth.ids) \X (lo..MaxDepth) : Leads(start, n, depth)}
=============================================================================

------------------------------- MODULE Memory -------------------------------
(***************************************************************************)
(* The agent-memory store: entities kept as rows of one node table, found  *)
(* through four structures of their own: the primary-key index, the        *)
(* full-text index, the vector index and the adjacency (CSR) indexes of    *)
(* the Relates table.                                                      *)
(*                                                                         *)
(* An entity is never deleted: forget and decay give its row an end of     *)
(* validity.  Every operation is a chain of separate transactions, one     *)
(* action each, and clients interleave between them.  A statement that     *)
(* SETs a row another client has set since the statement's snapshot fails  *)
(* (first updater wins): `raced' marks the statements this can happen to.  *)
(***************************************************************************)
EXTENDS Integers, Sequences, SequencesExt

CONSTANTS
    Clients,
    Ids,          \* entity ids
    Entities,     \* what may be stored: records [text, emb, ttl, until]
    Batches,      \* arguments of store_batch: sequences of [id, ent]
    Pairs,        \* arguments of associate: pairs of ids
    ChanCap,      \* capacity of a subscriber's channel
    MaxTime, MaxOps

VARIABLES
    rows,         \* the Entity table; a row id is a position
    pk,           \* primary-key index: the live entries of each id, in order
    fts,          \* full-text documents <<row, text>>
    vec,          \* rows with a vector
    rels,         \* the Relates table: pairs of row ids, <<0, 0>> when deleted
    fwd, bwd,     \* the CSR indexes
    chan,         \* a subscriber's events
    now,
    lastTs,       \* last_consolidation_ts
    op,           \* what each client is doing
    used,
    ftsDeletes,   \* whether Tantivy's delete_term finds the id field
    expect,       \* history: what a reader must see of each id
    linked        \* history: pairs associated and not forgotten since

vars == <<rows, pk, fts, vec, rels, fwd, bwd, chan, now, lastTs, op,
          used, ftsDeletes, expect, linked>>

Forever == MaxTime + 10      \* i64::MAX
Either == "any"
Gone == "gone"
Texts == {e.text : e \in Entities}

\* `need' are the ids an operation resolves to rows and `got' the rows so far
\* (0 for none); `vague' that a reader may see either outcome.
Idle == [at |-> "idle", kind |-> "", id |-> "", ent |-> 0, need |-> <<>>, got |-> <<>>,
         todo |-> {}, raced |-> FALSE, vague |-> FALSE]
Busy(d) == op[d].at # "idle"

Init ==
    /\ rows = <<>>
    /\ pk = [i \in Ids |-> <<>>]
    /\ fts = {} /\ vec = {} /\ fwd = {} /\ bwd = {}
    /\ rels = <<>> /\ chan = <<>>
    /\ now = 1 /\ lastTs = 0
    /\ op = [c \in Clients |-> Idle]
    /\ used = 0
    /\ ftsDeletes \in BOOLEAN
    /\ expect = [i \in Ids |-> Gone]
    /\ linked = {}

-----------------------------------------------------------------------------
(* Reads.                                                                  *)

RowsOf(i) == {r \in DOMAIN rows : rows[r].id = i}
\* The two validity tests of the queries.
Current(r) == rows[r].until \in {0, Forever}
Unexpired(r) == rows[r].until > now
Smallest(R) == CHOOSE r \in R : \A s \in R : r <= s

\* get: the first row that has not expired.
Get(i) ==
    LET R == {r \in RowsOf(i) : Unexpired(r)}
    IN  IF R = {} THEN Gone ELSE rows[Smallest(R)].text

\* recall_with_config, its limits aside: documents and vectors looked up as
\* current rows.
Recall(text) == {rows[r].id : r \in {r \in {d[1] : d \in {d \in fts : d[2] = text}} : Current(r)}}
RecallByVector == {rows[r].id : r \in {r \in vec : Current(r)}}

\* recall_recent, recall_by_type and recall_by_time read the table.
RecallRecent == {r \in DOMAIN rows : Current(r)}

\* resolve_to_internal_id, the index first and then a query.
ByQuery(i) == {r \in RowsOf(i) : rows[r].until = 0 \/ Unexpired(r)}

Live == Range(rels) \ {<<0, 0>>}

RECURSIVE Reach(_, _)
Reach(R, hops) ==
    IF hops = 0 THEN R
    ELSE Reach(R \cup {e[2] : e \in {e \in fwd : e[1] \in R}}
                 \cup {e[2] : e \in {e \in bwd : e[1] \in R}}, hops - 1)

\* expand: breadth-first over both CSR indexes; when every neighbour has
\* expired, the Relates table, by the ids of its ends.
Expand(i, hops) ==
    LET start == IF pk[i] # <<>> THEN {pk[i][1]}
                 ELSE IF ByQuery(i) # {} THEN {Smallest(ByQuery(i))} ELSE {}
        near == Reach(start, hops) \ start
        found == {rows[r].id : r \in {r \in near : rows[r].until = 0 \/ Unexpired(r)}}
        byTable == {rows[e[2]].id : e \in {e \in Live : rows[e[1]].id = i}}
                   \cup {rows[e[1]].id : e \in {e \in Live : rows[e[2]].id = i}}
    IN  IF near = {} THEN {}
        ELSE IF found # {} THEN found
        ELSE {j \in byTable : Get(j) # Gone}

-----------------------------------------------------------------------------
(* Writes.                                                                 *)

\* Mutant: the documents of rows a SET changes are only deleted.
Reindexed_DeleteOnly(new, R) == {d \in fts : d[1] \notin R \/ ~ftsDeletes}

\* What PhysicalSet and the commit do to the rows R a SET changes: the rows,
\* their documents indexed again, and the conflict other clients may meet.
Reindexed(new, R) ==
    {d \in fts : d[1] \notin R \/ ~ftsDeletes} \cup {<<r, new[r].text>> : r \in R}

\* The clients whose next statement SETs rows of an id in I.
Setting(d, I) ==
    \/ op[d].at \in {"update", "insert", "soft"} /\ op[d].id \in I
    \/ op[d].at = "decaying" /\ op[d].todo \cap I # {}
Racing(I, c, o) ==
    [d \in Clients |-> IF d = c THEN o
                       ELSE IF I # {} /\ Setting(d, I) THEN [op[d] EXCEPT !.raced = TRUE]
                       ELSE op[d]]
To(c, at) == [op[c] EXCEPT !.at = at, !.raced = FALSE]

\* An operation on id i, on all ids ("*") or on links ("-") starts: it and those
\* it meets may end either way.
Meets(d, i) == Busy(d) /\ (i \in {"*", "-"} \/ op[d].id \in {i, "*", "-"})
Begin(c, i, o) ==
    /\ ~Busy(c)
    /\ used < MaxOps
    /\ used' = used + 1
    /\ op' = [d \in Clients |->
                IF d = c THEN [o EXCEPT !.id = i, !.vague = \E e \in Clients : Meets(e, i)]
                ELSE IF Meets(d, i) THEN [op[d] EXCEPT !.vague = TRUE] ELSE op[d]]
    /\ UNCHANGED <<now, lastTs, ftsDeletes>>

\* bulk_insert_batch: rows the primary-key index knows are overwritten, the
\* others appended.  The lookups all come first, so an id twice in one batch
\* is two rows.
Fresh(ent, i) ==
    [id |-> i, text |-> ent.text, created |-> now, ttl |-> ent.ttl,
     until |-> IF ent.until = 0 THEN Forever ELSE ent.until]
RowIdsOf(batch) ==
    LET IsNew(k) == pk[batch[k].id] = <<>>
        Before(k) == Len(SelectSeq(SubSeq(batch, 1, k), LAMBDA b : pk[b.id] = <<>>))
    IN  [k \in DOMAIN batch |-> IF IsNew(k) THEN Len(rows) + Before(k) ELSE pk[batch[k].id][1]]

\* The rows appended and those overwritten, the last of a batch winning.
Written(batch) ==
    LET at == RowIdsOf(batch)
        From(r) == {k \in DOMAIN batch : at[k] = r}
        LastOf(K) == CHOOSE k \in K : \A m \in K : m <= k
    IN  [r \in DOMAIN rows \cup Range(at) |->
            IF From(r) = {} THEN rows[r]
            ELSE Fresh(batch[LastOf(From(r))].ent, batch[LastOf(From(r))].id)]

\* Entries for the appended rows only.
PkEntries(batch) ==
    [i \in Ids |->
        IF pk[i] # <<>> THEN pk[i]
        ELSE LET mine == SelectSeq([k \in DOMAIN batch |-> k], LAMBDA k : batch[k].id = i)
             IN  [m \in DOMAIN mine |-> RowIdsOf(batch)[mine[m]]]]

\* One entity with an embedding makes a column of them: the others get zeros.
Vectors(batch) ==
    IF \E k \in DOMAIN batch : batch[k].ent.emb THEN Range(RowIdsOf(batch)) ELSE {}

\* Documents are added at commit, none removed.
Documents(batch) == {<<RowIdsOf(batch)[k], batch[k].ent.text>> : k \in DOMAIN batch}

BulkInsert(batch) ==
    /\ rows' = Written(batch)
    /\ pk' = PkEntries(batch)
    /\ fts' = fts \cup Documents(batch)
    /\ vec' = vec \cup Vectors(batch)

\* What a reader must see after a store of `text', unless the outcome is open:
\* it met another operation, matched no row, or the row has an end of its own.
Sees(c, i, text, new) ==
    LET mine == {r \in DOMAIN new : new[r].id = i}
    IN  IF \/ op[c].vague
           \/ \A r \in mine : new[r].until # Forever
           \/ \E r \in mine : new[r].until > now /\ new[r].until # Forever
        THEN Either ELSE text

table == <<rows, pk, fts, vec>>
graph == <<rels, fwd, bwd>>
clock == <<now, lastTs, ftsDeletes, used>>

\* store
Store(c, i, e) ==
    /\ Begin(c, i, [Idle EXCEPT !.at = "resolve", !.kind = "store", !.ent = e, !.need = <<i>>])
    /\ expect' = [expect EXCEPT ![i] = Either]
    /\ UNCHANGED <<table, graph, chan, linked>>

\* resolve_to_internal_id: the next of the ids to resolve.
Resolve(c) ==
    /\ op[c].at = "resolve"
    /\ Len(op[c].got) < Len(op[c].need)
    /\ LET i == op[c].need[Len(op[c].got) + 1]
       IN  op' = [op EXCEPT ![c] =
               IF pk[i] # <<>> THEN [@ EXCEPT !.got = Append(@, pk[i][1])]
               ELSE IF ByQuery(i) = {} THEN [@ EXCEPT !.got = Append(@, 0)]
               ELSE [@ EXCEPT !.at = "reindex", !.got = Append(@, Smallest(ByQuery(i)))]]
    /\ UNCHANGED <<table, graph, chan, clock, expect, linked>>

\* A row found by the query is put back into the primary-key index.
Reindex(c) ==
    /\ op[c].at = "reindex"
    /\ pk' = [pk EXCEPT ![op[c].need[Len(op[c].got)]] = Append(@, Last(op[c].got))]
    /\ op' = [op EXCEPT ![c] = To(c, "resolve")]
    /\ UNCHANGED <<rows, fts, vec, graph, chan, clock, expect, linked>>

\* Once resolved, a store updates the row or inserts one; expand ends.
Resolved(c) ==
    /\ op[c].at = "resolve"
    /\ Len(op[c].got) = Len(op[c].need)
    /\ op' = [op EXCEPT ![c] =
           IF op[c].kind = "store" THEN To(c, IF op[c].got[1] # 0 THEN "update" ELSE "insert")
           ELSE IF op[c].kind = "expand" THEN Idle
           ELSE To(c, IF 0 \in Range(op[c].got) THEN "next" ELSE "csr")]
    /\ UNCHANGED <<table, graph, chan, clock, expect, linked>>

\* update_entity: the SET, which leaves the dates alone.
Update(c) ==
    /\ op[c].at = "update"
    /\ LET i == op[c].id
           R == {r \in RowsOf(i) : Unexpired(r)}
           new == [r \in DOMAIN rows |->
                      IF r \in R THEN [rows[r] EXCEPT !.text = op[c].ent.text, !.ttl = op[c].ent.ttl]
                      ELSE rows[r]]
           o == [To(c, IF op[c].ent.emb THEN "vector" ELSE "emit") EXCEPT
                    !.vague = @ \/ R = {}]
       IN  /\ rows' = new
           /\ fts' = Reindexed(new, R)
           /\ op' = Racing(IF R = {} THEN {} ELSE {i}, c, o)
    /\ UNCHANGED <<pk, vec, graph, chan, clock, expect, linked>>

\* The SET meets another client's change of the row: store returns the error.
StoreConflict(c) ==
    /\ op[c].at \in {"update", "insert"}
    /\ op[c].raced
    /\ op' = [op EXCEPT ![c] = Idle]
    /\ UNCHANGED <<table, graph, chan, clock, expect, linked>>

\* The vector is replaced in a transaction of its own.
UpdateVector(c) ==
    /\ op[c].at = "vector"
    /\ vec' = vec \cup {op[c].got[1]}
    /\ op' = [op EXCEPT ![c] = To(c, "emit")]
    /\ UNCHANGED <<rows, pk, fts, graph, chan, clock, expect, linked>>

Insert(c) ==
    /\ op[c].at = "insert"
    /\ BulkInsert(<<[id |-> op[c].id, ent |-> op[c].ent]>>)
    /\ op' = [op EXCEPT ![c] = To(c, "emit")]
    /\ UNCHANGED <<graph, chan, clock, expect, linked>>

\* store_batch: no event, and the expectation is that of the last of an id.
StoreBatch(c, batch) ==
    LET Mine(i) == {k \in DOMAIN batch : batch[k].id = i}
        Twice(i) == \E k, m \in DOMAIN batch : k # m /\ batch[k].id = i /\ batch[m].id = i
        Text(i) == batch[CHOOSE k \in Mine(i) : TRUE].ent.text
        Touched(i) == \E d \in Clients \ {c} : Meets(d, i)
    IN  /\ ~Busy(c)
        /\ used < MaxOps
        /\ used' = used + 1
        /\ BulkInsert(batch)
        /\ op' = [d \in Clients |->
                     IF Busy(d) /\ \E k \in DOMAIN batch : Meets(d, batch[k].id)
                     THEN [op[d] EXCEPT !.vague = TRUE, !.raced = TRUE] ELSE op[d]]
        /\ expect' = [i \in Ids |->
                IF Mine(i) = {} THEN expect[i]
                ELSE IF Touched(i) \/ Twice(i) THEN Either
                ELSE Sees(c, i, Text(i), rows')]
        /\ UNCHANGED <<graph, chan, now, lastTs, ftsDeletes, linked>>

\* emit_cdc_event: try_send, so a full channel loses the event.
Emit(c) ==
    /\ op[c].at = "emit"
    /\ LET kind == IF op[c].kind = "forget" THEN "DELETE"
                   ELSE IF op[c].got[1] # 0 THEN "UPDATE" ELSE "INSERT"
       IN  chan' = IF Len(chan) < ChanCap THEN Append(chan, <<kind, op[c].id>>) ELSE chan
    /\ op' = [op EXCEPT ![c] = Idle]
    /\ expect' = [expect EXCEPT ![op[c].id] =
           IF op[c].kind = "forget" THEN (IF op[c].vague THEN Either ELSE Gone)
           ELSE Sees(c, op[c].id, op[c].ent.text, rows)]
    /\ UNCHANGED <<table, graph, clock, linked>>

Receive ==
    /\ chan # <<>>
    /\ chan' = Tail(chan)
    /\ UNCHANGED <<table, graph, clock, op, expect, linked>>

\* forget: the index entry, looked up without the query.
Forget(c, i) ==
    /\ Begin(c, i, [Idle EXCEPT !.at = IF pk[i] = <<>> THEN "soft" ELSE "unindex",
                     !.kind = "forget", !.got = IF pk[i] = <<>> THEN <<0>> ELSE <<pk[i][1]>>])
    /\ expect' = [expect EXCEPT ![i] = IF @ = Gone THEN Gone ELSE Either]
    /\ linked' = {p \in linked : i \notin Range(p)}
    /\ UNCHANGED <<table, graph, chan>>

\* One transaction takes the row out of the vector and primary-key indexes.
Unindex(c) ==
    /\ op[c].at = "unindex"
    /\ vec' = vec \ {op[c].got[1]}
    /\ pk' = [pk EXCEPT ![op[c].id] = RemoveFirst(@, op[c].got[1])]
    /\ op' = [op EXCEPT ![c] = To(c, "unfts")]
    /\ UNCHANGED <<rows, fts, graph, chan, clock, expect, linked>>

ForgetDocument(c) ==
    /\ op[c].at = "unfts"
    /\ fts' = {d \in fts : d[1] # op[c].got[1] \/ ~ftsDeletes}
    /\ op' = [op EXCEPT ![c] = To(c, "soft")]
    /\ UNCHANGED <<rows, pk, vec, graph, chan, clock, expect, linked>>

\* Mutant: only rows stored with no end at all, which store_batch never makes.
Forgettable_NoEnd(i) == {r \in RowsOf(i) : rows[r].until = 0}

\* The rows the soft delete ends.
Forgettable(i) == {r \in RowsOf(i) : Current(r)}

SoftDelete(c) ==
    /\ op[c].at = "soft"
    /\ LET i == op[c].id
           R == Forgettable(i)
           new == [r \in DOMAIN rows |->
                      IF r \in R THEN [rows[r] EXCEPT !.until = now] ELSE rows[r]]
           kept == \E r \in RowsOf(i) : Unexpired(r) /\ ~Current(r)
       IN  /\ rows' = new
           /\ fts' = Reindexed(new, R)
           /\ op' = Racing(IF R = {} THEN {} ELSE {i}, c,
                           [To(c, "unlink") EXCEPT !.vague = @ \/ kept])
    /\ UNCHANGED <<pk, vec, graph, chan, clock, expect, linked>>

\* A conflict is only logged.
SoftDeleteConflict(c) ==
    /\ op[c].at = "soft"
    /\ op[c].raced
    /\ op' = [op EXCEPT ![c] = To(c, "unlink")]
    /\ UNCHANGED <<table, graph, chan, clock, expect, linked>>

\* MATCH (a)-[r]->(b) WHERE a.id = $id DELETE r.  PhysicalDelete takes the row to
\* delete from the first column it is given, which is the row of a, not of r.
\* The CSR indexes keep their edges.
Unlink(c) ==
    /\ op[c].at = "unlink"
    /\ LET matched == {e[1] : e \in {e \in Live : rows[e[1]].id = op[c].id}}
       IN  rels' = [k \in DOMAIN rels |-> IF k \in matched THEN <<0, 0>> ELSE rels[k]]
    /\ op' = [op EXCEPT ![c] = To(c, "emit")]
    /\ UNCHANGED <<table, fwd, bwd, chan, clock, expect, linked>>

\* decay: the ids that have outlived their time to live ...
Expired == {rows[r].id : r \in {r \in DOMAIN rows :
               rows[r].ttl > 0 /\ Current(r) /\ rows[r].created + rows[r].ttl <= now}}
Decay(c) ==
    /\ Begin(c, "*", [Idle EXCEPT !.at = "decaying", !.kind = "decay", !.todo = Expired])
    /\ expect' = [i \in Ids |-> IF i \in Expired /\ expect[i] # Gone THEN Either ELSE expect[i]]
    /\ linked' = {p \in linked : Range(p) \cap Expired = {}}
    /\ UNCHANGED <<table, graph, chan>>

\* ... one after the other, every row of the id.
DecayOne(c) ==
    /\ op[c].at = "decaying"
    /\ \E i \in op[c].todo :
        LET R == RowsOf(i)
            new == [r \in DOMAIN rows |->
                       IF r \in R THEN [rows[r] EXCEPT !.until = now] ELSE rows[r]]
        IN  /\ rows' = new
            /\ fts' = Reindexed(new, R)
            /\ op' = Racing({i}, c, [op[c] EXCEPT !.todo = @ \ {i}])
            /\ expect' = [expect EXCEPT ![i] = IF op[c].vague THEN Either ELSE Gone]
    /\ UNCHANGED <<pk, vec, graph, chan, clock, linked>>

DecayConflict(c) ==
    /\ op[c].at = "decaying"
    /\ op[c].raced
    /\ \E i \in op[c].todo : op' = [op EXCEPT ![c].todo = @ \ {i}]
    /\ UNCHANGED <<table, graph, chan, clock, expect, linked>>

DecayEnd(c) ==
    /\ op[c].at = "decaying"
    /\ op[c].todo = {}
    /\ op' = [op EXCEPT ![c] = Idle]
    /\ UNCHANGED <<table, graph, chan, clock, expect, linked>>

\* associate, and consolidate with the pairs it has found similar.
Associate(c, p) ==
    /\ Begin(c, "-", [Idle EXCEPT !.at = "next", !.kind = "associate", !.todo = {p}])
    /\ UNCHANGED <<table, graph, chan, expect, linked>>

NewSince == {r \in RecallRecent : rows[r].created > lastTs}
Consolidate(c) ==
    /\ NewSince # {}
    /\ Begin(c, "-", [Idle EXCEPT !.at = "next", !.kind = "consolidate",
           !.todo = {<<rows[p[1]].id, rows[p[2]].id>> :
                       p \in {p \in NewSince \X RecallRecent :
                                p[1] # p[2] /\ rows[p[1]].text = rows[p[2]].text}}])
    /\ UNCHANGED <<table, graph, chan, expect, linked>>

\* The CREATE: between every row of the one id and every row of the other.
Link(c) ==
    /\ op[c].at = "next"
    /\ \E p \in op[c].todo :
        /\ rels' = rels \o SetToSeq(RowsOf(p[1]) \X RowsOf(p[2]))
        /\ op' = [op EXCEPT ![c] = [To(c, "resolve") EXCEPT
                       !.todo = @ \ {p}, !.need = p, !.got = <<>>]]
    /\ UNCHANGED <<table, fwd, bwd, chan, clock, expect, linked>>

\* Mutant: the backward index is not told of the edge.
Edges_ForwardOnly(g) == [fwd |-> fwd \cup {<<g[1], g[2]>>}, bwd |-> bwd]

\* insert_edge, both ways, and compact.
Edges(g) == [fwd |-> fwd \cup {<<g[1], g[2]>>}, bwd |-> bwd \cup {<<g[2], g[1]>>}]

LinkCsr(c) ==
    /\ op[c].at = "csr"
    /\ fwd' = Edges(op[c].got).fwd
    /\ bwd' = Edges(op[c].got).bwd
    /\ linked' = IF op[c].vague THEN linked ELSE linked \cup {op[c].need}
    /\ op' = [op EXCEPT ![c] = To(c, "next")]
    /\ UNCHANGED <<table, rels, chan, clock, expect>>

LinkEnd(c) ==
    /\ op[c].at = "next"
    /\ op[c].todo = {}
    /\ lastTs' = IF op[c].kind = "consolidate" THEN now ELSE lastTs
    /\ op' = [op EXCEPT ![c] = Idle]
    /\ UNCHANGED <<table, graph, chan, now, ftsDeletes, used, expect, linked>>

\* expand resolves its start as store does, and so may write the index.
ExpandFrom(c, i) ==
    /\ Begin(c, "-", [Idle EXCEPT !.at = "resolve", !.kind = "expand", !.need = <<i>>])
    /\ UNCHANGED <<table, graph, chan, expect, linked>>

Tick ==
    /\ now < MaxTime
    /\ now' = now + 1
    /\ UNCHANGED <<table, graph, chan, lastTs, op, used, ftsDeletes, expect, linked>>

Next ==
    \/ \E c \in Clients :
        \/ \E i \in Ids, e \in Entities : Store(c, i, e)
        \/ \E b \in Batches : StoreBatch(c, b)
        \/ \E i \in Ids : Forget(c, i)
        \/ \E p \in Pairs : Associate(c, p)
        \/ \E i \in Ids : ExpandFrom(c, i)
        \/ Decay(c)
        \/ Consolidate(c)
        \/ Resolve(c) \/ Reindex(c) \/ Resolved(c)
        \/ Update(c) \/ StoreConflict(c) \/ UpdateVector(c) \/ Insert(c) \/ Emit(c)
        \/ Unindex(c) \/ ForgetDocument(c) \/ SoftDelete(c) \/ SoftDeleteConflict(c) \/ Unlink(c)
        \/ DecayOne(c) \/ DecayConflict(c) \/ DecayEnd(c)
        \/ Link(c) \/ LinkCsr(c) \/ LinkEnd(c)
    \/ Receive
    \/ Tick

Spec == Init /\ [][Next]_vars

-----------------------------------------------------------------------------
(* Properties.                                                             *)

\* A forgotten or decayed entity is out of every reader's sight: get, recall by
\* text and by vector, the table scans and the expansion of any other entity,
\* whatever document, vector, index entry or edge of it is left behind.
Forgotten ==
    \A i \in Ids : expect[i] = Gone =>
        /\ Get(i) = Gone
        /\ \A t \in Texts : i \notin Recall(t)
        /\ i \notin RecallByVector
        /\ \A r \in RecallRecent : rows[r].id # i
        /\ \A j \in Ids : i \notin Expand(j, 2)

\* An entity whose last store met no other operation reads as it was stored,
\* and the text finds it, until something forgets it or it decays.
Stored ==
    \A i \in Ids : expect[i] \in Texts => Get(i) = expect[i] /\ i \in Recall(expect[i])

\* Entities associated and not forgotten since are each other's neighbours.
Linked ==
    \A p \in linked :
        /\ Get(p[2]) # Gone => p[2] \in Expand(p[1], 1)
        /\ Get(p[1]) # Gone => p[1] \in Expand(p[2], 1)
=============================================================================

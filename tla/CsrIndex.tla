------------------------------ MODULE CsrIndex ------------------------------
(***************************************************************************)
(* The adjacency index of the RELATES table: storage/index/csr.rs, the     *)
(* rebuild in storage_manager.rs, and its callers MemoryStore::associate,  *)
(* DETACH DELETE, variable-length queries and Database::optimize.  Only    *)
(* the forward index is modelled: the backward one runs the same code on   *)
(* the edges turned round.                                                 *)
(*                                                                         *)
(* An index is a page-backed base (an offset per node and the list of      *)
(* neighbours it points into) and two in-memory buffers, insertions and    *)
(* deletions not yet compacted into the base.  The table itself, rows, is  *)
(* the truth.  Base pages are versioned by transaction like all pages, the *)
(* buffers are not: they are shared by everyone and change at once.        *)
(*                                                                         *)
(* Rows hold one edge <<source, target>>, or Gone once detached.  Node ids *)
(* are row ids of the Entity table, 0 .. N - 1, and are never used again.  *)
(***************************************************************************)
EXTENDS Integers, Sequences, SequencesExt, FiniteSets

CONSTANTS
  N,          \* nodes of the Entity table
  Threads,    \* callers of associate and optimize
  MaxRows,    \* bound on the relationships created
  PageWords,  \* words of four bytes in a page (1024 in the code)
  MaxOther    \* bound on the operations other than associate

VARIABLES
  rows,       \* the RELATES table
  gone,       \* the nodes deleted
  base,       \* the committed version of the index's pages
  paged,      \* the offset file has its first page
  pend,       \* pending_edges
  dels,       \* pending_deletions
  fresh,      \* csr_cardinalities: the row count of the last rebuild, 0 for none
  task,       \* what each thread is doing
  others,     \* operations other than associate so far
  clean       \* history: none of the disturbances named below has happened

vars == <<rows, gone, base, paged, pend, dels, fresh, task, others, clean>>

Gone == <<>>
Nodes == 0 .. N - 1
Slots == 0 .. N + 1          \* offset slots of a file: one more than any build writes
Live == SelectSeq(rows, LAMBDA e : e # Gone)
RelCardinality == Len(Live)  \* stats.cardinality of the RELATES table

\* The pages of an index no build has been committed to.
Blank == [hdr |-> FALSE, off |-> [i \in Slots |-> 0], adj |-> <<>>]

Idle == [pc |-> "idle", edge |-> Gone, snap |-> Blank, all |-> <<>>, out |-> Blank]

\* A count of the edges of a sequence, to compare sequences as bags.
Count(es, e) == Len(SelectSeq(es, LAMBDA f : f = e))
SameEdges(es, fs) == \A e \in ToSet(es \o fs) : Count(es, e) = Count(fs, e)

-----------------------------------------------------------------------------
(* Building and reading the base                                           *)

\* The offset of a slot: how many of the edges have a smaller source.
OffsetsOf(es, i) == Len(SelectSeq(es, LAMBDA e : e[1] < i))

\* CSRIndex::build: a stable sort by source, offsets for numNodes + 2 slots,
\* both written over the newest committed pages, whose other bytes are kept.
Build(old, es, numNodes) ==
  LET kept == SelectSeq(es, LAMBDA e : e[1] <= numNodes)
      sorted == FlattenSeq([i \in 1 .. N |->
                  SelectSeq(es, LAMBDA e : e[1] = i - 1)])
  IN  [hdr |-> TRUE,
       off |-> [i \in Slots |-> IF i < numNodes + 2 THEN OffsetsOf(kept, i) ELSE old.off[i]],
       adj |-> [i \in 1 .. (IF Len(sorted) > Len(old.adj) THEN Len(sorted) ELSE Len(old.adj)) |->
                  IF i <= Len(sorted) THEN sorted[i][2] ELSE old.adj[i]]]

\* An adjacency slot never written reads as zero.
AdjAt(pages, i) == IF i <= Len(pages.adj) THEN pages.adj[i] ELSE 0

\* for_each_base_neighbor: what the two offsets of a node delimit, for adjacency
\* files of one page (its loop does not get past a value across two pages).
BaseNeighbors(pages, deleted, n) ==
  SelectSeq([k \in 1 .. (pages.off[n + 1] - pages.off[n]) |->
               <<n, AdjAt(pages, pages.off[n] + k)>>],
            LAMBDA e : e \notin ToSet(deleted))

\* for_each_neighbor: the base and then the pending edges, deletions filtered.
Neighbors(pages, pending, deleted, n) ==
  (IF pages.off[n + 1] <= pages.off[n] THEN <<>> ELSE BaseNeighbors(pages, deleted, n))
    \o SelectSeq(pending, LAMBDA e : e[1] = n /\ e \notin ToSet(deleted))

\* read_u64_batch over a whole file: a header of three words, then two words a
\* value.  Of every page it takes as many values as fit between its position and
\* the page's end; an odd word left over is skipped, and with it the alignment
\* to the values that follow.  (A value across two pages keeps both its halves
\* here: the upper one, which build writes past the frame's end, is zero.)
HeaderWords == 3
WordAt(vals, w) ==
  LET i == (w - HeaderWords) \div 2 + 1
  IN  IF w >= HeaderWords /\ i <= Len(vals) /\ (w - HeaderWords) % 2 = 0 THEN vals[i] ELSE 0
UpperWord == 1000             \* stands for 2^32

ReadBatch(vals) ==
  LET filePages == (HeaderWords + 2 * Len(vals)) \div PageWords + 1
      first(p) == IF p = 1 THEN HeaderWords ELSE 0
      page(p) == [k \in 1 .. (PageWords - first(p)) \div 2 |->
                    LET w == (p - 1) * PageWords + first(p) + 2 * (k - 1)
                    IN  WordAt(vals, w) + UpperWord * WordAt(vals, w + 1)]
  IN  FlattenSeq([p \in 1 .. filePages |-> page(p)])

OffsetsRead(pages) ==
  LET read == ReadBatch([i \in 1 .. N + 2 |-> pages.off[i - 1]])
  IN  [i \in Slots |-> IF i < Len(read) THEN read[i + 1] ELSE 0]

\* scan_edges_from_csr: the last slot whose offset grows ends the table, and
\* the position only follows the slots' ends.
ScanEdges(pages) ==
  LET off == OffsetsRead(pages)
      adj == ReadBatch(pages.adj)
      grow == {i \in Slots \ {N + 1} : off[i] < off[i + 1]}
      numNodes == IF grow = {} THEN 0 ELSE 1 + (CHOOSE i \in grow : \A j \in grow : j <= i)
      total == off[numNodes]
      last == IF total < Len(adj) THEN total ELSE Len(adj)
      start(src) == IF src = 0 THEN 0 ELSE off[src]
      stop(src) == IF off[src + 1] < last THEN off[src + 1] ELSE last
  IN  FlattenSeq([i \in 1 .. numNodes |->
        [k \in 1 .. (IF stop(i - 1) > start(i - 1) THEN stop(i - 1) - start(i - 1) ELSE 0) |->
           <<i - 1, adj[start(i - 1) + k]>>]])

\* Mutant: the buffered deletions are not applied.
CollectAllEdges_Unfiltered(pages, pending, deleted) == ScanEdges(pages) \o pending

\* collect_all_edges.
CollectAllEdges(pages, pending, deleted) ==
  SelectSeq(ScanEdges(pages) \o pending, LAMBDA e : e \notin ToSet(deleted))

\* compact sizes the offset table by the largest source.
LargestSource(es) == CHOOSE m \in Nodes :
                       /\ \E e \in ToSet(es) : e[1] = m
                       /\ \A e \in ToSet(es) : e[1] <= m

\* A smaller build leaves offsets of an earlier, larger one behind it.
Outlived(pages, es) ==
  \E i \in Slots : i >= LargestSource(es) + 2 /\ pages.off[i] # 0

\* node_id_capacity: the Entity table's live row count, or the file's rows when
\* that count is zero.
NodeCapacity == IF Cardinality(gone) = N THEN N ELSE N - Cardinality(gone)

\* rebuild_csr scans as many rows as are live, and drops the detached ones and
\* those with an end at or beyond the node capacity.
RebuiltEdges ==
  SelectSeq(SubSeq(rows, 1, RelCardinality),
            LAMBDA e : e # Gone /\ e[1] < NodeCapacity /\ e[2] < NodeCapacity)

Stale == RelCardinality # fresh

-----------------------------------------------------------------------------
Init ==
  /\ rows = <<>> /\ gone = {}
  /\ base = Blank /\ paged = FALSE
  /\ pend = <<>> /\ dels = <<>> /\ fresh = 0
  /\ task = [t \in Threads |-> Idle]
  /\ others = 0 /\ clean = TRUE

Quiet == \A t \in Threads : task[t] = Idle

Other == others < MaxOther /\ others' = others + 1

\* associate: its CREATE statement commits the row and marks the index stale.
Associate(t, s, d) ==
  /\ task[t] = Idle
  /\ Len(rows) < MaxRows
  /\ {s, d} \cap gone = {}
  /\ rows' = Append(rows, <<s, d>>)
  /\ fresh' = 0
  /\ task' = [task EXCEPT ![t] = [Idle EXCEPT !.pc = "resolve", !.edge = <<s, d>>]]
  /\ UNCHANGED <<gone, base, paged, pend, dels, others, clean>>

\* Both ends are looked up again; one deleted meanwhile ends the call.
Resolve(t) ==
  /\ task[t].pc = "resolve"
  /\ task' = [task EXCEPT ![t] = IF ToSet(@.edge) \cap gone = {}
                                 THEN [@ EXCEPT !.pc = "insert"] ELSE Idle]
  /\ UNCHANGED <<rows, gone, base, paged, pend, dels, fresh, others, clean>>

\* A transaction begins, and insert_edge buffers the edge.
Insert(t) ==
  /\ task[t].pc = "insert"
  /\ pend' = Append(pend, task[t].edge)
  /\ task' = [task EXCEPT ![t].pc = "collect", ![t].snap = base]
  /\ clean' = (clean /\ \A u \in Threads \ {t} : task[u].pc \in {"idle", "resolve", "insert"})
  /\ UNCHANGED <<rows, gone, base, paged, dels, fresh, others>>

\* compact, first half: collect.  A file whose first page has no header in the
\* transaction's snapshot is an error, which associate logs and goes on from;
\* no edges at all is an early return.
Collect(t) ==
  /\ task[t].pc = "collect"
  /\ LET es == CollectAllEdges(task[t].snap, pend, dels)
         failed == paged /\ ~task[t].snap.hdr
     IN  /\ task' = [task EXCEPT ![t].pc = IF failed \/ es = <<>> THEN "end" ELSE "build",
                                 ![t].all = es]
         /\ clean' = (clean /\ ~failed)
  /\ UNCHANGED <<rows, gone, base, paged, pend, dels, fresh, others>>

\* compact: build, in the transaction's own page versions.
BuildPages(t) ==
  /\ task[t].pc = "build"
  /\ task' = [task EXCEPT ![t].pc = "clear",
                 ![t].out = Build(base, task[t].all, LargestSource(task[t].all))]
  /\ paged' = TRUE
  /\ UNCHANGED <<rows, gone, base, pend, dels, fresh, others, clean>>

\* compact, last part: both buffers are emptied, whatever they hold by now.
Clear(t) ==
  /\ task[t].pc = "clear"
  /\ pend' = <<>>
  /\ dels' = <<>>
  /\ task' = [task EXCEPT ![t].pc = "commit"]
  /\ UNCHANGED <<rows, gone, base, paged, fresh, others, clean>>

\* The commit installs the transaction's pages, over whatever was committed
\* since they were copied.
Commit(t) ==
  /\ task[t].pc = "commit"
  /\ base' = task[t].out
  /\ task' = [task EXCEPT ![t] = Idle]
  /\ clean' = (clean /\ (task[t].all = <<>> \/ ~Outlived(base, task[t].all)))
  /\ UNCHANGED <<rows, gone, paged, pend, dels, fresh, others>>

\* A commit that fails is logged; the buffers stay empty.
CommitFails(t) ==
  /\ task[t].pc = "commit"
  /\ Other
  /\ task' = [task EXCEPT ![t] = Idle]
  /\ clean' = FALSE
  /\ UNCHANGED <<rows, gone, base, paged, pend, dels, fresh>>

\* A compaction that failed or had nothing to write commits nothing.
End(t) ==
  /\ task[t].pc = "end"
  /\ task' = [task EXCEPT ![t] = Idle]
  /\ UNCHANGED <<rows, gone, base, paged, pend, dels, fresh, others, clean>>

\* DETACH DELETE of a node: its relationships' rows are nulled, and each is
\* buffered as a deletion, which a rollback of the statement does not undo.
Touching(n) == SelectSeq(rows, LAMBDA e : e # Gone /\ n \in {e[1], e[2]})

DetachDelete(n) ==
  /\ n \in Nodes \ gone
  /\ Other
  /\ gone' = gone \cup {n}
  /\ rows' = [i \in DOMAIN rows |-> IF rows[i] # Gone /\ n \in {rows[i][1], rows[i][2]}
                                    THEN Gone ELSE rows[i]]
  /\ dels' = dels \o Touching(n)
  /\ clean' = (clean /\ \A t \in Threads : task[t].pc \notin {"insert", "build", "clear"})
  /\ UNCHANGED <<base, paged, pend, fresh, task>>

DetachDeleteUndone(n) ==
  /\ n \in Nodes \ gone
  /\ Other
  /\ dels' = dels \o Touching(n)
  /\ clean' = (clean /\ Touching(n) = <<>>)
  /\ UNCHANGED <<rows, gone, base, paged, pend, fresh, task>>

\* A variable-length query refreshes a stale index in its own read-only
\* transaction: the pages it builds are never committed, the file's first page
\* and the record that the index is fresh stay.
RefreshForQuery ==
  /\ Stale
  /\ Other
  /\ fresh' = RelCardinality
  /\ paged' = (paged \/ RelCardinality > 0)
  /\ UNCHANGED <<rows, gone, base, pend, dels, task, clean>>

\* Database::optimize refreshes a stale index under the storage write lock, so
\* no associate is between its insertion and its commit, and then commits.
Optimize(t) ==
  /\ \A u \in Threads : task[u].pc \in {"idle", "resolve", "insert"}
  /\ task[t] = Idle
  /\ Stale
  /\ Other
  /\ fresh' = RelCardinality
  /\ IF RelCardinality = 0 THEN UNCHANGED <<paged, task, clean>>
     ELSE /\ paged' = TRUE
          /\ task' = [task EXCEPT ![t] = [Idle EXCEPT !.pc = "commit",
                        !.out = Build(base, RebuiltEdges, NodeCapacity - 1)]]
          /\ clean' = (clean /\ Quiet /\ pend = <<>> /\ gone = {})
  /\ UNCHANGED <<rows, gone, base, pend, dels>>

\* The process stops: the buffers and what was under way are lost.
\* recover_from_base only counts the base's edges.
Restart ==
  /\ Other
  /\ pend' = <<>> /\ dels' = <<>> /\ fresh' = 0
  /\ task' = [t \in Threads |-> Idle]
  /\ clean' = (clean /\ Quiet /\ dels = <<>>)
  /\ UNCHANGED <<rows, gone, base, paged>>

Next ==
  \/ \E t \in Threads, s, d \in Nodes : Associate(t, s, d)
  \/ \E t \in Threads : Resolve(t)
  \/ \E t \in Threads : Insert(t)
  \/ \E t \in Threads : Collect(t)
  \/ \E t \in Threads : BuildPages(t)
  \/ \E t \in Threads : Clear(t)
  \/ \E t \in Threads : Commit(t)
  \/ \E t \in Threads : CommitFails(t)
  \/ \E t \in Threads : End(t)
  \/ \E n \in Nodes : DetachDelete(n)
  \/ \E n \in Nodes : DetachDeleteUndone(n)
  \/ RefreshForQuery
  \/ \E t \in Threads : Optimize(t)
  \/ Restart

Spec == Init /\ [][Next]_vars

-----------------------------------------------------------------------------
\* What the index answers for a node, and what the table says.
Answer(n) == Neighbors(base, pend, dels, n)
Truth(n) == SelectSeq(Live, LAMBDA e : e[1] = n)

\* Between operations the index answers for every node exactly the table's
\* relationships, repeated ones as often as they were created: through
\* compactions, deletions of nodes, rebuilds and restarts, as long as
\* operations did not overlap, no compaction was smaller than an earlier one,
\* no rebuild followed a deletion, no commit failed, no deletion was rolled
\* back or lost in a restart, and no read-only rebuild made the file's first page.
NeighborsRight ==
  clean /\ Quiet => \A n \in Nodes : SameEdges(Answer(n), Truth(n))

\* csr.rs:318 of read_u64_batch: it "Returns all u64 values from `start_byte` to
\* `end_byte`": a compaction reads back the offsets the last one wrote.
BatchRight ==
  base.hdr => \A i \in Slots : OffsetsRead(base)[i] = base.off[i]
=============================================================================

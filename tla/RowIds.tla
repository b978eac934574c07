------------------------------- MODULE RowIds -------------------------------
(***************************************************************************)
(* Row ids and row counts of one node table: next_row_id and the catalog's *)
(* num_rows are not versioned, and every statement, rollback, checkpoint   *)
(* and restart keeps them in step with the rows by hand                    *)
(* (processor/operators/dml.rs, transaction_manager.rs, lib.rs,            *)
(* catalog/lazy_catalog.rs).                                               *)
(*                                                                         *)
(* A row is the transaction that wrote it.  Publishing rows is one step    *)
(* here (PageVersions has its races) and a logged commit is durable        *)
(* (Durability).  CATALOG_SAVE_TX_INTERVAL plays no part: the catalog is   *)
(* dirty whenever it differs from its file.                                *)
(***************************************************************************)
EXTENDS Naturals, FiniteSets, FiniteSetsExt

CONSTANTS
  MaxTx,         \* bound on transactions
  MaxId,         \* bound on row ids: a statement that needs more does not start
  MaxStmts,      \* bound on the statements of a transaction
  MaxRestarts,   \* bound on crashes and shutdowns
  Enabled        \* the kinds of steps in play, of Kinds

Kinds == {"create", "merge", "batch", "fast_insert", "delete", "fail", "rollback", "drop",
          "explicit", "concurrent", "checkpoint", "close", "crash"}

Tx == 1..MaxTx
NoTx == 0
Id == 0..MaxId - 1

VARIABLES
  next_row_id,     \* Table::next_row_id
  catalog,         \* the table's entry in the catalog
  catalog_file,    \* the entry in catalog.ltng
  versions,        \* VersionInfo::versions: the uncommitted writer of a row
  cells,           \* committed content of each row slot
  durable,         \* what recovery would make of each row slot
  active_tx_ids,
  pc, stmt, stmts, \* of each transaction: its step, statement and statement count
  ids,             \* row ids the statement has been given
  bases,           \* Transaction::rollback_table_bases, for this table
  allocated,       \* Transaction::allocated_rows
  reserved,        \* Transaction::bulk_row_ranges
  written, deleted,\* rows in the transaction's own page versions
  restarts,
  acked,           \* history: <<id, t>>, the rows whose commit has returned
  retaken          \* history: ids a rollback took back though another transaction
                   \* had been given them since

tableVars == <<next_row_id, catalog, versions>>
dataVars == <<cells, durable>>
txVars == <<pc, stmt, stmts, ids, bases, allocated, reserved, written, deleted>>
histVars == <<acked, retaken>>
vars == <<tableVars, catalog_file, dataVars, active_tx_ids, txVars, restarts, histVars>>

Empty == MaxTx + 1     \* a slot no row was ever written to: reads as default values
Null == MaxTx + 2      \* a deleted or tombstoned row: scans skip it
Entry == [num_rows : Nat, next_row_id : Nat]
NoBase == [next |-> MaxId, rows |-> 0]

PC == {"idle", "open", "based", "allocated", "reserved", "appended", "failed", "published",
       "logged", "uncounted", "committed", "unmarked", "deactivated", "restore", "tombstone",
       "rolled_back", "dropped", "dead"}

\* Steps in which a transaction can still be rolled back or dropped.
Pending == {"open", "based", "allocated", "reserved", "appended", "failed"}
Done == {"idle", "committed", "rolled_back", "dropped", "dead"}

TypeOK ==
  /\ next_row_id \in Nat
  /\ catalog \in Entry /\ catalog_file \in Entry
  /\ versions \in [Id -> Tx \cup {NoTx}]
  /\ cells \in [Id -> Tx \cup {Empty, Null}] /\ durable \in [Id -> Tx \cup {Empty, Null}]
  /\ active_tx_ids = {t \in Tx : pc[t] \in Pending \cup {"published", "unmarked"}}
  /\ pc \in [Tx -> PC] /\ stmt \in [Tx -> Kinds] /\ stmts \in [Tx -> 0..MaxStmts]
  /\ \A f \in {ids, allocated, reserved, written, deleted} : f \in [Tx -> SUBSET Id]
  /\ \A t \in Tx : bases[t] \in [next : Nat, rows : Nat]
  /\ restarts \in 0..MaxRestarts
  /\ acked \subseteq Id \X Tx /\ retaken \subseteq Id

Init ==
  /\ next_row_id = 0
  /\ catalog = [num_rows |-> 0, next_row_id |-> 0] /\ catalog_file = catalog
  /\ versions = [i \in Id |-> NoTx]
  /\ cells = [i \in Id |-> Empty] /\ durable = cells
  /\ active_tx_ids = {}
  /\ pc = [t \in Tx |-> "idle"] /\ stmt = [t \in Tx |-> "create"]
  /\ stmts = [t \in Tx |-> 0]
  /\ ids = [t \in Tx |-> {}] /\ allocated = ids /\ reserved = ids
  /\ written = ids /\ deleted = ids
  /\ bases = [t \in Tx |-> NoBase]
  /\ restarts = 0 /\ acked = {} /\ retaken = {}
-----------------------------------------------------------------------------
(* Statements *)

Larger(a, b) == IF a >= b THEN a ELSE b

Goto(t, step) == pc' = [pc EXCEPT ![t] = step]
Marked(rows, t) == [i \in Id |-> IF i \in rows THEN t ELSE versions[i]]
CountRows(n) == catalog' = [catalog EXCEPT !.num_rows = @ + n]

\* begin.  A transaction outside an explicit one runs a single statement.
Begin(t) ==
  /\ pc[t] = "idle" /\ \A u \in Tx : u < t => pc[u] # "idle"
  /\ "concurrent" \in Enabled \/ \A u \in Tx : pc[u] \in Done
  /\ active_tx_ids' = active_tx_ids \cup {t}
  /\ Goto(t, "open")
  /\ UNCHANGED <<tableVars, catalog_file, dataVars, stmt, stmts, ids, bases, allocated,
                 reserved, written, deleted, restarts, histVars>>

Start(t, k) ==
  /\ pc[t] = "open" /\ k \in Enabled
  /\ stmts[t] = 0 \/ stmt[t] # "fast_insert"
  /\ stmts[t] < (IF "explicit" \in Enabled THEN MaxStmts ELSE 1)
  /\ stmts' = [stmts EXCEPT ![t] = @ + 1]
  /\ stmt' = [stmt EXCEPT ![t] = k]

\* CREATE of one row, and MERGE that finds no row, first record where the table
\* stood.  MERGE takes the row count from the relationship table of that name,
\* which a node table does not have.
NoteTableWrite(t, k) ==
  /\ k \in {"create", "merge"} /\ Start(t, k)
  /\ bases' = [bases EXCEPT ![t] =
                 IF @ # NoBase THEN @
                 ELSE [next |-> next_row_id,
                       rows |-> IF k = "merge" THEN 0 ELSE catalog.num_rows]]
  /\ Goto(t, "based")
  /\ UNCHANGED <<tableVars, catalog_file, dataVars, active_tx_ids, ids, allocated, reserved,
                 written, deleted, restarts, histVars>>

FetchAdd(t, n) ==
  /\ next_row_id + n <= MaxId
  /\ next_row_id' = next_row_id + n
  /\ ids' = [ids EXCEPT ![t] = next_row_id .. next_row_id + n - 1]
  /\ Goto(t, "allocated")

Allocate(t) ==
  /\ pc[t] = "based"
  /\ FetchAdd(t, 1)
  /\ UNCHANGED <<catalog, versions, catalog_file, dataVars, active_tx_ids, stmt, stmts, bases,
                 allocated, reserved, written, deleted, restarts, histVars>>

\* CREATE for every row of its input takes ids without recording a base, and
\* fast_insert only records the ids.
AllocateBatch(t, k, n) ==
  /\ k \in {"batch", "fast_insert"} /\ Start(t, k)
  /\ k = "fast_insert" => stmts[t] = 0
  /\ FetchAdd(t, n)
  /\ allocated' = IF k = "batch" THEN allocated ELSE [allocated EXCEPT ![t] = @ \cup ids'[t]]
  /\ UNCHANGED <<catalog, versions, catalog_file, dataVars, active_tx_ids, bases, reserved,
                 written, deleted, restarts, histVars>>

\* reserve_rows hides the new rows from other transactions until they are
\* committed.  Only the single-row statements note the ids for rollback.
Reserve(t) ==
  /\ pc[t] = "allocated" /\ stmt[t] # "fast_insert"
  /\ versions' = Marked(ids[t], t)
  /\ reserved' = [reserved EXCEPT ![t] = @ \cup ids[t]]
  /\ allocated' = IF stmt[t] = "batch" THEN allocated ELSE [allocated EXCEPT ![t] = @ \cup ids[t]]
  /\ Goto(t, "reserved")
  /\ UNCHANGED <<next_row_id, catalog, catalog_file, dataVars, active_tx_ids, stmt, stmts, ids,
                 bases, written, deleted, restarts, histVars>>

\* append_row and batch_append_rows write to the transaction's own pages.
Append(t) ==
  /\ pc[t] = "reserved"
  /\ written' = [written EXCEPT ![t] = @ \cup ids[t]]
  /\ Goto(t, "appended")
  /\ UNCHANGED <<tableVars, catalog_file, dataVars, active_tx_ids, stmt, stmts, ids, bases,
                 allocated, reserved, deleted, restarts, histVars>>

\* bulk_append_batch marks the rows and writes them; its fetch_max leaves
\* next_row_id where the allocation put it, or moves it up to there again.
BulkAppend(t) ==
  /\ pc[t] = "allocated" /\ stmt[t] = "fast_insert"
  /\ versions' = Marked(ids[t], t)
  /\ reserved' = [reserved EXCEPT ![t] = @ \cup ids[t]]
  /\ written' = [written EXCEPT ![t] = @ \cup ids[t]]
  /\ next_row_id' = Larger(next_row_id, Max(ids[t]) + 1)
  /\ Goto(t, "open")
  /\ UNCHANGED <<catalog, catalog_file, dataVars, active_tx_ids, stmt, stmts, ids, bases,
                 allocated, deleted, restarts, histVars>>

\* CREATE and MERGE end by adding to the catalog's row count.
Count(t) ==
  /\ pc[t] = "appended"
  /\ CountRows(Cardinality(ids[t]))
  /\ Goto(t, "open")
  /\ UNCHANGED <<next_row_id, versions, catalog_file, dataVars, active_tx_ids, stmt, stmts, ids,
                 bases, allocated, reserved, written, deleted, restarts, histVars>>

\* An expression that does not evaluate ends the statement before the row is
\* appended, a duplicate primary key afterwards.
Fail(t) ==
  /\ "fail" \in Enabled
  /\ pc[t] \in {"reserved", "appended"}
  /\ pc[t] = "appended" => stmt[t] = "create"
  /\ Goto(t, "failed")
  /\ UNCHANGED <<tableVars, catalog_file, dataVars, active_tx_ids, stmt, stmts, ids, bases,
                 allocated, reserved, written, deleted, restarts, histVars>>

\* DELETE marks the row, writes nulls to the transaction's own pages and takes
\* the row off the count, not below zero.
Delete(t, i) ==
  /\ Start(t, "delete")
  /\ i < Larger(next_row_id, catalog.num_rows)
  /\ versions[i] \in {NoTx, t}
  /\ i \in written[t] \/ cells[i] \in Tx
  /\ i \notin deleted[t]
  /\ versions' = Marked({i}, t)
  /\ deleted' = [deleted EXCEPT ![t] = @ \cup {i}]
  /\ catalog' = [catalog EXCEPT !.num_rows = IF @ >= 1 THEN @ - 1 ELSE 0]
  /\ UNCHANGED <<next_row_id, catalog_file, dataVars, active_tx_ids, pc, ids, bases, allocated,
                 reserved, written, restarts, histVars>>
-----------------------------------------------------------------------------
(* commit *)

Resolved(t) == reserved[t] \cup deleted[t]
Unmarked(rows) == [i \in Id |-> IF i \in rows THEN NoTx ELSE versions[i]]

\* An explicit transaction may commit after a statement of it failed.
MayCommit(t) ==
  /\ pc[t] = "open" \/ (pc[t] = "failed" /\ "explicit" \in Enabled)
  /\ stmts[t] > 0

\* commit merges the pages and releases the marks,
CommitPublish(t) ==
  /\ MayCommit(t)
  /\ cells' = [i \in Id |-> IF i \in deleted[t] THEN Null
                            ELSE IF i \in written[t] THEN t ELSE cells[i]]
  /\ versions' = Unmarked(Resolved(t))
  /\ Goto(t, "published")
  /\ UNCHANGED <<next_row_id, catalog, catalog_file, durable, active_tx_ids, stmt, stmts, ids,
                 bases, allocated, reserved, written, deleted, restarts, histVars>>

\* logs the commit,
CommitLog(t) ==
  /\ pc[t] = "published"
  /\ durable' = [i \in Id |-> IF i \in written[t] \cup deleted[t] THEN cells[i] ELSE durable[i]]
  /\ active_tx_ids' = active_tx_ids \ {t}
  /\ Goto(t, "logged")
  /\ UNCHANGED <<tableVars, catalog_file, cells, stmt, stmts, ids, bases, allocated, reserved,
                 written, deleted, restarts, histVars>>

Acknowledge(t) ==
  acked' = {a \in acked : a[1] \notin deleted[t]} \cup ((written[t] \ deleted[t]) \X {t})

\* and saves the catalog.  fast_insert counts its rows only after that.
CommitSave(t) ==
  /\ pc[t] = "logged"
  /\ catalog_file' = catalog
  /\ IF stmt[t] = "fast_insert" THEN Goto(t, "uncounted") /\ UNCHANGED acked
     ELSE Goto(t, "committed") /\ Acknowledge(t)
  /\ UNCHANGED <<tableVars, dataVars, active_tx_ids, stmt, stmts, ids, bases, allocated,
                 reserved, written, deleted, restarts, retaken>>

FastCount(t) ==
  /\ pc[t] = "uncounted"
  /\ CountRows(Cardinality(ids[t]))
  /\ Goto(t, "committed") /\ Acknowledge(t)
  /\ UNCHANGED <<next_row_id, versions, catalog_file, dataVars, active_tx_ids, stmt, stmts, ids,
                 bases, allocated, reserved, written, deleted, restarts, retaken>>

Commit(t) == CommitPublish(t) \/ CommitLog(t) \/ CommitSave(t) \/ FastCount(t)
-----------------------------------------------------------------------------
(* rollback and Drop *)

RollbackMarks_ModifiedOnly(t) ==
  /\ "rollback" \in Enabled
  /\ pc[t] \in {"open", "failed"} /\ stmt[t] # "fast_insert"
  /\ versions' = Unmarked(deleted[t])
  /\ Goto(t, "unmarked")
  /\ UNCHANGED <<next_row_id, catalog, catalog_file, dataVars, active_tx_ids, stmt, stmts, ids,
                 bases, allocated, reserved, written, deleted, restarts, histVars>>

\* rollback first releases the marks of the transaction's rows,
RollbackMarks(t) ==
  /\ "rollback" \in Enabled
  /\ pc[t] \in {"open", "failed"} /\ stmt[t] # "fast_insert"
  /\ versions' = Unmarked(Resolved(t))
  /\ Goto(t, "unmarked")
  /\ UNCHANGED <<next_row_id, catalog, catalog_file, dataVars, active_tx_ids, stmt, stmts, ids,
                 bases, allocated, reserved, written, deleted, restarts, histVars>>

RollbackDeactivate_StaysActive(t) ==
  /\ pc[t] = "unmarked"
  /\ Goto(t, "deactivated")
  /\ UNCHANGED <<tableVars, catalog_file, dataVars, active_tx_ids, stmt, stmts, ids, bases,
                 allocated, reserved, written, deleted, restarts, histVars>>

RollbackDeactivate(t) ==
  /\ pc[t] = "unmarked"
  /\ active_tx_ids' = active_tx_ids \ {t}
  /\ Goto(t, "deactivated")
  /\ UNCHANGED <<tableVars, catalog_file, dataVars, stmt, stmts, ids, bases, allocated, reserved,
                 written, deleted, restarts, histVars>>

\* then looks whether another writer is active,
RollbackCheck(t) ==
  /\ pc[t] = "deactivated"
  /\ Goto(t, IF bases[t] = NoBase THEN "rolled_back"
             ELSE IF active_tx_ids = {} THEN "restore" ELSE "tombstone")
  /\ UNCHANGED <<tableVars, catalog_file, dataVars, active_tx_ids, stmt, stmts, ids, bases,
                 allocated, reserved, written, deleted, restarts, histVars>>

RollbackRestore_KeepsNext(t) ==
  /\ pc[t] = "restore"
  /\ catalog' = [catalog EXCEPT !.num_rows = bases[t].rows]
  /\ Goto(t, "rolled_back")
  /\ UNCHANGED <<next_row_id, versions, catalog_file, dataVars, active_tx_ids, stmt, stmts, ids,
                 bases, allocated, reserved, written, deleted, restarts, histVars>>

RollbackRestore_KeepsCount(t) ==
  /\ pc[t] = "restore"
  /\ next_row_id' = bases[t].next
  /\ Goto(t, "rolled_back")
  /\ UNCHANGED <<catalog, versions, catalog_file, dataVars, active_tx_ids, stmt, stmts, ids,
                 bases, allocated, reserved, written, deleted, restarts, histVars>>

\* puts the counters back where the transaction found them if none is,
RollbackRestore(t) ==
  /\ pc[t] = "restore"
  /\ next_row_id' = bases[t].next
  /\ catalog' = [catalog EXCEPT !.num_rows = bases[t].rows]
  /\ retaken' = retaken \cup
                  ((bases[t].next .. next_row_id - 1) \ (allocated[t] \cup reserved[t]))
  /\ Goto(t, "rolled_back")
  /\ UNCHANGED <<versions, catalog_file, dataVars, active_tx_ids, stmt, stmts, ids, bases,
                 allocated, reserved, written, deleted, restarts, acked>>

\* and otherwise commits a transaction that nulls every id it had noted (taken
\* as one step, the catalog save at its end included).
RollbackTombstone(t) ==
  /\ pc[t] = "tombstone"
  /\ cells' = [i \in Id |-> IF i \in allocated[t] THEN Null ELSE cells[i]]
  /\ durable' = [i \in Id |-> IF i \in allocated[t] THEN Null ELSE durable[i]]
  /\ catalog_file' = catalog
  /\ Goto(t, "rolled_back")
  /\ UNCHANGED <<tableVars, active_tx_ids, stmt, stmts, ids, bases, allocated, reserved, written,
                 deleted, restarts, histVars>>

Rollback(t) ==
  \/ RollbackMarks(t) \/ RollbackDeactivate(t) \/ RollbackCheck(t)
  \/ RollbackRestore(t) \/ RollbackTombstone(t)

\* A transaction dropped without commit or rollback (a timed-out query, a
\* fast_insert that failed, a connection that went away) only discards its pages.
Drop(t) ==
  /\ "drop" \in Enabled
  /\ pc[t] \in {"open", "failed"} \/ (pc[t] = "allocated" /\ stmt[t] = "fast_insert")
  /\ stmts[t] > 0
  /\ active_tx_ids' = active_tx_ids \ {t}
  /\ Goto(t, "dropped")
  /\ UNCHANGED <<tableVars, catalog_file, dataVars, stmt, stmts, ids, bases, allocated, reserved,
                 written, deleted, restarts, histVars>>
-----------------------------------------------------------------------------
(* Checkpoint, shutdown and restart *)

\* checkpoint records next_row_id in the catalog, never lowering it, and saves
\* it, in the middle of transactions too.
Checkpoint ==
  /\ "checkpoint" \in Enabled
  /\ catalog' = [catalog EXCEPT !.next_row_id = Larger(next_row_id, @)]
  /\ catalog_file' = catalog'
  /\ UNCHANGED <<next_row_id, versions, dataVars, active_tx_ids, txVars, restarts, histVars>>

RestoredRowId_NextOnly(entry) == entry.next_row_id

\* restore_tables_from_catalog: all a restart knows is the catalog file.
\* repair_cardinalities changes nothing after it: it lowers a cardinality more than
\* twice the restored id, and the cardinality it looks at is num_rows.
RestoredRowId(entry) == Larger(entry.next_row_id, entry.num_rows)

Reopen(entry) ==
  /\ restarts < MaxRestarts /\ restarts' = restarts + 1
  /\ catalog' = entry
  /\ next_row_id' = RestoredRowId(entry)
  /\ versions' = [i \in Id |-> NoTx]
  /\ active_tx_ids' = {}
  /\ pc' = [t \in Tx |-> IF pc[t] \in Done THEN pc[t] ELSE "dead"]
  /\ UNCHANGED <<stmt, stmts, ids, bases, allocated, reserved, written, deleted, histVars>>

Crash ==
  /\ "crash" \in Enabled
  /\ Reopen(catalog_file)
  /\ cells' = durable
  /\ UNCHANGED <<catalog_file, durable>>

Closed_Stale == catalog

\* Database::drop raises both counts to next_row_id and saves the catalog.  No
\* connection, hence no transaction, is left.
Closed ==
  [num_rows |-> Larger(catalog.num_rows, next_row_id),
   next_row_id |-> Larger(catalog.next_row_id, next_row_id)]

Close ==
  /\ "close" \in Enabled
  /\ \A t \in Tx : pc[t] \in Done
  /\ Reopen(Closed)
  /\ catalog_file' = Closed
  /\ UNCHANGED <<cells, durable>>

Statement(t) ==
  \/ \E k \in {"create", "merge"} : NoteTableWrite(t, k)
  \/ \E k \in {"batch", "fast_insert"}, n \in 1..2 : AllocateBatch(t, k, n)
  \/ Allocate(t) \/ Reserve(t) \/ Append(t) \/ BulkAppend(t) \/ Count(t) \/ Fail(t)
  \/ \E i \in Id : Delete(t, i)

Next ==
  \/ \E t \in Tx : Begin(t) \/ Statement(t) \/ Commit(t) \/ Rollback(t) \/ Drop(t)
  \/ Checkpoint \/ Crash \/ Close

Spec == Init /\ [][Next]_vars
-----------------------------------------------------------------------------
(* Properties *)

\* What a scan looks at: physical_plan bounds it by both counters.
ScanBound == Larger(next_row_id, catalog.num_rows)
IsRow(i) == cells[i] \in Tx

\* A row whose commit has returned stays below the scan bound and is never
\* overwritten by a row of another transaction, whatever was rolled back,
\* dropped, checkpointed or restarted since.  The ids that a rollback takes back
\* from under another transaction are excepted: those rows are lost.
CommittedRowsKept ==
  \A a \in {b \in acked : b[1] \notin retaken} :
    /\ a[1] < ScanBound
    /\ \/ cells[a[1]] = a[2]
       \/ cells[a[1]] = Null /\ \E t \in Tx : a[1] \in deleted[t] /\ pc[t] # "rolled_back"

Quiescent == \A t \in Tx : pc[t] \in Done

\* With no transaction under way, a scan finds no slot that was handed out and
\* never written: rollback and restart take such ids back.
NoPhantomRows ==
  Quiescent => \A i \in Id : i < ScanBound /\ versions[i] = NoTx => cells[i] # Empty

\* A transaction that has committed or rolled back leaves no row marked: a mark
\* nobody releases hides the row from every later reader.
MarksReleased ==
  \A i \in Id : versions[i] # NoTx => pc[versions[i]] \in Pending \cup {"dropped"}

\* With no transaction under way, the catalog counts the rows a scan returns.
CountAgrees ==
  Quiescent => catalog.num_rows = Cardinality({i \in Id : i < ScanBound /\ IsRow(i)})
=============================================================================

------------------------- MODULE TransactionManager -------------------------
(***************************************************************************)
(* The transaction manager (transaction/transaction_manager.rs) and the    *)
(* row versions of one table (storage/row_version.rs): begin, row marking, *)
(* commit, rollback, Drop of an unfinished transaction, and the vacuum of  *)
(* commit histories that every checkpoint runs.                            *)
(*                                                                         *)
(* A transaction is named by its tx_id.  Each action is one critical       *)
(* section (one atomic operation or one lock acquisition) of the code, so  *)
(* two transactions interleave wherever the threads running them can.      *)
(* Page contents, the WAL and the row-id allocator are modelled by         *)
(* PageVersions, Durability and RowIds.                                    *)
(***************************************************************************)
EXTENDS RowVersion, FiniteSets

CONSTANTS
  Row,         \* row ids of the table
  InitRow,     \* rows already in the data files when the database is opened
  MaxTx,       \* u64::MAX of the tx id counter: begin fails when it is reached
  MaxTs,       \* u64::MAX of the commit clock: commit fails when it is reached
  SnapshotTs,  \* timestamps callers of execute_at name
  LateErrors   \* TRUE: I/O may fail after the rows were published (log_commit,
               \* save_if_needed), which sends commit's caller to rollback

ASSUME ConstantsAssumption ==
  /\ InitRow \subseteq Row
  /\ MaxTx \in Nat \ {0}
  /\ MaxTs \in Nat \ {0}
  /\ SnapshotTs \subseteq 1..MaxTs
  /\ LateErrors \in BOOLEAN

Tx == 1..(MaxTx - 1)
Ts == 1..MaxTs

VARIABLES
  next_tx_id,      \* AtomicU64
  current_ts,      \* AtomicU64
  active_tx_ids,   \* RwLock<HashSet<u64>>: writers in flight
  active_read_ts,  \* RwLock<HashMap<u64, usize>>: snapshots in use, counted
  commit_lock,     \* holder of the commit mutex, or NoTx
  versions,        \* RowVersion: uncommitted marks
  committed,       \* RowVersion: commit histories
  pc,              \* where each transaction's thread is
  is_read_only, read_ts, commit_ts,   \* Transaction fields
  marking,         \* rows a SET has pre-marked and not written yet
  modified_rows,   \* Transaction::modified_rows
  bulk_rows,       \* Transaction::bulk_row_ranges, as a set of rows
  togo,            \* rows the running commit or rollback loop has not reached
  vacuum_min, vacuum_todo,            \* the vacuum's min_active, rows left
  past,            \* history: transactions that asked for a past timestamp
  raced            \* history: transactions whose snapshot is older than the
                   \* vacuum_min of a vacuum that was not told of it: it started
                   \* between their read of the clock and their registration, or
                   \* a reader at a future timestamp had raised its minimum

tmVars == <<next_tx_id, current_ts, active_tx_ids, active_read_ts, commit_lock>>
rvVars == <<versions, committed>>
txVars == <<is_read_only, read_ts, commit_ts, marking, modified_rows, bulk_rows>>
vacVars == <<vacuum_min, vacuum_todo>>
histVars == <<past, raced>>
vars == <<tmVars, rvVars, pc, txVars, togo, vacVars, histVars>>

PC == {"unborn", "has_id", "has_ts", "is_active", "running", "locked", "stamped",
       "logged", "failed", "rolling", "rolled", "committed", "aborted", "dropped"}

Finished(t) == pc[t] \in {"committed", "aborted", "dropped"}

\* Rows a transaction has written and recorded for commit or rollback.
Writes(t) == modified_rows[t] \cup bulk_rows[t]

\* t's read_ts is counted in active_read_ts.
Registered(t) ==
  pc[t] \in {"running", "locked", "stamped", "logged", "failed", "rolling", "rolled"}

Init ==
  /\ next_tx_id = 1
  /\ current_ts = 1
  /\ active_tx_ids = {}
  /\ active_read_ts = [ts \in Ts |-> 0]
  /\ commit_lock = NoTx
  /\ versions = [r \in Row |-> NoTx]
  /\ committed = [r \in Row |-> NoEntry]
  /\ pc = [t \in Tx |-> "unborn"]
  /\ is_read_only = [t \in Tx |-> FALSE]
  /\ read_ts = [t \in Tx |-> 0]
  /\ commit_ts = [t \in Tx |-> 0]
  /\ marking = [t \in Tx |-> {}]
  /\ modified_rows = [t \in Tx |-> {}]
  /\ bulk_rows = [t \in Tx |-> {}]
  /\ togo = [t \in Tx |-> {}]
  /\ vacuum_min = 1
  /\ vacuum_todo = {}
  /\ past = {}
  /\ raced = {}

-----------------------------------------------------------------------------
(* begin_at: four separate atomic steps. *)

\* next_tx_id.fetch_update(id + 1); a reader takes an id too.
BeginId(t, ro) ==
  /\ next_tx_id = t
  /\ next_tx_id' = next_tx_id + 1
  /\ pc' = [pc EXCEPT ![t] = "has_id"]
  /\ is_read_only' = [is_read_only EXCEPT ![t] = ro]
  /\ UNCHANGED <<current_ts, active_tx_ids, active_read_ts, commit_lock, rvVars,
                 read_ts, commit_ts, marking, modified_rows, bulk_rows, togo,
                 vacVars, histVars>>

\* read_ts = current_ts.load().
BeginSnapshot(t) ==
  /\ pc[t] = "has_id"
  /\ read_ts' = [read_ts EXCEPT ![t] = current_ts]
  /\ pc' = [pc EXCEPT ![t] = "has_ts"]
  /\ raced' = IF vacuum_todo # {} /\ current_ts < vacuum_min THEN raced \cup {t} ELSE raced
  /\ UNCHANGED <<tmVars, rvVars, is_read_only, commit_ts, marking, modified_rows,
                 bulk_rows, togo, vacVars, past>>

\* execute_at: a read-only transaction at a timestamp the caller names.
BeginSnapshotAt(t, ts) ==
  /\ pc[t] = "has_id"
  /\ is_read_only[t]
  /\ read_ts' = [read_ts EXCEPT ![t] = ts]
  /\ pc' = [pc EXCEPT ![t] = "has_ts"]
  /\ past' = past \cup {t}
  /\ UNCHANGED <<tmVars, rvVars, is_read_only, commit_ts, marking, modified_rows,
                 bulk_rows, togo, vacVars, raced>>

\* A writer enters active_tx_ids.
BeginActive(t) ==
  /\ pc[t] = "has_ts"
  /\ ~is_read_only[t]
  /\ active_tx_ids' = active_tx_ids \cup {t}
  /\ pc' = [pc EXCEPT ![t] = "is_active"]
  /\ UNCHANGED <<next_tx_id, current_ts, active_read_ts, commit_lock, rvVars,
                 txVars, togo, vacVars, histVars>>

\* *active_read_ts.entry(read_ts).or_insert(0) += 1.
BeginRegister(t) ==
  /\ pc[t] = IF is_read_only[t] THEN "has_ts" ELSE "is_active"
  /\ active_read_ts' = [active_read_ts EXCEPT ![read_ts[t]] = @ + 1]
  /\ pc' = [pc EXCEPT ![t] = "running"]
  /\ UNCHANGED <<next_tx_id, current_ts, active_tx_ids, commit_lock, rvVars,
                 txVars, togo, vacVars, histVars>>

-----------------------------------------------------------------------------
(* Statements of a running write transaction. *)

MayWrite(t) == pc[t] = "running" /\ ~is_read_only[t]

\* A row id the allocator may hand out: in no data file, and not written by a
\* transaction whose insert was kept.  RowIds models the allocator itself.
Unallocated(r) ==
  /\ r \notin InitRow
  /\ \A t \in Tx : r \in bulk_rows[t] => pc[t] = "aborted"

\* A row a scan may return: in a data file, or inserted and not rolled back.
Allocated(r) ==
  \/ r \in InitRow
  \/ \E t \in Tx : r \in bulk_rows[t] /\ pc[t] \notin {"rolling", "rolled", "aborted"}

\* CREATE: reserve_rows marks the new row unconditionally (mark_row_batch) and
\* records the range in bulk_row_ranges.
InsertRow(t, r) ==
  /\ MayWrite(t) /\ marking[t] = {}
  /\ Unallocated(r)
  /\ versions' = [versions EXCEPT ![r] = t]
  /\ bulk_rows' = [bulk_rows EXCEPT ![t] = @ \cup {r}]
  /\ UNCHANGED <<tmVars, committed, pc, is_read_only, read_ts, commit_ts, marking,
                 modified_rows, togo, vacVars, histVars>>

\* SET, first loop: mark every row of the chunk before writing any.
SetMark(t, r) ==
  /\ MayWrite(t)
  /\ Allocated(r)
  /\ MarkRowOk(versions[r], committed[r], t, read_ts[t])
  /\ versions' = [versions EXCEPT ![r] = t]
  /\ marking' = [marking EXCEPT ![t] = @ \cup {r}]
  /\ UNCHANGED <<tmVars, committed, pc, is_read_only, read_ts, commit_ts,
                 modified_rows, bulk_rows, togo, vacVars, histVars>>

\* A conflict ends the statement with an error.  The rows marked so far were
\* not recorded in modified_rows.  Autocommit then rolls back; an explicit
\* transaction stays open.
SetConflict(t, r) ==
  /\ MayWrite(t)
  /\ Allocated(r)
  /\ ~MarkRowOk(versions[r], committed[r], t, read_ts[t])
  /\ marking' = [marking EXCEPT ![t] = {}]
  /\ \/ UNCHANGED pc
     \/ pc' = [pc EXCEPT ![t] = "failed"]
  /\ UNCHANGED <<tmVars, rvVars, is_read_only, read_ts, commit_ts, modified_rows,
                 bulk_rows, togo, vacVars, histVars>>

\* SET, second loop: append_value on every marked row; each call marks the row
\* again (it is ours already) and pushes it to modified_rows.  The loop touches
\* only rows and pages this transaction owns, so it is one step.
SetWrite(t) ==
  /\ MayWrite(t) /\ marking[t] # {}
  /\ modified_rows' = [modified_rows EXCEPT ![t] = @ \cup marking[t]]
  /\ marking' = [marking EXCEPT ![t] = {}]
  /\ UNCHANGED <<tmVars, rvVars, pc, is_read_only, read_ts, commit_ts, bulk_rows,
                 togo, vacVars, histVars>>

-----------------------------------------------------------------------------
(* commit *)

RemoveReadTs(ts) ==
  active_read_ts' = [active_read_ts EXCEPT ![ts] = IF @ > 0 THEN @ - 1 ELSE 0]

\* A read-only transaction only leaves active_read_ts.
CommitReadOnly(t) ==
  /\ pc[t] = "running" /\ is_read_only[t]
  /\ RemoveReadTs(read_ts[t])
  /\ pc' = [pc EXCEPT ![t] = "committed"]
  /\ UNCHANGED <<next_tx_id, current_ts, active_tx_ids, commit_lock, rvVars, txVars,
                 togo, vacVars, histVars>>

\* commit_lock.lock(); index mutations and pending buffers are applied under it.
CommitLock(t) ==
  /\ MayWrite(t) /\ marking[t] = {}
  /\ commit_lock = NoTx
  /\ commit_lock' = t
  /\ pc' = [pc EXCEPT ![t] = "locked"]
  /\ UNCHANGED <<next_tx_id, current_ts, active_tx_ids, active_read_ts, rvVars,
                 txVars, togo, vacVars, histVars>>

\* Mutant: the overflow check of the commit clock is missing.
CommitStamp_NoOverflowCheck(t) ==
  /\ pc[t] = "locked"
  /\ current_ts' = current_ts + 1
  /\ commit_ts' = [commit_ts EXCEPT ![t] = current_ts + 1]
  /\ togo' = [togo EXCEPT ![t] = Writes(t)]
  /\ pc' = [pc EXCEPT ![t] = "stamped"]
  /\ UNCHANGED <<next_tx_id, active_tx_ids, active_read_ts, commit_lock, rvVars,
                 is_read_only, read_ts, marking, modified_rows, bulk_rows,
                 vacVars, histVars>>

\* commit_ts = ++current_ts: new snapshots include t from here on.
CommitStamp(t) ==
  /\ pc[t] = "locked"
  /\ current_ts < MaxTs
  /\ current_ts' = current_ts + 1
  /\ commit_ts' = [commit_ts EXCEPT ![t] = current_ts + 1]
  /\ togo' = [togo EXCEPT ![t] = Writes(t)]
  /\ pc' = [pc EXCEPT ![t] = "stamped"]
  /\ UNCHANGED <<next_tx_id, active_tx_ids, active_read_ts, commit_lock, rvVars,
                 is_read_only, read_ts, marking, modified_rows, bulk_rows,
                 vacVars, histVars>>

\* commit_row / commit_row_batch on the next row.
CommitRow(t, r) ==
  /\ pc[t] = "stamped" /\ r \in togo[t]
  /\ versions' = [versions EXCEPT ![r] = NoTx]
  /\ committed' = [committed EXCEPT ![r] = CommitRowEntry(@, commit_ts[t])]
  /\ togo' = [togo EXCEPT ![t] = @ \ {r}]
  /\ UNCHANGED <<tmVars, pc, txVars, vacVars, histVars>>

\* log_commit succeeded; the id leaves active_tx_ids.
CommitLogged(t) ==
  /\ pc[t] = "stamped" /\ togo[t] = {}
  /\ active_tx_ids' = active_tx_ids \ {t}
  /\ pc' = [pc EXCEPT ![t] = "logged"]
  /\ UNCHANGED <<next_tx_id, current_ts, active_read_ts, commit_lock, rvVars, txVars,
                 togo, vacVars, histVars>>

\* The catalog is saved, the commit mutex released, read_ts removed.
CommitFinish(t) ==
  /\ pc[t] = "logged"
  /\ commit_lock' = NoTx
  /\ RemoveReadTs(read_ts[t])
  /\ pc' = [pc EXCEPT ![t] = "committed"]
  /\ UNCHANGED <<next_tx_id, current_ts, active_tx_ids, rvVars, txVars, togo,
                 vacVars, histVars>>

\* commit returns Err before the first commit_row: flush_all_pending,
\* sync_all_data_files, clock overflow, or a page merge.
CommitEarlyError(t) ==
  /\ \/ pc[t] = "locked"
     \/ pc[t] = "stamped" /\ togo[t] = Writes(t)
  /\ commit_lock' = NoTx
  /\ togo' = [togo EXCEPT ![t] = {}]
  /\ pc' = [pc EXCEPT ![t] = "failed"]
  /\ UNCHANGED <<next_tx_id, current_ts, active_tx_ids, active_read_ts, rvVars,
                 txVars, vacVars, histVars>>

\* commit returns Err after every commit_row: log_commit or save_if_needed.
CommitLateError(t) ==
  /\ LateErrors
  /\ \/ pc[t] = "stamped" /\ togo[t] = {}
     \/ pc[t] = "logged"
  /\ commit_lock' = NoTx
  /\ pc' = [pc EXCEPT ![t] = "failed"]
  /\ UNCHANGED <<next_tx_id, current_ts, active_tx_ids, active_read_ts, rvVars,
                 txVars, togo, vacVars, histVars>>

-----------------------------------------------------------------------------
(* rollback and Drop *)

\* Mutant: rollback visits modified_rows only, not the bulk ranges.
RollbackStart_NoBulkRows(t) ==
  /\ \/ pc[t] = "running" /\ marking[t] = {}
     \/ pc[t] = "failed"
  /\ togo' = [togo EXCEPT ![t] = modified_rows[t]]
  /\ pc' = [pc EXCEPT ![t] = "rolling"]
  /\ UNCHANGED <<tmVars, rvVars, txVars, vacVars, histVars>>

\* ROLLBACK, or the autocommit path after a statement or a commit failed.
RollbackStart(t) ==
  /\ \/ pc[t] = "running" /\ marking[t] = {}
     \/ pc[t] = "failed"
  /\ togo' = [togo EXCEPT ![t] = Writes(t)]
  /\ pc' = [pc EXCEPT ![t] = "rolling"]
  /\ UNCHANGED <<tmVars, rvVars, txVars, vacVars, histVars>>

\* rollback_row / rollback_row_batch: drop the row's mark, whoever holds it.
RollbackRow(t, r) ==
  /\ pc[t] = "rolling" /\ r \in togo[t]
  /\ versions' = [versions EXCEPT ![r] = NoTx]
  /\ togo' = [togo EXCEPT ![t] = @ \ {r}]
  /\ UNCHANGED <<tmVars, committed, pc, txVars, vacVars, histVars>>

RollbackDeactivate(t) ==
  /\ pc[t] = "rolling" /\ togo[t] = {}
  /\ active_tx_ids' = active_tx_ids \ {t}
  /\ pc' = [pc EXCEPT ![t] = "rolled"]
  /\ UNCHANGED <<next_tx_id, current_ts, active_read_ts, commit_lock, rvVars, txVars,
                 togo, vacVars, histVars>>

RollbackFinish(t) ==
  /\ pc[t] = "rolled"
  /\ RemoveReadTs(read_ts[t])
  /\ pc' = [pc EXCEPT ![t] = "aborted"]
  /\ UNCHANGED <<next_tx_id, current_ts, active_tx_ids, commit_lock, rvVars, txVars,
                 togo, vacVars, histVars>>

\* Mutant: Drop returns early for a read-only transaction.
Drop_ReadersReturnEarly(t) ==
  /\ \/ pc[t] = "running" /\ marking[t] = {}
     \/ pc[t] = "failed"
  /\ IF is_read_only[t] THEN UNCHANGED active_read_ts ELSE RemoveReadTs(read_ts[t])
  /\ active_tx_ids' = active_tx_ids \ {t}
  /\ pc' = [pc EXCEPT ![t] = "dropped"]
  /\ UNCHANGED <<next_tx_id, current_ts, commit_lock, rvVars, txVars, togo,
                 vacVars, histVars>>

\* Drop of a Transaction that is not finalized: its connection was closed, its
\* query timed out, or an explicit commit failed.  Page versions are discarded;
\* row marks are not.
Drop(t) ==
  /\ \/ pc[t] = "running" /\ marking[t] = {}
     \/ pc[t] = "failed"
  /\ RemoveReadTs(read_ts[t])
  /\ active_tx_ids' = active_tx_ids \ {t}
  /\ pc' = [pc EXCEPT ![t] = "dropped"]
  /\ UNCHANGED <<next_tx_id, current_ts, commit_lock, rvVars, txVars, togo,
                 vacVars, histVars>>

-----------------------------------------------------------------------------
(* RowVersion::vacuum, as Database::checkpoint runs it *)

\* get_min_active_read_ts: the least snapshot in use, or the clock.
IsMinActiveReadTs(m) ==
  IF \A ts \in Ts : active_read_ts[ts] = 0
    THEN m = current_ts
    ELSE active_read_ts[m] > 0 /\ \A ts \in Ts : active_read_ts[ts] > 0 => m <= ts

VacuumStart(min_active) ==
  /\ vacuum_todo = {}
  /\ IsMinActiveReadTs(min_active)
  /\ vacuum_min' = min_active
  /\ vacuum_todo' = Row
  /\ raced' = raced \cup {t \in Tx : /\ pc[t] \in {"has_ts", "is_active"}
                                     /\ read_ts[t] < min_active}
  /\ UNCHANGED <<tmVars, rvVars, pc, txVars, togo, past>>

\* One row of one shard.
VacuumRow(r) ==
  /\ r \in vacuum_todo
  /\ committed' = [committed EXCEPT ![r] = VacuumEntry(@, vacuum_min)]
  /\ vacuum_todo' = vacuum_todo \ {r}
  /\ UNCHANGED <<tmVars, versions, pc, txVars, togo, vacuum_min, histVars>>

-----------------------------------------------------------------------------
Begin(t) ==
  \/ \E ro \in BOOLEAN : BeginId(t, ro)
  \/ BeginSnapshot(t)
  \/ \E ts \in SnapshotTs : BeginSnapshotAt(t, ts)
  \/ BeginActive(t)
  \/ BeginRegister(t)

Statement(t) ==
  \/ \E r \in Row : InsertRow(t, r) \/ SetMark(t, r) \/ SetConflict(t, r)
  \/ SetWrite(t)

Commit(t) ==
  \/ CommitReadOnly(t) \/ CommitLock(t) \/ CommitStamp(t)
  \/ \E r \in Row : CommitRow(t, r)
  \/ CommitLogged(t) \/ CommitFinish(t) \/ CommitEarlyError(t) \/ CommitLateError(t)

Rollback(t) ==
  \/ RollbackStart(t)
  \/ \E r \in Row : RollbackRow(t, r)
  \/ RollbackDeactivate(t) \/ RollbackFinish(t)

Vacuum ==
  \/ \E min_active \in Ts : VacuumStart(min_active)
  \/ \E r \in Row : VacuumRow(r)

Next ==
  \/ \E t \in Tx : Begin(t) \/ Statement(t) \/ Commit(t) \/ Rollback(t) \/ Drop(t)
  \/ Vacuum

Spec == Init /\ [][Next]_vars
-----------------------------------------------------------------------------
(* Properties *)

\* Type invariant of the transaction manager and the row versions.
TypeOK ==
  /\ next_tx_id \in 1..MaxTx
  /\ current_ts \in Ts
  /\ active_tx_ids \subseteq Tx
  /\ active_read_ts \in [Ts -> Nat]
  /\ commit_lock \in Tx \cup {NoTx}
  /\ versions \in [Row -> Tx \cup {NoTx}]
  /\ committed \in [Row -> CommittedVersion(Ts)]
  /\ pc \in [Tx -> PC]
  /\ is_read_only \in [Tx -> BOOLEAN]
  /\ read_ts \in [Tx -> Ts \cup {0}]
  /\ commit_ts \in [Tx -> Ts \cup {0}]
  /\ marking \in [Tx -> SUBSET Row]
  /\ modified_rows \in [Tx -> SUBSET Row]
  /\ bulk_rows \in [Tx -> SUBSET Row]
  /\ togo \in [Tx -> SUBSET Row]
  /\ vacuum_min \in Ts
  /\ vacuum_todo \subseteq Row
  /\ past \subseteq Tx
  /\ raced \subseteq Tx

Visible(t, r) == IsVisible(versions[r], committed[r], t, read_ts[t])

\* The transactions whose registered snapshot is ts.
Snapshots(ts) == {t \in Tx : Registered(t) /\ read_ts[t] = ts}

\* active_read_ts counts exactly the transactions between begin and their end,
\* whichever of commit, rollback and Drop ends them: a count left behind would
\* stop every later vacuum, a count removed twice would let the vacuum discard
\* history a live snapshot needs.
ReadTsBalanced ==
  \A ts \in Ts : active_read_ts[ts] = Cardinality(Snapshots(ts))

\* First committer wins (mark_row): two committed transactions that wrote the
\* same row never overlap in time, whatever commits, rollbacks and vacuums ran
\* in between.  A transaction whose begin a vacuum overtook (raced) is exempt:
\* the vacuum may have dropped the commit its mark_row had to see.
FirstCommitterWins ==
  \A a, b \in Tx :
    /\ a # b
    /\ pc[a] = "committed" /\ pc[b] = "committed"
    /\ a \notin raced /\ b \notin raced
    /\ Writes(a) \cap Writes(b) # {}
    => commit_ts[a] <= read_ts[b] \/ commit_ts[b] <= read_ts[a]

\* A commit that failed after its timestamp was taken wrote r.  When the error came
\* after commit_row (LateErrors), rollback leaves the history it opened.
LeftBehind(r) ==
  \E c \in Tx : /\ r \in Writes(c) /\ commit_ts[c] # 0
                /\ pc[c] \in {"failed", "rolling", "rolled", "aborted", "dropped"}

\* A snapshot never shows a row that another transaction has inserted without
\* committing it, or committed after the snapshot was taken, even while commits
\* publish rows one by one and a vacuum rewrites the histories.  A row id that
\* was handed out again after a late error is exempt: the history the failed
\* commit left behind makes the new insert visible at once.
NoFutureRows ==
  \A t, a \in Tx : \A r \in bulk_rows[a] :
    /\ ~(LateErrors /\ LeftBehind(r))
    /\ Registered(t) /\ t \notin raced /\ t \notin past
    /\ a # t /\ pc[a] \notin {"rolling", "rolled", "aborted"}
    /\ commit_ts[a] = 0 \/ commit_ts[a] > read_ts[t]
    => ~Visible(t, r)

\* Rows recorded by a transaction stay marked as its own until its commit or
\* rollback loop reaches them, and carry no mark of it afterwards.
RecordedMarks ==
  \A t \in Tx :
    /\ pc[t] \in {"running", "locked"} =>
         \A r \in Writes(t) : versions[r] = t
    /\ pc[t] \in {"committed", "aborted"} =>
         \A r \in Writes(t) : versions[r] # t
=============================================================================

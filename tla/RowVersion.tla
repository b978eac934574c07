----------------------------- MODULE RowVersion -----------------------------
(***************************************************************************)
(* Row-level version bookkeeping of one table (storage/row_version.rs).    *)
(*                                                                         *)
(* The code keeps, per row, an optional uncommitted mark (`versions`:      *)
(* row_id -> tx_id) and an optional commit history (`committed`: row_id -> *)
(* CommittedVersion).  A row's shard is a function of its id and every     *)
(* operation holds that shard's locks, so one row's pair (mark, history)   *)
(* changes atomically and the sharding itself is not part of the model.    *)
(* Transaction ids and commit timestamps start at 1, so 0 stands for an    *)
(* absent map entry.                                                       *)
(***************************************************************************)
EXTENDS Naturals

NoTx == 0

\* The absent CommittedVersion.
NoEntry == [first_ts |-> 0, last_ts |-> 0]

\* CommittedVersion over the timestamps T, or no entry.
CommittedVersion(T) == {NoEntry} \cup [first_ts : T, last_ts : T]

\* Mutant: mark_row checks the mark but not the committed history.
MarkRowOk_NoHistory(mark, entry, tx_id, read_ts) == mark \in {NoTx, tx_id}

\* mark_row succeeds: no other transaction holds the mark, and nobody
\* committed the row after the caller's snapshot.
MarkRowOk(mark, entry, tx_id, read_ts) ==
  /\ mark \in {NoTx, tx_id}
  /\ entry.last_ts <= read_ts

\* commit_row / commit_row_batch: the history after a commit at commit_ts.
CommitRowEntry(entry, commit_ts) ==
  IF entry = NoEntry
    THEN [first_ts |-> commit_ts, last_ts |-> commit_ts]
    ELSE [first_ts |-> IF commit_ts < entry.first_ts THEN commit_ts ELSE entry.first_ts,
          last_ts  |-> IF commit_ts > entry.last_ts THEN commit_ts ELSE entry.last_ts]

\* Mutant: an uncommitted mark of another transaction is not looked at.
IsVisible_NoMark(mark, entry, tx_id, read_ts) ==
  \/ mark = tx_id
  \/ entry # NoEntry /\ entry.first_ts <= read_ts
  \/ entry = NoEntry

\* is_visible / get_visibility_mask.
IsVisible(mark, entry, tx_id, read_ts) ==
  \/ mark = tx_id
  \/ entry # NoEntry /\ entry.first_ts <= read_ts
  \/ entry = NoEntry /\ mark = NoTx

\* vacuum: what is left of one row's history.
VacuumEntry(entry, min_active_ts) ==
  CASE entry.last_ts < min_active_ts  -> NoEntry
    [] entry.last_ts >= min_active_ts /\ entry.first_ts < min_active_ts
                                      -> [entry EXCEPT !.first_ts = min_active_ts]
    [] OTHER                          -> entry
=============================================================================

----------------------------- MODULE Durability -----------------------------
(***************************************************************************)
(* The write-ahead log, the data files, the database header and what       *)
(* commit, checkpoint, a crash and Database::new do with them              *)
(* (storage/wal.rs, transaction_manager.rs, buffer_manager.rs, lib.rs) in  *)
(* SyncMode::Normal.                                                       *)
(*                                                                         *)
(* Every transaction writes rows of its own, so the content of a page is   *)
(* the set of writers whose rows it holds, and merging is union.  A writer *)
(* is an id together with the run of the process that handed it out.       *)
(***************************************************************************)
EXTENDS Naturals, FiniteSets, Sequences, Functions

CONSTANTS
  Page,            \* data pages, each in a file of its own
  MaxTx,           \* bound on the transaction ids handed out
  MaxCrash,        \* bound on crashes
  MaxCheckpoint,   \* bound on checkpoints
  MaxLog,          \* bound on log records, for statements that add more
  Concurrent,      \* several writers at a time
  PowerLoss,       \* a crash loses what was not fsynced; else only the process dies
  TornTail         \* a crash may leave a torn record at the end of the log

Tx == 1..MaxTx
Writer == (0..MaxCrash) \X Tx

VARIABLES
  mode,                \* "up", "down", or "cleanup": the checkpoint in Database::new
  crashes, checkpoints,
  next_tx_id, current_ts, active_tx_ids, pc, commit_lock,
  own,                 \* uncommitted frames of each transaction: page -> rows
  frame,               \* newest committed frame of each page
  col_dirty,           \* pages with Column::dirty set
  os,                  \* data files as the operating system has them
  maybe,               \* contents of a data page a power loss may leave
  pending_buf, taken,  \* log records in memory, and in the hands of flush_pending
  wal,                 \* log records in the file
  synced,              \* length of the fsynced part of the file
  torn,                \* the file ends in a torn record
  header,              \* database.header
  ckpt, fids,          \* progress of a checkpoint and the files it wrote to
  acked,               \* history: <<writer, page>> of acknowledged commits
  discarded            \* history: writers that ended without starting to commit

memVars == <<next_tx_id, current_ts, active_tx_ids, pc, commit_lock, own, frame, col_dirty>>
fileVars == <<os, maybe>>
logVars == <<pending_buf, taken, wal, synced, torn>>
ckptVars == <<ckpt, fids, checkpoints, header>>
histVars == <<acked, discarded>>
vars == <<mode, crashes, memVars, fileVars, logVars, ckptVars, histVars>>

Rows == SUBSET Writer
Me(t) == <<crashes, t>>
NoFrame == [used |-> FALSE, version |-> 0, rows |-> {}, dirty |-> FALSE]
NoOwn == [t \in Tx |-> <<>>]

PageUpdate(id, w, p, rows) ==
  [kind |-> "page", tx |-> id, writer |-> w, page |-> p, rows |-> rows]
CommitRecord(w) == [kind |-> "commit", tx |-> w[2], writer |-> w]

\* pin_latest_committed: the committed frame, or the data file.
Latest(p) == IF frame[p].used THEN frame[p].rows ELSE os[p]

Max0(S) == CHOOSE m \in S \cup {0} : \A x \in S : x <= m

Init ==
  /\ mode = "up" /\ crashes = 0 /\ checkpoints = 0
  /\ next_tx_id = 1 /\ current_ts = 1 /\ active_tx_ids = {}
  /\ pc = [t \in Tx |-> "unborn"] /\ commit_lock = 0
  /\ own = NoOwn
  /\ frame = [p \in Page |-> NoFrame]
  /\ col_dirty = {}
  /\ os = [p \in Page |-> {}] /\ maybe = [p \in Page |-> {{}}]
  /\ pending_buf = <<>> /\ taken = <<>> /\ wal = <<>> /\ synced = 0 /\ torn = FALSE
  /\ header = [last_checkpoint_tx |-> 0, next_tx_id |-> 1, current_ts |-> 1]
  /\ ckpt = "idle" /\ fids = {}
  /\ acked = {} /\ discarded = {}
-----------------------------------------------------------------------------
(* Transactions *)

Begin ==
  /\ mode = "up" /\ next_tx_id \in Tx
  /\ Concurrent \/ active_tx_ids = {}
  /\ next_tx_id' = next_tx_id + 1
  /\ active_tx_ids' = active_tx_ids \cup {next_tx_id}
  /\ pc' = [pc EXCEPT ![next_tx_id] = "running"]
  /\ UNCHANGED <<mode, crashes, current_ts, commit_lock, own, frame, col_dirty, fileVars,
                 logVars, ckptVars, histVars>>

\* A read-only transaction takes an id and is not in active_tx_ids.
BeginReadOnly ==
  /\ mode = "up" /\ next_tx_id \in Tx
  /\ next_tx_id' = next_tx_id + 1
  /\ UNCHANGED <<mode, crashes, current_ts, active_tx_ids, pc, commit_lock, own, frame,
                 col_dirty, fileVars, logVars, ckptVars, histVars>>

Uncommitted == {"running", "flushing", "stamped", "merged"}

\* log_page_update: the largest version of any resident frame of the page, be it
\* a transaction id or a commit timestamp.  t has just written its frame.
LoggedId(t, p) ==
  Max0({t} \cup {x \in Tx : pc[x] \in Uncommitted /\ p \in DOMAIN own[x]}
           \cup (IF frame[p].used THEN {frame[p].version} ELSE {}))

\* append_value: a copy-on-write frame, its image buffered for the log.
Write(t, p) ==
  /\ mode = "up" /\ pc[t] = "running"
  /\ Len(wal) + Len(pending_buf) < MaxLog
  /\ LET rows == (IF p \in DOMAIN own[t] THEN own[t][p] ELSE Latest(p)) \cup {Me(t)}
     IN  /\ own' = [own EXCEPT ![t] = [x \in DOMAIN @ \cup {p} |-> IF x = p THEN rows ELSE @[x]]]
         /\ pending_buf' = Append(pending_buf, PageUpdate(LoggedId(t, p), Me(t), p, rows))
  /\ col_dirty' = col_dirty \cup {p}
  /\ UNCHANGED <<mode, crashes, next_tx_id, current_ts, active_tx_ids, pc, commit_lock,
                 frame, fileVars, taken, wal, synced, torn, ckptVars, histVars>>

\* flush_pending, when the buffer passes WAL_PENDING_FLUSH_BYTES: the records of all
\* transactions are taken from the buffer ...
FlushTake(t) ==
  /\ mode = "up" /\ pc[t] = "running" /\ pending_buf # <<>> /\ taken = <<>>
  /\ taken' = pending_buf
  /\ pending_buf' = <<>>
  /\ pc' = [pc EXCEPT ![t] = "flushing"]
  /\ UNCHANGED <<mode, crashes, next_tx_id, current_ts, active_tx_ids, commit_lock, own, frame,
                 col_dirty, fileVars, wal, synced, torn, ckptVars, histVars>>

\* ... and, under the file's lock, written.
FlushWrite(t) ==
  /\ mode = "up" /\ pc[t] = "flushing"
  /\ wal' = wal \o taken
  /\ taken' = <<>>
  /\ pc' = [pc EXCEPT ![t] = "running"]
  /\ UNCHANGED <<mode, crashes, next_tx_id, current_ts, active_tx_ids, commit_lock, own, frame,
                 col_dirty, fileVars, pending_buf, synced, torn, ckptVars, histVars>>

\* rollback or Drop, also after a commit that failed before it published.
Rollback(t) ==
  /\ mode = "up" /\ pc[t] \in {"running", "stamped", "merged"}
  /\ pc' = [pc EXCEPT ![t] = "aborted"]
  /\ own' = [own EXCEPT ![t] = <<>>]
  /\ active_tx_ids' = active_tx_ids \ {t}
  /\ commit_lock' = IF commit_lock = t THEN 0 ELSE commit_lock
  /\ discarded' = discarded \cup {Me(t)}
  /\ UNCHANGED <<mode, crashes, next_tx_id, current_ts, frame, col_dirty, fileVars, logVars,
                 ckptVars, acked>>

-----------------------------------------------------------------------------
(* commit *)

\* fsync of the files in S: they hold what the operating system has.
Fsynced(S) == [p \in Page |-> IF p \in S THEN {os[p]} ELSE maybe[p]]

\* Under the commit mutex: sync_all_data_files (files of dirty columns), stamp.
CommitStart(t) ==
  /\ mode = "up" /\ pc[t] = "running" /\ DOMAIN own[t] # {}
  /\ commit_lock = 0
  /\ commit_lock' = t
  /\ maybe' = Fsynced(col_dirty)
  /\ col_dirty' = {}
  /\ current_ts' = current_ts + 1
  /\ pc' = [pc EXCEPT ![t] = "stamped"]
  /\ UNCHANGED <<mode, crashes, next_tx_id, active_tx_ids, own, frame, os, logVars, ckptVars,
                 histVars>>

\* Merge-on-commit of every page, with its image buffered for the log.
CommitMerge(t) ==
  /\ mode = "up" /\ pc[t] = "stamped"
  /\ LET merged == [p \in DOMAIN own[t] |-> Latest(p) \cup {Me(t)}]
         image(p) == PageUpdate(LoggedId(t, p), Me(t), p, merged[p])
         order == CHOOSE f \in Bijection(1..Cardinality(DOMAIN merged), DOMAIN merged) : TRUE
     IN  /\ own' = [own EXCEPT ![t] = merged]
         /\ pending_buf' = pending_buf \o [i \in 1..Len(order) |-> image(order[i])]
  /\ pc' = [pc EXCEPT ![t] = "merged"]
  /\ UNCHANGED <<mode, crashes, next_tx_id, current_ts, active_tx_ids, commit_lock, frame,
                 col_dirty, fileVars, taken, wal, synced, torn, ckptVars, histVars>>

\* update_timestamps: the frames become the newest committed versions.
CommitPublish(t) ==
  /\ mode = "up" /\ pc[t] = "merged"
  /\ frame' = [p \in Page |->
                 IF p \in DOMAIN own[t]
                   THEN [used |-> TRUE, version |-> current_ts, rows |-> own[t][p], dirty |-> TRUE]
                   ELSE frame[p]]
  /\ pc' = [pc EXCEPT ![t] = "published"]
  /\ UNCHANGED <<mode, crashes, next_tx_id, current_ts, active_tx_ids, commit_lock, own,
                 col_dirty, fileVars, logVars, ckptVars, histVars>>

\* A dirty committed frame goes to its file (no fsync).
WriteBack(S) ==
  /\ os' = [p \in Page |-> IF p \in S THEN frame[p].rows ELSE os[p]]
  /\ maybe' = [p \in Page |-> IF p \in S THEN maybe[p] \cup {frame[p].rows} ELSE maybe[p]]
  /\ frame' = [p \in Page |-> IF p \in S THEN [frame[p] EXCEPT !.dirty = FALSE] ELSE frame[p]]

\* flush_pages, page by page.
CommitFlush(t, p) ==
  /\ mode = "up" /\ pc[t] = "published"
  /\ p \in DOMAIN own[t] /\ frame[p].dirty
  /\ WriteBack({p})
  /\ UNCHANGED <<mode, crashes, next_tx_id, current_ts, active_tx_ids, pc, commit_lock, own,
                 col_dirty, logVars, ckptVars, histVars>>

\* log_commit: the buffered records and the commit record go to the file ...
CommitLog(t) ==
  /\ mode = "up" /\ pc[t] = "published"
  /\ \A p \in DOMAIN own[t] : ~frame[p].dirty
  /\ wal' = wal \o pending_buf \o <<CommitRecord(Me(t))>>
  /\ pending_buf' = <<>>
  /\ pc' = [pc EXCEPT ![t] = "logged"]
  /\ UNCHANGED <<mode, crashes, next_tx_id, current_ts, active_tx_ids, commit_lock, own,
                 frame, col_dirty, fileVars, taken, synced, torn, ckptVars, histVars>>

\* Mutant: the commit is acknowledged without waiting for fsync.
CommitAck_NoFsync(t) ==
  /\ mode = "up" /\ pc[t] = "logged"
  /\ acked' = acked \cup ({Me(t)} \X DOMAIN own[t])
  /\ own' = [own EXCEPT ![t] = <<>>]
  /\ active_tx_ids' = active_tx_ids \ {t}
  /\ commit_lock' = 0
  /\ pc' = [pc EXCEPT ![t] = "committed"]
  /\ UNCHANGED <<mode, crashes, next_tx_id, current_ts, frame, col_dirty, fileVars,
                 pending_buf, taken, wal, synced, torn, ckptVars, discarded>>

\* ... and are fsynced before the commit is acknowledged.
CommitAck(t) ==
  /\ mode = "up" /\ pc[t] = "logged"
  /\ synced' = Len(wal)
  /\ acked' = acked \cup ({Me(t)} \X DOMAIN own[t])
  /\ own' = [own EXCEPT ![t] = <<>>]
  /\ active_tx_ids' = active_tx_ids \ {t}
  /\ commit_lock' = 0
  /\ pc' = [pc EXCEPT ![t] = "committed"]
  /\ UNCHANGED <<mode, crashes, next_tx_id, current_ts, frame, col_dirty, fileVars,
                 pending_buf, taken, wal, torn, ckptVars, discarded>>

\* evict_with_clock.  A committed frame is dirty only while its commit pins it.
Evict(p) ==
  /\ mode = "up" /\ frame[p].used /\ ~frame[p].dirty
  /\ frame' = [frame EXCEPT ![p] = NoFrame]
  /\ UNCHANGED <<mode, crashes, next_tx_id, current_ts, active_tx_ids, pc, commit_lock, own,
                 col_dirty, fileVars, logVars, ckptVars, histVars>>

-----------------------------------------------------------------------------
(* checkpoint, which takes no lock that commit holds *)

\* BufferManager::checkpoint: dirty committed frames are written ...
CheckpointFlush ==
  /\ mode \in {"up", "cleanup"} /\ ckpt = "idle"
  /\ mode = "cleanup" \/ checkpoints < MaxCheckpoint
  /\ fids' = {p \in Page : frame[p].dirty}
  /\ WriteBack(fids')
  /\ ckpt' = "written"
  /\ checkpoints' = IF mode = "up" THEN checkpoints + 1 ELSE checkpoints
  /\ UNCHANGED <<mode, crashes, next_tx_id, current_ts, active_tx_ids, pc, commit_lock, own,
                 col_dirty, logVars, header, histVars>>

\* ... the files just written to are fsynced ...
CheckpointSync ==
  /\ ckpt = "written"
  /\ maybe' = Fsynced(fids)
  /\ fids' = {}
  /\ ckpt' = "synced"
  /\ UNCHANGED <<mode, crashes, memVars, os, logVars, checkpoints, header, histVars>>

\* Mutant: what was fsynced is remembered across the cut.
CheckpointTruncate_KeepsSynced ==
  /\ ckpt = "synced"
  /\ wal' = <<>> /\ torn' = FALSE
  /\ ckpt' = "truncated"
  /\ UNCHANGED <<mode, crashes, memVars, fileVars, pending_buf, taken, synced, fids,
                 checkpoints, header, histVars>>

\* ... and the log is cut.
CheckpointTruncate ==
  /\ ckpt = "synced"
  /\ wal' = <<>> /\ synced' = 0 /\ torn' = FALSE
  /\ ckpt' = "truncated"
  /\ UNCHANGED <<mode, crashes, memVars, fileVars, pending_buf, taken, fids, checkpoints, header,
                 histVars>>

\* resolved_tx_watermark: the largest id handed out that is not an active writer's.
ResolvedTxWatermark == Max0((0..next_tx_id - 1) \ active_tx_ids)

\* The header is replaced atomically.
CheckpointHeader ==
  /\ ckpt = "truncated"
  /\ header' = [last_checkpoint_tx |-> ResolvedTxWatermark, next_tx_id |-> next_tx_id,
                current_ts |-> current_ts]
  /\ ckpt' = "idle"
  /\ mode' = "up"
  /\ UNCHANGED <<crashes, memVars, fileVars, logVars, fids, checkpoints, histVars>>

-----------------------------------------------------------------------------
(* Crash and Database::new *)

\* A power loss keeps what was fsynced and any part of what was not, and of the log a
\* prefix no shorter than its fsynced part.  A record that was being written may be torn.
Crash ==
  /\ mode # "down" /\ crashes < MaxCrash
  /\ crashes' = crashes + 1
  /\ mode' = "down"
  /\ discarded' = discarded \cup {Me(t) : t \in {x \in Tx : pc[x] \in {"running", "flushing"}}}
  /\ IF PowerLoss
       THEN /\ os' \in {f \in [Page -> UNION {maybe[p] : p \in Page}] :
                         \A p \in Page : f[p] \in maybe[p]}
            /\ maybe' = [p \in Page |-> {os'[p]}]
            /\ \E n \in synced..Len(wal) :
                 /\ wal' = SubSeq(wal, 1, n)
                 /\ torn' \in (IF TornTail /\ n < Len(wal) THEN BOOLEAN ELSE {FALSE})
                 /\ synced' = n
       ELSE /\ torn' \in (IF TornTail /\ pending_buf \o taken # <<>> THEN BOOLEAN ELSE {torn})
            /\ UNCHANGED <<fileVars, wal, synced>>
  /\ pending_buf' = <<>> /\ taken' = <<>>
  /\ pc' = [t \in Tx |-> "unborn"] /\ active_tx_ids' = {} /\ commit_lock' = 0
  /\ own' = NoOwn /\ frame' = [p \in Page |-> NoFrame] /\ col_dirty' = {}
  /\ ckpt' = "idle" /\ fids' = {}
  /\ UNCHANGED <<next_tx_id, current_ts, checkpoints, header, acked>>

\* Mutant: page updates are applied as they are read, committed or not.
ReplayStep_Eager(acc, rec) ==
  IF rec.kind = "page"
    THEN [acc EXCEPT !.os = [acc.os EXCEPT ![rec.page] = rec.rows]]
    ELSE acc

\* The log is replayed past the watermark of the last checkpoint.
PastCheckpoint(rec) == rec.tx > header.last_checkpoint_tx

Applied(pages, recs) ==
  [p \in Page |-> LET mine == SelectSeq(recs, LAMBDA x : x.page = p)
                  IN  IF mine = <<>> THEN pages[p] ELSE mine[Len(mine)].rows]

\* A page update of a transaction already seen to commit is applied; others wait
\* for their commit record.
ReplayPageUpdate(acc, rec) ==
  IF rec.tx \in acc.commits /\ PastCheckpoint(rec)
    THEN [acc EXCEPT !.os = Applied(@, <<rec>>)]
    ELSE [acc EXCEPT !.pending = Append(@, rec)]

ReplayCommit(acc, rec) ==
  LET now == SelectSeq(acc.pending, LAMBDA x : x.tx = rec.tx)
      seen == [acc EXCEPT !.commits = @ \cup {rec.tx}]
  IN  IF PastCheckpoint(rec)
        THEN [seen EXCEPT !.os = Applied(@, now),
                          !.pending = SelectSeq(@, LAMBDA x : x.tx # rec.tx)]
        ELSE seen

\* WAL::replay, one record.
ReplayStep(acc, rec) ==
  IF rec.kind = "page" THEN ReplayPageUpdate(acc, rec) ELSE ReplayCommit(acc, rec)

\* Mutant: transactions are applied from the newest to the oldest.
Replay_Reversed(log) ==
  LET committed == {log[i].tx : i \in {j \in 1..Len(log) : log[j].kind = "commit"}}
      updates == SelectSeq(log, LAMBDA x : x.kind = "page" /\ x.tx \in committed)
      after[n \in 0..Len(updates)] ==
        IF n = 0 THEN os
        ELSE LET rec == updates[Len(updates) + 1 - n]
             IN  [after[n - 1] EXCEPT ![rec.page] = rec.rows]
  IN  after[Len(updates)]

\* (The drain at the end of replay finds only transactions below the watermark.)
Replay(log) ==
  LET after[n \in 0..Len(log)] ==
        IF n = 0 THEN [os |-> os, commits |-> {}, pending |-> <<>>]
        ELSE ReplayStep(after[n - 1], log[n])
  IN  after[Len(log)].os

\* apply_page writes without fsync.
ApplyPages(pages) ==
  /\ os' = pages
  /\ maybe' = [p \in Page |-> maybe[p] \cup {pages[p]}]

\* Mutant: the counters are restored from the header alone.
RestoredNextTx_HeaderOnly == header.next_tx_id

\* restore_counters.
RestoredNextTx ==
  Max0({header.next_tx_id, header.last_checkpoint_tx + 1,
        Max0({wal[i].tx : i \in 1..Len(wal)}) + 1})

Recover ==
  /\ mode = "down"
  /\ ApplyPages(Replay(wal))
  /\ next_tx_id' = RestoredNextTx
  /\ current_ts' = Max0({header.current_ts, RestoredNextTx - 1, 1})
  /\ mode' = IF torn THEN "cleanup" ELSE "up"
  /\ UNCHANGED <<crashes, active_tx_ids, pc, commit_lock, own, frame, col_dirty, logVars,
                 ckptVars, histVars>>

\* The process dies in the middle of replay.
RecoverCrash ==
  /\ mode = "down" /\ crashes < MaxCrash
  /\ crashes' = crashes + 1
  /\ \E n \in 0..Len(wal) : ApplyPages(Replay(SubSeq(wal, 1, n)))
  /\ UNCHANGED <<mode, memVars, logVars, ckptVars, histVars>>

-----------------------------------------------------------------------------
Next ==
  \/ Begin \/ BeginReadOnly
  \/ \E t \in Tx :
       \/ \E p \in Page : Write(t, p) \/ CommitFlush(t, p)
       \/ FlushTake(t) \/ FlushWrite(t)
       \/ Rollback(t) \/ CommitStart(t) \/ CommitMerge(t) \/ CommitPublish(t)
       \/ CommitLog(t) \/ CommitAck(t)
  \/ \E p \in Page : Evict(p)
  \/ CheckpointFlush \/ CheckpointSync \/ CheckpointTruncate \/ CheckpointHeader
  \/ Crash \/ Recover \/ RecoverCrash

Spec == Init /\ [][Next]_vars
-----------------------------------------------------------------------------
(* Properties *)

\* Type invariant of the log, the files and the counters.
TypeOK ==
  /\ mode \in {"up", "down", "cleanup"}
  /\ crashes \in 0..MaxCrash /\ next_tx_id \in 1..MaxTx + 1 /\ current_ts \in 1..MaxTx + 1
  /\ active_tx_ids \subseteq Tx /\ commit_lock \in 0..MaxTx
  /\ os \in [Page -> Rows] /\ \A p \in Page : os[p] \in maybe[p]
  /\ synced \in 0..Len(wal)
  /\ header.last_checkpoint_tx \in 0..MaxTx
  /\ fids \subseteq Page /\ col_dirty \subseteq Page
  /\ acked \subseteq Writer \X Page /\ discarded \subseteq Writer

\* No committed row is lost: once commit has returned Ok the rows are on their
\* pages for good, across crashes, replays, crashes during replay, checkpoints
\* and later commits.
Durable == mode = "up" => \A a \in acked : a[1] \in Latest(a[2])

\* Rows of a transaction that ended without starting to commit are on no page, also
\* after a replay of a log that holds its page updates (flush_pending: "if the
\* process crashes before commit, replay discards these records").
UncommittedDiscarded ==
  mode = "up" => \A p \in Page : Latest(p) \cap discarded = {}

\* Log records are keyed by transaction id, so an id may not be handed out again
\* while the log still holds records of an earlier run under it: the new
\* transaction's commit record would commit them.
NoIdReuse ==
  \A i \in 1..Len(wal) : wal[i].writer[1] < crashes => wal[i].tx \notin active_tx_ids
=============================================================================

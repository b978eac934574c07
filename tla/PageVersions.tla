---------------------------- MODULE PageVersions ----------------------------
(***************************************************************************)
(* The versions of one data page in the buffer pool (storage/              *)
(* buffer_manager.rs) and what commit, rollback and Drop of transaction_   *)
(* manager.rs and append_value of column.rs do with them: copy-on-write    *)
(* frames, merge-on-commit, flush, eviction and the vacuum thread.         *)
(*                                                                         *)
(* A row's value is the transaction that wrote it, so every lost or stale  *)
(* write shows.  Other pages of the shard appear only through the pressure *)
(* they put on the pool: Evict may take any slot evict_with_clock may.     *)
(***************************************************************************)
EXTENDS RowVersion, FiniteSets

CONSTANTS
  Tx,             \* transactions
  Row,            \* rows on the page
  Slot,           \* slots of the pool's shard
  MaxTs,          \* bound on the commit clock
  UnmarkedWrites  \* TRUE: statements that write a row before marking it run too
                  \* (MERGE ... ON MATCH SET, DETACH DELETE)

ASSUME PageAssumption ==
  /\ NoTx \notin Tx
  /\ MaxTs \in Nat \ {0}
  /\ UnmarkedWrites \in BOOLEAN

VARIABLES
  slots,        \* BufferPool::slots
  disk,         \* the page in the data file
  pins,         \* slots each transaction's thread has pinned
  leaked,       \* slots whose frame holds a pin nobody will release
  page_lock,    \* holder of the page's mutex in page_locks, or NoTx
  source,       \* page copied for a frame still to be found: source_data of
                \* create_new_version, merged_data of commit
  candidates,   \* to_cleanup of reclaim_expired_versions
  current_ts, commit_lock,
  versions, committed,                \* RowVersion of the rows
  pc, read_ts, commit_ts,
  writing,      \* the row a running append_value writes, as a set
  touched,      \* modified_pages holds the page
  mods,         \* Transaction::modified_page_rows (and modified_rows)
  truth,        \* history: the rows as the published commits left them
  stranded,     \* history: evict_superseded left an older committed frame behind
  spoiled       \* history: a frame with no recorded row was published unmerged

poolVars == <<slots, disk, pins, leaked, page_lock, source, candidates>>
tsVars == <<current_ts, commit_lock>>
rowVars == <<versions, committed>>
txVars == <<pc, read_ts, commit_ts, writing, touched, mods>>
histVars == <<truth, stranded, spoiled>>
vars == <<poolVars, tsVars, rowVars, txVars, histVars>>

Data == [Row -> Tx \cup {NoTx}]
Blank == [r \in Row |-> NoTx]

\* BufferSlot with its Frame.  A frame is uncommitted (mark is the writer) or
\* committed (mark is NoTx) at `version`, 0 for a page loaded from disk.
Frame == [used : BOOLEAN, mark : Tx \cup {NoTx}, version : 0..MaxTs, data : Data,
          dirty : BOOLEAN]
Empty == [used |-> FALSE, mark |-> NoTx, version |-> 0, data |-> Blank, dirty |-> FALSE]
Loaded == [Empty EXCEPT !.used = TRUE, !.data = disk]

Resident == {s \in Slot : slots[s].used}
Pinned(s) == s \in leaked \/ \E t \in Tx : s \in pins[t]

\* version & UNCOMMITTED_BIT == 0
Committed(s) == s \in Resident /\ slots[s].mark = NoTx

OwnFrames(t) == {s \in Resident : slots[s].mark = t}

Newest(S) == {s \in S : \A u \in S : slots[u].version <= slots[s].version}

-----------------------------------------------------------------------------
(* Page access *)

\* Mutant: the transaction's own version is not looked for.
PinChoice_CommittedOnly(t) ==
  Newest({s \in Resident : Committed(s) /\ slots[s].version <= read_ts[t]})

\* pin_page: our own uncommitted version, else the newest committed version
\* that is not after our snapshot.  Empty: the page is loaded from disk.
PinChoice(t) ==
  IF OwnFrames(t) # {}
    THEN OwnFrames(t)
    ELSE Newest({s \in Resident : Committed(s) /\ slots[s].version <= read_ts[t]})

\* What a read of the page by t returns now.
Reads(t) ==
  IF PinChoice(t) = {} THEN disk ELSE slots[CHOOSE s \in PinChoice(t) : TRUE].data

\* pin_latest_committed, and the copy-on-write source of create_new_version:
\* the newest committed frame, or the page on disk.
Latest ==
  LET S == Newest({s \in Resident : Committed(s)})
  IN  IF S = {} THEN disk ELSE slots[CHOOSE s \in S : TRUE].data

Init ==
  /\ slots = [s \in Slot |-> Empty]
  /\ disk = Blank
  /\ pins = [t \in Tx |-> {}]
  /\ leaked = {}
  /\ page_lock = NoTx
  /\ source = [t \in Tx |-> Blank]
  /\ candidates = {}
  /\ current_ts = 1
  /\ commit_lock = NoTx
  /\ versions = [r \in Row |-> NoTx]
  /\ committed = [r \in Row |-> NoEntry]
  /\ pc = [t \in Tx |-> "unborn"]
  /\ read_ts = [t \in Tx |-> 0]
  /\ commit_ts = [t \in Tx |-> 0]
  /\ writing = [t \in Tx |-> {}]
  /\ touched = [t \in Tx |-> FALSE]
  /\ mods = [t \in Tx |-> {}]
  /\ truth = Blank
  /\ stranded = FALSE
  /\ spoiled = FALSE

Begin(t) ==
  /\ pc[t] = "unborn"
  /\ pc' = [pc EXCEPT ![t] = "running"]
  /\ read_ts' = [read_ts EXCEPT ![t] = current_ts]
  /\ UNCHANGED <<poolVars, tsVars, rowVars, commit_ts, writing, touched, mods, histVars>>

\* A scan pins the page; a miss loads it from disk as version 0.
ReadPin(t) ==
  /\ pc[t] = "running" /\ pins[t] = {}
  /\ IF PinChoice(t) # {}
       THEN \E s \in PinChoice(t) :
              pins' = [pins EXCEPT ![t] = {s}] /\ UNCHANGED slots
       ELSE \E s \in Slot \ Resident :
              /\ slots' = [slots EXCEPT ![s] = Loaded]
              /\ pins' = [pins EXCEPT ![t] = {s}]
  /\ pc' = [pc EXCEPT ![t] = "reading"]
  /\ UNCHANGED <<disk, leaked, page_lock, source, candidates, tsVars, rowVars,
                 read_ts, commit_ts, writing, touched, mods, histVars>>

ReadUnpin(t) ==
  /\ pc[t] = "reading"
  /\ pins' = [pins EXCEPT ![t] = {}]
  /\ pc' = [pc EXCEPT ![t] = "running"]
  /\ UNCHANGED <<slots, disk, leaked, page_lock, source, candidates, tsVars, rowVars,
                 read_ts, commit_ts, writing, touched, mods, histVars>>

-----------------------------------------------------------------------------
(* Statements *)

\* SET and DELETE mark their rows before they write any.  (A conflict changes
\* nothing here: TransactionManager models what becomes of the other marks.)
MarkRow(t, r) ==
  /\ pc[t] = "running" /\ versions[r] # t
  /\ MarkRowOk(versions[r], committed[r], t, read_ts[t])
  /\ versions' = [versions EXCEPT ![r] = t]
  /\ UNCHANGED <<poolVars, tsVars, committed, txVars, histVars>>

\* append_value: create_new_version takes the page's mutex and, unless t has a
\* frame already, copies the newest committed version.
WriteStart(t, r) ==
  /\ pc[t] = "running"
  /\ versions[r] = t \/ UnmarkedWrites
  /\ page_lock = NoTx
  /\ page_lock' = t
  /\ source' = [source EXCEPT ![t] = Latest]
  /\ writing' = [writing EXCEPT ![t] = {r}]
  /\ touched' = [touched EXCEPT ![t] = TRUE]
  /\ pc' = [pc EXCEPT ![t] = "writing"]
  /\ UNCHANGED <<slots, disk, pins, leaked, candidates, tsVars, rowVars, read_ts,
                 commit_ts, mods, histVars>>

\* The frame create_new_version returns holds t's own version, or the source that
\* was copied before the shard lock was dropped to wait for a slot.
VersionSlots(t) == IF OwnFrames(t) # {} THEN OwnFrames(t) ELSE Slot \ Resident

FrameData(t, s) == IF s \in OwnFrames(t) THEN slots[s].data ELSE source[t]

\* The value goes into the frame, then mark_row decides.  A conflict leaves the
\* frame pinned and written; the row is not recorded.  Autocommit rolls back, an
\* explicit transaction goes on.
WriteFinish(t, r, s) ==
  /\ pc[t] = "writing" /\ r \in writing[t]
  /\ s \in VersionSlots(t)
  /\ slots' = [slots EXCEPT ![s] =
                 [used |-> TRUE, mark |-> t, version |-> 0, dirty |-> TRUE,
                  data |-> [FrameData(t, s) EXCEPT ![r] = t]]]
  /\ page_lock' = NoTx
  /\ source' = [source EXCEPT ![t] = Blank]
  /\ writing' = [writing EXCEPT ![t] = {}]
  /\ \/ /\ MarkRowOk(versions[r], committed[r], t, read_ts[t])
        /\ versions' = [versions EXCEPT ![r] = t]
        /\ mods' = [mods EXCEPT ![t] = @ \cup {r}]
        /\ pc' = [pc EXCEPT ![t] = "running"]
        /\ UNCHANGED leaked
     \/ /\ ~MarkRowOk(versions[r], committed[r], t, read_ts[t])
        /\ leaked' = leaked \cup {s}
        /\ \E next \in {"running", "failed"} : pc' = [pc EXCEPT ![t] = next]
        /\ UNCHANGED <<versions, mods>>
  /\ UNCHANGED <<disk, pins, candidates, tsVars, committed, read_ts, commit_ts,
                 touched, histVars>>

\* No slot can be evicted: "Buffer pool exhausted" fails the statement.
WriteExhausted(t) ==
  /\ pc[t] = "writing"
  /\ OwnFrames(t) = {} /\ Resident = Slot
  /\ page_lock' = NoTx
  /\ source' = [source EXCEPT ![t] = Blank]
  /\ writing' = [writing EXCEPT ![t] = {}]
  /\ \E next \in {"running", "failed"} : pc' = [pc EXCEPT ![t] = next]
  /\ UNCHANGED <<slots, disk, pins, leaked, candidates, tsVars, rowVars, read_ts,
                 commit_ts, touched, mods, histVars>>

-----------------------------------------------------------------------------
(* commit *)

\* Mutant: fetch_add's result is taken for the new value and one added to it.
CommitStart_TwoTicks(t) ==
  /\ pc[t] = "running" /\ touched[t]
  /\ commit_lock = NoTx /\ current_ts < MaxTs
  /\ commit_lock' = t
  /\ current_ts' = current_ts + 1
  /\ commit_ts' = [commit_ts EXCEPT ![t] = current_ts + 2]
  /\ pc' = [pc EXCEPT ![t] = "stamped"]
  /\ UNCHANGED <<poolVars, rowVars, read_ts, writing, touched, mods, histVars>>

\* Under the commit mutex: commit_ts = ++current_ts.  (A transaction that wrote
\* only other pages does nothing to this one.)
CommitStart(t) ==
  /\ pc[t] = "running" /\ touched[t]
  /\ commit_lock = NoTx /\ current_ts < MaxTs
  /\ commit_lock' = t
  /\ current_ts' = current_ts + 1
  /\ commit_ts' = [commit_ts EXCEPT ![t] = current_ts + 1]
  /\ pc' = [pc EXCEPT ![t] = "stamped"]
  /\ UNCHANGED <<poolVars, rowVars, read_ts, writing, touched, mods, histVars>>

\* Mutant: the rows are committed in the transaction's own copy of the page,
\* without merging them into the newest committed version.
Merged_OwnPage(t) ==
  [r \in Row |-> IF OwnFrames(t) = {} THEN Latest[r]
                 ELSE slots[CHOOSE s \in OwnFrames(t) : TRUE].data[r]]

\* Phase 1: the newest committed page with t's rows written over it.
Merged(t) == [r \in Row |-> IF r \in mods[t] THEN t ELSE Latest[r]]

\* pin_latest_committed under the merge lock (a miss reads the data file, past the
\* pool); the merged page is a local buffer until it has a frame.
CommitRead(t) ==
  /\ pc[t] = "stamped" /\ mods[t] # {}
  /\ source' = [source EXCEPT ![t] = Merged(t)]
  /\ pc' = [pc EXCEPT ![t] = "merging"]
  /\ UNCHANGED <<slots, disk, pins, leaked, page_lock, candidates, tsVars, rowVars,
                 read_ts, commit_ts, writing, touched, mods, histVars>>

\* The merged page goes into t's frame (create_new_version), which stays pinned.
CommitMerge(t, s) ==
  /\ pc[t] = "merging"
  /\ page_lock = NoTx
  /\ s \in VersionSlots(t)
  /\ slots' = [slots EXCEPT ![s] = [used |-> TRUE, mark |-> t, version |-> 0,
                                    dirty |-> TRUE, data |-> source[t]]]
  /\ source' = [source EXCEPT ![t] = Blank]
  /\ pins' = [pins EXCEPT ![t] = {s}]
  /\ pc' = [pc EXCEPT ![t] = "merged"]
  /\ UNCHANGED <<disk, leaked, page_lock, candidates, tsVars, rowVars, read_ts,
                 commit_ts, writing, touched, mods, histVars>>

\* Nothing recorded for the page: no merge, whatever t's frame holds.
CommitNoMerge(t) ==
  /\ pc[t] = "stamped" /\ mods[t] = {}
  /\ pc' = [pc EXCEPT ![t] = "merged"]
  /\ UNCHANGED <<poolVars, tsVars, rowVars, read_ts, commit_ts, writing, touched, mods, histVars>>

\* pin_latest_committed, create_new_version or log_page_update fails, for this
\* page or the next: commit returns Err, and merged frames stay pinned.
CommitError(t) ==
  /\ pc[t] \in {"stamped", "merging", "merged"}
  /\ commit_lock' = NoTx
  /\ source' = [source EXCEPT ![t] = Blank]
  /\ pc' = [pc EXCEPT ![t] = "failed"]
  /\ UNCHANGED <<slots, disk, pins, leaked, page_lock, candidates, current_ts, rowVars, read_ts, commit_ts, writing, touched, mods,
                 histVars>>

\* Phase 2: pin_page_by_key, update_timestamps, commit_row.
CommitPublish(t) ==
  /\ pc[t] = "merged"
  /\ pins' = [pins EXCEPT ![t] = OwnFrames(t)]
  /\ slots' = [s \in Slot |-> IF s \in OwnFrames(t)
                               THEN [slots[s] EXCEPT !.mark = NoTx, !.version = commit_ts[t]]
                               ELSE slots[s]]
  /\ versions' = [r \in Row |-> IF r \in mods[t] THEN NoTx ELSE versions[r]]
  /\ committed' = [r \in Row |-> IF r \in mods[t] THEN CommitRowEntry(committed[r], commit_ts[t])
                                  ELSE committed[r]]
  /\ truth' = [r \in Row |-> IF r \in mods[t] THEN t ELSE truth[r]]
  /\ spoiled' = (spoiled \/ (mods[t] = {} /\ OwnFrames(t) # {}))
  /\ pc' = [pc EXCEPT ![t] = "published"]
  /\ UNCHANGED <<disk, leaked, page_lock, source, candidates, tsVars, read_ts, commit_ts,
                 writing, touched, mods, stranded>>

\* Mutant: the flush does not look at UNCOMMITTED_BIT.
DirtyCommitted_Any == {s \in Resident : slots[s].dirty}

DirtyCommitted == {s \in Resident : Committed(s) /\ slots[s].dirty}

\* flush_pages: write the newest dirty committed version, forget older ones.
CommitFlush(t) ==
  /\ pc[t] = "published"
  /\ disk' = IF DirtyCommitted = {} THEN disk
             ELSE slots[CHOOSE s \in Newest(DirtyCommitted) : TRUE].data
  /\ slots' = [s \in Slot |-> IF s \in DirtyCommitted THEN [slots[s] EXCEPT !.dirty = FALSE]
                               ELSE slots[s]]
  /\ pc' = [pc EXCEPT ![t] = "flushed"]
  /\ UNCHANGED <<pins, leaked, page_lock, source, candidates, tsVars, rowVars, read_ts,
                 commit_ts, writing, touched, mods, histVars>>

\* Pins are released and evict_superseded_committed_versions drops older
\* committed frames that nobody has pinned.
CommitEvict(t) ==
  /\ pc[t] = "flushed"
  /\ pins' = [pins EXCEPT ![t] = {}]
  /\ LET older == {s \in Resident : Committed(s) /\ slots[s].version < commit_ts[t]}
         gone  == {s \in older : s \notin leaked /\ \A u \in Tx \ {t} : s \notin pins[u]}
     IN  /\ slots' = [s \in Slot |-> IF s \in gone THEN Empty ELSE slots[s]]
         /\ stranded' = (stranded \/ older # gone)
  /\ commit_lock' = NoTx
  /\ pc' = [pc EXCEPT ![t] = "committed"]
  /\ UNCHANGED <<disk, leaked, page_lock, source, candidates, current_ts, rowVars,
                 read_ts, commit_ts, writing, touched, mods, truth, spoiled>>

-----------------------------------------------------------------------------
(* rollback, Drop, and the rest of the pool *)

\* rollback_versions: every frame t has not published is discarded, pinned or not.
Discard(t) ==
  /\ slots' = [s \in Slot |-> IF s \in OwnFrames(t) THEN Empty ELSE slots[s]]
  /\ leaked' = leaked \ OwnFrames(t)
  /\ pins' = [pins EXCEPT ![t] = {}]

Rollback(t) ==
  /\ pc[t] \in {"running", "failed"}
  /\ Discard(t)
  /\ versions' = [r \in Row |-> IF r \in mods[t] THEN NoTx ELSE versions[r]]
  /\ pc' = [pc EXCEPT ![t] = "aborted"]
  /\ UNCHANGED <<disk, page_lock, source, candidates, tsVars, committed, read_ts,
                 commit_ts, writing, touched, mods, histVars>>

\* Drop of an unfinished Transaction: the row marks stay.
Drop(t) ==
  /\ pc[t] \in {"running", "failed"}
  /\ Discard(t)
  /\ pc' = [pc EXCEPT ![t] = "dropped"]
  /\ UNCHANGED <<disk, page_lock, source, candidates, tsVars, rowVars, read_ts,
                 commit_ts, writing, touched, mods, histVars>>

\* evict_with_clock may take the slot: not pinned, and not an uncommitted frame
\* (whose dirty flag is always set).
Evictable(s) == s \in Resident /\ ~Pinned(s) /\ Committed(s)

\* Another page needs a slot; a dirty committed frame is written back first.
Evict(s) ==
  /\ Evictable(s)
  /\ disk' = IF slots[s].dirty THEN slots[s].data ELSE disk
  /\ slots' = [slots EXCEPT ![s] = Empty]
  /\ UNCHANGED <<pins, leaked, page_lock, source, candidates, tsVars, rowVars, txVars,
                 histVars>>

\* checkpoint_inner / flush_all, the page's shard: every dirty committed frame is
\* written, in slot order.
CheckpointFlush ==
  /\ DirtyCommitted # {}
  /\ \E s \in DirtyCommitted : disk' = slots[s].data
  /\ slots' = [s \in Slot |-> IF s \in DirtyCommitted THEN [slots[s] EXCEPT !.dirty = FALSE]
                               ELSE slots[s]]
  /\ UNCHANGED <<pins, leaked, page_lock, source, candidates, tsVars, rowVars, txVars,
                 histVars>>

InFlight(t) == pc[t] \notin {"unborn", "committed", "aborted", "dropped"}

\* reclaim_expired_versions, read-lock phase: unpinned committed versions that
\* no snapshot in use reaches and that a newer resident version supersedes.
VacuumScan ==
  /\ candidates = {}
  /\ candidates' =
       {s \in Resident :
          /\ ~Pinned(s) /\ Committed(s) /\ slots[s].version # 0
          /\ slots[s].version < current_ts
          /\ \A t \in Tx : InFlight(t) => slots[s].version < read_ts[t]
          /\ \E u \in Resident : Committed(u) /\ slots[u].version > slots[s].version}
  /\ candidates' # {}
  /\ UNCHANGED <<slots, disk, pins, leaked, page_lock, source, tsVars, rowVars, txVars,
                 histVars>>

\* Write-lock phase: each slot's key, pin count and commit state are checked
\* again, not that it is superseded.
VacuumDrop ==
  /\ candidates # {}
  /\ candidates' = {}
  /\ slots' = [s \in Slot |->
                 IF s \in candidates /\ Committed(s) /\ ~Pinned(s) /\ slots[s].version # 0
                   THEN Empty ELSE slots[s]]
  /\ UNCHANGED <<disk, pins, leaked, page_lock, source, tsVars, rowVars, txVars, histVars>>

-----------------------------------------------------------------------------
Next ==
  \/ \E t \in Tx :
       \/ Begin(t) \/ ReadPin(t) \/ ReadUnpin(t)
       \/ \E r \in Row : MarkRow(t, r) \/ WriteStart(t, r)
       \/ \E r \in Row, s \in Slot : WriteFinish(t, r, s)
       \/ WriteExhausted(t)
       \/ CommitStart(t) \/ CommitRead(t) \/ CommitNoMerge(t) \/ CommitError(t) \/ CommitPublish(t)
       \/ \E s \in Slot : CommitMerge(t, s)
       \/ CommitFlush(t) \/ CommitEvict(t) \/ Rollback(t) \/ Drop(t)
  \/ \E s \in Slot : Evict(s)
  \/ CheckpointFlush \/ VacuumScan \/ VacuumDrop

Spec == Init /\ [][Next]_vars
-----------------------------------------------------------------------------
(* Properties *)

\* Type invariant of the page's versions.
TypeOK ==
  /\ slots \in [Slot -> Frame]
  /\ disk \in Data /\ truth \in Data /\ source \in [Tx -> Data]
  /\ pins \in [Tx -> SUBSET Slot]
  /\ leaked \subseteq Slot /\ candidates \subseteq Slot
  /\ page_lock \in Tx \cup {NoTx} /\ commit_lock \in Tx \cup {NoTx}
  /\ current_ts \in 1..MaxTs
  /\ versions \in [Row -> Tx \cup {NoTx}]
  /\ committed \in [Row -> CommittedVersion(1..MaxTs)]
  /\ read_ts \in [Tx -> 0..MaxTs] /\ commit_ts \in [Tx -> 0..MaxTs]
  /\ writing \in [Tx -> SUBSET Row] /\ mods \in [Tx -> SUBSET Row]
  /\ touched \in [Tx -> BOOLEAN] /\ stranded \in BOOLEAN /\ spoiled \in BOOLEAN

Publishing == \E t \in Tx : pc[t] = "published"

\* Merge-on-commit loses nothing: outside the window between publishing and
\* flushing, the data file and the version a later commit merges into both hold
\* every committed row, however transactions on the page's rows, evictions,
\* checkpoints and the vacuum thread interleave.  Two ways to lose rows are set
\* apart: a pinned reader made evict_superseded leave an older frame behind, which
\* passes for the newest once that is evicted, or a transaction whose every write mark_row had rejected
\* committed, which publishes its frame as it is.
NewestSurvives ==
  ~Publishing /\ ~stranded /\ ~spoiled => disk = truth /\ Latest = truth

\* A transaction reads its own writes until it ends: eviction, the vacuum thread
\* and other commits never take its uncommitted page version away.
OwnWritesReadable ==
  \A t \in Tx : InFlight(t) /\ pc[t] \notin {"published", "flushed"} =>
    \A r \in mods[t] : Reads(t)[r] = t

\* Nothing uncommitted leaves a transaction's private frame: the data file and
\* the committed frames hold only values of transactions that published.
NoUncommittedData ==
  \A r \in Row :
    LET seen == {disk[r]} \cup {slots[s].data[r] : s \in {u \in Resident : Committed(u)}}
    IN  \A t \in seen \cap Tx : pc[t] \in {"published", "flushed", "committed"}
=============================================================================

-------------------------- MODULE DurabilityProofs --------------------------
(***************************************************************************)
(* No transaction id is handed out while the log holds records of an       *)
(* earlier run under it, for any number of pages, transactions, crashes    *)
(* and checkpoints, with and without concurrent writers, power losses and  *)
(* torn tails.                                                             *)
(*                                                                         *)
(* A log record carries the largest version of a frame of its page, be it  *)
(* a transaction id or a commit timestamp, so the argument has to bound    *)
(* both; restore_counters then starts above every record it has read.      *)
(***************************************************************************)
EXTENDS Durability, FiniteSetTheorems, SequenceTheorems, WellFoundedInduction, TLAPS

Sizes == MaxTx \in Nat /\ MaxCrash \in Nat /\ IsFiniteSet(Page)

Records(log) == {log[i] : i \in 1..Len(log)}
IsLog(log) == log \in Seq(Records(log))

IsFrame(f) == f \in [used : {f.used}, version : {f.version}, rows : {f.rows}, dirty : {f.dirty}]

Counters ==
  /\ mode \in {"up", "down", "cleanup"}
  /\ crashes \in Nat /\ next_tx_id \in Nat /\ current_ts \in Nat /\ synced \in Nat
  /\ active_tx_ids \subseteq Nat
  /\ header.last_checkpoint_tx \in Nat /\ header.next_tx_id \in Nat
  /\ header.current_ts \in Nat

\* Frames are stamped with commit timestamps that have been given out.
Frames ==
  /\ own = [t \in Tx |-> own[t]] /\ \A t \in Tx : DOMAIN own[t] \subseteq Page
  /\ frame = [p \in Page |-> frame[p]]
  /\ \A p \in Page : IsFrame(frame[p]) /\ frame[p].version \in 0..current_ts

\* Between a crash and recovery there is nothing in memory.
Down ==
  mode = "down" =>
    /\ active_tx_ids = {} /\ ckpt = "idle" /\ pending_buf = <<>> /\ taken = <<>>
    /\ frame = [p \in Page |-> NoFrame]

Logs == IsLog(wal) /\ IsLog(pending_buf) /\ IsLog(taken)

\* A record's id is a transaction id or a commit timestamp.
Bounded(r) == r.tx \in Nat /\ (r.tx <= MaxTx \/ r.tx <= current_ts)
IdsBounded == \A r \in Records(wal) \cup Records(pending_buf) \cup Records(taken) : Bounded(r)

\* What is still in memory is of this run.
FreshInMemory == \A r \in Records(pending_buf) \cup Records(taken) : r.writer[1] = crashes

\* Records of earlier runs are below the ids of the active writers and the next one.
OldBelow ==
  mode # "down" =>
    \A r \in Records(wal) :
      r.writer[1] < crashes => r.tx < next_tx_id /\ \A a \in active_tx_ids : r.tx < a

Inv ==
  /\ Counters /\ Frames /\ Down /\ Logs
  /\ IdsBounded /\ FreshInMemory /\ OldBelow
-----------------------------------------------------------------------------
(* Sequences of records *)

LEMMA LogEmpty == IsLog(<<>>) /\ Records(<<>>) = {}
  BY DEF IsLog, Records

LEMMA LogConcat ==
  ASSUME NEW s, NEW u, IsLog(s), IsLog(u)
  PROVE  IsLog(s \o u) /\ Records(s \o u) = Records(s) \cup Records(u)
<1> DEFINE S == Records(s) \cup Records(u)
<1>1. s \in Seq(S) /\ u \in Seq(S)
  BY DEF IsLog
<1>2. /\ s \o u \in Seq(S)
      /\ Len(s \o u) = Len(s) + Len(u)
      /\ \A i \in 1..Len(s) + Len(u) :
           (s \o u)[i] = IF i <= Len(s) THEN s[i] ELSE u[i - Len(s)]
  BY Zenon, <1>1, ConcatProperties
<1>3. Len(s) \in Nat /\ Len(u) \in Nat
  BY <1>1
<1>4. Records(s \o u) \subseteq S
  BY <1>2, <1>3 DEF Records
<1>5. Records(s) \subseteq Records(s \o u)
  BY <1>2, <1>3 DEF Records
<1>6. ASSUME NEW i \in 1..Len(u) PROVE u[i] \in Records(s \o u)
  <2>1. i + Len(s) \in 1..Len(s \o u) /\ (s \o u)[i + Len(s)] = u[i]
    BY <1>2, <1>3
  <2> QED BY Zenon, <2>1 DEF Records
<1>7. Records(s \o u) = S
  BY Zenon, <1>4, <1>5, <1>6 DEF Records
<1> QED BY Zenon, <1>2, <1>7 DEF IsLog

LEMMA LogOne ==
  ASSUME NEW x
  PROVE  IsLog(<<x>>) /\ Records(<<x>>) = {x}
  BY DEF IsLog, Records

LEMMA LogAppend ==
  ASSUME NEW s, NEW x, IsLog(s)
  PROVE  IsLog(Append(s, x)) /\ Records(Append(s, x)) = Records(s) \cup {x}
<1> DEFINE S == Records(s) \cup {x}
<1>1. s \in Seq(S) /\ x \in S
  BY DEF IsLog
<1>2. Append(s, x) = s \o <<x>>
  BY Zenon, <1>1, AppendIsConcat
<1> QED BY <1>2, LogConcat, LogOne

LEMMA LogPrefix ==
  ASSUME NEW s, IsLog(s), NEW n \in 0..Len(s)
  PROVE  IsLog(SubSeq(s, 1, n)) /\ Records(SubSeq(s, 1, n)) \subseteq Records(s)
<1> DEFINE v == SubSeq(s, 1, n)
<1>1. Len(s) \in Nat /\ \A i \in 1..Len(s) : s[i] \in Records(s)
  BY DEF IsLog, Records
<1>2. Len(v) = n /\ \A i \in 1..n : v[i] = s[i]
  BY <1>1, SubSeqProperties
<1>3. v \in Seq(Records(v))
  <2>1. \A i \in 1..n : s[i] \in Records(v)
    BY Zenon, <1>2 DEF Records
  <2> QED BY <1>1, <2>1, SubSeqProperties
<1>4. Records(v) \subseteq Records(s)
  BY <1>1, <1>2 DEF Records
<1> QED BY Zenon, <1>3, <1>4 DEF IsLog

LEMMA LogMade ==
  ASSUME NEW n \in Nat, NEW T, NEW s \in [1..n -> T]
  PROVE  IsLog(s) /\ Records(s) = {s[i] : i \in 1..n}
<1>1. s \in Seq({s[i] : i \in 1..n}) /\ Len(s) = n
  OBVIOUS
<1> QED BY Zenon, <1>1 DEF IsLog, Records

LEMMA LenOfList ==
  ASSUME NEW n \in Nat, NEW S, NEW f \in [1..n -> S]
  PROVE  Len(f) \in Nat /\ \A i \in 1..Len(f) : f[i] \in S
<1>1. f \in Seq(S) /\ Len(f) = n
  OBVIOUS
<1> QED BY Zenon, <1>1

\* The pages a commit merges, in some order.
LEMMA Listed ==
  ASSUME NEW S, IsFiniteSet(S), NEW f, f = CHOOSE g \in Bijection(1..Cardinality(S), S) : TRUE
  PROVE  Len(f) \in Nat /\ \A i \in 1..Len(f) : f[i] \in S
<1>1. Cardinality(S) \in Nat
  BY Zenon, FS_CardinalityType
<1>2. IsFiniteSet(1..Cardinality(S)) /\ Cardinality(1..Cardinality(S)) = Cardinality(S)
  BY <1>1, FS_Interval
<1>3. \E g : g \in Bijection(1..Cardinality(S), S)
  BY Zenon, <1>1, <1>2, FS_SameCardinalityBij DEF ExistsBijection
<1>4. f \in Bijection(1..Cardinality(S), S)
  BY Zenon, <1>3
<1>5. f \in [1..Cardinality(S) -> S]
  BY Zenon, <1>4 DEF Bijection, Injection
<1> QED BY Zenon, <1>1, <1>5, LenOfList
-----------------------------------------------------------------------------
(* The largest of a bounded set of numbers *)

LEMMA LeastNatural ==
  ASSUME NEW T, T \subseteq Nat, T # {}
  PROVE  \E n \in T : \A m \in T : n <= m
<1> DEFINE R == {ss \in Nat \X Nat : ss[1] < ss[2]}
<1>1. IsWellFoundedOn(R, Nat)
  BY Zenon, NatLessThanWellFounded DEF OpToRel
<1> HIDE DEF R
<1>2. PICK n \in T : \A m \in T : ~(<<m, n>> \in R)
  BY Zenon, <1>1, WFMin
<1>3. \A m \in T : ~(m < n)
  BY Zenon, <1>2 DEF R
<1> QED BY <1>3

LEMMA Max0Is ==
  ASSUME NEW S, S \subseteq Nat, NEW b \in Nat, \A x \in S : x <= b
  PROVE  /\ Max0(S) \in S \cup {0}
         /\ Max0(S) \in Nat
         /\ \A x \in S : x <= Max0(S)
<1> DEFINE T == {b - x : x \in S \cup {0}}
<1>1. T \subseteq Nat /\ T # {}
  OBVIOUS
<1>2. PICK n \in T : \A m \in T : n <= m
  BY Zenon, <1>1, LeastNatural
<1>3. PICK m \in S \cup {0} : n = b - m
  BY Zenon, <1>2
<1>4. \A x \in S : b - m <= b - x
  BY Zenon, <1>2, <1>3
<1>5. \A x \in S : x <= m
  BY <1>4
<1>6. \E k \in S \cup {0} : \A x \in S : x <= k
  BY Zenon, <1>5
<1>7. Max0(S) \in S \cup {0} /\ \A x \in S : x <= Max0(S)
  BY Zenon, <1>6 DEF Max0
<1>8. S \cup {0} \subseteq Nat
  OBVIOUS
<1>9. Max0(S) \in Nat
  BY Zenon, <1>7, <1>8
<1> QED BY Zenon, <1>7, <1>9
-----------------------------------------------------------------------------
(* Steps *)

LEMMA UnusedFrame == IsFrame(NoFrame) /\ NoFrame.version = 0
  BY Zenon DEF IsFrame, NoFrame

LEMMA InitInv == Sizes /\ Init => Inv
<1> SUFFICES ASSUME Sizes, Init PROVE Inv
  OBVIOUS
<1>1. Counters /\ Down
  BY Zenon DEF Init, Counters, Down
<1>2. Frames
  <2>1. frame = [p \in Page |-> NoFrame] /\ own = [t \in Tx |-> <<>>] /\ current_ts = 1
    BY Zenon DEF Init, NoOwn
  <2> QED BY <2>1, UnusedFrame DEF Frames
<1>3. Logs /\ IdsBounded /\ FreshInMemory /\ OldBelow
  BY Zenon, LogEmpty DEF Init, Logs, IdsBounded, FreshInMemory, OldBelow
<1> QED BY Zenon, <1>1, <1>2, <1>3 DEF Inv

\* The id log_page_update gives a record.
LEMMA LoggedIdIs ==
  ASSUME Sizes, Inv, NEW t \in Tx, NEW p \in Page
  PROVE  LoggedId(t, p) \in Nat /\ (LoggedId(t, p) <= MaxTx \/ LoggedId(t, p) <= current_ts)
<1> DEFINE S == {t} \cup {x \in Tx : pc[x] \in Uncommitted /\ p \in DOMAIN own[x]}
                    \cup (IF frame[p].used THEN {frame[p].version} ELSE {})
           b == IF MaxTx <= current_ts THEN current_ts ELSE MaxTx
<1>1. current_ts \in Nat /\ frame[p].version \in 0..current_ts /\ MaxTx \in Nat
  BY Zenon DEF Inv, Counters, Frames, Sizes
<1>2. \A x \in S : x \in Nat /\ (x <= MaxTx \/ x <= current_ts)
  BY <1>1 DEF Tx
<1>3. S \subseteq Nat /\ b \in Nat /\ \A x \in S : x <= b
  BY <1>1, <1>2
<1> HIDE DEF S, b
<1>4. Max0(S) \in S \cup {0} /\ Max0(S) \in Nat
  BY Zenon, <1>3, Max0Is
<1>5. Max0(S) \in Nat /\ (Max0(S) <= MaxTx \/ Max0(S) <= current_ts)
  BY <1>1, <1>2, <1>4
<1> QED BY Zenon, <1>5 DEF S, LoggedId

\* Records that go from memory to the file, or into memory, under ids that are in
\* bounds, while the process stays up.
LEMMA LogGrows ==
  ASSUME Inv, UNCHANGED <<mode, crashes, next_tx_id, current_ts>>,
         active_tx_ids' \subseteq active_tx_ids,
         IsLog(wal'), IsLog(pending_buf'), IsLog(taken'),
         \A r \in Records(pending_buf') \cup Records(taken') :
           r \in Records(pending_buf) \cup Records(taken) \/ (Bounded(r) /\ r.writer[1] = crashes),
         \A r \in Records(wal') :
           \/ r \in Records(wal) \cup Records(pending_buf) \cup Records(taken)
           \/ (Bounded(r) /\ r.writer[1] = crashes)
  PROVE  Logs' /\ IdsBounded' /\ FreshInMemory' /\ OldBelow'
<1> DEFINE Mem == Records(pending_buf) \cup Records(taken)
           B(r) == r.tx \in Nat /\ (r.tx <= MaxTx \/ r.tx <= current_ts)
<1>1. \A r \in Records(wal) \cup Mem : B(r)
  BY Zenon DEF Inv, IdsBounded, Bounded
<1>2. \A r \in Mem : r.writer[1] = crashes
  BY Zenon DEF Inv, FreshInMemory
<1>3. \A r \in Records(wal') \cup Records(pending_buf') \cup Records(taken') : B(r)
  BY Zenon, <1>1 DEF Bounded
<1>4. IdsBounded'
  BY Zenon, <1>3 DEF IdsBounded, Bounded, Records
<1>5. \A r \in Records(pending_buf') \cup Records(taken') : r.writer[1] = crashes
  BY Zenon, <1>2
<1>6. FreshInMemory'
  BY Zenon, <1>5 DEF FreshInMemory, Records
<1>7. ASSUME mode # "down", NEW r \in Records(wal'), r.writer[1] < crashes
      PROVE  r.tx < next_tx_id /\ \A a \in active_tx_ids' : r.tx < a
  <2>1. crashes \in Nat
    BY Zenon DEF Inv, Counters
  <2>2. r \in Records(wal)
    BY <1>2, <1>7, <2>1
  <2> QED BY Zenon, <1>7, <2>2 DEF Inv, OldBelow
<1>8. OldBelow'
  BY Zenon, <1>7 DEF OldBelow, Records
<1> QED BY Zenon, <1>4, <1>6, <1>8 DEF Logs, IsLog, Records

\* Nothing but memory and files changes.
LEMMA LogSame ==
  ASSUME Inv, UNCHANGED <<mode, crashes, next_tx_id, current_ts, logVars>>,
         active_tx_ids' \subseteq active_tx_ids
  PROVE  Logs' /\ IdsBounded' /\ FreshInMemory' /\ OldBelow' /\ synced' = synced
<1>1. UNCHANGED <<wal, pending_buf, taken, synced>>
  BY Zenon DEF logVars
<1>2. IsLog(wal') /\ IsLog(pending_buf') /\ IsLog(taken')
  BY Zenon, <1>1 DEF Inv, Logs
<1> QED BY Zenon, <1>1, <1>2, LogGrows

\* Frames of a page that are kept, cleaned or stamped with the current timestamp.
LEMMA FramesStep ==
  ASSUME Inv, current_ts' \in Nat, current_ts <= current_ts',
         own' = [t \in Tx |-> own'[t]], \A t \in Tx : DOMAIN own'[t] \subseteq Page,
         frame' = [p \in Page |-> frame'[p]],
         \A p \in Page : \/ frame'[p] = frame[p]
                         \/ (IsFrame(frame'[p]) /\ frame'[p].version = frame[p].version)
                         \/ (IsFrame(frame'[p]) /\ frame'[p].version \in {0, current_ts})
  PROVE  Frames'
<1>1. current_ts \in Nat /\ \A p \in Page : IsFrame(frame[p]) /\ frame[p].version \in 0..current_ts
  BY Zenon DEF Inv, Counters, Frames
<1>2. \A p \in Page : IsFrame(frame'[p]) /\ frame'[p].version \in 0..current_ts'
  BY <1>1
<1> QED BY Zenon, <1>2 DEF Frames, IsFrame

LEMMA FramesSame ==
  ASSUME Inv, UNCHANGED <<own, frame, current_ts>>
  PROVE  Frames'
  BY Zenon DEF Inv, Frames, IsFrame

LEMMA WrittenBack ==
  ASSUME Inv, NEW S, WriteBack(S), UNCHANGED <<own, current_ts>>
  PROVE  Frames'
<1>1. /\ current_ts \in Nat /\ own = [t \in Tx |-> own[t]]
      /\ \A t \in Tx : DOMAIN own[t] \subseteq Page
      /\ \A p \in Page : IsFrame(frame[p])
  BY Zenon DEF Inv, Counters, Frames
<1>2. frame' = [p \in Page |-> IF p \in S THEN [frame[p] EXCEPT !.dirty = FALSE] ELSE frame[p]]
  BY Zenon DEF WriteBack
<1>3. ASSUME NEW p \in Page
      PROVE  IsFrame(frame'[p]) /\ frame'[p].version = frame[p].version
  <2>1. IsFrame(frame[p])
    BY Zenon, <1>1
  <2>2. CASE p \in S
    <3>1. frame'[p] = [frame[p] EXCEPT !.dirty = FALSE]
      BY Zenon, <1>2, <2>2
    <3>2. frame'[p] \in [used : {frame[p].used}, version : {frame[p].version},
                         rows : {frame[p].rows}, dirty : {FALSE}]
      BY Zenon, <2>1, <3>1 DEF IsFrame
    <3> QED BY Zenon, <3>2 DEF IsFrame
  <2>3. CASE p \notin S
    BY Zenon, <1>1, <1>2, <2>3
  <2> QED BY Zenon, <2>2, <2>3
<1> QED BY <1>1, <1>2, <1>3, FramesStep

LEMMA BeginInv ==
  ASSUME Inv, Begin \/ BeginReadOnly
  PROVE  Inv'
<1>1. UNCHANGED <<mode, crashes, wal, pending_buf, taken, synced, header, current_ts>>
      /\ mode = "up" /\ next_tx_id' = next_tx_id + 1
      /\ active_tx_ids' \subseteq active_tx_ids \cup {next_tx_id}
  <2>1. CASE Begin
    BY Zenon, <2>1 DEF Begin, logVars, ckptVars
  <2>2. CASE BeginReadOnly
    BY Zenon, <2>2 DEF BeginReadOnly, logVars, ckptVars
  <2> QED BY Zenon, <2>1, <2>2
<1>2. Frames'
  BY Zenon, FramesSame DEF Begin, BeginReadOnly
<1>3. Counters' /\ Down'
  <2>1. next_tx_id' \in Nat /\ active_tx_ids' \subseteq Nat
    BY <1>1 DEF Inv, Counters
  <2> QED BY Zenon, <1>1, <2>1 DEF Inv, Counters, Down
<1>4. Logs' /\ FreshInMemory'
  BY <1>1 DEF Inv, Logs, FreshInMemory, Records, IsLog
<1>5. IdsBounded'
  BY <1>1 DEF Inv, IdsBounded, Bounded, Records
<1>6. ASSUME NEW r \in Records(wal), r.writer[1] < crashes
      PROVE  r.tx < next_tx_id' /\ \A a \in active_tx_ids' : r.tx < a
  <2>1. r.tx \in Nat /\ next_tx_id \in Nat
    BY Zenon DEF Inv, IdsBounded, Bounded, Counters
  <2>2. r.tx < next_tx_id /\ \A a \in active_tx_ids : r.tx < a
    BY Zenon, <1>1, <1>6 DEF Inv, OldBelow
  <2> QED BY <1>1, <2>1, <2>2
<1>7. OldBelow'
  BY Zenon, <1>1, <1>6 DEF OldBelow, Records
<1> QED BY Zenon, <1>2, <1>3, <1>4, <1>5, <1>7 DEF Inv

LEMMA WriteInv ==
  ASSUME Sizes, Inv, NEW t \in Tx, NEW p \in Page, Write(t, p)
  PROVE  Inv'
<1>1. PICK rows :
        /\ own' = [own EXCEPT ![t] = [x \in DOMAIN @ \cup {p} |-> IF x = p THEN rows ELSE @[x]]]
        /\ pending_buf' = Append(pending_buf, PageUpdate(LoggedId(t, p), Me(t), p, rows))
  BY Zenon DEF Write
<1>2. UNCHANGED <<mode, crashes, next_tx_id, current_ts, active_tx_ids, frame, taken, wal, synced,
                  header>> /\ mode = "up"
  BY Zenon DEF Write, ckptVars
<1>3. Counters' /\ Down'
  BY Zenon, <1>2 DEF Inv, Counters, Down
<1>4. Frames'
  <2>1. own = [u \in Tx |-> own[u]] /\ \A u \in Tx : DOMAIN own[u] \subseteq Page
    BY Zenon DEF Inv, Frames
  <2>2. own' = [u \in Tx |-> own'[u]]
    BY Zenon, <1>1, <2>1
  <2>3. \A u \in Tx : DOMAIN own'[u] \subseteq DOMAIN own[u] \cup {p}
    BY Zenon, <1>1, <2>1
  <2> QED BY Zenon, <1>2, <2>1, <2>2, <2>3 DEF Inv, Frames, IsFrame
<1>5. Logs' /\ IdsBounded' /\ FreshInMemory' /\ OldBelow'
  <2> DEFINE r == PageUpdate(LoggedId(t, p), Me(t), p, rows)
  <2>1. Bounded(r) /\ r.writer[1] = crashes
    BY Zenon, LoggedIdIs DEF Bounded, PageUpdate, Me
  <2> HIDE DEF r
  <2>2. IsLog(wal) /\ IsLog(pending_buf) /\ IsLog(taken)
    BY Zenon DEF Inv, Logs
  <2>3. IsLog(Append(pending_buf, r))
        /\ Records(Append(pending_buf, r)) = Records(pending_buf) \cup {r}
    BY Zenon, <2>2, LogAppend
  <2>4. IsLog(pending_buf') /\ Records(pending_buf') = Records(pending_buf) \cup {r}
    BY Zenon, <1>1, <2>3 DEF r
  <2> QED BY Zenon, <1>2, <2>1, <2>2, <2>4, LogGrows
<1> QED BY Zenon, <1>3, <1>4, <1>5 DEF Inv

\* flush_pending hands the buffer over and writes it.
LEMMA FlushInv ==
  ASSUME Inv, NEW t \in Tx, FlushTake(t) \/ FlushWrite(t)
  PROVE  Inv'
<1>1. UNCHANGED <<mode, crashes, next_tx_id, current_ts, active_tx_ids, own, frame, synced, header>>
      /\ mode = "up"
  BY Zenon DEF FlushTake, FlushWrite, ckptVars
<1>2. Counters' /\ Down' /\ Frames'
  BY Zenon, <1>1, FramesSame DEF Inv, Counters, Down
<1>3. IsLog(wal) /\ IsLog(pending_buf) /\ IsLog(taken)
  BY Zenon DEF Inv, Logs
<1>4. CASE FlushTake(t)
  <2>1. taken' = pending_buf /\ pending_buf' = <<>> /\ wal' = wal
    BY Zenon, <1>4 DEF FlushTake
  <2>2. IsLog(wal') /\ IsLog(pending_buf') /\ IsLog(taken') /\ Records(pending_buf') = {}
        /\ Records(taken') = Records(pending_buf) /\ Records(wal') = Records(wal)
    BY Zenon, <1>3, <2>1, LogEmpty
  <2>3. Logs' /\ IdsBounded' /\ FreshInMemory' /\ OldBelow'
    BY Zenon, <1>1, <2>2, LogGrows
  <2> QED BY Zenon, <1>2, <2>3 DEF Inv
<1>5. CASE FlushWrite(t)
  <2>1. wal' = wal \o taken /\ taken' = <<>> /\ pending_buf' = pending_buf
    BY Zenon, <1>5 DEF FlushWrite
  <2>2. IsLog(wal') /\ IsLog(pending_buf') /\ IsLog(taken') /\ Records(taken') = {}
        /\ Records(wal') = Records(wal) \cup Records(taken)
        /\ Records(pending_buf') = Records(pending_buf)
    BY Zenon, <1>3, <2>1, LogEmpty, LogConcat
  <2>3. Logs' /\ IdsBounded' /\ FreshInMemory' /\ OldBelow'
    BY Zenon, <1>1, <2>2, LogGrows
  <2> QED BY Zenon, <1>2, <2>3 DEF Inv
<1> QED BY Zenon, <1>4, <1>5

\* Merge-on-commit logs an image of every page of the transaction.
LEMMA MergeInv ==
  ASSUME Sizes, Inv, NEW t \in Tx, CommitMerge(t)
  PROVE  Inv'
<1> DEFINE merged == [p \in DOMAIN own[t] |-> Latest(p) \cup {Me(t)}]
           image(p) == PageUpdate(LoggedId(t, p), Me(t), p, merged[p])
           order == CHOOSE f \in Bijection(1..Cardinality(DOMAIN merged), DOMAIN merged) : TRUE
           images == [i \in 1..Len(order) |-> image(order[i])]
<1>1. UNCHANGED <<mode, crashes, next_tx_id, current_ts, active_tx_ids, frame, taken, wal, synced,
                  header>> /\ mode = "up"
      /\ own' = [own EXCEPT ![t] = merged] /\ pending_buf' = pending_buf \o images
  BY Zenon DEF CommitMerge, ckptVars
<1>2. Counters' /\ Down'
  BY Zenon, <1>1 DEF Inv, Counters, Down
<1>3. own = [u \in Tx |-> own[u]] /\ \A u \in Tx : DOMAIN own[u] \subseteq Page
  BY Zenon DEF Inv, Frames
<1>4. DOMAIN merged = DOMAIN own[t] /\ DOMAIN merged \subseteq Page
  BY Zenon, <1>3
<1>5. Frames'
  <2>1. own' = [u \in Tx |-> own'[u]] /\ \A u \in Tx : DOMAIN own'[u] \subseteq Page
    BY Zenon, <1>1, <1>3, <1>4
  <2> QED BY Zenon, <1>1, <2>1 DEF Inv, Frames, IsFrame
<1>6. Len(order) \in Nat /\ \A i \in 1..Len(order) : order[i] \in Page
  <2>1. IsFiniteSet(DOMAIN merged)
    BY Zenon, <1>4, FS_Subset DEF Sizes
  <2> QED BY <1>4, <2>1, Listed
<1>7. \A p \in Page : Bounded(image(p)) /\ image(p).writer[1] = crashes
  BY Zenon, LoggedIdIs DEF Bounded, PageUpdate, Me
<1> HIDE DEF merged, image, order
<1>8. IsLog(images) /\ Records(images) = {images[i] : i \in 1..Len(order)}
  <2>1. images \in [1..Len(order) -> {image(order[i]) : i \in 1..Len(order)}]
    OBVIOUS
  <2> HIDE DEF images
  <2> QED BY Zenon, <1>6, <2>1, LogMade
<1>9. \A r \in Records(images) : Bounded(r) /\ r.writer[1] = crashes
  BY Zenon, <1>6, <1>7, <1>8
<1> HIDE DEF images
<1>10. IsLog(wal) /\ IsLog(pending_buf) /\ IsLog(taken)
  BY Zenon DEF Inv, Logs
<1>11. IsLog(pending_buf') /\ Records(pending_buf') = Records(pending_buf) \cup Records(images)
  BY Zenon, <1>1, <1>8, <1>10, LogConcat
<1>12. Logs' /\ IdsBounded' /\ FreshInMemory' /\ OldBelow'
  BY Zenon, <1>1, <1>9, <1>10, <1>11, LogGrows
<1> QED BY Zenon, <1>2, <1>5, <1>12 DEF Inv

\* log_commit writes the buffer and a commit record.
LEMMA CommitLogInv ==
  ASSUME Sizes, Inv, NEW t \in Tx, CommitLog(t)
  PROVE  Inv'
<1> DEFINE c == CommitRecord(Me(t))
<1>1. UNCHANGED <<mode, crashes, next_tx_id, current_ts, active_tx_ids, own, frame, taken, synced,
                  header>> /\ mode = "up"
      /\ wal' = wal \o pending_buf \o <<c>> /\ pending_buf' = <<>>
  BY Zenon DEF CommitLog, ckptVars
<1>2. Counters' /\ Down' /\ Frames'
  BY Zenon, <1>1, FramesSame DEF Inv, Counters, Down
<1>3. Bounded(c) /\ c.writer[1] = crashes
  BY DEF Bounded, CommitRecord, Me, Tx, Sizes
<1> HIDE DEF c
<1>4. IsLog(wal) /\ IsLog(pending_buf) /\ IsLog(taken)
  BY Zenon DEF Inv, Logs
<1>5. IsLog(wal \o pending_buf)
      /\ Records(wal \o pending_buf) = Records(wal) \cup Records(pending_buf)
  BY Zenon, <1>4, LogConcat
<1>6. IsLog(wal') /\ Records(wal') = Records(wal) \cup Records(pending_buf) \cup {c}
  BY <1>1, <1>5, LogConcat, LogOne
<1>7. IsLog(pending_buf') /\ Records(pending_buf') = {}
  BY Zenon, <1>1, LogEmpty
<1>8. Logs' /\ IdsBounded' /\ FreshInMemory' /\ OldBelow'
  BY Zenon, <1>1, <1>3, <1>4, <1>6, <1>7, LogGrows
<1> QED BY Zenon, <1>2, <1>8 DEF Inv

\* The other steps of a transaction.
LEMMA TxInv ==
  ASSUME Sizes, Inv, NEW t \in Tx,
         \/ Rollback(t) \/ CommitStart(t) \/ CommitPublish(t) \/ CommitAck(t)
         \/ \E p \in Page : CommitFlush(t, p)
  PROVE  Inv'
<1>1. /\ current_ts \in Nat /\ own = [u \in Tx |-> own[u]]
      /\ \A u \in Tx : DOMAIN own[u] \subseteq Page
      /\ frame = [q \in Page |-> frame[q]] /\ \A q \in Page : IsFrame(frame[q])
  BY Zenon DEF Inv, Counters, Frames
<1>2. DOMAIN <<>> = {}
  OBVIOUS
<1>3. CASE Rollback(t)
  <2>1. UNCHANGED <<mode, crashes, next_tx_id, current_ts, frame, logVars, header>> /\ mode = "up"
        /\ active_tx_ids' = active_tx_ids \ {t} /\ own' = [own EXCEPT ![t] = <<>>]
    BY Zenon, <1>3 DEF Rollback, ckptVars
  <2>2. Frames'
    BY <1>1, <1>2, <2>1, FramesStep
  <2>3. Logs' /\ IdsBounded' /\ FreshInMemory' /\ OldBelow' /\ synced' = synced
    BY Zenon, <2>1, LogSame
  <2>4. Counters' /\ Down'
    BY Zenon, <2>1, <2>3 DEF Inv, Counters, Down
  <2> QED BY Zenon, <2>2, <2>3, <2>4 DEF Inv
<1>4. CASE CommitStart(t)
  <2>1. UNCHANGED <<mode, crashes, next_tx_id, active_tx_ids, own, frame, wal, pending_buf, taken,
                    synced, header>> /\ mode = "up"
        /\ current_ts' = current_ts + 1
    BY Zenon, <1>4 DEF CommitStart, ckptVars, logVars
  <2>2. Frames'
    BY <1>1, <2>1, FramesStep
  <2>3. Logs' /\ FreshInMemory' /\ OldBelow'
    BY <2>1 DEF Inv, Logs, FreshInMemory, OldBelow, IsLog, Records
  <2>4. ASSUME NEW r \in Records(wal) \cup Records(pending_buf) \cup Records(taken)
        PROVE  r.tx \in Nat /\ (r.tx <= MaxTx \/ r.tx <= current_ts')
    <3>1. r.tx \in Nat /\ (r.tx <= MaxTx \/ r.tx <= current_ts)
      BY Zenon DEF Inv, IdsBounded, Bounded
    <3> QED BY <1>1, <2>1, <3>1
  <2>5. IdsBounded'
    BY <2>1, <2>4 DEF IdsBounded, Bounded, Records
  <2>6. Counters' /\ Down'
    BY <2>1 DEF Inv, Counters, Down
  <2> QED BY Zenon, <2>2, <2>3, <2>5, <2>6 DEF Inv
<1>5. CASE CommitPublish(t)
  <2>1. UNCHANGED <<mode, crashes, next_tx_id, current_ts, active_tx_ids, own, logVars, header>>
        /\ mode = "up"
    BY Zenon, <1>5 DEF CommitPublish, ckptVars
  <2>2. frame' = [q \in Page |-> frame'[q]]
    BY Zenon, <1>5 DEF CommitPublish
  <2>3. ASSUME NEW q \in Page
        PROVE  \/ frame'[q] = frame[q]
               \/ (IsFrame(frame'[q]) /\ frame'[q].version = current_ts)
    BY Zenon, <1>5 DEF CommitPublish, IsFrame
  <2>4. Frames'
    BY <1>1, <2>1, <2>2, <2>3, FramesStep
  <2>5. Logs' /\ IdsBounded' /\ FreshInMemory' /\ OldBelow' /\ synced' = synced
    BY Zenon, <2>1, LogSame
  <2>6. Counters' /\ Down'
    BY Zenon, <2>1, <2>5 DEF Inv, Counters, Down
  <2> QED BY Zenon, <2>4, <2>5, <2>6 DEF Inv
<1>6. CASE CommitAck(t)
  <2>1. UNCHANGED <<mode, crashes, next_tx_id, current_ts, frame, wal, pending_buf, taken, header>>
        /\ mode = "up" /\ synced' = Len(wal)
        /\ active_tx_ids' = active_tx_ids \ {t} /\ own' = [own EXCEPT ![t] = <<>>]
    BY Zenon, <1>6 DEF CommitAck, ckptVars
  <2>2. Frames'
    BY <1>1, <1>2, <2>1, FramesStep
  <2>3. IsLog(wal) /\ IsLog(pending_buf) /\ IsLog(taken)
    BY Zenon DEF Inv, Logs
  <2>4. Logs' /\ IdsBounded' /\ FreshInMemory' /\ OldBelow'
    BY Zenon, <2>1, <2>3, LogGrows
  <2>5. Len(wal) \in Nat
    BY <2>3 DEF IsLog
  <2>6. Counters' /\ Down'
    BY Zenon, <2>1, <2>5 DEF Inv, Counters, Down
  <2> QED BY Zenon, <2>2, <2>4, <2>6 DEF Inv
<1>7. ASSUME NEW p \in Page, CommitFlush(t, p) PROVE Inv'
  <2>1. UNCHANGED <<mode, crashes, next_tx_id, current_ts, active_tx_ids, own, logVars, header>>
        /\ mode = "up" /\ WriteBack({p})
    BY Zenon, <1>7 DEF CommitFlush, ckptVars
  <2>2. Frames'
    BY Zenon, <2>1, WrittenBack
  <2>3. Logs' /\ IdsBounded' /\ FreshInMemory' /\ OldBelow' /\ synced' = synced
    BY Zenon, <2>1, LogSame
  <2>4. Counters' /\ Down'
    BY Zenon, <2>1, <2>3 DEF Inv, Counters, Down
  <2> QED BY Zenon, <2>2, <2>3, <2>4 DEF Inv
<1> QED BY Zenon, <1>3, <1>4, <1>5, <1>6, <1>7

LEMMA EvictInv ==
  ASSUME Inv, NEW p \in Page, Evict(p)
  PROVE  Inv'
<1>1. /\ current_ts \in Nat /\ own = [u \in Tx |-> own[u]]
      /\ \A u \in Tx : DOMAIN own[u] \subseteq Page
      /\ frame = [q \in Page |-> frame[q]]
  BY Zenon DEF Inv, Counters, Frames
<1>2. UNCHANGED <<mode, crashes, next_tx_id, current_ts, active_tx_ids, own, logVars, header>>
      /\ mode = "up" /\ frame' = [frame EXCEPT ![p] = NoFrame]
  BY Zenon DEF Evict, ckptVars
<1>3. Frames'
  BY <1>1, <1>2, UnusedFrame, FramesStep
<1>4. Logs' /\ IdsBounded' /\ FreshInMemory' /\ OldBelow' /\ synced' = synced
  BY Zenon, <1>2, LogSame
<1>5. Counters' /\ Down'
  BY Zenon, <1>2, <1>4 DEF Inv, Counters, Down
<1> QED BY Zenon, <1>3, <1>4, <1>5 DEF Inv

LEMMA WatermarkIs == ASSUME Inv PROVE ResolvedTxWatermark \in Nat
<1> DEFINE S == (0..next_tx_id - 1) \ active_tx_ids
<1>1. next_tx_id \in Nat
  BY Zenon DEF Inv, Counters
<1>2. S \subseteq Nat /\ \A x \in S : x <= next_tx_id
  BY <1>1
<1> HIDE DEF S
<1>3. Max0(S) \in Nat
  BY Zenon, <1>1, <1>2, Max0Is
<1> QED BY Zenon, <1>3 DEF S, ResolvedTxWatermark

LEMMA CheckpointInv ==
  ASSUME Inv, CheckpointFlush \/ CheckpointSync \/ CheckpointTruncate \/ CheckpointHeader
  PROVE  Inv'
<1>1. IsLog(wal) /\ IsLog(pending_buf) /\ IsLog(taken)
  BY Zenon DEF Inv, Logs
<1>2. CASE CheckpointFlush
  <2>1. UNCHANGED <<mode, crashes, next_tx_id, current_ts, active_tx_ids, own, logVars, header>>
        /\ mode # "down" /\ WriteBack(fids')
    BY Zenon, <1>2 DEF CheckpointFlush
  <2>2. Frames'
    <3>1. \A S : WriteBack(S) => Frames'
      BY Zenon, <2>1, WrittenBack
    <3> QED BY Zenon, <2>1, <3>1
  <2>3. Logs' /\ IdsBounded' /\ FreshInMemory' /\ OldBelow' /\ synced' = synced
    BY Zenon, <2>1, LogSame
  <2>4. Counters' /\ Down'
    BY Zenon, <2>1, <2>3 DEF Inv, Counters, Down
  <2> QED BY Zenon, <2>2, <2>3, <2>4 DEF Inv
<1>3. CASE CheckpointSync
  <2>1. UNCHANGED <<mode, crashes, next_tx_id, current_ts, active_tx_ids, own, frame, logVars, header>>
        /\ ckpt = "written"
    BY Zenon, <1>3 DEF CheckpointSync, memVars
  <2>2. Frames'
    BY Zenon, <2>1, FramesSame
  <2>3. Logs' /\ IdsBounded' /\ FreshInMemory' /\ OldBelow' /\ synced' = synced
    BY Zenon, <2>1, LogSame
  <2>4. Counters' /\ Down'
    BY Zenon, <2>1, <2>3 DEF Inv, Counters, Down
  <2> QED BY Zenon, <2>2, <2>3, <2>4 DEF Inv
<1>4. CASE CheckpointTruncate
  <2>1. UNCHANGED <<mode, crashes, next_tx_id, current_ts, active_tx_ids, own, frame, header,
                    pending_buf, taken>>
        /\ ckpt = "synced" /\ wal' = <<>> /\ synced' = 0
    BY Zenon, <1>4 DEF CheckpointTruncate, memVars
  <2>2. Frames'
    BY Zenon, <2>1, FramesSame
  <2>3. IsLog(wal') /\ Records(wal') = {}
    BY Zenon, <2>1, LogEmpty
  <2>4. Logs' /\ IdsBounded' /\ FreshInMemory' /\ OldBelow'
    BY Zenon, <1>1, <2>1, <2>3, LogGrows
  <2>5. Counters' /\ Down'
    BY Zenon, <2>1 DEF Inv, Counters, Down
  <2> QED BY Zenon, <2>2, <2>4, <2>5 DEF Inv
<1>5. CASE CheckpointHeader
  <2>1. UNCHANGED <<crashes, next_tx_id, current_ts, active_tx_ids, own, frame, wal, pending_buf,
                    taken, synced>>
        /\ ckpt = "truncated" /\ mode' = "up"
        /\ header' = [last_checkpoint_tx |-> ResolvedTxWatermark, next_tx_id |-> next_tx_id,
                      current_ts |-> current_ts]
    BY Zenon, <1>5 DEF CheckpointHeader, memVars, logVars
  <2>2. mode # "down"
    BY Zenon, <2>1 DEF Inv, Down
  <2>3. Frames'
    BY Zenon, <2>1, FramesSame
  <2>4. Logs' /\ FreshInMemory' /\ OldBelow'
    BY <2>1, <2>2 DEF Inv, Logs, FreshInMemory, OldBelow, IsLog, Records
  <2>5. IdsBounded'
    BY <2>1 DEF Inv, IdsBounded, Bounded, Records
  <2>6. Counters' /\ Down'
    BY Zenon, <2>1, WatermarkIs DEF Inv, Counters, Down
  <2> QED BY Zenon, <2>3, <2>4, <2>5, <2>6 DEF Inv
<1> QED BY Zenon, <1>2, <1>3, <1>4, <1>5

LEMMA CrashInv ==
  ASSUME Inv, Crash
  PROVE  Inv'
<1>1. /\ crashes' = crashes + 1 /\ mode' = "down" /\ active_tx_ids' = {}
      /\ pending_buf' = <<>> /\ taken' = <<>> /\ own' = NoOwn /\ ckpt' = "idle"
      /\ frame' = [p \in Page |-> NoFrame] /\ UNCHANGED <<next_tx_id, current_ts, header>>
  BY Zenon DEF Crash
<1>2. IsLog(wal) /\ synced \in Nat /\ Len(wal) \in Nat
  BY DEF Inv, Logs, Counters, IsLog
<1>3. IsLog(wal') /\ Records(wal') \subseteq Records(wal) /\ synced' \in Nat
  <2>1. CASE PowerLoss
    <3>1. PICK n \in synced..Len(wal) : wal' = SubSeq(wal, 1, n) /\ synced' = n
      BY Zenon, <2>1 DEF Crash
    <3> QED BY <1>2, <3>1, LogPrefix
  <2>2. CASE ~PowerLoss
    <3>1. UNCHANGED <<wal, synced>>
      BY Zenon, <2>2 DEF Crash
    <3> QED BY Zenon, <1>2, <3>1
  <2> QED BY Zenon, <2>1, <2>2
<1>4. IsLog(pending_buf') /\ IsLog(taken') /\ Records(pending_buf') = {} /\ Records(taken') = {}
  BY Zenon, <1>1, LogEmpty
<1>5. \A r \in Records(wal) : r.tx \in Nat /\ (r.tx <= MaxTx \/ r.tx <= current_ts)
  BY Zenon DEF Inv, IdsBounded, Bounded
<1>6. Counters' /\ Down'
  BY <1>1, <1>3 DEF Inv, Counters, Down
<1>7. Frames'
  <2>1. current_ts \in Nat
    BY Zenon DEF Inv, Counters
  <2> QED BY <1>1, <2>1, UnusedFrame DEF Frames, NoOwn
<1>8. Logs'
  BY Zenon, <1>3, <1>4 DEF Logs, IsLog, Records
<1>9. IdsBounded'
  BY Zenon, <1>1, <1>3, <1>4, <1>5 DEF IdsBounded, Bounded, Records
<1>10. FreshInMemory' /\ OldBelow'
  BY Zenon, <1>1, <1>4 DEF FreshInMemory, OldBelow, Records
<1> QED BY Zenon, <1>6, <1>7, <1>8, <1>9, <1>10 DEF Inv

\* restore_counters starts above every record of the log.
LEMMA RestoredAbove ==
  ASSUME Sizes, Inv
  PROVE  RestoredNextTx \in Nat \ {0} /\ \A r \in Records(wal) : r.tx < RestoredNextTx
<1> DEFINE W == {wal[i].tx : i \in 1..Len(wal)}
           b == IF MaxTx <= current_ts THEN current_ts ELSE MaxTx
           T == {header.next_tx_id, header.last_checkpoint_tx + 1, Max0(W) + 1}
           h == header.next_tx_id + header.last_checkpoint_tx + 1
<1>1. current_ts \in Nat /\ MaxTx \in Nat /\ header.next_tx_id \in Nat
      /\ header.last_checkpoint_tx \in Nat
  BY Zenon DEF Inv, Counters, Sizes
<1>2. \A r \in Records(wal) : r.tx \in Nat /\ (r.tx <= MaxTx \/ r.tx <= current_ts)
  BY Zenon DEF Inv, IdsBounded, Bounded
<1>3. W = {r.tx : r \in Records(wal)}
  BY Zenon DEF Records
<1> HIDE DEF W
<1>4. b \in Nat /\ W \subseteq Nat /\ \A x \in W : x <= b
  <2>1. \A x \in W : x \in Nat /\ (x <= MaxTx \/ x <= current_ts)
    BY Zenon, <1>2, <1>3
  <2> QED BY <1>1, <2>1
<1> HIDE DEF b
<1>5. Max0(W) \in Nat /\ \A x \in W : x <= Max0(W)
  BY Zenon, <1>4, Max0Is
<1>6. T \subseteq Nat /\ h + Max0(W) \in Nat /\ \A x \in T : x <= h + Max0(W)
  BY <1>1, <1>5
<1>7. Max0(W) + 1 \in T
  OBVIOUS
<1> HIDE DEF T, h
<1>8. Max0(T) \in Nat /\ \A x \in T : x <= Max0(T)
  BY Zenon, <1>6, Max0Is
<1>9. RestoredNextTx = Max0(T)
  BY Zenon DEF RestoredNextTx, T, W
<1>10. \A r \in Records(wal) : r.tx \in W
  BY Zenon, <1>3
<1> QED BY <1>2, <1>5, <1>7, <1>8, <1>9, <1>10

LEMMA RecoverInv ==
  ASSUME Sizes, Inv, Recover
  PROVE  Inv'
<1>1. /\ mode = "down" /\ mode' \in {"cleanup", "up"} /\ next_tx_id' = RestoredNextTx
      /\ current_ts' = Max0({header.current_ts, RestoredNextTx - 1, 1})
      /\ UNCHANGED <<crashes, active_tx_ids, own, frame, wal, pending_buf, taken, synced, header>>
  BY Zenon DEF Recover, logVars, ckptVars
<1>2. active_tx_ids = {} /\ pending_buf = <<>> /\ taken = <<>> /\ frame = [p \in Page |-> NoFrame]
  BY Zenon, <1>1 DEF Inv, Down
<1>3. RestoredNextTx \in Nat \ {0} /\ \A r \in Records(wal) : r.tx < RestoredNextTx
  BY Zenon, RestoredAbove
<1>4. \A r \in Records(wal) : r.tx \in Nat /\ (r.tx <= MaxTx \/ r.tx <= current_ts)
  BY Zenon DEF Inv, IdsBounded, Bounded
<1>5. current_ts' \in Nat /\ \A r \in Records(wal) : r.tx <= MaxTx \/ r.tx <= current_ts'
  <2> DEFINE T == {header.current_ts, RestoredNextTx - 1, 1}
  <2>1. header.current_ts \in Nat
    BY Zenon DEF Inv, Counters
  <2>2. T \subseteq Nat /\ \A x \in T : x <= header.current_ts + RestoredNextTx + 1
    BY <1>3, <2>1
  <2>3. RestoredNextTx - 1 \in T /\ header.current_ts + RestoredNextTx + 1 \in Nat
    BY <1>3, <2>1
  <2> HIDE DEF T
  <2>4. Max0(T) \in Nat /\ \A x \in T : x <= Max0(T)
    BY Zenon, <2>2, <2>3, Max0Is
  <2>5. current_ts' = Max0(T)
    BY Zenon, <1>1 DEF T
  <2> QED BY <1>3, <1>4, <2>3, <2>4, <2>5
<1>6. Counters' /\ Down'
  BY Zenon, <1>1, <1>3, <1>5 DEF Inv, Counters, Down
<1>7. Frames'
  <2>1. own = [t \in Tx |-> own[t]] /\ \A t \in Tx : DOMAIN own[t] \subseteq Page
    BY Zenon DEF Inv, Frames
  <2> QED BY <1>1, <1>2, <1>5, <2>1, UnusedFrame DEF Frames
<1>8. Records(pending_buf) = {} /\ Records(taken) = {}
  BY Zenon, <1>2, LogEmpty
<1>9. Logs' /\ FreshInMemory'
  BY <1>1 DEF Inv, Logs, FreshInMemory, Records, IsLog
<1>10. IdsBounded'
  BY ZenonT(30), <1>1, <1>4, <1>5, <1>8 DEF IdsBounded, Bounded, Records
<1>11. OldBelow'
  BY Zenon, <1>1, <1>2, <1>3 DEF OldBelow, Records
<1> QED BY Zenon, <1>6, <1>7, <1>9, <1>10, <1>11 DEF Inv

LEMMA RecoverCrashInv ==
  ASSUME Inv, RecoverCrash
  PROVE  Inv'
<1>1. /\ mode = "down" /\ crashes' = crashes + 1
      /\ UNCHANGED <<mode, next_tx_id, current_ts, active_tx_ids, own, frame, wal, pending_buf,
                     taken, synced, header, ckpt>>
  BY Zenon DEF RecoverCrash, memVars, logVars, ckptVars
<1>2. pending_buf = <<>> /\ taken = <<>>
  BY Zenon, <1>1 DEF Inv, Down
<1>3. Counters' /\ Down'
  BY <1>1 DEF Inv, Counters, Down
<1>4. Frames'
  BY Zenon, <1>1, FramesSame
<1>5. Logs' /\ OldBelow'
  BY Zenon, <1>1 DEF Inv, Logs, OldBelow, IsLog, Records
<1>6. IdsBounded'
  BY <1>1 DEF Inv, IdsBounded, Bounded, Records
<1>7. Records(pending_buf') = {} /\ Records(taken') = {}
  BY Zenon, <1>1, <1>2, LogEmpty
<1>8. FreshInMemory'
  BY Zenon, <1>7 DEF FreshInMemory, Records
<1> QED BY Zenon, <1>3, <1>4, <1>5, <1>6, <1>8 DEF Inv

LEMMA NextInv == ASSUME Sizes, Inv, [Next]_vars PROVE Inv'
<1>1. CASE UNCHANGED vars
  <2>1. UNCHANGED <<mode, crashes, next_tx_id, current_ts, active_tx_ids, own, frame, logVars,
                    header, ckpt>>
    BY Zenon, <1>1 DEF vars, memVars, ckptVars
  <2>2. Frames'
    BY Zenon, <2>1, FramesSame
  <2>3. Logs' /\ IdsBounded' /\ FreshInMemory' /\ OldBelow' /\ synced' = synced
    BY Zenon, <2>1, LogSame
  <2>4. Counters' /\ Down'
    BY Zenon, <2>1, <2>3 DEF Inv, Counters, Down, logVars
  <2> QED BY Zenon, <2>2, <2>3, <2>4 DEF Inv
<1> QED BY Zenon, <1>1, BeginInv, WriteInv, FlushInv, MergeInv, CommitLogInv, TxInv, EvictInv,
     CheckpointInv,
           CrashInv, RecoverInv, RecoverCrashInv DEF Next

\* While the log holds a record of an earlier run of the process, no active transaction
\* has the id the record is keyed by, so no commit of this run can commit it
\* (restore_counters and the reuse of ids after a restart).
THEOREM IdsNotReused == ASSUME Sizes PROVE Spec => []NoIdReuse
<1>1. Inv => NoIdReuse
  <2> SUFFICES ASSUME Inv, NEW i \in 1..Len(wal), wal[i].writer[1] < crashes,
                      wal[i].tx \in active_tx_ids
               PROVE  FALSE
    BY Zenon DEF NoIdReuse
  <2>1. wal[i] \in Records(wal)
    BY Zenon DEF Records
  <2>2. mode # "down"
    BY Zenon DEF Inv, Down
  <2>3. wal[i].tx < wal[i].tx /\ wal[i].tx \in Nat
    BY Zenon, <2>1, <2>2 DEF Inv, OldBelow, IdsBounded, Bounded
  <2> QED BY <2>3
<1> QED BY <1>1, InitInv, NextInv, PTL DEF Spec
=============================================================================

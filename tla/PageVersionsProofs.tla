------------------------- MODULE PageVersionsProofs -------------------------
(***************************************************************************)
(* Type correctness of the page versions; a transaction's own frame and    *)
(* what others see of it; and that the newest committed version is never   *)
(* lost: the proofs of TypeOK, OwnWritesReadable, NoUncommittedData and    *)
(* NewestSurvives for any number of transactions, rows and slots.          *)
(***************************************************************************)
EXTENDS PageVersionsInv, TLAPS, WellFoundedInduction

\* NoTx is no transaction.
LEMMA Constants ==
  /\ MaxTs \in Nat /\ MaxTs # 0 /\ 1 \in 1..MaxTs
  /\ NoTx = 0 /\ \A t \in Tx : t # NoTx
BY PageAssumption DEF NoTx

\* What is read is the page on disk or a newest frame of those considered.
LEMMA Chosen ==
  ASSUME NEW S, S # {}
  PROVE  (CHOOSE s \in S : TRUE) \in S
OBVIOUS

LEMMA LatestIs ==
  LET S == Newest({s \in Resident : Committed(s)})
  IN  (S = {} /\ Latest = disk) \/ \E s \in S : Latest = slots[s].data
<1> DEFINE S == Newest({s \in Resident : Committed(s)})
<1>1. CASE S = {}
  BY Zenon, <1>1 DEF Latest
<1>2. CASE S # {}
  <2>1. (CHOOSE s \in S : TRUE) \in S
    BY Zenon, <1>2, Chosen
  <2>2. Latest = slots[CHOOSE s \in S : TRUE].data
    BY Zenon, <1>2 DEF Latest
  <2>3. QED
    BY Zenon, <2>1, <2>2
<1>3. QED
  BY Zenon, <1>1, <1>2

LEMMA DataTypes ==
  ASSUME Types
  PROVE  Latest \in Data /\ Blank \in Data /\ Empty \in Frame /\ Loaded \in Frame
<1>1. Blank \in Data
  BY Zenon DEF Blank, Data
<1>2. \A s \in Slot : slots[s].data \in Data
  BY Zenon DEF Types, TypeOK, Frame
<1>3. Latest \in Data
  <2>1. Newest({s \in Resident : Committed(s)}) \subseteq Slot
    BY Zenon DEF Newest, Resident
  <2>2. QED
    BY Zenon, <1>2, <2>1, LatestIs DEF Types, TypeOK
<1>4. Empty \in Frame
  BY <1>1, Constants DEF Empty, Frame
<1>5. Loaded \in Frame
  BY Zenon, <1>4 DEF Loaded, Frame, Types, TypeOK
<1>6. QED
  BY Zenon, <1>1, <1>3, <1>4, <1>5

LEMMA EntryTypes ==
  ASSUME NEW T, T \subseteq Nat, NEW e \in CommittedVersion(T), NEW c \in T
  PROVE  CommitRowEntry(e, c) \in CommittedVersion(T)
<1>1. CASE e = NoEntry
  BY Zenon, <1>1 DEF CommitRowEntry, CommittedVersion
<1>2. CASE e # NoEntry
  <2>1. e \in [first_ts : T, last_ts : T]
    BY Zenon, <1>2 DEF CommittedVersion
  <2>2. QED
    BY Zenon, <1>2, <2>1 DEF CommitRowEntry, CommittedVersion
<1>3. QED
  BY Zenon, <1>1, <1>2

\* Every non-empty set of numbers has a least one.
LEMMA LeastNatural ==
  ASSUME NEW T, T \subseteq Nat, T # {}
  PROVE  \E n \in T : \A m \in T : n <= m
<1> DEFINE R == {ss \in Nat \X Nat : ss[1] < ss[2]}
<1>1. IsWellFoundedOn(R, Nat)
  BY Zenon, NatLessThanWellFounded DEF OpToRel
<1> HIDE DEF R
<1>2. PICK n \in T : \A m \in T : ~(<<m, n>> \in R)
  BY Zenon, <1>1, WFMin
<1>3. \A m \in T : ~(m < n)
  BY Zenon, <1>2 DEF R
<1>4. QED
  BY <1>3

\* So every non-empty set of slots has a newest one.
LEMMA NewestExists ==
  ASSUME Types, NEW S \in SUBSET Slot, S # {}
  PROVE  Newest(S) # {} /\ Newest(S) \subseteq S
<1> DEFINE age(s) == MaxTs - slots[s].version
           T == {age(s) : s \in S}
<1>1. \A s \in S : slots[s].version \in 0..MaxTs
  BY Zenon DEF Types, TypeOK, Frame
<1>2. T \subseteq Nat /\ T # {}
  BY <1>1, Constants
<1>3. PICK n \in T : \A m \in T : n <= m
  BY Zenon, <1>2, LeastNatural
<1>4. PICK s \in S : n = age(s)
  BY Zenon, <1>3
<1>5. \A u \in S : age(s) <= age(u)
  BY Zenon, <1>3, <1>4
<1>6. \A u \in S : slots[u].version <= slots[s].version
  BY <1>1, <1>5, Constants
<1>7. QED
  BY Zenon, <1>6 DEF Newest

\* The page flush_pages writes is that of a dirty committed frame.
LEMMA FlushData ==
  ASSUME Types, DirtyCommitted # {}
  PROVE  /\ (CHOOSE s \in Newest(DirtyCommitted) : TRUE) \in Newest(DirtyCommitted)
         /\ Newest(DirtyCommitted) \subseteq DirtyCommitted
         /\ slots[CHOOSE s \in Newest(DirtyCommitted) : TRUE].data \in Data
<1>1. DirtyCommitted \in SUBSET Slot
  BY Zenon DEF DirtyCommitted, Resident
<1>2. Newest(DirtyCommitted) # {} /\ Newest(DirtyCommitted) \subseteq DirtyCommitted
  BY Zenon, <1>1, NewestExists
<1>3. (CHOOSE s \in Newest(DirtyCommitted) : TRUE) \in Newest(DirtyCommitted)
  BY Zenon, <1>2, Chosen
<1>4. QED
  BY Zenon, <1>1, <1>2, <1>3 DEF Types, TypeOK, Frame

\* Every step keeps the types.
LEMMA TypesStep ==
  ASSUME Types, [Next]_vars
  PROVE  Types'
<1> USE DEF poolVars, tsVars, rowVars, txVars, histVars
<1>t. /\ slots \in [Slot -> Frame] /\ source \in [Tx -> Data] /\ pins \in [Tx -> SUBSET Slot]
      /\ pc \in [Tx -> PC] /\ disk \in Data
  BY Zenon DEF Types, TypeOK
<1>1. ASSUME NEW t \in Tx, Begin(t) PROVE Types'
  BY <1>1, DataTypes, Constants DEF Types, TypeOK, PC, InCommit, Begin
<1>2. ASSUME NEW t \in Tx, ReadPin(t) PROVE Types'
  <2>1. PinChoice(t) \subseteq Slot
    BY Zenon DEF PinChoice, OwnFrames, Newest, Resident
  <2>2. slots' \in [Slot -> Frame] /\ pins' \in [Tx -> SUBSET Slot]
    BY <1>2, <1>t, <2>1, DataTypes DEF ReadPin
  <2>3. pc' \in [Tx -> PC] /\ \A x \in Tx : InCommit(x)' => InCommit(x)
    BY Zenon, <1>2, <1>t DEF ReadPin, PC, InCommit
  <2>4. UNCHANGED <<disk, leaked, page_lock, source, candidates, tsVars, rowVars,
                    read_ts, commit_ts, writing, touched, mods, histVars>>
    BY Zenon, <1>2 DEF ReadPin
  <2>5. QED
    BY Zenon, <2>2, <2>3, <2>4 DEF Types, TypeOK
<1>3. ASSUME NEW t \in Tx, ReadUnpin(t) PROVE Types'
  BY Zenon, <1>3, DataTypes, Constants DEF Types, TypeOK, PC, InCommit, ReadUnpin
<1>4. ASSUME NEW t \in Tx, NEW r \in Row, MarkRow(t, r) PROVE Types'
  BY Zenon, <1>4, DataTypes, Constants DEF Types, TypeOK, PC, InCommit, MarkRow
<1>5. ASSUME NEW t \in Tx, NEW r \in Row, WriteStart(t, r) PROVE Types'
  BY Zenon, <1>5, DataTypes, Constants DEF Types, TypeOK, PC, InCommit, WriteStart
<1>6. ASSUME NEW t \in Tx, NEW r \in Row, NEW s \in Slot, WriteFinish(t, r, s) PROVE Types'
  <2>1. FrameData(t, s) \in Data
    BY Zenon, <1>t DEF FrameData, OwnFrames, Resident, Frame
  <2>2. [FrameData(t, s) EXCEPT ![r] = t] \in Data
    BY Zenon, <2>1 DEF Data
  <2>3. slots' \in [Slot -> Frame]
    BY <1>6, <1>t, <2>2, Constants DEF WriteFinish, Frame
  <2>4. /\ source' \in [Tx -> Data] /\ writing' \in [Tx -> SUBSET Row]
        /\ page_lock' \in Tx \cup {NoTx} /\ leaked' \subseteq Slot
        /\ versions' \in [Row -> Tx \cup {NoTx}] /\ mods' \in [Tx -> SUBSET Row]
    <3>1. source' \in [Tx -> Data] /\ page_lock' \in Tx \cup {NoTx}
      BY Zenon, <1>6, <1>t, DataTypes DEF WriteFinish
    <3>2. writing' \in [Tx -> SUBSET Row] /\ leaked' \subseteq Slot
      BY Zenon, <1>6 DEF WriteFinish, Types, TypeOK
    <3>3. \/ versions' = [versions EXCEPT ![r] = t] /\ mods' = [mods EXCEPT ![t] = @ \cup {r}]
          \/ UNCHANGED <<versions, mods>>
      BY Zenon, <1>6 DEF WriteFinish
    <3>4. versions' \in [Row -> Tx \cup {NoTx}] /\ mods' \in [Tx -> SUBSET Row]
      <4>1. versions \in [Row -> Tx \cup {NoTx}] /\ mods \in [Tx -> SUBSET Row]
        BY Zenon DEF Types, TypeOK
      <4>2. [versions EXCEPT ![r] = t] \in [Row -> Tx \cup {NoTx}]
        BY Zenon, <4>1
      <4>3. [mods EXCEPT ![t] = @ \cup {r}] \in [Tx -> SUBSET Row]
        BY Zenon, <4>1
      <4>4. QED
        BY Zenon, <3>3, <4>1, <4>2, <4>3
    <3>5. QED
      BY Zenon, <3>1, <3>2, <3>4
  <2>5. pc' \in [Tx -> PC] /\ \A x \in Tx : InCommit(x)' => InCommit(x)
    BY Zenon, <1>6, <1>t DEF WriteFinish, PC, InCommit
  <2>6. UNCHANGED <<disk, pins, candidates, tsVars, committed, read_ts, commit_ts, touched,
                    histVars>>
    BY Zenon, <1>6 DEF WriteFinish
  <2>7. QED
    BY Zenon, <2>3, <2>4, <2>5, <2>6 DEF Types, TypeOK
<1>7. ASSUME NEW t \in Tx, WriteExhausted(t) PROVE Types'
  BY <1>7, DataTypes, Constants DEF Types, TypeOK, PC, InCommit, WriteExhausted
<1>8. ASSUME NEW t \in Tx, CommitStart(t) PROVE Types'
  <2>1. current_ts' \in 1..MaxTs /\ commit_ts' \in [Tx -> 0..MaxTs] /\ commit_ts'[t] \in 1..MaxTs
    BY <1>8, Constants DEF CommitStart, Types, TypeOK
  <2>2. pc' \in [Tx -> PC] /\ \A x \in Tx \ {t} : InCommit(x)' => InCommit(x)
    BY Zenon, <1>8, <1>t DEF CommitStart, PC, InCommit
  <2>3. commit_lock' \in Tx \cup {NoTx} /\ \A x \in Tx \ {t} : commit_ts'[x] = commit_ts[x]
    BY Zenon, <1>8 DEF CommitStart, Types, TypeOK
  <2>4. UNCHANGED <<poolVars, rowVars, read_ts, writing, touched, mods, histVars>>
    BY Zenon, <1>8 DEF CommitStart
  <2>5. QED
    BY Zenon, <2>1, <2>2, <2>3, <2>4 DEF Types, TypeOK
<1>9. ASSUME NEW t \in Tx, CommitRead(t) PROVE Types'
  <2>1. Merged(t) \in Data
    BY Zenon, DataTypes DEF Merged, Data
  <2>2. source' \in [Tx -> Data]
    BY Zenon, <1>9, <1>t, <2>1 DEF CommitRead
  <2>3. pc' \in [Tx -> PC] /\ \A x \in Tx : InCommit(x)' => InCommit(x)
    BY Zenon, <1>9, <1>t DEF CommitRead, PC, InCommit
  <2>4. UNCHANGED <<slots, disk, pins, leaked, page_lock, candidates, tsVars, rowVars,
                    read_ts, commit_ts, writing, touched, mods, histVars>>
    BY Zenon, <1>9 DEF CommitRead
  <2>5. QED
    BY Zenon, <2>2, <2>3, <2>4 DEF Types, TypeOK
<1>10. ASSUME NEW t \in Tx, CommitNoMerge(t) PROVE Types'
  BY Zenon, <1>10, DataTypes, Constants DEF Types, TypeOK, PC, InCommit, CommitNoMerge
<1>11. ASSUME NEW t \in Tx, CommitError(t) PROVE Types'
  BY Zenon, <1>11, DataTypes, Constants DEF Types, TypeOK, PC, InCommit, CommitError
<1>12. ASSUME NEW t \in Tx, CommitPublish(t) PROVE Types'
  <2>1. commit_ts[t] \in 1..MaxTs
    BY Zenon, <1>12 DEF CommitPublish, Types, InCommit
  <2>2. slots' \in [Slot -> Frame]
    <3>1. ASSUME NEW s \in Slot
          PROVE  [slots[s] EXCEPT !.mark = NoTx, !.version = commit_ts[t]] \in Frame
      <4>1. slots[s] \in Frame /\ commit_ts[t] \in 0..MaxTs
        BY <1>t, <2>1, Constants
      <4>2. QED
        BY Zenon, <4>1 DEF Frame
    <3>2. QED
      BY Zenon, <1>12, <1>t, <3>1 DEF CommitPublish
  <2>3. pins' \in [Tx -> SUBSET Slot] /\ truth' \in Data /\ spoiled' \in BOOLEAN
    BY Zenon, <1>12, <1>t DEF CommitPublish, OwnFrames, Resident, Data, Types, TypeOK
  <2>4. versions' \in [Row -> Tx \cup {NoTx}] /\ committed' \in [Row -> CommittedVersion(1..MaxTs)]
    <3>1. ASSUME NEW r \in Row
          PROVE  CommitRowEntry(committed[r], commit_ts[t]) \in CommittedVersion(1..MaxTs)
      <4>1. committed[r] \in CommittedVersion(1..MaxTs) /\ 1..MaxTs \subseteq Nat
        BY Constants DEF Types, TypeOK
      <4>2. QED
        BY Zenon, <2>1, <4>1, EntryTypes
    <3>2. QED
      BY Zenon, <1>12, <3>1 DEF CommitPublish, Types, TypeOK
  <2>5. pc' \in [Tx -> PC] /\ \A x \in Tx : InCommit(x)' => InCommit(x)
    BY Zenon, <1>12, <1>t DEF CommitPublish, PC, InCommit
  <2>6. UNCHANGED <<disk, leaked, page_lock, source, candidates, tsVars, read_ts, commit_ts,
                    writing, touched, mods, stranded>>
    BY Zenon, <1>12 DEF CommitPublish
  <2>7. QED
    BY Zenon, <2>2, <2>3, <2>4, <2>5, <2>6 DEF Types, TypeOK
<1>13. ASSUME NEW t \in Tx, NEW s \in Slot, CommitMerge(t, s) PROVE Types'
  <2>1. slots' \in [Slot -> Frame] /\ pins' \in [Tx -> SUBSET Slot]
    BY <1>13, <1>t, Constants DEF CommitMerge, Frame
  <2>2. source' \in [Tx -> Data]
    BY Zenon, <1>13, <1>t, DataTypes DEF CommitMerge
  <2>3. pc' \in [Tx -> PC] /\ \A x \in Tx : InCommit(x)' => InCommit(x)
    BY Zenon, <1>13, <1>t DEF CommitMerge, PC, InCommit
  <2>4. UNCHANGED <<disk, leaked, page_lock, candidates, tsVars, rowVars, read_ts,
                    commit_ts, writing, touched, mods, histVars>>
    BY Zenon, <1>13 DEF CommitMerge
  <2>5. QED
    BY Zenon, <2>1, <2>2, <2>3, <2>4 DEF Types, TypeOK
<1>14. ASSUME NEW t \in Tx, CommitFlush(t) PROVE Types'
  <2>1. slots' \in [Slot -> Frame]
    BY ZenonT(40), <1>14, <1>t DEF CommitFlush, Frame
  <2>2. disk' \in Data
    <3>1. CASE DirtyCommitted = {}
      BY Zenon, <1>14, <1>t, <3>1 DEF CommitFlush
    <3>2. CASE DirtyCommitted # {}
      BY Zenon, <1>14, <3>2, FlushData DEF CommitFlush
    <3>3. QED
      BY Zenon, <3>1, <3>2
  <2>3. pc' \in [Tx -> PC] /\ \A x \in Tx : InCommit(x)' => InCommit(x)
    BY Zenon, <1>14, <1>t DEF CommitFlush, PC, InCommit
  <2>4. UNCHANGED <<pins, leaked, page_lock, source, candidates, tsVars, rowVars, read_ts,
                    commit_ts, writing, touched, mods, histVars>>
    BY Zenon, <1>14 DEF CommitFlush
  <2>5. QED
    BY Zenon, <2>1, <2>2, <2>3, <2>4 DEF Types, TypeOK
<1>15. ASSUME NEW t \in Tx, CommitEvict(t) PROVE Types'
  BY Zenon, <1>15, DataTypes, Constants DEF Types, TypeOK, PC, InCommit, CommitEvict
<1>16. ASSUME NEW t \in Tx, Rollback(t) PROVE Types'
  <2>1. slots' \in [Slot -> Frame] /\ leaked' \subseteq Slot /\ pins' \in [Tx -> SUBSET Slot]
    BY Zenon, <1>16, <1>t, DataTypes DEF Rollback, Discard, Types, TypeOK
  <2>2. pc' \in [Tx -> PC] /\ \A x \in Tx : InCommit(x)' => InCommit(x)
    BY Zenon, <1>16, <1>t DEF Rollback, PC, InCommit
  <2>3. versions' \in [Row -> Tx \cup {NoTx}]
    BY Zenon, <1>16 DEF Rollback, Types, TypeOK
  <2>4. UNCHANGED <<disk, page_lock, source, candidates, tsVars, committed, read_ts,
                    commit_ts, writing, touched, mods, histVars>>
    BY Zenon, <1>16 DEF Rollback
  <2>5. QED
    BY Zenon, <2>1, <2>2, <2>3, <2>4 DEF Types, TypeOK
<1>17. ASSUME NEW t \in Tx, Drop(t) PROVE Types'
  <2>1. slots' \in [Slot -> Frame] /\ leaked' \subseteq Slot /\ pins' \in [Tx -> SUBSET Slot]
    BY Zenon, <1>17, <1>t, DataTypes DEF Drop, Discard, Types, TypeOK
  <2>2. pc' \in [Tx -> PC] /\ \A x \in Tx : InCommit(x)' => InCommit(x)
    BY Zenon, <1>17, <1>t DEF Drop, PC, InCommit
  <2>3. versions' \in [Row -> Tx \cup {NoTx}]
    BY Zenon, <1>17 DEF Drop, Types, TypeOK
  <2>4. UNCHANGED <<disk, page_lock, source, candidates, tsVars, committed, read_ts,
                    commit_ts, writing, touched, mods, histVars>>
    BY Zenon, <1>17 DEF Drop
  <2>5. QED
    BY Zenon, <2>1, <2>2, <2>3, <2>4 DEF Types, TypeOK
<1>18. ASSUME NEW s \in Slot, Evict(s) PROVE Types'
  <2>1. slots' \in [Slot -> Frame] /\ disk' \in Data
    BY Zenon, <1>18, <1>t, DataTypes DEF Evict, Frame
  <2>2. UNCHANGED <<pins, leaked, page_lock, source, candidates, tsVars, rowVars, txVars, histVars>>
    BY Zenon, <1>18 DEF Evict
  <2>3. QED
    BY Zenon, <2>1, <2>2 DEF Types, TypeOK, InCommit
<1>19. ASSUME CheckpointFlush PROVE Types'
  <2>1. slots' \in [Slot -> Frame] /\ disk' \in Data
    <3>1. \A s \in Slot : slots[s].data \in Data /\ [slots[s] EXCEPT !.dirty = FALSE] \in Frame
      BY ZenonT(30), <1>t DEF Frame
    <3>2. DirtyCommitted \subseteq Slot
      BY Zenon DEF DirtyCommitted, Resident
    <3>3. QED
      BY Zenon, <1>19, <1>t, <3>1, <3>2 DEF CheckpointFlush
  <2>2. UNCHANGED <<pins, leaked, page_lock, source, candidates, tsVars, rowVars, txVars, histVars>>
    BY Zenon, <1>19 DEF CheckpointFlush
  <2>3. QED
    BY Zenon, <2>1, <2>2 DEF Types, TypeOK, InCommit
<1>20. ASSUME VacuumScan PROVE Types'
  <2>1. candidates' \subseteq Slot
    BY Zenon, <1>20 DEF VacuumScan, Resident
  <2>2. UNCHANGED <<slots, disk, pins, leaked, page_lock, source, tsVars, rowVars, txVars, histVars>>
    BY Zenon, <1>20 DEF VacuumScan
  <2>3. QED
    BY Zenon, <2>1, <2>2 DEF Types, TypeOK, InCommit
<1>21. ASSUME VacuumDrop PROVE Types'
  BY Zenon, <1>21, DataTypes, Constants DEF Types, TypeOK, InCommit, VacuumDrop
<1>22. CASE UNCHANGED vars
  BY Zenon, <1>22 DEF Types, TypeOK, InCommit, vars
<1> QED
  BY Zenon, <1>1, <1>2, <1>3, <1>4, <1>5, <1>6, <1>7, <1>8, <1>9,
     <1>10, <1>11, <1>12, <1>13, <1>14, <1>15, <1>16, <1>17, <1>18, <1>19, <1>20, <1>21, <1>22 DEF Next

-----------------------------------------------------------------------------
(* A transaction's own frame *)

\* x's uncommitted frames are left as they are.
SameFrames(x) ==
  OwnFrames(x)' = OwnFrames(x) /\ \A s \in OwnFrames(x) : slots'[s] = slots[s]

\* Only committed frames, or frames of t, change.
LEMMA FramesKept ==
  ASSUME Types, NEW x \in Tx,
         \A s \in Slot : \/ slots'[s] = slots[s]
                         \/ /\ slots[s].used => slots[s].mark # x
                            /\ slots'[s].used => slots'[s].mark # x
  PROVE  SameFrames(x)
BY Zenon DEF SameFrames, OwnFrames, Resident

\* The frame a transaction has, or gets, for its version.
LEMMA VersionSlotIs ==
  ASSUME NEW t \in Tx, Own(t), NEW s \in Slot, s \in VersionSlots(t)
  PROVE  /\ slots[s].used => slots[s].mark = t
         /\ OwnFrames(t) \subseteq {s}
<1>1. CASE OwnFrames(t) = {}
  BY Zenon, <1>1 DEF VersionSlots, Resident
<1>2. CASE OwnFrames(t) # {}
  BY Zenon, <1>2 DEF VersionSlots, Own, OwnFrames
<1>3. QED
  BY Zenon, <1>1, <1>2

\* What a step of anyone does to the frames of x, unless it is x that writes,
\* publishes or discards them.
LEMMA OthersFrames ==
  ASSUME OwnInv, [Next]_vars, NEW x \in Tx,
         ~\E r \in Row, s \in Slot : WriteFinish(x, r, s),
         ~\E s \in Slot : CommitMerge(x, s),
         ~CommitPublish(x), ~Rollback(x), ~Drop(x)
  PROVE  SameFrames(x)
<1> USE DEF poolVars
<1>t. Types /\ slots \in [Slot -> Frame] /\ x # NoTx /\ \A t \in Tx : Own(t)
  BY Zenon, Constants DEF OwnInv, Types, TypeOK
<1>1. CASE slots' = slots
  BY Zenon, <1>1 DEF SameFrames, OwnFrames, Resident
<1>2. ASSUME NEW t \in Tx, ReadPin(t), slots' # slots PROVE SameFrames(x)
  <2>1. PICK s \in Slot \ Resident : slots' = [slots EXCEPT ![s] = Loaded]
    BY Zenon, <1>2 DEF ReadPin
  <2>2. Loaded.mark = NoTx
    BY Zenon DEF Loaded, Empty
  <2>3. QED
    BY Zenon, <1>t, <2>1, <2>2, FramesKept DEF Resident
<1>3. ASSUME NEW t \in Tx, NEW s \in Slot, s \in VersionSlots(t), t # x,
             NEW f, f.mark = t, slots' = [slots EXCEPT ![s] = f]
      PROVE  SameFrames(x)
  BY <1>3, <1>t, VersionSlotIs, FramesKept
<1>4. ASSUME NEW t \in Tx, NEW r \in Row, NEW s \in Slot, WriteFinish(t, r, s) PROVE SameFrames(x)
  BY Zenon, <1>3, <1>4 DEF WriteFinish
<1>5. ASSUME NEW t \in Tx, NEW s \in Slot, CommitMerge(t, s) PROVE SameFrames(x)
  BY Zenon, <1>3, <1>5 DEF CommitMerge
<1>6. ASSUME NEW t \in Tx, CommitPublish(t) PROVE SameFrames(x)
  <2>1. \A s \in Slot : \/ slots'[s] = slots[s]
                        \/ slots[s].mark = t /\ slots'[s].mark = NoTx
    BY Zenon, <1>6, <1>t DEF CommitPublish, OwnFrames, Frame
  <2>2. QED
    BY Zenon, <1>6, <1>t, <2>1, FramesKept
<1>7. ASSUME NEW t \in Tx, Discard(t), t # x PROVE SameFrames(x)
  <2>1. \A s \in Slot : \/ slots'[s] = slots[s]
                        \/ slots[s].mark = t /\ slots'[s].mark = NoTx
    BY Zenon, <1>7 DEF Discard, OwnFrames, Empty
  <2>2. QED
    BY Zenon, <1>7, <1>t, <2>1, FramesKept
<1>8. ASSUME \A s \in Slot : \/ slots'[s] = slots[s]
                             \/ slots[s].mark = NoTx /\ slots'[s].mark = NoTx
      PROVE  SameFrames(x)
  BY Zenon, <1>8, <1>t, FramesKept
<1>9. ASSUME NEW t \in Tx, CommitFlush(t) PROVE SameFrames(x)
  BY Zenon, <1>8, <1>9, <1>t DEF CommitFlush, DirtyCommitted, Committed, Frame
<1>10. ASSUME NEW t \in Tx, CommitEvict(t) PROVE SameFrames(x)
  BY Zenon, <1>8, <1>10 DEF CommitEvict, Committed, Empty
<1>11. ASSUME NEW s \in Slot, Evict(s) PROVE SameFrames(x)
  BY Zenon, <1>8, <1>11, <1>t DEF Evict, Evictable, Committed, Empty
<1>12. ASSUME CheckpointFlush PROVE SameFrames(x)
  <2>1. slots' = [s \in Slot |-> IF s \in DirtyCommitted THEN [slots[s] EXCEPT !.dirty = FALSE]
                                 ELSE slots[s]]
    BY Zenon, <1>12 DEF CheckpointFlush
  <2>2. QED
    BY Zenon, <1>8, <1>t, <2>1 DEF DirtyCommitted, Committed, Frame
<1>13. ASSUME VacuumDrop PROVE SameFrames(x)
  BY Zenon, <1>8, <1>13 DEF VacuumDrop, Committed, Empty
<1>14. ASSUME NEW t \in Tx,
              \/ Begin(t) \/ ReadUnpin(t) \/ WriteExhausted(t) \/ CommitStart(t)
              \/ CommitRead(t) \/ CommitNoMerge(t) \/ CommitError(t)
              \/ \E r \in Row : MarkRow(t, r) \/ WriteStart(t, r)
       PROVE  slots' = slots
  BY Zenon, <1>14 DEF Begin, ReadUnpin, WriteExhausted, CommitStart, CommitRead, CommitNoMerge,
               CommitError, MarkRow, WriteStart
<1>15. ASSUME VacuumScan \/ UNCHANGED vars PROVE slots' = slots
  BY Zenon, <1>15 DEF VacuumScan, vars
<1>16. ASSUME NEW t \in Tx, Rollback(t) \/ Drop(t) PROVE Discard(t) /\ t # x
  BY Zenon, <1>16 DEF Rollback, Drop
<1> QED
  BY Zenon, <1>1, <1>2, <1>4, <1>5, <1>6, <1>7, <1>9, <1>10, <1>11, <1>12, <1>13, <1>14, <1>15,
     <1>16 DEF Next

\* x keeps its frame and its rows.
LEMMA OwnKept ==
  ASSUME NEW x \in Tx, Own(x), SameFrames(x), mods'[x] = mods[x],
         Private(x)' => Private(x),
         pc'[x] = "merging" => pc[x] = "merging" /\ source'[x] = source[x],
         pc'[x] = "unborn" => pc[x] = "unborn"
  PROVE  Own(x)'
BY DEF Own, SameFrames

\* What t's step leaves of another transaction.
LEMMA OthersOwn ==
  ASSUME OwnInv, [Next]_vars, NEW x \in Tx,
         SameFrames(x), pc'[x] = pc[x], mods'[x] = mods[x], source'[x] = source[x]
  PROVE  Own(x)'
BY Zenon, OwnKept DEF OwnInv, Private, InFlight

\* Every step keeps the own frames.
LEMMA OwnStep ==
  ASSUME OwnInv, [Next]_vars
  PROVE  OwnInv'
<1> SUFFICES ASSUME NEW x \in Tx PROVE Own(x)'
  BY Zenon, TypesStep DEF OwnInv
<1> USE DEF poolVars, tsVars, rowVars, txVars, histVars
<1>t. /\ Types /\ Own(x) /\ pc \in [Tx -> PC] /\ slots \in [Slot -> Frame]
      /\ mods \in [Tx -> SUBSET Row] /\ source \in [Tx -> Data]
  BY Zenon DEF OwnInv, Types, TypeOK
<1> DEFINE Writes == \E r \in Row, s \in Slot : WriteFinish(x, r, s)
           Merges == \E s \in Slot : CommitMerge(x, s)
           Ends == CommitPublish(x) \/ Rollback(x) \/ Drop(x)
<1>1. CASE Writes
  <2>1. PICK r \in Row, s \in Slot : WriteFinish(x, r, s)
    BY Zenon, <1>1
  <2>2. s \in VersionSlots(x) /\ pc[x] = "writing"
    BY Zenon, <2>1 DEF WriteFinish
  <2>3. OwnFrames(x) \subseteq {s}
    BY Zenon, <1>t, <2>2, VersionSlotIs
  <2>4. /\ slots'[s].used /\ slots'[s].mark = x
        /\ slots'[s].data = [FrameData(x, s) EXCEPT ![r] = x]
        /\ \A u \in Slot \ {s} : slots'[u] = slots[u]
    BY Zenon, <1>t, <2>1 DEF WriteFinish
  <2>5. OwnFrames(x)' = {s}
    BY Zenon, <2>3, <2>4 DEF OwnFrames, Resident
  <2>6. FrameData(x, s) \in Data /\ \A q \in mods[x] : FrameData(x, s)[q] = x
    BY Zenon, <1>t, <2>2, <2>3 DEF Own, Private, InFlight, FrameData, Frame
  <2>7. slots'[s].data[r] = x /\ \A q \in mods[x] : slots'[s].data[q] = x
    BY <1>t, <2>4, <2>6 DEF Data
  <2>8. mods'[x] \subseteq mods[x] \cup {r} /\ pc'[x] \in {"running", "failed"}
    BY Zenon, <1>t, <2>1 DEF WriteFinish
  <2>9. QED
    BY Zenon, <2>5, <2>7, <2>8 DEF Own
<1>2. CASE Merges
  <2>1. PICK s \in Slot : CommitMerge(x, s)
    BY Zenon, <1>2
  <2>2. s \in VersionSlots(x) /\ pc[x] = "merging"
    BY Zenon, <2>1 DEF CommitMerge
  <2>3. OwnFrames(x) \subseteq {s}
    BY Zenon, <1>t, <2>2, VersionSlotIs
  <2>4. /\ slots'[s].used /\ slots'[s].mark = x /\ slots'[s].data = source[x]
        /\ \A u \in Slot \ {s} : slots'[u] = slots[u]
        /\ mods' = mods /\ pc'[x] = "merged"
    BY Zenon, <1>t, <2>1 DEF CommitMerge
  <2>5. OwnFrames(x)' = {s}
    BY Zenon, <2>3, <2>4 DEF OwnFrames, Resident
  <2>6. \A r \in mods[x] : source[x][r] = x
    BY Zenon, <1>t, <2>2 DEF Own
  <2>7. QED
    BY <2>4, <2>5, <2>6 DEF Own
<1>3. CASE Ends
  <2>1. pc'[x] \in {"published", "aborted", "dropped"}
    BY Zenon, <1>3, <1>t DEF CommitPublish, Rollback, Drop
  <2>2. \A s \in Slot : slots'[s].used => slots'[s].mark # x
    <3>1. CASE CommitPublish(x)
      BY Zenon, <3>1, <1>t, Constants DEF CommitPublish, OwnFrames, Resident, Frame
    <3>2. CASE Discard(x)
      BY Zenon, <3>2, Constants DEF Discard, OwnFrames, Resident, Empty
    <3>3. QED
      BY Zenon, <1>3, <3>1, <3>2 DEF Rollback, Drop
  <2>3. OwnFrames(x)' = {}
    BY Zenon, <2>2 DEF OwnFrames, Resident
  <2>4. QED
    BY Zenon, <2>1, <2>3 DEF Own, Private, InFlight
<1>4. ASSUME ~Writes, ~Merges, ~Ends PROVE Own(x)'
  <2>1. SameFrames(x)
    BY Zenon, <1>4, OthersFrames
  <2>2. CASE Begin(x)
    BY Zenon, <1>t, <2>1, <2>2 DEF Begin, Own, SameFrames
  <2>3. ASSUME \/ ReadPin(x) \/ ReadUnpin(x) \/ WriteExhausted(x) \/ CommitStart(x)
               \/ CommitError(x) \/ \E r \in Row : MarkRow(x, r) \/ WriteStart(x, r)
        PROVE  /\ pc[x] \in {"running", "reading", "writing", "stamped", "merging", "merged"}
               /\ pc'[x] \in {"running", "reading", "writing", "stamped", "failed"}
               /\ mods' = mods
    BY Zenon, <1>t, <2>3 DEF ReadPin, ReadUnpin, WriteExhausted, CommitStart, CommitError,
       MarkRow, WriteStart
  <2>4. ASSUME pc[x] \in {"running", "reading", "writing", "stamped", "merging", "merged"},
               pc'[x] \in {"running", "reading", "writing", "stamped", "failed"}, mods' = mods
        PROVE  Own(x)'
    BY Zenon, <1>t, <2>1, <2>4, OwnKept DEF Private, InFlight
  <2>5. CASE CommitRead(x)
    <3>1. source'[x] = Merged(x) /\ pc[x] = "stamped" /\ pc'[x] = "merging" /\ mods' = mods
      BY Zenon, <1>t, <2>5 DEF CommitRead
    <3>2. \A r \in mods[x] : Merged(x)[r] = x
      BY Zenon, <1>t DEF Merged
    <3>3. QED
      BY <1>t, <2>1, <3>1, <3>2 DEF Own, SameFrames, Private, InFlight
  <2>6. CASE CommitNoMerge(x)
    BY Zenon, <1>t, <2>1, <2>6 DEF CommitNoMerge, Own, SameFrames
  <2>7. ASSUME CommitFlush(x) \/ CommitEvict(x)
        PROVE  pc'[x] \in {"flushed", "committed"}
    BY Zenon, <1>t, <2>7 DEF CommitFlush, CommitEvict
  <2>8. ASSUME pc'[x] \in {"flushed", "committed"} PROVE Own(x)'
    BY Zenon, <1>t, <2>1, <2>8 DEF Own, SameFrames, Private, InFlight
  <2>9. ASSUME NEW t \in Tx \ {x},
               \/ Begin(t) \/ ReadPin(t) \/ ReadUnpin(t) \/ WriteExhausted(t)
               \/ \E r \in Row : MarkRow(t, r) \/ WriteStart(t, r)
               \/ \E r \in Row, s \in Slot : WriteFinish(t, r, s)
        PROVE  pc'[x] = pc[x] /\ mods'[x] = mods[x] /\ source'[x] = source[x]
    <3>1. pc' = pc \/ \E c \in {"running", "reading", "writing", "failed"} : pc' = [pc EXCEPT ![t] = c]
      BY Zenon, <2>9 DEF Begin, ReadPin, ReadUnpin, WriteExhausted, MarkRow, WriteStart,
         WriteFinish
    <3>2. mods' = mods \/ \E r \in Row : mods' = [mods EXCEPT ![t] = @ \cup {r}]
      BY Zenon, <2>9 DEF Begin, ReadPin, ReadUnpin, WriteExhausted, MarkRow, WriteStart,
         WriteFinish
    <3>3. source' = source \/ \E d \in {Blank, Latest} : source' = [source EXCEPT ![t] = d]
      BY Zenon, <2>9 DEF Begin, ReadPin, ReadUnpin, WriteExhausted, MarkRow, WriteStart,
         WriteFinish
    <3>4. QED
      BY Zenon, <1>t, <3>1, <3>2, <3>3
  <2>10. ASSUME NEW t \in Tx \ {x},
               \/ CommitStart(t) \/ CommitRead(t) \/ CommitNoMerge(t) \/ CommitError(t)
               \/ CommitPublish(t) \/ CommitFlush(t) \/ CommitEvict(t) \/ Rollback(t) \/ Drop(t)
               \/ \E s \in Slot : CommitMerge(t, s)
        PROVE  pc'[x] = pc[x] /\ mods'[x] = mods[x] /\ source'[x] = source[x]
    BY Zenon, <1>t, <2>10 DEF CommitStart, CommitRead, CommitNoMerge, CommitError,
       CommitPublish,
                  CommitFlush, CommitEvict, Rollback, Drop, CommitMerge
  <2>11. ASSUME \/ CheckpointFlush \/ VacuumScan \/ VacuumDrop \/ UNCHANGED vars
                \/ \E s \in Slot : Evict(s)
         PROVE  pc'[x] = pc[x] /\ mods'[x] = mods[x] /\ source'[x] = source[x]
    BY Zenon, <2>11 DEF CheckpointFlush, VacuumScan, VacuumDrop, Evict, vars
  <2>12. ASSUME pc'[x] = pc[x], mods'[x] = mods[x], source'[x] = source[x] PROVE Own(x)'
    BY Zenon, <2>1, <2>12, OthersOwn
  <2>13. QED
    BY Zenon, <1>4, <2>2, <2>3, <2>4, <2>5, <2>6, <2>7, <2>8, <2>9, <2>10, <2>11, <2>12 DEF Next
<1>5. QED
  BY Zenon, <1>1, <1>2, <1>3, <1>4

LEMMA InitOwn ==
  ASSUME Init
  PROVE  OwnInv
<1>1. Types
  <2>1. Blank \in Data
    BY Zenon DEF Blank, Data
  <2>2. Empty \in Frame
    BY <2>1, Constants DEF Empty, Frame
  <2>3. slots \in [Slot -> Frame] /\ disk \in Data /\ truth \in Data /\ source \in [Tx -> Data]
    BY Zenon, <2>1, <2>2 DEF Init
  <2>4. pc \in [Tx -> PC] /\ \A t \in Tx : ~InCommit(t)
    BY Zenon DEF Init, PC, InCommit
  <2>5. committed \in [Row -> CommittedVersion(1..MaxTs)]
    BY Zenon DEF Init, CommittedVersion
  <2>6. current_ts \in 1..MaxTs /\ read_ts \in [Tx -> 0..MaxTs] /\ commit_ts \in [Tx -> 0..MaxTs]
    BY Constants DEF Init
  <2>7. /\ pins \in [Tx -> SUBSET Slot] /\ writing \in [Tx -> SUBSET Row]
        /\ mods \in [Tx -> SUBSET Row] /\ touched \in [Tx -> BOOLEAN]
        /\ versions \in [Row -> Tx \cup {NoTx}] /\ stranded \in BOOLEAN /\ spoiled \in BOOLEAN
    BY Zenon DEF Init
  <2>8. QED
    BY Zenon, <2>3, <2>4, <2>5, <2>6, <2>7 DEF Init, Types, TypeOK
<1>2. \A t \in Tx : Own(t)
  BY Zenon DEF Init, Own, OwnFrames, Resident, Empty, Private, InFlight
<1>3. QED
  BY Zenon, <1>1, <1>2 DEF OwnInv

\* What a transaction reads is its own frame.
LEMMA OwnReadable ==
  ASSUME OwnInv
  PROVE  OwnWritesReadable
<1> SUFFICES ASSUME NEW t \in Tx, Private(t), NEW r \in mods[t]
             PROVE  Reads(t)[r] = t
  BY Zenon DEF OwnWritesReadable, Private
<1>1. PICK s \in OwnFrames(t) : slots[s].data[r] = t
  BY Zenon DEF OwnInv, Own
<1>2. PinChoice(t) = OwnFrames(t) /\ PinChoice(t) # {}
  BY Zenon, <1>1 DEF PinChoice
<1>3. (CHOOSE u \in PinChoice(t) : TRUE) \in PinChoice(t)
  BY Zenon, <1>2, Chosen
<1>4. (CHOOSE u \in PinChoice(t) : TRUE) = s
  BY SMTT(30), <1>1, <1>2, <1>3 DEF OwnInv, Own
<1>5. QED
  BY Zenon, <1>1, <1>2, <1>4 DEF Reads

-----------------------------------------------------------------------------
(* Values of unpublished transactions *)

\* A published transaction stays published.
LEMMA DoneStable ==
  ASSUME Types, [Next]_vars, NEW x \in Tx, Done(x)
  PROVE  Done(x)'
<1> USE DEF txVars, Done
<1>t. pc \in [Tx -> PC]
  BY Zenon DEF Types
<1>1. ASSUME NEW t \in Tx,
             \/ Begin(t) \/ ReadPin(t) \/ ReadUnpin(t) \/ WriteExhausted(t)
             \/ \E r \in Row : MarkRow(t, r) \/ WriteStart(t, r)
             \/ \E r \in Row, s \in Slot : WriteFinish(t, r, s)
      PROVE  Done(x)'
  BY ZenonT(30), <1>t, <1>1 DEF Begin, ReadPin, ReadUnpin, WriteExhausted, MarkRow,
     WriteStart, WriteFinish
<1>2. ASSUME NEW t \in Tx,
             \/ CommitStart(t) \/ CommitRead(t) \/ CommitNoMerge(t) \/ CommitError(t)
             \/ CommitPublish(t) \/ CommitFlush(t) \/ CommitEvict(t) \/ Rollback(t) \/ Drop(t)
             \/ \E s \in Slot : CommitMerge(t, s)
      PROVE  Done(x)'
  BY Zenon, <1>t, <1>2 DEF CommitStart, CommitRead, CommitNoMerge, CommitError, CommitPublish,
                    CommitFlush, CommitEvict, Rollback, Drop, CommitMerge
<1>3. ASSUME \/ CheckpointFlush \/ VacuumScan \/ VacuumDrop \/ UNCHANGED vars
             \/ \E s \in Slot : Evict(s)
      PROVE  Done(x)'
  BY Zenon, <1>3 DEF CheckpointFlush, VacuumScan, VacuumDrop, Evict, vars
<1> QED
  BY Zenon, <1>1, <1>2, <1>3 DEF Next

\* What is merged into, or copied for a version, is clean.
LEMMA LatestClean ==
  ASSUME CleanInv
  PROVE  Clean(Latest, NoTx)
<1>1. Newest({s \in Resident : Committed(s)}) \subseteq {s \in Resident : slots[s].mark = NoTx}
  BY Zenon DEF Newest, Committed
<1>2. QED
  BY Zenon, <1>1, LatestIs DEF CleanInv

\* s is free, or still holds the frame it held.
Origin(s) ==
  slots'[s].used =>
    slots'[s].data = slots[s].data /\ slots'[s].mark = slots[s].mark /\ slots[s].used

\* A page stays clean, and a frame of the transaction that publishes is clean for all.
LEMMA CleanKept ==
  ASSUME CleanInv, \A t \in Tx : Done(t) => Done(t)'
  PROVE  /\ disk' = disk => Clean(disk, NoTx)'
         /\ \A t \in Tx : source'[t] \in {source[t], Blank} => Clean(source[t], t)'
         /\ \A s \in Slot : Origin(s) /\ slots'[s].used => Clean(slots[s].data, slots[s].mark)'
         /\ \A s \in Slot : Committed(s) /\ disk' = slots[s].data => Clean(disk, NoTx)'
<1>1. /\ disk \in Data /\ source \in [Tx -> Data] /\ slots \in [Slot -> Frame]
      /\ \A s \in Slot : slots[s].data \in Data
  BY Zenon DEF CleanInv, Types, TypeOK, Frame
<1>2. ASSUME disk' = disk PROVE Clean(disk, NoTx)'
  <2>1. \A r \in Row : disk[r] \in Tx /\ disk[r] # NoTx => pc[disk[r]] \in {"published", "flushed", "committed"}
    BY Zenon, <1>1, Constants DEF CleanInv, Clean, Data, Done
  <2>2. \A r \in Row : disk[r] = NoTx \/ disk[r] \in Tx
    BY Zenon, <1>1 DEF Data
  <2>3. QED
    BY Zenon, <1>2, <2>1, <2>2 DEF Clean, Done
<1>3. ASSUME NEW t \in Tx, source'[t] \in {source[t], Blank} PROVE Clean(source[t], t)'
  BY <1>1, <1>3 DEF CleanInv, Clean, Data, Done, Blank
<1>4. ASSUME NEW s \in Slot, Origin(s), slots'[s].used PROVE Clean(slots[s].data, slots[s].mark)'
  <2>1. \A r \in Row : \/ slots[s].data[r] \in {NoTx, slots[s].mark}
                       \/ slots[s].data[r] \in Tx /\ Done(slots[s].data[r])
    BY Zenon, <1>1, <1>4 DEF CleanInv, Clean, Data, Resident, Origin
  <2>2. slots'[s].data = slots[s].data /\ slots'[s].mark = slots[s].mark
    BY Zenon, <1>4 DEF Origin
  <2>3. QED
    BY Zenon, <2>1, <2>2 DEF Clean, Done
<1>5. ASSUME NEW s \in Slot, Committed(s), disk' = slots[s].data PROVE Clean(disk, NoTx)'
  BY <1>1, <1>5 DEF CleanInv, Clean, Data, Done, Resident, Committed
<1> QED
  BY Zenon, <1>2, <1>3, <1>4, <1>5

\* Every step keeps values of unpublished transactions out of what others see.
LEMMA CleanStep ==
  ASSUME CleanInv, OwnInv, [Next]_vars
  PROVE  CleanInv'
<1> USE DEF poolVars
<1>t. /\ Types /\ slots \in [Slot -> Frame] /\ source \in [Tx -> Data] /\ pc \in [Tx -> PC]
      /\ \A t \in Tx : Done(t) => Done(t)'
  BY Zenon, DoneStable DEF CleanInv, Types, TypeOK
<1>d. /\ disk' = disk => Clean(disk, NoTx)'
      /\ \A s \in Slot : Committed(s) /\ disk' = slots[s].data => Clean(disk, NoTx)'
  BY Zenon, <1>t, CleanKept
<1>s. \A t \in Tx : source'[t] \in {source[t], Blank} => Clean(source[t], t)'
  BY Zenon, <1>t, CleanKept
<1>f. \A s \in Slot : Origin(s) /\ slots'[s].used => Clean(slots[s].data, slots[s].mark)'
  BY Zenon, <1>t, CleanKept
<1>l. \A r \in Row : Latest[r] = NoTx \/ (Latest[r] \in Tx /\ Done(Latest[r]))
  <2>1. Latest \in Data
    BY Zenon, <1>t, DataTypes
  <2>2. QED
    BY Zenon, <2>1, LatestClean DEF Clean, Data
<1>1. \/ Clean(disk, NoTx)'
      \/ \E t \in Tx : CommitFlush(t)
  <2>1. ASSUME NEW t \in Tx,
             \/ Begin(t) \/ ReadPin(t) \/ ReadUnpin(t) \/ WriteExhausted(t)
             \/ \E r \in Row : MarkRow(t, r) \/ WriteStart(t, r)
             \/ \E r \in Row, s \in Slot : WriteFinish(t, r, s)
        PROVE  disk' = disk
    BY Zenon, <2>1 DEF Begin, ReadPin, ReadUnpin, WriteExhausted, MarkRow, WriteStart,
       WriteFinish
  <2>2. ASSUME NEW t \in Tx,
             \/ CommitStart(t) \/ CommitRead(t) \/ CommitNoMerge(t) \/ CommitError(t)
             \/ CommitPublish(t) \/ CommitEvict(t) \/ Rollback(t) \/ Drop(t)
             \/ \E s \in Slot : CommitMerge(t, s)
        PROVE  disk' = disk
    BY Zenon, <2>2 DEF CommitStart, CommitRead, CommitNoMerge, CommitError, CommitPublish,
                CommitEvict, Rollback, Drop, CommitMerge
  <2>3. ASSUME VacuumScan \/ VacuumDrop \/ UNCHANGED vars PROVE disk' = disk
    BY Zenon, <2>3 DEF VacuumScan, VacuumDrop, vars
  <2>4. ASSUME NEW s \in Slot, Evict(s) PROVE disk' = disk \/ (Committed(s) /\ disk' = slots[s].data)
    BY Zenon, <2>4 DEF Evict, Evictable
  <2>5. ASSUME CheckpointFlush PROVE \E s \in Slot : Committed(s) /\ disk' = slots[s].data
    BY Zenon, <2>5 DEF CheckpointFlush, DirtyCommitted, Resident
  <2>6. QED
    BY Zenon, <1>d, <2>1, <2>2, <2>3, <2>4, <2>5 DEF Next
<1>2. ASSUME NEW t \in Tx, CommitFlush(t) PROVE Clean(disk, NoTx)'
  <2>1. CASE DirtyCommitted = {}
    BY Zenon, <1>2, <1>d, <2>1 DEF CommitFlush
  <2>2. CASE DirtyCommitted # {}
    <3>1. PICK s \in DirtyCommitted : disk' = slots[s].data
      BY Zenon, <1>2, <1>t, <2>2, FlushData DEF CommitFlush
    <3>2. QED
      BY Zenon, <1>d, <3>1 DEF DirtyCommitted, Resident
  <2>3. QED
    BY Zenon, <2>1, <2>2
<1>3. ASSUME NEW x \in Tx PROVE Clean(source[x], x)'
  <2>1. ASSUME NEW t \in Tx,
             \/ Begin(t) \/ ReadPin(t) \/ ReadUnpin(t) \/ WriteExhausted(t)
             \/ \E r \in Row : MarkRow(t, r)
             \/ \E r \in Row, s \in Slot : WriteFinish(t, r, s)
        PROVE  source'[x] \in {source[x], Blank}
    <3>1. source' = source \/ source' = [source EXCEPT ![t] = Blank]
      BY Zenon, <2>1 DEF Begin, ReadPin, ReadUnpin, WriteExhausted, MarkRow, WriteFinish
    <3>2. QED
      BY Zenon, <1>t, <3>1
  <2>2. ASSUME NEW t \in Tx,
             \/ CommitStart(t) \/ CommitNoMerge(t) \/ CommitError(t) \/ CommitFlush(t)
             \/ CommitPublish(t) \/ CommitEvict(t) \/ Rollback(t) \/ Drop(t)
             \/ \E s \in Slot : CommitMerge(t, s)
        PROVE  source'[x] \in {source[x], Blank}
    BY Zenon, <1>t, <2>2 DEF CommitStart, CommitNoMerge, CommitError, CommitPublish,
                CommitFlush, CommitEvict, Rollback, Drop, CommitMerge
  <2>3. ASSUME \/ VacuumScan \/ VacuumDrop \/ UNCHANGED vars \/ CheckpointFlush
               \/ \E s \in Slot : Evict(s)
        PROVE  source'[x] \in {source[x], Blank}
    BY Zenon, <2>3 DEF VacuumScan, VacuumDrop, vars, CheckpointFlush, Evict
  <2>4. ASSUME NEW t \in Tx, NEW r \in Row, WriteStart(t, r)
        PROVE  source'[x] = source[x] \/ source'[x] = Latest
    BY Zenon, <1>t, <2>4 DEF WriteStart
  <2>5. ASSUME NEW t \in Tx, CommitRead(t)
        PROVE  source'[x] = source[x] \/ \A r \in Row : source'[x][r] \in {x, Latest[r]}
    BY Zenon, <1>t, <2>5 DEF CommitRead, Merged
  <2>6. ASSUME \A r \in Row : source'[x][r] \in {x, Latest[r]} PROVE Clean(source[x], x)'
    BY Zenon, <1>t, <1>l, <2>6 DEF Clean, Done
  <2>7. ASSUME source'[x] = Latest PROVE \A r \in Row : source'[x][r] \in {x, Latest[r]}
    BY Zenon, <2>7
  <2>8. ASSUME source'[x] = source[x] PROVE Clean(source[x], x)'
    BY Zenon, <1>s, <2>8
  <2>9. QED
    BY Zenon, <1>s, <2>1, <2>2, <2>3, <2>4, <2>5, <2>6, <2>7, <2>8 DEF Next
<1>4. ASSUME NEW u \in Slot, slots'[u].used PROVE Clean(slots[u].data, slots[u].mark)'
  <2>o. ASSUME slots'[u] = slots[u] PROVE Clean(slots[u].data, slots[u].mark)'
    BY Zenon, <1>4, <1>f, <2>o DEF Origin
  <2>1. ASSUME NEW t \in Tx,
             \/ Begin(t) \/ ReadUnpin(t) \/ WriteExhausted(t) \/ CommitStart(t)
             \/ CommitRead(t) \/ CommitNoMerge(t) \/ CommitError(t)
             \/ \E r \in Row : MarkRow(t, r) \/ WriteStart(t, r)
        PROVE  slots' = slots
    BY Zenon, <2>1 DEF Begin, ReadUnpin, WriteExhausted, CommitStart, CommitRead, CommitNoMerge,
                CommitError, MarkRow, WriteStart
  <2>2. ASSUME VacuumScan \/ UNCHANGED vars PROVE slots' = slots
    BY Zenon, <2>2 DEF VacuumScan, vars
  <2>3. ASSUME NEW t \in Tx, CommitFlush(t) PROVE Origin(u)
    <3>1. slots' = [s \in Slot |-> IF s \in DirtyCommitted THEN [slots[s] EXCEPT !.dirty = FALSE]
                                   ELSE slots[s]]
      BY Zenon, <2>3 DEF CommitFlush
    <3>2. QED
      BY Zenon, <1>t, <3>1 DEF Origin, Frame
  <2>4. ASSUME NEW t \in Tx, CommitEvict(t) PROVE Origin(u)
    <3>1. slots'[u] \in {slots[u], Empty}
      BY Zenon, <2>4 DEF CommitEvict
    <3>2. QED
      BY <3>1 DEF Origin, Empty
  <2>5. ASSUME NEW t \in Tx, Rollback(t) \/ Drop(t) PROVE Origin(u)
    <3>1. slots'[u] \in {slots[u], Empty}
      BY Zenon, <2>5 DEF Rollback, Drop, Discard
    <3>2. QED
      BY <3>1 DEF Origin, Empty
  <2>6. ASSUME NEW s \in Slot, Evict(s) PROVE Origin(u)
    BY Zenon, <1>t, <2>6 DEF Evict, Origin, Empty
  <2>7. ASSUME CheckpointFlush PROVE Origin(u)
    BY Zenon, <1>t, <2>7 DEF CheckpointFlush, Origin, Frame
  <2>8. ASSUME VacuumDrop PROVE Origin(u)
    BY Zenon, <2>8 DEF VacuumDrop, Origin, Empty
  <2>9. ASSUME NEW t \in Tx, ReadPin(t) PROVE Clean(slots[u].data, slots[u].mark)'
    <3>1. CASE slots'[u] = slots[u]
      BY Zenon, <2>o, <3>1
    <3>2. CASE slots'[u] # slots[u]
      <4>1. slots'[u] = Loaded /\ disk' = disk
        BY Zenon, <1>t, <2>9, <3>2 DEF ReadPin
      <4>2. slots'[u].data = disk' /\ slots'[u].mark = NoTx
        BY Zenon, <4>1 DEF Loaded, Empty
      <4>3. QED
        BY Zenon, <1>d, <4>1, <4>2 DEF Clean
    <3>3. QED
      BY Zenon, <3>1, <3>2
  <2>10. ASSUME NEW t \in Tx, NEW r \in Row, NEW s \in Slot, WriteFinish(t, r, s)
         PROVE  Clean(slots[u].data, slots[u].mark)'
    <3>1. CASE u # s
      BY Zenon, <1>t, <2>o, <2>10, <3>1 DEF WriteFinish
    <3>2. CASE u = s
      <4>1. slots'[u].mark = t /\ slots'[u].data = [FrameData(t, s) EXCEPT ![r] = t]
        BY Zenon, <1>t, <2>10, <3>2 DEF WriteFinish
      <4>2. FrameData(t, s) \in Data /\ Clean(FrameData(t, s), t)
        BY Zenon, <1>t, <2>10 DEF FrameData, OwnFrames, CleanInv, Frame
      <4>3. \A q \in Row : \/ slots'[u].data[q] \in {t, NoTx}
                           \/ slots'[u].data[q] \in Tx /\ Done(slots'[u].data[q])
        BY Zenon, <4>1, <4>2 DEF Clean, Data
      <4>4. QED
        BY Zenon, <1>t, <4>1, <4>3 DEF Clean, Done
    <3>3. QED
      BY Zenon, <3>1, <3>2
  <2>11. ASSUME NEW t \in Tx, NEW s \in Slot, CommitMerge(t, s)
         PROVE  Clean(slots[u].data, slots[u].mark)'
    <3>1. CASE u # s
      BY Zenon, <1>t, <2>o, <2>11, <3>1 DEF CommitMerge
    <3>2. CASE u = s
      <4>1. slots'[u].mark = t /\ slots'[u].data = source[t]
        BY Zenon, <1>t, <2>11, <3>2 DEF CommitMerge
      <4>2. \A q \in Row : \/ slots'[u].data[q] \in {t, NoTx}
                           \/ slots'[u].data[q] \in Tx /\ Done(slots'[u].data[q])
        BY <1>t, <4>1 DEF CleanInv, Clean, Data
      <4>3. QED
        BY Zenon, <1>t, <4>1, <4>2 DEF Clean, Done
    <3>3. QED
      BY Zenon, <3>1, <3>2
  <2>12. ASSUME NEW t \in Tx, CommitPublish(t) PROVE Clean(slots[u].data, slots[u].mark)'
    <3>1. CASE u \notin OwnFrames(t)
      BY Zenon, <2>o, <2>12, <3>1 DEF CommitPublish
    <3>2. CASE u \in OwnFrames(t)
      <4>1. slots'[u].mark = NoTx /\ slots'[u].data = slots[u].data /\ pc'[t] = "published"
        BY Zenon, <1>t, <2>12, <3>2 DEF CommitPublish, Frame
      <4>2. \A q \in Row : \/ slots'[u].data[q] \in {t, NoTx}
                           \/ slots'[u].data[q] \in Tx /\ Done(slots'[u].data[q])
        <5>1. slots[u].data \in Data /\ Clean(slots[u].data, t)
          BY Zenon, <1>t, <3>2 DEF CleanInv, OwnFrames, Resident, Frame
        <5>2. QED
          BY Zenon, <4>1, <5>1 DEF Clean, Data
      <4>3. QED
        BY Zenon, <1>t, <4>1, <4>2 DEF Clean, Done
    <3>3. QED
      BY Zenon, <3>1, <3>2
  <2>13. QED
    BY Zenon, <1>4, <1>f, <2>o, <2>1, <2>2, <2>3, <2>4, <2>5, <2>6, <2>7, <2>8, <2>9, <2>10,
       <2>11, <2>12
    DEF Next
<1>5. QED
  BY Zenon, <1>1, <1>2, <1>3, <1>4, TypesStep DEF CleanInv, Resident

\* The invariant says what the property does.
LEMMA CleanImplies ==
  ASSUME CleanInv
  PROVE  NoUncommittedData
BY Zenon, Constants DEF CleanInv, NoUncommittedData, Clean, Done, Committed

LEMMA InitClean ==
  ASSUME Init
  PROVE  CleanInv
BY Zenon, InitOwn DEF Init, OwnInv, CleanInv, Clean, Resident, Empty, Blank

-----------------------------------------------------------------------------
(* The theorems *)

\* The page's versions keep their types (TypeOK), with any number of transactions,
\* rows, slots and commits.
THEOREM TypesKept == Spec => []TypeOK
<1>1. Init => OwnInv
  BY Zenon, InitOwn
<1>2. OwnInv /\ [Next]_vars => OwnInv'
  BY Zenon, OwnStep
<1>3. OwnInv => TypeOK
  BY Zenon DEF OwnInv, Types
<1>4. QED
  BY <1>1, <1>2, <1>3, PTL DEF Spec

\* A transaction reads its own writes until it ends (OwnWritesReadable): neither
\* eviction nor the vacuum thread nor another commit takes its private frame.
THEOREM OwnWritesKept == Spec => []OwnWritesReadable
<1>1. Init => OwnInv
  BY Zenon, InitOwn
<1>2. OwnInv /\ [Next]_vars => OwnInv'
  BY Zenon, OwnStep
<1>3. OwnInv => OwnWritesReadable
  BY Zenon, OwnReadable
<1>4. QED
  BY <1>1, <1>2, <1>3, PTL DEF Spec

\* The data file and the committed frames hold only values of transactions that
\* published (NoUncommittedData).
THEOREM PrivateUntilPublished == Spec => []NoUncommittedData
<1>1. Init => OwnInv /\ CleanInv
  BY Zenon, InitOwn, InitClean
<1>2. OwnInv /\ CleanInv /\ [Next]_vars => OwnInv' /\ CleanInv'
  BY Zenon, OwnStep, CleanStep
<1>3. CleanInv => NoUncommittedData
  BY Zenon, CleanImplies
<1>4. QED
  BY <1>1, <1>2, <1>3, PTL DEF Spec
-----------------------------------------------------------------------------
(* The newest committed version *)

\* How a transaction moves through its commit.
PhaseStep(x) ==
  /\ pc'[x] = "stamped" => pc[x] = "stamped" \/ CommitStart(x)
  /\ pc'[x] = "merging" => (pc[x] = "merging" /\ source'[x] = source[x]) \/ CommitRead(x)
  /\ pc'[x] = "merged" => \/ pc[x] = "merged" \/ CommitNoMerge(x)
                          \/ \E s \in Slot : CommitMerge(x, s)
  /\ pc'[x] = "published" => pc[x] = "published" \/ CommitPublish(x)
  /\ pc'[x] = "flushed" => pc[x] = "flushed" \/ CommitFlush(x)
  /\ pc[x] \in {"published", "flushed"} => pc'[x] \in {"published", "flushed"} \/ CommitEvict(x)
  /\ InCommit(x) \/ InCommit(x)' => mods'[x] = mods[x]
  /\ InCommit(x) => commit_ts'[x] = commit_ts[x]

LEMMA Phases ==
  ASSUME Types, [Next]_vars, NEW x \in Tx
  PROVE  PhaseStep(x)
<1> USE DEF poolVars, txVars
<1>t. /\ pc \in [Tx -> PC] /\ mods \in [Tx -> SUBSET Row] /\ source \in [Tx -> Data]
      /\ commit_ts \in [Tx -> 0..MaxTs]
  BY Zenon DEF Types, TypeOK
<1> DEFINE Still == /\ pc'[x] = pc[x] /\ mods'[x] = mods[x] /\ source'[x] = source[x]
                    /\ commit_ts'[x] = commit_ts[x]
<1>1. CASE Still
  BY Zenon, <1>1 DEF PhaseStep, InCommit
<1>2. ASSUME NEW t \in Tx \ {x},
             \/ Begin(t) \/ ReadPin(t) \/ ReadUnpin(t) \/ WriteExhausted(t)
             \/ \E r \in Row : MarkRow(t, r) \/ WriteStart(t, r)
             \/ \E r \in Row, s \in Slot : WriteFinish(t, r, s)
      PROVE  Still
  BY ZenonT(30), <1>t, <1>2 DEF Begin, ReadPin, ReadUnpin, WriteExhausted, MarkRow,
     WriteStart, WriteFinish
<1>3. ASSUME NEW t \in Tx \ {x},
             \/ CommitStart(t) \/ CommitRead(t) \/ CommitNoMerge(t) \/ CommitError(t)
             \/ CommitPublish(t) \/ CommitFlush(t) \/ CommitEvict(t) \/ Rollback(t) \/ Drop(t)
             \/ \E s \in Slot : CommitMerge(t, s)
      PROVE  Still
  BY Zenon, <1>t, <1>3 DEF CommitStart, CommitRead, CommitNoMerge, CommitError, CommitPublish,
                CommitFlush, CommitEvict, Rollback, Drop, CommitMerge
<1>4. ASSUME \/ CheckpointFlush \/ VacuumScan \/ VacuumDrop \/ UNCHANGED vars
              \/ \E s \in Slot : Evict(s)
      PROVE  Still
  BY Zenon, <1>4 DEF CheckpointFlush, VacuumScan, VacuumDrop, Evict, vars
<1>5. ASSUME \/ Begin(x) \/ ReadPin(x) \/ ReadUnpin(x) \/ WriteExhausted(x) \/ CommitError(x)
             \/ \E r \in Row : MarkRow(x, r) \/ WriteStart(x, r)
             \/ Rollback(x) \/ Drop(x)
      PROVE  /\ pc[x] \notin {"published", "flushed"} /\ mods'[x] = mods[x]
             /\ pc'[x] \notin {"stamped", "merging", "merged", "published", "flushed"}
             /\ commit_ts'[x] = commit_ts[x]
  BY Zenon, <1>t, <1>5 DEF Begin, ReadPin, ReadUnpin, WriteExhausted, MarkRow, WriteStart,
     Rollback,
                    Drop, CommitError
<1>6. ASSUME NEW r \in Row, NEW s \in Slot, WriteFinish(x, r, s) PROVE PhaseStep(x)
  <2>1. pc[x] = "writing" /\ pc'[x] \in {"running", "failed"}
    BY Zenon, <1>t, <1>6 DEF WriteFinish
  <2>2. QED
    BY Zenon, <2>1 DEF PhaseStep, InCommit
<1>7. CASE CommitStart(x)
  BY Zenon, <1>t, <1>7 DEF CommitStart, PhaseStep, InCommit
<1>8. CASE CommitRead(x)
  BY Zenon, <1>t, <1>8 DEF CommitRead, PhaseStep, InCommit
<1>9. CASE CommitNoMerge(x)
  BY Zenon, <1>t, <1>9 DEF CommitNoMerge, PhaseStep, InCommit
<1>10. ASSUME NEW s \in Slot, CommitMerge(x, s) PROVE PhaseStep(x)
  <2>1. pc[x] = "merging" /\ pc'[x] = "merged" /\ mods' = mods /\ commit_ts' = commit_ts
    BY Zenon, <1>t, <1>10 DEF CommitMerge
  <2>2. QED
    BY Zenon, <1>10, <2>1 DEF PhaseStep, InCommit
<1>11. CASE CommitPublish(x)
  <2>1. pc[x] = "merged" /\ pc'[x] = "published" /\ mods' = mods /\ commit_ts' = commit_ts
    BY Zenon, <1>t, <1>11 DEF CommitPublish
  <2>2. QED
    BY Zenon, <1>11, <2>1 DEF PhaseStep, InCommit
<1>12. CASE CommitFlush(x)
  <2>1. pc[x] = "published" /\ pc'[x] = "flushed" /\ mods' = mods /\ commit_ts' = commit_ts
    BY Zenon, <1>t, <1>12 DEF CommitFlush
  <2>2. QED
    BY Zenon, <1>12, <2>1 DEF PhaseStep, InCommit
<1>13. CASE CommitEvict(x)
  <2>1. pc[x] = "flushed" /\ pc'[x] = "committed" /\ mods' = mods /\ commit_ts' = commit_ts
    BY Zenon, <1>t, <1>13 DEF CommitEvict
  <2>2. QED
    BY Zenon, <1>13, <2>1 DEF PhaseStep, InCommit
<1>14. ASSUME pc[x] \notin {"published", "flushed"}, mods'[x] = mods[x],
              pc'[x] \notin {"stamped", "merging", "merged", "published", "flushed"},
              commit_ts'[x] = commit_ts[x]
       PROVE  PhaseStep(x)
  BY Zenon, <1>14 DEF PhaseStep, InCommit
<1> QED
  BY Zenon, <1>1, <1>2, <1>3, <1>4, <1>5, <1>6, <1>7, <1>8, <1>9, <1>10, <1>11, <1>12, <1>13,
     <1>14 DEF Next

\* What one step does to the shared counters and the history.
LEMMA Shared ==
  ASSUME [Next]_vars
  PROVE  /\ truth' = truth \/ \E t \in Tx : CommitPublish(t)
         /\ \/ UNCHANGED <<current_ts, commit_lock>>
            \/ \E t \in Tx : CommitStart(t)
            \/ \E t \in Tx : (CommitError(t) \/ CommitEvict(t)) /\ current_ts' = current_ts
         /\ Sound' => Sound
<1> USE DEF tsVars, histVars
<1>1. ASSUME NEW t \in Tx,
             \/ Begin(t) \/ ReadPin(t) \/ ReadUnpin(t) \/ WriteExhausted(t)
             \/ \E r \in Row : MarkRow(t, r) \/ WriteStart(t, r)
             \/ \E r \in Row, s \in Slot : WriteFinish(t, r, s)
      PROVE  UNCHANGED <<current_ts, commit_lock, truth, stranded, spoiled>>
  BY Zenon, <1>1 DEF Begin, ReadPin, ReadUnpin, WriteExhausted, MarkRow, WriteStart, WriteFinish
<1>2. ASSUME NEW t \in Tx,
             \/ CommitRead(t) \/ CommitNoMerge(t) \/ CommitFlush(t) \/ Rollback(t) \/ Drop(t)
             \/ \E s \in Slot : CommitMerge(t, s)
      PROVE  UNCHANGED <<current_ts, commit_lock, truth, stranded, spoiled>>
  BY Zenon, <1>2 DEF CommitRead, CommitNoMerge, CommitFlush, Rollback, Drop, CommitMerge
<1>3. ASSUME \/ CheckpointFlush \/ VacuumScan \/ VacuumDrop \/ UNCHANGED vars
             \/ \E s \in Slot : Evict(s)
      PROVE  UNCHANGED <<current_ts, commit_lock, truth, stranded, spoiled>>
  BY Zenon, <1>3 DEF CheckpointFlush, VacuumScan, VacuumDrop, Evict, vars
<1>4. ASSUME NEW t \in Tx, CommitStart(t) PROVE UNCHANGED <<truth, stranded, spoiled>>
  BY Zenon, <1>4 DEF CommitStart
<1>5. ASSUME NEW t \in Tx, CommitError(t) PROVE UNCHANGED <<current_ts, truth, stranded, spoiled>>
  BY Zenon, <1>5 DEF CommitError
<1>6. ASSUME NEW t \in Tx, CommitPublish(t)
      PROVE  UNCHANGED <<current_ts, commit_lock, stranded>> /\ (spoiled => spoiled')
  BY Zenon, <1>6 DEF CommitPublish
<1>7. ASSUME NEW t \in Tx, CommitEvict(t)
      PROVE  UNCHANGED <<current_ts, truth, spoiled>> /\ (stranded => stranded')
  BY Zenon, <1>7 DEF CommitEvict
<1> QED
  BY SMTT(30), <1>1, <1>2, <1>3, <1>4, <1>5, <1>6, <1>7 DEF Next, Sound

\* The data file gets the committed frames.
Flushes == CheckpointFlush \/ \E t \in Tx : CommitFlush(t)

\* Where a committed frame comes from: it was one before, it has been loaded, or
\* it has been published.
Stays(s) ==
  /\ Committed(s)
  /\ slots'[s].data = slots[s].data /\ slots'[s].version = slots[s].version
  /\ slots'[s].dirty => slots[s].dirty
  /\ slots[s].dirty => slots'[s].dirty \/ Flushes

Loads(s) ==
  /\ s \notin Resident /\ slots'[s].data = disk /\ slots'[s].version = 0 /\ ~slots'[s].dirty

Publishes(s, t) ==
  /\ CommitPublish(t) /\ s \in OwnFrames(t)
  /\ slots'[s].data = slots[s].data /\ slots'[s].version = commit_ts[t]
  /\ slots'[s].dirty = slots[s].dirty

LEMMA CommittedFrom ==
  ASSUME OwnInv, [Next]_vars, NEW s \in Slot, Committed(s)'
  PROVE  \/ Stays(s)
         \/ Loads(s) /\ \E t \in Tx : ReadPin(t)
         \/ \E t \in Tx : Publishes(s, t)
<1> USE DEF poolVars
<1>t. /\ Types /\ slots \in [Slot -> Frame] /\ slots'[s].used /\ slots'[s].mark = NoTx
      /\ \A x \in Tx : x # NoTx
  BY Zenon, Constants DEF OwnInv, Types, TypeOK, Committed, Resident
<1>1. ASSUME slots'[s] = slots[s] PROVE Stays(s)
  BY Zenon, <1>t, <1>1 DEF Stays, Committed, Resident
<1>2. ASSUME NEW t \in Tx,
             \/ Begin(t) \/ ReadUnpin(t) \/ WriteExhausted(t) \/ CommitStart(t)
             \/ CommitRead(t) \/ CommitNoMerge(t) \/ CommitError(t)
             \/ \E r \in Row : MarkRow(t, r) \/ WriteStart(t, r)
      PROVE  slots' = slots
  BY Zenon, <1>2 DEF Begin, ReadUnpin, WriteExhausted, CommitStart, CommitRead, CommitNoMerge,
              CommitError, MarkRow, WriteStart
<1>3. ASSUME VacuumScan \/ UNCHANGED vars PROVE slots' = slots
  BY Zenon, <1>3 DEF VacuumScan, vars
<1>4. ASSUME NEW t \in Tx, ReadPin(t), slots'[s] # slots[s] PROVE Loads(s)
  <2>1. PICK u \in Slot \ Resident : slots' = [slots EXCEPT ![u] = Loaded]
    BY Zenon, <1>4 DEF ReadPin
  <2>2. s = u /\ slots'[s] = Loaded
    BY Zenon, <1>t, <1>4, <2>1
  <2>3. QED
    BY Zenon, <2>1, <2>2 DEF Loads, Loaded, Empty
<1>5. ASSUME NEW t \in Tx, NEW r \in Row, NEW u \in Slot, WriteFinish(t, r, u) PROVE slots'[s] = slots[s]
  BY Zenon, <1>t, <1>5 DEF WriteFinish
<1>6. ASSUME NEW t \in Tx, NEW u \in Slot, CommitMerge(t, u) PROVE slots'[s] = slots[s]
  BY Zenon, <1>t, <1>6 DEF CommitMerge
<1>7. ASSUME NEW t \in Tx, CommitPublish(t), slots'[s] # slots[s] PROVE Publishes(s, t)
  <2>1. slots' = [u \in Slot |-> IF u \in OwnFrames(t)
                                 THEN [slots[u] EXCEPT !.mark = NoTx, !.version = commit_ts[t]]
                                 ELSE slots[u]]
    BY Zenon, <1>7 DEF CommitPublish
  <2>2. s \in OwnFrames(t) /\ slots'[s] = [slots[s] EXCEPT !.mark = NoTx, !.version = commit_ts[t]]
    BY Zenon, <1>7, <2>1
  <2>3. slots[s] \in Frame
    BY Zenon, <1>t
  <2>4. QED
    BY Zenon, <1>7, <2>2, <2>3 DEF Publishes, Frame
<1>8. ASSUME NEW t \in Tx, CommitFlush(t) PROVE Stays(s)
  BY ZenonT(30), <1>t, <1>8 DEF CommitFlush, Flushes, Stays, Committed, Resident, Frame
<1>9. ASSUME CheckpointFlush PROVE Stays(s)
  BY <1>t, <1>9 DEF CheckpointFlush, Flushes, Stays, Committed, Resident, Frame
<1>10. ASSUME NEW t \in Tx, CommitEvict(t) PROVE slots'[s] = slots[s]
  BY <1>t, <1>10 DEF CommitEvict, Empty
<1>11. ASSUME NEW t \in Tx, Rollback(t) \/ Drop(t) PROVE slots'[s] = slots[s]
  BY <1>t, <1>11 DEF Rollback, Drop, Discard, Empty
<1>12. ASSUME NEW u \in Slot, Evict(u) PROVE slots'[s] = slots[s]
  BY <1>t, <1>12 DEF Evict, Empty
<1>13. ASSUME VacuumDrop PROVE slots'[s] = slots[s]
  BY <1>t, <1>13 DEF VacuumDrop, Empty
<1> QED
  BY Zenon, <1>1, <1>2, <1>3, <1>4, <1>5, <1>6, <1>7, <1>8, <1>9, <1>10, <1>11, <1>12,
     <1>13 DEF Next

\* The commit mutex and the clock.
LEMMA ClockStep ==
  ASSUME OwnInv, Clock, [Next]_vars
  PROVE  Clock'
<1>t. Types /\ current_ts \in Nat /\ current_ts >= 1 /\ \A t \in Tx : PhaseStep(t) /\ t # NoTx
  BY Phases, Constants DEF OwnInv, Types, TypeOK
<1>1. ASSUME NEW x \in Tx, CommitStart(x)
      PROVE  /\ commit_lock = NoTx /\ commit_lock' = x /\ current_ts' = current_ts + 1
             /\ commit_ts'[x] = current_ts'
  BY Zenon, <1>1, <1>t DEF CommitStart, Types, TypeOK
<1>2. ASSUME NEW t \in Tx, CommitError(t) \/ CommitEvict(t) PROVE InCommit(t) /\ ~InCommit(t)'
  BY Zenon, <1>2, <1>t DEF CommitError, CommitEvict, InCommit, Types
<1>3. ASSUME NEW x \in Tx, InCommit(x)' PROVE InCommit(x) \/ CommitStart(x)
  <2>1. \/ CommitRead(x) \/ CommitNoMerge(x) \/ CommitPublish(x) \/ CommitFlush(x)
        \/ \E s \in Slot : CommitMerge(x, s)
        => InCommit(x)
    BY Zenon DEF CommitRead, CommitNoMerge, CommitPublish, CommitFlush, CommitMerge, InCommit
  <2>2. PhaseStep(x)
    BY Zenon, <1>t
  <2>3. QED
    BY Zenon, <1>3, <2>1, <2>2 DEF PhaseStep, InCommit
<1>4. ASSUME NEW x \in Tx, InCommit(x)' PROVE commit_lock' = x /\ commit_ts'[x] = current_ts'
  <2>1. CASE CommitStart(x)
    BY Zenon, <1>1, <2>1
  <2>2. CASE InCommit(x)
    <3>1. commit_lock = x /\ commit_ts[x] = current_ts /\ commit_ts'[x] = commit_ts[x]
      BY Zenon, <1>t, <2>2 DEF Clock, PhaseStep
    <3>2. ~\E t \in Tx : CommitStart(t)
      BY Zenon, <1>1, <1>t, <3>1
    <3>3. ~\E t \in Tx : CommitError(t) \/ CommitEvict(t)
      BY Zenon, <1>2, <1>4, <2>2 DEF Clock
    <3>4. QED
      BY Zenon, <3>1, <3>2, <3>3, Shared
  <2>3. QED
    BY Zenon, <1>3, <1>4, <2>1, <2>2
<1>5. current_ts' \in Nat /\ current_ts' >= current_ts /\ (\/ current_ts' = current_ts
                                    \/ \E t \in Tx : CommitStart(t) /\ current_ts' = current_ts + 1)
  BY <1>1, <1>t, Shared
<1>6. ASSUME NEW s \in Slot, Committed(s)'
      PROVE  /\ slots'[s].version <= current_ts'
             /\ \A t \in Tx : pc'[t] \in {"stamped", "merging", "merged"} =>
                  slots'[s].version < current_ts'
  <2>1. CASE Stays(s)
    <3>1. slots'[s].version \in Nat /\ slots'[s].version <= current_ts /\ Committed(s)
      BY <1>6, <2>1, <1>t, Constants DEF Clock, Stays, Committed, Types, TypeOK, Frame
    <3>2. ASSUME NEW t \in Tx, pc'[t] \in {"stamped", "merging", "merged"}
          PROVE  slots'[s].version < current_ts'
      <4>1. CASE InCommit(t)
        <5>1. pc[t] \in {"stamped", "merging", "merged"}
          BY Zenon, <1>t, <1>2, <3>2, <4>1 DEF PhaseStep, InCommit
        <5>2. slots[s].version < current_ts
          BY Zenon, <3>1, <5>1 DEF Clock, Committed
        <5>3. QED
          BY <1>5, <1>t, <2>1, <3>1, <5>2 DEF Stays
      <4>2. CASE CommitStart(t)
        BY <1>1, <1>t, <3>1, <4>2
      <4>3. QED
        BY Zenon, <1>3, <3>2, <4>1, <4>2 DEF InCommit
    <3>3. QED
      BY <1>5, <1>t, <3>1, <3>2
  <2>2. CASE Loads(s)
    BY <1>5, <1>t, <2>2 DEF Loads
  <2>3. ASSUME NEW t \in Tx, Publishes(s, t)
        PROVE  /\ slots'[s].version = current_ts' 
               /\ \A x \in Tx : pc'[x] \notin {"stamped", "merging", "merged"}
    <3>1. pc[t] = "merged" /\ pc'[t] = "published" /\ InCommit(t) /\ InCommit(t)' /\ commit_ts' = commit_ts
      BY Zenon, <1>t, <2>3 DEF Publishes, CommitPublish, InCommit, Types
    <3>2. \A x \in Tx : InCommit(x)' => x = t
      BY Zenon, <1>4, <3>1
    <3>3. slots'[s].version = current_ts'
      BY Zenon, <1>4, <2>3, <3>1 DEF Publishes
    <3>4. QED
      BY Zenon, <3>1, <3>2, <3>3 DEF InCommit
  <2>4. QED
    BY <1>5, <1>6, <2>1, <2>2, <2>3, CommittedFrom
<1> QED
  BY Zenon, <1>4, <1>6 DEF Clock, Committed, Resident

\* Only one transaction commits.
LEMMA OneCommitter ==
  ASSUME Clock, NEW t \in Tx, InCommit(t)
  PROVE  \A x \in Tx : InCommit(x) => x = t
BY Zenon DEF Clock

\* While nothing is settling, what commits merge into is the truth.
LEMMA SettledLatest ==
  ASSUME Settled, \A t \in Tx : ~Settling(t)
  PROVE  Latest = truth
<1>1. Newest({s \in Resident : Committed(s)}) \subseteq {s \in Resident : Committed(s)}
  BY Zenon DEF Newest
<1>2. QED
  BY Zenon, <1>1, LatestIs DEF Settled

\* A frame pinned by its settling committer stays.
LEMMA PinnedStays ==
  ASSUME OwnInv, Clock, [Next]_vars, NEW t \in Tx, Settling(t), ~CommitEvict(t),
         NEW s \in Slot, s \in pins[t], Committed(s)
  PROVE  s \in pins'[t] /\ Committed(s)'
<1> USE DEF poolVars
<1>t. /\ Types /\ slots \in [Slot -> Frame] /\ pins \in [Tx -> SUBSET Slot] /\ t # NoTx
      /\ slots[s].used /\ slots[s].mark = NoTx /\ Pinned(s)
      /\ pc[t] \in {"published", "flushed"} /\ InCommit(t)
      /\ \A x \in Tx : Own(x) /\ x # NoTx
  <2>1. Types /\ slots \in [Slot -> Frame] /\ pins \in [Tx -> SUBSET Slot]
    BY Zenon DEF OwnInv, Types, TypeOK
  <2>2. slots[s].used /\ slots[s].mark = NoTx /\ Pinned(s)
    BY Zenon DEF Committed, Resident, Pinned
  <2>3. pc[t] \in {"published", "flushed"} /\ InCommit(t)
    BY Zenon DEF Settling, InCommit
  <2>4. QED
    BY Zenon, <2>1, <2>2, <2>3, Constants DEF OwnInv
<1>o. \A x \in Tx : InCommit(x) => x = t
  BY Zenon, <1>t, OneCommitter
<1> DEFINE Kept == pins'[t] = pins[t] /\ slots'[s].used /\ slots'[s].mark = NoTx
<1>1. ASSUME NEW x \in Tx,
             \/ Begin(x) \/ ReadUnpin(x) \/ WriteExhausted(x) \/ CommitStart(x)
             \/ CommitRead(x) \/ CommitNoMerge(x) \/ CommitError(x)
             \/ \E r \in Row : MarkRow(x, r) \/ WriteStart(x, r)
      PROVE  Kept
  <2>1. slots' = slots /\ (pins' = pins \/ (x # t /\ pins' = [pins EXCEPT ![x] = {}]))
    BY Zenon, <1>t, <1>1 DEF Begin, ReadUnpin, WriteExhausted, CommitStart, CommitRead,
       CommitNoMerge,
                    CommitError, MarkRow, WriteStart
  <2>2. QED
    BY Zenon, <1>t, <2>1
<1>2. ASSUME VacuumScan \/ UNCHANGED vars PROVE Kept
  BY Zenon, <1>t, <1>2 DEF VacuumScan, vars
<1>3. ASSUME NEW x \in Tx, ReadPin(x) PROVE Kept
  BY Zenon, <1>t, <1>3 DEF ReadPin, Resident
<1>4. ASSUME NEW x \in Tx, NEW u \in Slot, u \in VersionSlots(x) PROVE s # u
  BY SMTT(30), <1>t, <1>4, VersionSlotIs
<1>5. ASSUME NEW x \in Tx, NEW r \in Row, NEW u \in Slot, WriteFinish(x, r, u) PROVE Kept
  BY Zenon, <1>t, <1>4, <1>5 DEF WriteFinish
<1>6. ASSUME NEW x \in Tx, NEW u \in Slot, CommitMerge(x, u) PROVE Kept
  BY Zenon, <1>t, <1>4, <1>6 DEF CommitMerge
<1>7. ASSUME NEW x \in Tx PROVE ~CommitPublish(x) /\ ~CommitEvict(x)
  BY ZenonT(30), <1>t, <1>o DEF CommitPublish, CommitEvict, InCommit
<1>8. ASSUME NEW x \in Tx, CommitFlush(x) PROVE Kept
  <2>1. /\ pins' = pins
        /\ slots' = [u \in Slot |-> IF u \in DirtyCommitted THEN [slots[u] EXCEPT !.dirty = FALSE]
                                    ELSE slots[u]]
    BY Zenon, <1>8 DEF CommitFlush
  <2>2. QED
    BY Zenon, <1>t, <2>1 DEF Frame
<1>9. ASSUME CheckpointFlush PROVE Kept
  <2>1. /\ pins' = pins
        /\ slots' = [u \in Slot |-> IF u \in DirtyCommitted THEN [slots[u] EXCEPT !.dirty = FALSE]
                                    ELSE slots[u]]
    BY Zenon, <1>9 DEF CheckpointFlush
  <2>2. QED
    BY Zenon, <1>t, <2>1 DEF Frame
<1>10. ASSUME NEW x \in Tx, Rollback(x) \/ Drop(x) PROVE Kept
  <2>1. Discard(x) /\ x # t
    BY Zenon, <1>t, <1>10 DEF Rollback, Drop
  <2>2. QED
    BY Zenon, <1>t, <2>1 DEF Discard, OwnFrames
<1>11. ASSUME NEW u \in Slot, Evict(u) PROVE Kept
  BY Zenon, <1>t, <1>11 DEF Evict, Evictable
<1>12. ASSUME VacuumDrop PROVE Kept
  BY Zenon, <1>t, <1>12 DEF VacuumDrop
<1>13. Kept
  BY Zenon, <1>1, <1>2, <1>3, <1>5, <1>6, <1>7, <1>8, <1>9, <1>10, <1>11, <1>12 DEF Next
<1> QED
  BY Zenon, <1>13 DEF Committed, Resident

\* What a step writes to the data file.
LEMMA DiskFrom ==
  ASSUME OwnInv, [Next]_vars
  PROVE  \/ disk' = disk /\ (Flushes => DirtyCommitted = {})
         \/ \E s \in DirtyCommitted : disk' = slots[s].data
<1> USE DEF poolVars
<1>t. Types
  BY Zenon DEF OwnInv
<1>1. ASSUME NEW t \in Tx,
             \/ Begin(t) \/ ReadPin(t) \/ ReadUnpin(t) \/ WriteExhausted(t)
             \/ \E r \in Row : MarkRow(t, r) \/ WriteStart(t, r)
             \/ \E r \in Row, s \in Slot : WriteFinish(t, r, s)
      PROVE  disk' = disk
  BY Zenon, <1>1 DEF Begin, ReadPin, ReadUnpin, WriteExhausted, MarkRow, WriteStart, WriteFinish
<1>2. ASSUME NEW t \in Tx,
             \/ CommitStart(t) \/ CommitRead(t) \/ CommitNoMerge(t) \/ CommitError(t)
             \/ CommitPublish(t) \/ CommitEvict(t) \/ Rollback(t) \/ Drop(t)
             \/ \E s \in Slot : CommitMerge(t, s)
      PROVE  disk' = disk
  BY Zenon, <1>2 DEF CommitStart, CommitRead, CommitNoMerge, CommitError, CommitPublish,
              CommitEvict, Rollback, Drop, CommitMerge
<1>3. ASSUME VacuumScan \/ VacuumDrop \/ UNCHANGED vars PROVE disk' = disk
  BY Zenon, <1>3 DEF VacuumScan, VacuumDrop, vars
<1>4. ASSUME NEW s \in Slot, Evict(s)
      PROVE  disk' = disk \/ (s \in DirtyCommitted /\ disk' = slots[s].data)
  BY Zenon, <1>4 DEF Evict, Evictable, DirtyCommitted
<1>5. ASSUME CheckpointFlush PROVE \E s \in DirtyCommitted : disk' = slots[s].data
  BY Zenon, <1>5 DEF CheckpointFlush
<1>6. ASSUME NEW t \in Tx, CommitFlush(t)
      PROVE  \/ DirtyCommitted = {} /\ disk' = disk
             \/ \E s \in DirtyCommitted : disk' = slots[s].data
  <2>1. CASE DirtyCommitted = {}
    BY Zenon, <1>6, <2>1 DEF CommitFlush
  <2>2. CASE DirtyCommitted # {}
    BY Zenon, <1>6, <1>t, <2>2, FlushData DEF CommitFlush
  <2>3. QED
    BY Zenon, <2>1, <2>2
<1>7. CASE Flushes
  BY Zenon, <1>5, <1>6, <1>7 DEF Flushes
<1> QED
  BY Zenon, <1>1, <1>2, <1>3, <1>4, <1>7 DEF Next, Flushes

\* Every copy stays the truth while nobody settles.
LEMMA SettledStep ==
  ASSUME NewestInv, [Next]_vars, Sound'
  PROVE  Settled'
<1> SUFFICES ASSUME \A t \in Tx : ~Settling(t)'
             PROVE  /\ disk' = truth'
                    /\ \A s \in Slot : Committed(s)' => slots'[s].data = truth' /\ ~slots'[s].dirty
  BY Zenon DEF Settled, Committed, Resident
<1>t. OwnInv /\ Types /\ Clock /\ Settled /\ Topped /\ \A t \in Tx : PhaseStep(t)
  BY Zenon, Shared, Phases DEF NewestInv, OwnInv
<1>1. CASE \A t \in Tx : ~Settling(t)
  <2>1. /\ disk = truth /\ DirtyCommitted = {}
        /\ \A s \in Slot : Committed(s) => slots[s].data = truth /\ ~slots[s].dirty
    BY Zenon, <1>1, <1>t DEF Settled, Committed, DirtyCommitted
  <2>2. disk' = disk
    BY Zenon, <1>t, <2>1, DiskFrom
  <2>3. ASSUME NEW t \in Tx, CommitPublish(t) PROVE OwnFrames(t) = {} /\ truth' = truth
    <3>1. mods[t] = {}
      <4>1. pc'[t] = "published" /\ mods' = mods
        BY Zenon, <1>t, <2>3 DEF CommitPublish, Types
      <4>2. QED
        BY Zenon, <4>1 DEF Settling
    <3>2. OwnFrames(t) = {}
      BY Zenon, <2>3, <3>1 DEF CommitPublish, Sound
    <3>3. QED
      BY Zenon, <1>t, <2>3, <3>1, <3>2 DEF CommitPublish, Types, TypeOK, Data
  <2>4. truth' = truth
    BY Zenon, <2>3, Shared
  <2>5. ASSUME NEW s \in Slot, Committed(s)' PROVE slots'[s].data = truth /\ ~slots'[s].dirty
    BY Zenon, <1>t, <2>1, <2>3, <2>5, CommittedFrom DEF Stays, Loads, Publishes
  <2>6. QED
    BY Zenon, <2>1, <2>2, <2>4, <2>5
<1>2. ASSUME NEW t \in Tx, Settling(t)
      PROVE  /\ disk' = truth'
             /\ \A s \in Slot : Committed(s)' => slots'[s].data = truth' /\ ~slots'[s].dirty
  <2>1. CommitEvict(t)
    <3>1. PhaseStep(t) /\ InCommit(t)
      BY Zenon, <1>t, <1>2 DEF Settling, InCommit
    <3>2. QED
      BY Zenon, <1>2, <3>1 DEF Settling, PhaseStep
  <2>2. PICK s \in Slot : Top(s, t)
    BY Zenon, <1>2, <1>t DEF Topped
  <2>3. pc[t] = "flushed" /\ disk' = disk /\ truth' = truth
    BY Zenon, <2>1 DEF CommitEvict
  <2>4. disk = truth
    BY Zenon, <2>2, <2>3 DEF Top
  <2>5. ASSUME NEW u \in Slot, Committed(u)' PROVE u = s /\ slots'[u] = slots[u]
    <3>1. slots'[u] = slots[u] /\ Committed(u)
      BY Zenon, <2>1, <2>5 DEF CommitEvict, Committed, Resident, Empty
    <3>2. ASSUME u # s PROVE FALSE
      <4>1. u \in Resident /\ slots[u].version < commit_ts[t]
        BY Zenon, <2>2, <3>1, <3>2 DEF Top, Committed
      <4>2. slots'[u] = Empty
        BY Zenon, <2>1, <3>1, <4>1 DEF CommitEvict, Sound
      <4>3. QED
        BY <2>5, <4>2 DEF Committed, Resident, Empty
    <3>3. QED
      BY Zenon, <3>1, <3>2
  <2>6. QED
    BY Zenon, <2>2, <2>3, <2>4, <2>5 DEF Top
<1> QED
  BY Zenon, <1>1, <1>2

\* A committer's page stays the truth with its own rows.
LEMMA PreparedStep ==
  ASSUME NewestInv, [Next]_vars, Sound'
  PROVE  Prepared'
<1> SUFFICES ASSUME NEW t \in Tx
             PROVE  /\ pc'[t] = "merging" => source'[t] = Target(t)'
                    /\ pc'[t] = "merged" /\ mods'[t] # {} =>
                         \A s \in OwnFrames(t)' : slots'[s].data = Target(t)' /\ slots'[s].dirty
  BY Zenon DEF Prepared
<1>t. /\ OwnInv /\ Types /\ Clock /\ Settled /\ Prepared /\ PhaseStep(t) /\ Own(t)
      /\ slots \in [Slot -> Frame] /\ source \in [Tx -> Data] /\ pc \in [Tx -> PC]
  BY Zenon, Shared, Phases DEF NewestInv, OwnInv, Types, TypeOK
<1>1. ASSUME InCommit(t), ~CommitPublish(t) PROVE truth' = truth
  <2>1. \A x \in Tx : CommitPublish(x) => InCommit(x)
    BY Zenon DEF CommitPublish, InCommit
  <2>2. QED
    BY Zenon, <1>t, <1>1, <2>1, OneCommitter, Shared
<1>2. ASSUME InCommit(t), truth' = truth PROVE Target(t)' = Target(t)
  BY Zenon, <1>t, <1>2 DEF Target, PhaseStep
<1>3. ASSUME pc'[t] = "merging" PROVE source'[t] = Target(t)'
  <2>1. CASE pc[t] = "merging" /\ source'[t] = source[t]
    <3>1. InCommit(t) /\ ~CommitPublish(t)
      BY Zenon, <2>1 DEF InCommit, CommitPublish
    <3>2. QED
      BY Zenon, <1>1, <1>2, <1>t, <2>1, <3>1 DEF Prepared
  <2>2. CASE CommitRead(t)
    <3>1. /\ InCommit(t) /\ ~CommitPublish(t) /\ ~Settling(t)
          /\ source'[t] = Merged(t)
      BY Zenon, <1>t, <2>2 DEF InCommit, CommitPublish, CommitRead, Settling
    <3>2. \A x \in Tx : ~Settling(x)
      BY Zenon, <1>t, <3>1, OneCommitter DEF Settling, InCommit
    <3>3. Merged(t) = Target(t)
      <4>1. Latest = truth
        BY Zenon, <1>t, <3>2, SettledLatest
      <4>2. QED
        BY Zenon, <4>1 DEF Merged, Target
    <3>4. QED
      BY Zenon, <1>1, <1>2, <3>1, <3>3
  <2>3. QED
    BY Zenon, <1>3, <1>t, <2>1, <2>2 DEF PhaseStep
<1>4. ASSUME pc'[t] = "merged", mods'[t] # {}
      PROVE  \A s \in OwnFrames(t)' : slots'[s].data = Target(t)' /\ slots'[s].dirty
  <2>1. CASE pc[t] = "merged"
    <3>1. InCommit(t) /\ mods'[t] = mods[t]
      BY Zenon, <1>t, <2>1 DEF InCommit, PhaseStep
    <3>2. /\ ~\E r \in Row, s \in Slot : WriteFinish(t, r, s)
          /\ ~\E s \in Slot : CommitMerge(t, s)
          /\ ~CommitPublish(t) /\ ~Rollback(t) /\ ~Drop(t)
      BY Zenon, <1>4, <1>t, <2>1 DEF WriteFinish, CommitMerge, CommitPublish, Rollback, Drop
    <3>3. SameFrames(t)
      BY Zenon, <1>t, <3>2, OthersFrames
    <3>4. \A s \in OwnFrames(t) : slots[s].data = Target(t) /\ slots[s].dirty
      BY Zenon, <1>4, <1>t, <2>1, <3>1 DEF Prepared
    <3>5. QED
      BY Zenon, <1>1, <1>2, <3>1, <3>2, <3>3, <3>4 DEF SameFrames
  <2>2. ASSUME NEW s \in Slot, CommitMerge(t, s)
        PROVE  \A u \in OwnFrames(t)' : slots'[u].data = Target(t)' /\ slots'[u].dirty
    <3>1. InCommit(t) /\ ~CommitPublish(t) /\ pc[t] = "merging" /\ s \in VersionSlots(t)
      BY Zenon, <2>2 DEF InCommit, CommitMerge, CommitPublish
    <3>2. OwnFrames(t) \subseteq {s}
      BY Zenon, <1>t, <3>1, VersionSlotIs
    <3>3. /\ slots'[s].data = source[t] /\ slots'[s].dirty
          /\ \A u \in Slot \ {s} : slots'[u] = slots[u]
      BY Zenon, <1>t, <2>2 DEF CommitMerge
    <3>4. OwnFrames(t)' \subseteq {s}
      BY Zenon, <3>2, <3>3 DEF OwnFrames, Resident
    <3>5. QED
      BY Zenon, <1>1, <1>2, <1>t, <3>1, <3>3, <3>4 DEF Prepared
  <2>3. CASE CommitNoMerge(t)
    BY Zenon, <1>4, <2>3 DEF CommitNoMerge
  <2>4. QED
    BY Zenon, <1>4, <1>t, <2>1, <2>2, <2>3 DEF PhaseStep
<1> QED
  BY Zenon, <1>3, <1>4

\* The frame just published stands above every other until its committer is done.
LEMMA ToppedStep ==
  ASSUME NewestInv, [Next]_vars, Sound'
  PROVE  Topped'
<1> SUFFICES ASSUME NEW t \in Tx, Settling(t)'
             PROVE  \E s \in Slot : Top(s, t)'
  BY Zenon DEF Topped
<1>t. /\ OwnInv /\ Types /\ Clock /\ Settled /\ Prepared /\ Topped /\ PhaseStep(t) /\ Own(t)
      /\ slots \in [Slot -> Frame] /\ pins \in [Tx -> SUBSET Slot] /\ pc \in [Tx -> PC]
  BY Zenon, Shared, Phases DEF NewestInv, OwnInv, Types, TypeOK
<1>1. CASE CommitPublish(t)
  <2>1. /\ pc[t] = "merged" /\ InCommit(t) /\ Private(t) /\ pc'[t] = "published"
        /\ mods' = mods /\ commit_ts' = commit_ts /\ disk' = disk
        /\ truth' = Target(t) /\ pins'[t] = OwnFrames(t) /\ mods[t] # {}
    BY Zenon, <1>1, <1>t DEF CommitPublish, InCommit, Private, InFlight, Target, Settling
  <2>2. PICK s \in OwnFrames(t) : TRUE
    BY Zenon, <1>t, <2>1 DEF Own
  <2>3. s \in Slot /\ slots[s].data = Target(t) /\ slots[s].dirty /\ OwnFrames(t) = {s}
    <3>1. s \in Slot
      BY Zenon, <2>2 DEF OwnFrames, Resident
    <3>2. slots[s].data = Target(t) /\ slots[s].dirty
      BY Zenon, <1>t, <2>1, <2>2 DEF Prepared
    <3>3. OwnFrames(t) = {s}
      BY Zenon, <1>t, <2>2 DEF Own
    <3>4. QED
      BY Zenon, <3>1, <3>2, <3>3
  <2>4. /\ slots'[s].used /\ slots'[s].mark = NoTx /\ slots'[s].version = commit_ts[t]
        /\ slots'[s].data = slots[s].data /\ slots'[s].dirty
    <3>1. slots' = [u \in Slot |-> IF u \in OwnFrames(t)
                                   THEN [slots[u] EXCEPT !.mark = NoTx, !.version = commit_ts[t]]
                                   ELSE slots[u]]
      BY Zenon, <1>1 DEF CommitPublish
    <3>2. slots'[s] = [slots[s] EXCEPT !.mark = NoTx, !.version = commit_ts[t]]
      BY Zenon, <2>3, <3>1
    <3>3. slots[s] \in Frame /\ slots[s].used
      BY Zenon, <1>t, <2>2, <2>3 DEF OwnFrames, Resident
    <3>4. QED
      BY ZenonT(30), <2>3, <3>2, <3>3 DEF Frame
  <2>5. \A x \in Tx : ~Settling(x)
    BY Zenon, <1>t, <2>1, OneCommitter DEF Settling, InCommit
  <2>6. commit_ts[t] = current_ts /\ current_ts \in Nat
    <3>1. commit_ts[t] = current_ts
      BY Zenon, <1>t, <2>1 DEF Clock
    <3>2. QED
      BY SMTT(30), <1>t, <3>1, Constants DEF Types, TypeOK
  <2>7. ASSUME NEW u \in Slot, Committed(u)', u # s
        PROVE  slots'[u].version < commit_ts[t] /\ ~slots'[u].dirty
    <3>1. slots'[u] = slots[u]
      BY Zenon, <1>1, <2>3, <2>7 DEF CommitPublish
    <3>2. Committed(u)
      BY Zenon, <2>7, <3>1 DEF Committed, Resident
    <3>3. QED
      BY Zenon, <1>t, <2>1, <2>5, <2>6, <3>1, <3>2 DEF Clock, Settled, Committed
  <2>8. Top(s, t)'
    BY Zenon, <2>1, <2>2, <2>3, <2>4, <2>7 DEF Top, Committed, Resident
  <2>9. QED
    BY Zenon, <2>3, <2>8
<1>2. CASE ~CommitPublish(t)
  <2>1. Settling(t) /\ InCommit(t) /\ ~CommitEvict(t)
    <3>1. pc'[t] \in {"published", "flushed"} /\ mods'[t] # {}
      BY Zenon DEF Settling
    <3>2. pc[t] \in {"published", "flushed"}
      BY Zenon, <1>2, <1>t, <3>1 DEF PhaseStep, CommitFlush
    <3>3. mods[t] # {} /\ InCommit(t)
      BY Zenon, <1>t, <3>1, <3>2 DEF PhaseStep, InCommit
    <3>4. ~CommitEvict(t)
      BY Zenon, <1>t, <3>1 DEF CommitEvict
    <3>5. QED
      BY Zenon, <3>2, <3>3, <3>4 DEF Settling
  <2>2. PICK s \in Slot : Top(s, t)
    BY Zenon, <1>t, <2>1 DEF Topped
  <2>3. \A x \in Tx : ~CommitPublish(x)
    BY Zenon, <1>t, <2>1, OneCommitter DEF CommitPublish, InCommit, Settling
  <2>4. truth' = truth /\ commit_ts'[t] = commit_ts[t] /\ commit_ts[t] \in 1..MaxTs
    BY Zenon, <1>t, <2>1, <2>3, Shared DEF PhaseStep, Types
  <2>5. s \in pins'[t] /\ Committed(s)'
    BY Zenon, <1>t, <2>1, <2>2, PinnedStays DEF Top
  <2>6. Stays(s)
    BY Zenon, <1>t, <2>2, <2>3, <2>5, CommittedFrom DEF Top, Loads, Committed, Publishes
  <2>7. ASSUME NEW u \in Slot, Committed(u)', u # s
        PROVE  slots'[u].version < commit_ts'[t] /\ ~slots'[u].dirty
    <3>1. Stays(u) \/ Loads(u)
      BY Zenon, <1>t, <2>3, <2>7, CommittedFrom DEF Publishes
    <3>2. CASE Stays(u)
      BY Zenon, <2>2, <2>4, <2>7, <3>2 DEF Stays, Top, Committed
    <3>3. CASE Loads(u)
      BY <2>4, <3>3, Constants DEF Loads
    <3>4. QED
      BY Zenon, <3>1, <3>2, <3>3
  <2>8. DirtyCommitted \subseteq {s}
    BY Zenon, <2>2 DEF DirtyCommitted, Top
  <2>9. slots'[s].dirty \/ disk' = truth'
    <3>1. slots[s].data = truth /\ (slots[s].dirty \/ disk = truth) /\ Committed(s)
      BY Zenon, <2>2 DEF Top
    <3>2. slots[s].dirty => s \in DirtyCommitted
      BY Zenon, <3>1 DEF DirtyCommitted, Committed
    <3>3. slots[s].dirty => slots'[s].dirty \/ Flushes
      BY Zenon, <2>6 DEF Stays
    <3>4. QED
      BY Zenon, <1>t, <2>4, <2>8, <3>1, <3>2, <3>3, DiskFrom
  <2>10. ASSUME pc'[t] = "flushed" PROVE ~slots'[s].dirty
    <3>1. CASE pc[t] = "flushed"
      BY Zenon, <2>2, <2>6, <3>1 DEF Top, Stays
    <3>2. CASE CommitFlush(t)
      BY Zenon, <1>t, <2>2, <3>2 DEF CommitFlush, DirtyCommitted, Top, Committed, Frame
    <3>3. QED
      BY Zenon, <1>t, <2>10, <3>1, <3>2 DEF PhaseStep
  <2>11. Top(s, t)'
    <3>1. slots'[s].version = commit_ts'[t] /\ slots'[s].data = truth'
      BY Zenon, <2>2, <2>4, <2>6 DEF Stays, Top
    <3>2. QED
      BY Zenon, <2>5, <2>7, <2>9, <2>10, <3>1 DEF Top, Committed, Resident
  <2>12. QED
    BY Zenon, <2>11
<1> QED
  BY Zenon, <1>1, <1>2

LEMMA NewestStep ==
  ASSUME NewestInv, [Next]_vars
  PROVE  NewestInv'
BY Zenon, OwnStep, ClockStep, SettledStep, PreparedStep, ToppedStep DEF NewestInv

LEMMA InitNewest ==
  ASSUME Init
  PROVE  NewestInv
<1>1. /\ \A s \in Slot : ~Committed(s)
      /\ \A t \in Tx : ~InCommit(t) /\ ~Settling(t) /\ pc[t] \notin {"merging", "merged"}
      /\ disk = truth
  BY Zenon DEF Init, Committed, Resident, Empty, InCommit, Settling
<1>2. Clock
  BY Zenon, <1>1 DEF Clock, InCommit, Resident
<1>3. Settled /\ Prepared /\ Topped
  BY Zenon, <1>1 DEF Settled, Prepared, Topped, Resident
<1> QED
  BY Zenon, <1>2, <1>3, InitOwn DEF NewestInv

\* The invariant says what the property does.
LEMMA NewestImplies ==
  ASSUME NewestInv
  PROVE  NewestSurvives
<1> SUFFICES ASSUME ~Publishing, Sound
             PROVE  disk = truth /\ Latest = truth
  BY Zenon DEF NewestSurvives, Sound
<1>t. Types /\ Settled /\ Topped
  BY Zenon DEF NewestInv, OwnInv
<1>1. CASE \A t \in Tx : ~Settling(t)
  BY Zenon, <1>1, <1>t, SettledLatest DEF Settled
<1>2. ASSUME NEW t \in Tx, Settling(t) PROVE disk = truth /\ Latest = truth
  <2>1. PICK s \in Slot : Top(s, t)
    BY Zenon, <1>2, <1>t DEF Topped
  <2>2. pc[t] = "flushed" /\ ~slots[s].dirty
    BY Zenon, <1>2, <2>1 DEF Settling, Publishing, Top
  <2>3. disk = truth /\ slots[s].data = truth
    BY Zenon, <2>1, <2>2 DEF Top
  <2> DEFINE C == {u \in Resident : Committed(u)}
  <2>4. s \in C /\ \A u \in C \ {s} : slots[u].version < slots[s].version
    BY Zenon, <2>1 DEF Top, Committed
  <2>5. \A u \in C : slots[u].version \in Nat
    BY <1>t, Constants DEF Types, TypeOK, Frame, Resident
  <2>6. Newest(C) = {s}
    BY <2>4, <2>5 DEF Newest
  <2>7. QED
    BY Zenon, <2>3, <2>6, LatestIs
<1> QED
  BY Zenon, <1>1, <1>2

\* Merge-on-commit loses nothing (NewestSurvives): whatever transactions, evictions,
\* checkpoints and the vacuum thread do, the data file and the version a later
\* commit merges into hold every committed row, but for the two ways to lose rows
\* the property sets apart.
THEOREM NewestKept == Spec => []NewestSurvives
<1>1. Init => NewestInv
  BY Zenon, InitNewest
<1>2. NewestInv /\ [Next]_vars => NewestInv'
  BY Zenon, NewestStep
<1>3. NewestInv => NewestSurvives
  BY Zenon, NewestImplies
<1>4. QED
  BY <1>1, <1>2, <1>3, PTL DEF Spec
=============================================================================

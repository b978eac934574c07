----------------------- MODULE TransactionManagerRows -----------------------
(***************************************************************************)
(* Every step of the transaction manager keeps the types and what IInv     *)
(* says of rows, for any number of transactions, rows and timestamps: the  *)
(* types whichever way transactions end, the rows provided commit does not *)
(* fail after publishing its rows.                                         *)
(***************************************************************************)
EXTENDS TransactionManagerInv, TLAPS

-----------------------------------------------------------------------------
(* Types and per-transaction bookkeeping *)

\* Transaction ids and timestamps are positive.
LEMMA Positive ==
  /\ \A t \in Tx : t \in Nat /\ t # 0
  /\ \A ts \in Ts : ts \in Nat /\ ts # 0
  /\ SnapshotTs \subseteq Ts
BY ConstantsAssumption DEF Tx, Ts

\* remove_read_ts keeps the counts natural numbers: it never goes below zero.
LEMMA RemoveReadTsType ==
  ASSUME NEW ts \in Ts, active_read_ts \in [Ts -> Nat], RemoveReadTs(ts)
  PROVE  active_read_ts' \in [Ts -> Nat]
<1>1. (IF active_read_ts[ts] > 0 THEN active_read_ts[ts] - 1 ELSE 0) \in Nat
  OBVIOUS
<1>2. QED
  BY Zenon, <1>1 DEF RemoveReadTs

\* What vacuum leaves of a history is a history with the same last commit, or
\* nothing when that commit is older than min_active.
LEMMA VacuumEntryType ==
  ASSUME NEW e \in CommittedVersion(Ts), NEW m \in Ts
  PROVE  /\ VacuumEntry(e, m) \in CommittedVersion(Ts)
         /\ \/ VacuumEntry(e, m).last_ts = e.last_ts
            \/ VacuumEntry(e, m) = NoEntry /\ e.last_ts < m
         /\ e = NoEntry => VacuumEntry(e, m) = NoEntry
<1>1. e.first_ts \in Nat /\ e.last_ts \in Nat /\ m \in Nat
  BY Positive DEF CommittedVersion, NoEntry
<1>2. CASE e.last_ts < m
  BY <1>1, <1>2 DEF VacuumEntry, CommittedVersion, NoEntry
<1>3. CASE e.last_ts >= m /\ e.first_ts < m
  <2>1. e \in [first_ts : Ts, last_ts : Ts]
    BY <1>1, <1>3, Positive DEF CommittedVersion, NoEntry
  <2>2. VacuumEntry(e, m) = [e EXCEPT !.first_ts = m]
    BY <1>1, <1>3 DEF VacuumEntry
  <2>3. QED
    BY <2>1, <2>2, Positive DEF CommittedVersion, NoEntry
<1>4. CASE e.last_ts >= m /\ e.first_ts >= m
  BY <1>1, <1>4, Positive DEF VacuumEntry, NoEntry
<1>5. QED
  BY <1>1, <1>2, <1>3, <1>4

\* What commit_row leaves of a history is a history that covers the commit.
LEMMA CommitRowEntryType ==
  ASSUME NEW e \in CommittedVersion(Ts), NEW c \in Ts
  PROVE  /\ CommitRowEntry(e, c) \in CommittedVersion(Ts)
         /\ CommitRowEntry(e, c) # NoEntry
         /\ c <= CommitRowEntry(e, c).last_ts
         /\ e.last_ts <= CommitRowEntry(e, c).last_ts
<1>1. e.first_ts \in Nat /\ e.last_ts \in Nat /\ c \in Nat \ {0}
  BY Positive DEF CommittedVersion, NoEntry
<1>2. CASE e = NoEntry
  BY <1>1, <1>2 DEF CommitRowEntry, CommittedVersion, NoEntry
<1>3. CASE e # NoEntry
  BY SMTT(30), <1>1, <1>3, Positive DEF CommitRowEntry, CommittedVersion, NoEntry
<1>4. QED
  BY Zenon, <1>2, <1>3

\* Every step keeps the type invariant and the bookkeeping, late errors of
\* commit included.
LEMMA TypeStep ==
  ASSUME TypeOK, Fields, [Next]_vars
  PROVE  TypeOK' /\ Fields'
<1> USE Positive DEF TypeOK, NoTx, tmVars, rvVars, txVars, vacVars, histVars
<1>1. ASSUME NEW t \in Tx, NEW ro \in BOOLEAN, BeginId(t, ro) PROVE TypeOK' /\ Fields'
  <2>1. next_tx_id' \in 1..MaxTx
    BY <1>1, ConstantsAssumption DEF BeginId, Tx
  <2>2. TypeOK'
    BY Zenon, <1>1, <2>1 DEF BeginId, PC
  <2>3. Fields'
    BY <1>1, ConstantsAssumption DEF BeginId, Fields, Writes, Live, Tx
  <2>4. QED
    BY Zenon, <2>2, <2>3
<1>2. ASSUME NEW t \in Tx, BeginSnapshot(t) PROVE TypeOK' /\ Fields'
  <2>1. TypeOK'
    BY Zenon, <1>2 DEF BeginSnapshot, PC
  <2>2. Fields'
    BY <1>2 DEF BeginSnapshot, Fields, Writes, Live
  <2>3. QED
    BY Zenon, <2>1, <2>2
<1>3. ASSUME NEW t \in Tx, NEW ts \in SnapshotTs, BeginSnapshotAt(t, ts) PROVE TypeOK' /\ Fields'
  <2>1. TypeOK'
    BY Zenon, <1>3 DEF BeginSnapshotAt, PC
  <2>2. Fields'
    BY Zenon, <1>3 DEF BeginSnapshotAt, Fields, Writes, Live
  <2>3. QED
    BY Zenon, <2>1, <2>2
<1>4. ASSUME NEW t \in Tx, BeginActive(t) PROVE TypeOK' /\ Fields'
  <2>1. TypeOK'
    BY Zenon, <1>4 DEF BeginActive, PC
  <2>2. Fields'
    BY Zenon, <1>4 DEF BeginActive, Fields, Writes, Live
  <2>3. QED
    BY Zenon, <2>1, <2>2
<1>5. ASSUME NEW t \in Tx, BeginRegister(t) PROVE TypeOK' /\ Fields'
  <2>1. active_read_ts' \in [Ts -> Nat]
    <3>1. read_ts[t] \in Ts
      BY Zenon, <1>5 DEF BeginRegister, Fields
    <3>2. QED
      BY <1>5, <3>1 DEF BeginRegister
  <2>2. TypeOK'
    BY Zenon, <1>5, <2>1 DEF BeginRegister, PC
  <2>3. Fields'
    BY Zenon, <1>5 DEF BeginRegister, Fields, Writes, Live
  <2>4. QED
    BY Zenon, <2>2, <2>3
<1>6. ASSUME NEW t \in Tx, NEW r \in Row, InsertRow(t, r) PROVE TypeOK' /\ Fields'
  <2>1. TypeOK'
    BY <1>6 DEF InsertRow, MayWrite, PC
  <2>2. Fields'
    BY <1>6 DEF InsertRow, MayWrite, Fields, Writes, Live
  <2>3. QED
    BY Zenon, <2>1, <2>2
<1>7. ASSUME NEW t \in Tx, NEW r \in Row, SetMark(t, r) PROVE TypeOK' /\ Fields'
  <2>1. TypeOK'
    BY Zenon, <1>7 DEF SetMark, MayWrite, PC
  <2>2. Fields'
    BY Zenon, <1>7 DEF SetMark, MayWrite, Fields, Writes, Live
  <2>3. QED
    BY Zenon, <2>1, <2>2
<1>8. ASSUME NEW t \in Tx, NEW r \in Row, SetConflict(t, r) PROVE TypeOK' /\ Fields'
  <2>1. TypeOK'
    BY Zenon, <1>8 DEF SetConflict, MayWrite, PC
  <2>2. Fields'
    BY <1>8 DEF SetConflict, MayWrite, Fields, Writes, Live
  <2>3. QED
    BY Zenon, <2>1, <2>2
<1>9. ASSUME NEW t \in Tx, SetWrite(t) PROVE TypeOK' /\ Fields'
  <2>1. TypeOK'
    BY Zenon, <1>9 DEF SetWrite, MayWrite, PC
  <2>2. Fields'
    BY <1>9 DEF SetWrite, MayWrite, Fields, Writes, Live
  <2>3. QED
    BY Zenon, <2>1, <2>2
<1>10. ASSUME NEW t \in Tx, CommitReadOnly(t) PROVE TypeOK' /\ Fields'
  <2>1. active_read_ts' \in [Ts -> Nat]
    BY Zenon, <1>10, RemoveReadTsType DEF CommitReadOnly, Fields
  <2>2. TypeOK'
    BY Zenon, <1>10, <2>1 DEF CommitReadOnly, PC
  <2>3. Fields'
    BY Zenon, <1>10 DEF CommitReadOnly, Fields, Writes, Live
  <2>4. QED
    BY Zenon, <2>2, <2>3
<1>11. ASSUME NEW t \in Tx, CommitLock(t) PROVE TypeOK' /\ Fields'
  <2>1. TypeOK'
    BY Zenon, <1>11 DEF CommitLock, MayWrite, PC
  <2>2. Fields'
    BY Zenon, <1>11 DEF CommitLock, MayWrite, Fields, Writes, Live
  <2>3. QED
    BY Zenon, <2>1, <2>2
<1>12. ASSUME NEW t \in Tx, CommitStamp(t) PROVE TypeOK' /\ Fields'
  <2>1. current_ts + 1 \in Ts
    BY <1>12, ConstantsAssumption DEF CommitStamp, Ts
  <2>2. TypeOK'
    BY Zenon, <1>12, <2>1 DEF CommitStamp, PC, Writes
  <2>3. Fields'
    <3>1. \A x \in Tx : commit_ts'[x] <= current_ts' /\ (Live(x) => read_ts[x] <= current_ts')
      BY <1>12, <2>1 DEF CommitStamp, Fields
    <3>2. QED
      BY <1>12, <2>1, <3>1 DEF CommitStamp, Fields, Writes, Live
  <2>4. QED
    BY Zenon, <2>2, <2>3
<1>13. ASSUME NEW t \in Tx, NEW r \in Row, CommitRow(t, r) PROVE TypeOK' /\ Fields'
  <2>1. committed' \in [Row -> CommittedVersion(Ts)]
    BY Zenon, <1>13, CommitRowEntryType DEF CommitRow, Fields
  <2>2. TypeOK'
    BY Zenon, <1>13, <2>1 DEF CommitRow
  <2>3. Fields'
    BY <1>13 DEF CommitRow, Fields, Writes, Live
  <2>4. QED
    BY Zenon, <2>2, <2>3
<1>14. ASSUME NEW t \in Tx, CommitLogged(t) PROVE TypeOK' /\ Fields'
  <2>1. TypeOK'
    BY Zenon, <1>14 DEF CommitLogged, PC
  <2>2. Fields'
    BY Zenon, <1>14 DEF CommitLogged, Fields, Writes, Live
  <2>3. QED
    BY Zenon, <2>1, <2>2
<1>15. ASSUME NEW t \in Tx, CommitFinish(t) PROVE TypeOK' /\ Fields'
  <2>1. active_read_ts' \in [Ts -> Nat]
    BY Zenon, <1>15, RemoveReadTsType DEF CommitFinish, Fields
  <2>2. TypeOK'
    BY Zenon, <1>15, <2>1 DEF CommitFinish, PC
  <2>3. Fields'
    BY <1>15 DEF CommitFinish, Fields, Writes, Live
  <2>4. QED
    BY Zenon, <2>2, <2>3
<1>16. ASSUME NEW t \in Tx, CommitEarlyError(t) PROVE TypeOK' /\ Fields'
  <2>1. TypeOK'
    BY Zenon, <1>16 DEF CommitEarlyError, PC
  <2>2. Fields'
    BY <1>16 DEF CommitEarlyError, Fields, Writes, Live
  <2>3. QED
    BY Zenon, <2>1, <2>2
<1>17. ASSUME NEW t \in Tx, CommitLateError(t) PROVE TypeOK' /\ Fields'
  <2>1. TypeOK'
    BY Zenon, <1>17 DEF CommitLateError, PC
  <2>2. Fields'
    BY Zenon, <1>17 DEF CommitLateError, Fields, Writes, Live
  <2>3. QED
    BY Zenon, <2>1, <2>2
<1>18. ASSUME NEW t \in Tx, RollbackStart(t) PROVE TypeOK' /\ Fields'
  <2>1. TypeOK'
    BY Zenon, <1>18 DEF RollbackStart, PC, Writes
  <2>2. Fields'
    BY <1>18 DEF RollbackStart, Fields, Writes, Live
  <2>3. QED
    BY Zenon, <2>1, <2>2
<1>19. ASSUME NEW t \in Tx, NEW r \in Row, RollbackRow(t, r) PROVE TypeOK' /\ Fields'
  <2>1. TypeOK'
    BY Zenon, <1>19 DEF RollbackRow, PC
  <2>2. Fields'
    BY <1>19 DEF RollbackRow, Fields, Writes, Live
  <2>3. QED
    BY Zenon, <2>1, <2>2
<1>20. ASSUME NEW t \in Tx, RollbackDeactivate(t) PROVE TypeOK' /\ Fields'
  <2>1. TypeOK'
    BY Zenon, <1>20 DEF RollbackDeactivate, PC
  <2>2. Fields'
    BY Zenon, <1>20 DEF RollbackDeactivate, Fields, Writes, Live
  <2>3. QED
    BY Zenon, <2>1, <2>2
<1>21. ASSUME NEW t \in Tx, RollbackFinish(t) PROVE TypeOK' /\ Fields'
  <2>1. active_read_ts' \in [Ts -> Nat]
    BY Zenon, <1>21, RemoveReadTsType DEF RollbackFinish, Fields
  <2>2. TypeOK'
    BY Zenon, <1>21, <2>1 DEF RollbackFinish, PC
  <2>3. Fields'
    BY <1>21 DEF RollbackFinish, Fields, Writes, Live
  <2>4. QED
    BY Zenon, <2>2, <2>3
<1>22. ASSUME NEW t \in Tx, Drop(t) PROVE TypeOK' /\ Fields'
  <2>1. active_read_ts' \in [Ts -> Nat]
    BY Zenon, <1>22, RemoveReadTsType DEF Drop, Fields
  <2>2. TypeOK'
    BY Zenon, <1>22, <2>1 DEF Drop, PC
  <2>3. Fields'
    BY Zenon, <1>22 DEF Drop, Fields, Writes, Live
  <2>4. QED
    BY Zenon, <2>2, <2>3
<1>23. ASSUME NEW m \in Ts, VacuumStart(m) PROVE TypeOK' /\ Fields'
  <2>1. TypeOK'
    BY Zenon, <1>23 DEF VacuumStart, PC
  <2>2. Fields'
    BY <1>23 DEF VacuumStart, Fields, Writes, Live
  <2>3. QED
    BY Zenon, <2>1, <2>2
<1>24. ASSUME NEW r \in Row, VacuumRow(r) PROVE TypeOK' /\ Fields'
  <2>1. committed' \in [Row -> CommittedVersion(Ts)]
    BY Zenon, <1>24, VacuumEntryType DEF VacuumRow, Fields
  <2>2. TypeOK'
    BY Zenon, <1>24, <2>1 DEF VacuumRow
  <2>3. Fields'
    BY Zenon, <1>24 DEF VacuumRow, Fields, Writes, Live
  <2>4. QED
    BY Zenon, <2>2, <2>3
<1>25. CASE UNCHANGED vars
  BY Zenon, <1>25 DEF vars, Fields, Live, Writes
<1>26. QED
  BY Zenon, <1>1, <1>2, <1>3, <1>4, <1>5, <1>6, <1>7, <1>8, <1>9, <1>10, <1>11, <1>12, <1>13,
     <1>14, <1>15, <1>16, <1>17, <1>18, <1>19, <1>20, <1>21, <1>22, <1>23, <1>24, <1>25
  DEF Next, Begin, Statement, Commit, Rollback, Vacuum

-----------------------------------------------------------------------------
(* Rows and their marks *)

\* The snapshot of a registered transaction has a positive count, so
\* get_min_active_read_ts is at most that snapshot.  It follows from ReadTsBalanced.
Counted ==
  \A t \in Tx : Registered(t) => read_ts[t] \in Ts /\ active_read_ts[read_ts[t]] > 0

\* A step that takes no mark, publishes nothing and gives no live writer
\* a snapshot.
Quiet ==
  /\ UNCHANGED <<versions, committed, bulk_rows, vacuum_min, vacuum_todo, raced>>
  /\ \A x \in Tx :
       /\ read_ts'[x] = read_ts[x] \/ (Held(x)' = {} /\ Published(x) = {} /\ ~Live(x)')
       /\ Held(x)' \subseteq Held(x)
       /\ Published(x)' = Published(x)
       /\ Published(x) = {} \/ commit_ts'[x] = commit_ts[x]
       /\ Live(x)' => Live(x)
       /\ MayPublish(x)' => MayPublish(x) \/ Held(x)' = {}

\* Such a step keeps the invariant: most of begin, commit and rollback is such.
LEMMA QuietStep ==
  ASSUME RowsInv, Quiet
  PROVE  RowsInv'
<1> USE DEF RowsInv, Quiet
<1>1. Marks'
  BY Zenon DEF Marks
<1>2. MarksFresh'
  BY Zenon DEF MarksFresh
<1>3. Allocation'
  <2>1. \A c \in Tx, r \in Row : Kept(c, r)' = Kept(c, r)
    BY Zenon DEF Kept
  <2>2. \A x \in Tx : \A r \in Held(x)' \cup Published(x)' : r \in Held(x) \cup Published(x)
    OBVIOUS
  <2>3. \A c \in Tx : \A r : Kept(c, r)' = Kept(c, r)
    BY Zenon DEF Kept
  <2> HIDE DEF Quiet
  <2>4. QED
    BY <2>1, <2>2, <2>3 DEF Allocation, Quiet
<1>4. History'
  BY Zenon DEF History
<1>5. VacuumKnows'
  BY Zenon DEF VacuumKnows
<1>6. Serialized'
  BY DEF Serialized
<1>7. QED
  BY Zenon, <1>1, <1>2, <1>3, <1>4, <1>5, <1>6

\* begin touches no row.
LEMMA WriteBegin ==
  ASSUME TypeOK, Fields, RowsInv, NEW t \in Tx, Begin(t)
  PROVE  RowsInv'
<1> USE DEF tmVars, rvVars, txVars, vacVars, histVars
<1>1. ASSUME NEW ro \in BOOLEAN, BeginId(t, ro) PROVE RowsInv'
  <2>1. pc[t] = "unborn" /\ t \in Nat
    BY <1>1, Positive DEF TypeOK, Fields, BeginId
  <2>2. ASSUME NEW x \in Tx, x # t
        PROVE  /\ Held(x)' = Held(x) /\ Published(x)' = Published(x)
               /\ Live(x)' = Live(x) /\ MayPublish(x)' = MayPublish(x)
    BY Zenon, <1>1, <2>2 DEF TypeOK, BeginId, Held, Published, Writes, Live, MayPublish
  <2>3. /\ Held(t)' = {} /\ Published(t)' = {} /\ Published(t) = {}
        /\ ~Live(t)' /\ ~MayPublish(t)'
    BY Zenon, <1>1, <2>1 DEF TypeOK, BeginId, Held, Published, Writes, Live, MayPublish
  <2>4. UNCHANGED <<versions, committed, bulk_rows, read_ts, commit_ts, vacuum_min,
                    vacuum_todo, raced>>
    BY Zenon, <1>1 DEF BeginId
  <2>5. Quiet
    BY Zenon, <2>2, <2>3, <2>4 DEF Quiet
  <2>6. QED
    BY Zenon, <2>5, QuietStep
<1>2. CASE BeginSnapshot(t)
  <2>1. ASSUME NEW x \in Tx, x # t
        PROVE  /\ Held(x)' = Held(x) /\ Published(x)' = Published(x)
               /\ Live(x)' = Live(x) /\ MayPublish(x)' = MayPublish(x)
               /\ read_ts'[x] = read_ts[x] /\ (x \in raced' <=> x \in raced)
    BY Zenon, <1>2, <2>1 DEF TypeOK, BeginSnapshot, Held, Published, Writes, Live, MayPublish
  <2>2. /\ Held(t)' = {} /\ Published(t)' = {} /\ Published(t) = {} /\ Held(t) = {}
        /\ ~MayPublish(t)'
    BY Zenon, <1>2 DEF TypeOK, BeginSnapshot, Held, Published, Writes, MayPublish
  <2>3. UNCHANGED <<versions, committed, bulk_rows, commit_ts, vacuum_min, vacuum_todo>>
    BY Zenon, <1>2 DEF BeginSnapshot
  <2>4. \A c \in Tx : \A r : Kept(c, r)' = Kept(c, r)
    BY Zenon, <2>1, <2>2, <2>3 DEF Kept
  <2>5. Marks' /\ MarksFresh'
    BY Zenon, <2>1, <2>2, <2>3 DEF RowsInv, Marks, MarksFresh
  <2>6. Allocation'
    BY <2>1, <2>2, <2>3, <2>4 DEF RowsInv, Allocation
  <2>7. \A a \in Tx : commit_ts[a] <= read_ts'[t]
    BY Zenon, <1>2 DEF TypeOK, Fields, BeginSnapshot
  <2>8. vacuum_todo # {} /\ t \notin raced' => vacuum_min <= read_ts'[t]
    BY <1>2, Positive DEF TypeOK, BeginSnapshot
  <2>9. History' /\ VacuumKnows'
    BY Zenon, <2>1, <2>2, <2>3, <2>7, <2>8 DEF RowsInv, History, VacuumKnows
  <2>10. Serialized'
    BY Zenon, <2>1, <2>2, <2>3 DEF RowsInv, Serialized
  <2>11. QED
    BY Zenon, <2>5, <2>6, <2>9, <2>10 DEF RowsInv
<1>3. ASSUME NEW ts \in SnapshotTs, BeginSnapshotAt(t, ts) PROVE RowsInv'
  <2>1. ASSUME NEW x \in Tx, x # t
        PROVE  /\ Held(x)' = Held(x) /\ Published(x)' = Published(x)
               /\ Live(x)' = Live(x) /\ MayPublish(x)' = MayPublish(x)
               /\ read_ts'[x] = read_ts[x]
    BY Zenon, <1>3, <2>1 DEF TypeOK, BeginSnapshotAt, Held, Published, Writes, Live, MayPublish
  <2>2. /\ Held(t)' = {} /\ Published(t)' = {} /\ Published(t) = {}
        /\ ~Live(t)' /\ ~MayPublish(t)'
    BY Zenon, <1>3 DEF TypeOK, BeginSnapshotAt, Held, Published, Writes, Live, MayPublish
  <2>3. UNCHANGED <<versions, committed, bulk_rows, commit_ts, vacuum_min, vacuum_todo, raced>>
    BY Zenon, <1>3 DEF BeginSnapshotAt
  <2>4. Quiet
    BY Zenon, <2>1, <2>2, <2>3 DEF Quiet
  <2>5. QED
    BY Zenon, <2>4, QuietStep
<1>4. CASE BeginActive(t)
  <2>1. ASSUME NEW x \in Tx, x # t
        PROVE  /\ Held(x)' = Held(x) /\ Published(x)' = Published(x)
               /\ commit_ts'[x] = commit_ts[x]
               /\ Live(x)' = Live(x) /\ MayPublish(x)' = MayPublish(x)
    BY Zenon, <1>4, <2>1 DEF TypeOK, BeginActive, Held, Published, Writes, Live, MayPublish
  <2>2. Held(t)' \subseteq Held(t)
    BY Zenon, <1>4 DEF TypeOK, Fields, BeginActive, Held, Writes
  <2>3. Published(t)' = Published(t) /\ (Published(t) = {} \/ commit_ts'[t] = commit_ts[t])
    BY Zenon, <1>4 DEF TypeOK, Fields, BeginActive, Published, Writes
  <2>4. (Live(t)' => Live(t)) /\ (MayPublish(t)' => MayPublish(t) \/ Held(t)' = {})
    BY Zenon, <1>4 DEF TypeOK, Fields, BeginActive, Live, MayPublish, Held, Writes
  <2>5. UNCHANGED <<versions, committed, bulk_rows, read_ts, vacuum_min, vacuum_todo, raced>>
    BY Zenon, <1>4 DEF BeginActive
  <2>6. Quiet
    BY Zenon, <2>1, <2>2, <2>3, <2>4, <2>5 DEF Quiet
  <2>7. QED
    BY Zenon, <2>6, QuietStep
<1>5. CASE BeginRegister(t)
  <2>1. ASSUME NEW x \in Tx, x # t
        PROVE  /\ Held(x)' = Held(x) /\ Published(x)' = Published(x)
               /\ commit_ts'[x] = commit_ts[x]
               /\ Live(x)' = Live(x) /\ MayPublish(x)' = MayPublish(x)
    BY Zenon, <1>5, <2>1 DEF TypeOK, BeginRegister, Held, Published, Writes, Live, MayPublish
  <2>2. Held(t)' \subseteq Held(t)
    BY Zenon, <1>5 DEF TypeOK, Fields, BeginRegister, Held, Writes
  <2>3. Published(t)' = Published(t) /\ (Published(t) = {} \/ commit_ts'[t] = commit_ts[t])
    BY Zenon, <1>5 DEF TypeOK, Fields, BeginRegister, Published, Writes
  <2>4. (Live(t)' => Live(t)) /\ (MayPublish(t)' => MayPublish(t) \/ Held(t)' = {})
    BY Zenon, <1>5 DEF TypeOK, Fields, BeginRegister, Live, MayPublish, Held, Writes
  <2>5. UNCHANGED <<versions, committed, bulk_rows, read_ts, vacuum_min, vacuum_todo, raced>>
    BY Zenon, <1>5 DEF BeginRegister
  <2>6. Quiet
    BY Zenon, <2>1, <2>2, <2>3, <2>4, <2>5 DEF Quiet
  <2>7. QED
    BY Zenon, <2>6, QuietStep
<1> QED
  BY Zenon, <1>1, <1>2, <1>3, <1>4, <1>5 DEF Begin

\* A statement only takes marks it may take.
LEMMA WriteStatement ==
  ASSUME TypeOK, Fields, RowsInv, NEW t \in Tx, Statement(t)
  PROVE  RowsInv'
<1> USE DEF tmVars, rvVars, txVars, vacVars, histVars
<1>6. ASSUME NEW r \in Row, InsertRow(t, r) PROVE RowsInv'
  <2>1. r \notin InitRow /\ \A c \in Tx : ~Kept(c, r)
    BY Zenon, <1>6 DEF InsertRow, Unallocated, Kept, Published
  <2>2. \A x \in Tx : r \notin Held(x)
    <3>1. \A x \in Tx : r \in Held(x) => r \in bulk_rows[x]
      BY Zenon, <2>1 DEF RowsInv, Allocation
    <3>2. \A x \in Tx : r \in bulk_rows[x] => pc[x] = "aborted"
      BY Zenon, <1>6 DEF InsertRow, Unallocated
    <3>3. QED
      BY Zenon, <3>1, <3>2 DEF Held
  <2>3. committed[r].last_ts = 0
    BY <2>1 DEF RowsInv, Allocation, NoEntry
  <2>4. Held(t)' = Held(t) \cup {r} /\ \A x \in Tx \ {t} : Held(x)' = Held(x)
    BY <1>6 DEF TypeOK, InsertRow, MayWrite, Held, Writes
  <2>5. \A x \in Tx : /\ Published(x)' = Published(x) /\ Live(x)' = Live(x)
                       /\ MayPublish(x)' = MayPublish(x)
    BY Zenon, <1>6 DEF TypeOK, InsertRow, MayWrite, Published, Writes, Live, MayPublish
  <2>6. /\ versions'[r] = t /\ \A q \in Row \ {r} : versions'[q] = versions[q]
        /\ UNCHANGED <<committed, read_ts, commit_ts, vacuum_min, vacuum_todo, raced>>
        /\ r \in bulk_rows'[t] /\ \A x \in Tx : bulk_rows[x] \subseteq bulk_rows'[x]
    BY Zenon, <1>6 DEF TypeOK, InsertRow
  <2>7. \A x \in Tx : Held(x) \subseteq Row /\ read_ts[x] \in Nat
    BY DEF TypeOK, Held, Ts
  <2>8. Marks' /\ MarksFresh'
    BY <2>2, <2>3, <2>4, <2>5, <2>6, <2>7 DEF RowsInv, Marks, MarksFresh
  <2>9. \A c \in Tx : \A q : Kept(c, q) => Kept(c, q)'
    BY Zenon, <2>5, <2>6 DEF Kept
  <2>10. Allocation'
    BY <2>4, <2>5, <2>6, <2>9 DEF RowsInv, Allocation
  <2>11. History' /\ VacuumKnows' /\ Serialized'
    BY Zenon, <2>5, <2>6 DEF RowsInv, History, VacuumKnows, Serialized
  <2>12. QED
    BY Zenon, <2>8, <2>10, <2>11 DEF RowsInv
<1>7. ASSUME NEW r \in Row, SetMark(t, r) PROVE RowsInv'
  <2>1. \A x \in Tx \ {t} : r \notin Held(x)
    BY Zenon, <1>7, Positive DEF SetMark, MarkRowOk, RowsInv, Marks, NoTx
  <2>2. r \in InitRow \/ r \in bulk_rows[t] \/ \E c \in Tx : Kept(c, r)
    <3>1. ASSUME NEW c \in Tx, c # t, r \in bulk_rows[c],
                 pc[c] \notin {"rolling", "rolled", "aborted"}
          PROVE  Kept(c, r)
      BY Zenon, <2>1, <3>1 DEF TypeOK, Fields, Held, Kept, Published, Writes, PC
    <3>2. QED
      BY Zenon, <1>7, <3>1 DEF SetMark, Allocated
  <2>3. Held(t)' = Held(t) \cup {r} /\ \A x \in Tx \ {t} : Held(x)' = Held(x)
    BY ZenonT(30), <1>7 DEF TypeOK, SetMark, MayWrite, Held, Writes
  <2>4. \A x \in Tx : /\ Published(x)' = Published(x) /\ Live(x)' = Live(x)
                       /\ MayPublish(x)' = MayPublish(x)
    BY Zenon, <1>7 DEF SetMark, Published, Writes, Live, MayPublish
  <2>5. /\ versions'[r] = t /\ \A q \in Row \ {r} : versions'[q] = versions[q]
        /\ UNCHANGED <<committed, read_ts, commit_ts, bulk_rows, vacuum_min, vacuum_todo, raced>>
    BY Zenon, <1>7 DEF TypeOK, SetMark
  <2>6. committed[r].last_ts <= read_ts[t]
    BY Zenon, <1>7 DEF SetMark, MarkRowOk
  <2>7. \A x \in Tx : Held(x) \subseteq Row
    BY Zenon DEF Held
  <2>8. Marks' /\ MarksFresh'
    BY <2>1, <2>3, <2>4, <2>5, <2>6, <2>7 DEF RowsInv, Marks, MarksFresh
  <2>9. \A c \in Tx : \A q : Kept(c, q)' = Kept(c, q)
    BY Zenon, <2>4, <2>5 DEF Kept
  <2>10. Allocation'
    BY <2>2, <2>3, <2>4, <2>5, <2>9 DEF RowsInv, Allocation
  <2>11. History' /\ VacuumKnows' /\ Serialized'
    BY Zenon, <2>4, <2>5 DEF RowsInv, History, VacuumKnows, Serialized
  <2>12. QED
    BY Zenon, <2>8, <2>10, <2>11 DEF RowsInv
<1>8. ASSUME NEW r \in Row, SetConflict(t, r) PROVE RowsInv'
  <2>1. ASSUME NEW x \in Tx, x # t
        PROVE  /\ Held(x)' = Held(x) /\ Published(x)' = Published(x)
               /\ Live(x)' = Live(x) /\ MayPublish(x)' = MayPublish(x)
    BY Zenon, <1>8, <2>1 DEF TypeOK, SetConflict, Held, Published, Writes, Live, MayPublish
  <2>2. Held(t)' \subseteq Held(t)
    BY Zenon, <1>8 DEF TypeOK, Fields, SetConflict, MayWrite, Held, Writes
  <2>3. Published(t)' = Published(t)
    BY Zenon, <1>8 DEF TypeOK, Fields, SetConflict, MayWrite, Published, Writes
  <2>4. (Live(t)' => Live(t)) /\ (MayPublish(t)' => MayPublish(t))
    BY Zenon, <1>8 DEF TypeOK, Fields, SetConflict, MayWrite, Live, MayPublish
  <2>5. UNCHANGED <<versions, committed, bulk_rows, read_ts, commit_ts, vacuum_min,
                    vacuum_todo, raced>>
    BY Zenon, <1>8 DEF SetConflict
  <2>6. Quiet
    BY Zenon, <2>1, <2>2, <2>3, <2>4, <2>5 DEF Quiet
  <2>7. QED
    BY Zenon, <2>6, QuietStep
<1>9. CASE SetWrite(t)
  <2>1. ASSUME NEW x \in Tx, x # t
        PROVE  /\ Held(x)' = Held(x) /\ Published(x)' = Published(x)
               /\ Live(x)' = Live(x) /\ MayPublish(x)' = MayPublish(x)
    BY Zenon, <1>9, <2>1 DEF TypeOK, SetWrite, Held, Published, Writes, Live, MayPublish
  <2>2. Held(t)' \subseteq Held(t)
    BY Zenon, <1>9 DEF TypeOK, Fields, SetWrite, MayWrite, Held, Writes
  <2>3. Published(t)' = Published(t)
    BY Zenon, <1>9 DEF TypeOK, Fields, SetWrite, MayWrite, Published, Writes
  <2>4. (Live(t)' => Live(t)) /\ (MayPublish(t)' => MayPublish(t))
    BY Zenon, <1>9 DEF TypeOK, Fields, SetWrite, MayWrite, Live, MayPublish
  <2>5. UNCHANGED <<versions, committed, bulk_rows, read_ts, commit_ts, vacuum_min,
                    vacuum_todo, raced>>
    BY Zenon, <1>9 DEF SetWrite
  <2>6. Quiet
    BY Zenon, <2>1, <2>2, <2>3, <2>4, <2>5 DEF Quiet
  <2>7. QED
    BY Zenon, <2>6, QuietStep
<1> QED
  BY Zenon, <1>6, <1>7, <1>8, <1>9 DEF Statement

\* commit_row publishes a row that nobody committed after the snapshot.
LEMMA WriteCommitRow ==
  ASSUME TypeOK, Fields, RowsInv, NEW t \in Tx, NEW r \in Row, CommitRow(t, r)
  PROVE  RowsInv'
<1> USE DEF tmVars, rvVars, txVars, vacVars, histVars
<1>1. /\ commit_ts[t] \in Ts
      /\ commit_ts[t] <= committed'[r].last_ts
      /\ committed[r].last_ts <= committed'[r].last_ts
      /\ \A q \in Row \ {r} : committed'[q] = committed[q]
  BY Zenon, CommitRowEntryType, Positive DEF TypeOK, Fields, CommitRow
<1>2. /\ Published(t)' = Published(t) \cup {r} /\ r \in Held(t) /\ Held(t)' = Held(t) \ {r}
      /\ \A x \in Tx \ {t} : Published(x)' = Published(x) /\ Held(x)' = Held(x)
  BY SMTT(30) DEF TypeOK, Fields, CommitRow, Published, Held, Writes
<1>3. \A x \in Tx : Live(x)' = Live(x) /\ MayPublish(x)' = MayPublish(x)
  BY Zenon DEF CommitRow, Live, MayPublish
<1>4. Live(t) /\ MayPublish(t)
  BY Zenon DEF TypeOK, Fields, CommitRow, Live, MayPublish, Writes
<1>5. /\ \A q \in Row \ {r} : versions'[q] = versions[q]
      /\ UNCHANGED <<read_ts, commit_ts, bulk_rows, vacuum_min, vacuum_todo, raced>>
  BY Zenon DEF TypeOK, CommitRow
<1>6. \A x \in Tx \ {t} : r \notin Held(x)
  BY Zenon, <1>2 DEF RowsInv, Marks
<1>7. \A x \in Tx : Held(x) \subseteq Row /\ Published(x) \subseteq Row
  BY Zenon DEF TypeOK, Held, Published, Writes
<1>8. /\ \A q \in Row : committed[q].last_ts \in Nat /\ committed'[q].last_ts \in Nat
      /\ \A x \in Tx : commit_ts[x] \in Nat /\ read_ts[x] \in Nat
  <2>1. [Next]_vars
    BY Zenon DEF Next, Commit
  <2>2. TypeOK'
    BY Zenon, <2>1, TypeStep
  <2>3. \A q \in Row : committed[q] \in CommittedVersion(Ts) /\ committed'[q] \in CommittedVersion(Ts)
    BY Zenon, <2>2 DEF TypeOK
  <2>4. \A e \in CommittedVersion(Ts) : e.last_ts \in Nat
    BY Positive DEF CommittedVersion, NoEntry
  <2>5. \A x \in Tx : commit_ts[x] \in Nat /\ read_ts[x] \in Nat
    BY Positive DEF TypeOK
  <2>6. QED
    BY Zenon, <2>3, <2>4, <2>5
<1>9. Marks' /\ MarksFresh'
  BY <1>1, <1>2, <1>3, <1>5, <1>6, <1>7 DEF RowsInv, Marks, MarksFresh
<1>10. Allocation'
  <2>1. \A c \in Tx : \A q : Kept(c, q) => Kept(c, q)'
    BY Zenon, <1>2, <1>5 DEF Kept
  <2>2. r \in InitRow \/ \E c \in Tx : Kept(c, r)'
    BY Zenon, <1>2, <1>5, <2>1 DEF RowsInv, Allocation, Kept
  <2>3. QED
    BY Zenon, <1>1, <1>2, <1>5, <2>1, <2>2 DEF RowsInv, Allocation
<1>11. History'
  <2>1. ASSUME NEW a \in Tx, NEW q \in Published(a)
        PROVE  \/ commit_ts[a] <= committed'[q].last_ts
               \/ \A x \in Tx : Live(x) /\ x \notin raced => commit_ts[a] <= read_ts[x]
    <3>1. committed[q].last_ts <= committed'[q].last_ts
      BY <1>1, <1>7, <1>8, <2>1
    <3>2. \/ commit_ts[a] <= committed[q].last_ts
          \/ \A x \in Tx : Live(x) /\ x \notin raced => commit_ts[a] <= read_ts[x]
      BY Zenon, <2>1 DEF RowsInv, History
    <3>3. /\ commit_ts[a] \in Nat
          /\ committed[q].last_ts \in Nat /\ committed'[q].last_ts \in Nat
      BY Zenon, <1>7, <1>8, <2>1
    <3>4. commit_ts[a] <= committed[q].last_ts => commit_ts[a] <= committed'[q].last_ts
      BY <3>1, <3>3
    <3>5. QED
      BY Zenon, <3>2, <3>4
  <2>2. QED
    BY <1>1, <1>2, <1>3, <1>5, <2>1 DEF History
<1>12. VacuumKnows'
  BY Zenon, <1>3, <1>5 DEF RowsInv, VacuumKnows
<1>13. Serialized'
  <2>1. ASSUME NEW a \in Tx, a # t, t \notin raced, r \in Published(a)
        PROVE  commit_ts[a] <= read_ts[t]
    <3>1. committed[r].last_ts <= read_ts[t]
      BY Zenon, <1>2, <1>4 DEF RowsInv, MarksFresh
    <3>2. QED
      BY <1>4, <1>8, <2>1, <3>1 DEF RowsInv, History
  <2>2. QED
    BY <1>2, <1>5, <2>1 DEF RowsInv, Serialized
<1>14. QED
  BY Zenon, <1>9, <1>10, <1>11, <1>12, <1>13 DEF RowsInv

\* The other steps of commit publish nothing more.
LEMMA WriteCommit ==
  ASSUME TypeOK, Fields, RowsInv, ~LateErrors, NEW t \in Tx, Commit(t)
  PROVE  RowsInv'
<1> USE DEF tmVars, rvVars, txVars, vacVars, histVars
<1>10. CASE CommitReadOnly(t)
  <2>1. ASSUME NEW x \in Tx, x # t
        PROVE  /\ Held(x)' = Held(x) /\ Published(x)' = Published(x)
               /\ commit_ts'[x] = commit_ts[x]
               /\ Live(x)' = Live(x) /\ MayPublish(x)' = MayPublish(x)
    BY Zenon, <1>10, <2>1 DEF TypeOK, CommitReadOnly, Held, Published, Writes, Live, MayPublish
  <2>2. Held(t)' \subseteq Held(t)
    BY Zenon, <1>10 DEF TypeOK, Fields, CommitReadOnly, Held, Writes
  <2>3. Published(t)' = Published(t) /\ (Published(t) = {} \/ commit_ts'[t] = commit_ts[t])
    BY Zenon, <1>10 DEF TypeOK, Fields, CommitReadOnly, Published, Writes
  <2>4. (Live(t)' => Live(t)) /\ (MayPublish(t)' => MayPublish(t) \/ Held(t)' = {})
    BY Zenon, <1>10 DEF TypeOK, Fields, CommitReadOnly, Live, MayPublish, Held, Writes
  <2>5. UNCHANGED <<versions, committed, bulk_rows, read_ts, vacuum_min, vacuum_todo, raced>>
    BY Zenon, <1>10 DEF CommitReadOnly
  <2>6. Quiet
    BY Zenon, <2>1, <2>2, <2>3, <2>4, <2>5 DEF Quiet
  <2>7. QED
    BY Zenon, <2>6, QuietStep
<1>11. CASE CommitLock(t)
  <2>1. ASSUME NEW x \in Tx, x # t
        PROVE  /\ Held(x)' = Held(x) /\ Published(x)' = Published(x)
               /\ commit_ts'[x] = commit_ts[x]
               /\ Live(x)' = Live(x) /\ MayPublish(x)' = MayPublish(x)
    BY Zenon, <1>11, <2>1 DEF TypeOK, CommitLock, Held, Published, Writes, Live, MayPublish
  <2>2. Held(t)' \subseteq Held(t)
    BY Zenon, <1>11 DEF TypeOK, Fields, CommitLock, MayWrite, Held, Writes
  <2>3. Published(t)' = Published(t) /\ (Published(t) = {} \/ commit_ts'[t] = commit_ts[t])
    BY Zenon, <1>11 DEF TypeOK, Fields, CommitLock, MayWrite, Published, Writes
  <2>4. (Live(t)' => Live(t)) /\ (MayPublish(t)' => MayPublish(t) \/ Held(t)' = {})
    BY Zenon, <1>11 DEF TypeOK, Fields, CommitLock, MayWrite, Live, MayPublish, Held, Writes
  <2>5. UNCHANGED <<versions, committed, bulk_rows, read_ts, vacuum_min, vacuum_todo, raced>>
    BY Zenon, <1>11 DEF CommitLock
  <2>6. Quiet
    BY Zenon, <2>1, <2>2, <2>3, <2>4, <2>5 DEF Quiet
  <2>7. QED
    BY Zenon, <2>6, QuietStep
<1>12. CASE CommitStamp(t)
  <2>1. ASSUME NEW x \in Tx, x # t
        PROVE  /\ Held(x)' = Held(x) /\ Published(x)' = Published(x)
               /\ commit_ts'[x] = commit_ts[x]
               /\ Live(x)' = Live(x) /\ MayPublish(x)' = MayPublish(x)
    BY Zenon, <1>12, <2>1 DEF TypeOK, CommitStamp, Held, Published, Writes, Live, MayPublish
  <2>2. Held(t)' \subseteq Held(t)
    BY Zenon, <1>12 DEF TypeOK, Fields, CommitStamp, Held, Writes
  <2>3. Published(t)' = Published(t) /\ (Published(t) = {} \/ commit_ts'[t] = commit_ts[t])
    BY Zenon, <1>12 DEF TypeOK, Fields, CommitStamp, Published, Writes
  <2>4. (Live(t)' => Live(t)) /\ (MayPublish(t)' => MayPublish(t) \/ Held(t)' = {})
    BY Zenon, <1>12 DEF TypeOK, Fields, CommitStamp, Live, MayPublish, Held, Writes
  <2>5. UNCHANGED <<versions, committed, bulk_rows, read_ts, vacuum_min, vacuum_todo, raced>>
    BY Zenon, <1>12 DEF CommitStamp
  <2>6. Quiet
    BY Zenon, <2>1, <2>2, <2>3, <2>4, <2>5 DEF Quiet
  <2>7. QED
    BY Zenon, <2>6, QuietStep
<1>14. CASE CommitLogged(t)
  <2>1. ASSUME NEW x \in Tx, x # t
        PROVE  /\ Held(x)' = Held(x) /\ Published(x)' = Published(x)
               /\ commit_ts'[x] = commit_ts[x]
               /\ Live(x)' = Live(x) /\ MayPublish(x)' = MayPublish(x)
    BY Zenon, <1>14, <2>1 DEF TypeOK, CommitLogged, Held, Published, Writes, Live, MayPublish
  <2>2. Held(t)' \subseteq Held(t)
    BY Zenon, <1>14 DEF TypeOK, Fields, CommitLogged, Held, Writes
  <2>3. Published(t)' = Published(t) /\ (Published(t) = {} \/ commit_ts'[t] = commit_ts[t])
    BY Zenon, <1>14 DEF TypeOK, Fields, CommitLogged, Published, Writes
  <2>4. (Live(t)' => Live(t)) /\ (MayPublish(t)' => MayPublish(t) \/ Held(t)' = {})
    BY Zenon, <1>14 DEF TypeOK, Fields, CommitLogged, Live, MayPublish, Held, Writes
  <2>5. UNCHANGED <<versions, committed, bulk_rows, read_ts, vacuum_min, vacuum_todo, raced>>
    BY Zenon, <1>14 DEF CommitLogged
  <2>6. Quiet
    BY Zenon, <2>1, <2>2, <2>3, <2>4, <2>5 DEF Quiet
  <2>7. QED
    BY Zenon, <2>6, QuietStep
<1>15. CASE CommitFinish(t)
  <2>1. ASSUME NEW x \in Tx, x # t
        PROVE  /\ Held(x)' = Held(x) /\ Published(x)' = Published(x)
               /\ commit_ts'[x] = commit_ts[x]
               /\ Live(x)' = Live(x) /\ MayPublish(x)' = MayPublish(x)
    BY Zenon, <1>15, <2>1 DEF TypeOK, CommitFinish, Held, Published, Writes, Live, MayPublish
  <2>2. Held(t)' \subseteq Held(t)
    BY Zenon, <1>15 DEF TypeOK, Fields, CommitFinish, Held, Writes
  <2>3. Published(t)' = Published(t) /\ (Published(t) = {} \/ commit_ts'[t] = commit_ts[t])
    BY Zenon, <1>15 DEF TypeOK, Fields, CommitFinish, Published, Writes
  <2>4. (Live(t)' => Live(t)) /\ (MayPublish(t)' => MayPublish(t) \/ Held(t)' = {})
    BY Zenon, <1>15 DEF TypeOK, Fields, CommitFinish, Live, MayPublish, Held, Writes
  <2>5. UNCHANGED <<versions, committed, bulk_rows, read_ts, vacuum_min, vacuum_todo, raced>>
    BY Zenon, <1>15 DEF CommitFinish
  <2>6. Quiet
    BY Zenon, <2>1, <2>2, <2>3, <2>4, <2>5 DEF Quiet
  <2>7. QED
    BY Zenon, <2>6, QuietStep
<1>16. CASE CommitEarlyError(t)
  <2>1. ASSUME NEW x \in Tx, x # t
        PROVE  /\ Held(x)' = Held(x) /\ Published(x)' = Published(x)
               /\ commit_ts'[x] = commit_ts[x]
               /\ Live(x)' = Live(x) /\ MayPublish(x)' = MayPublish(x)
    BY Zenon, <1>16, <2>1 DEF TypeOK, CommitEarlyError, Held, Published, Writes, Live,
       MayPublish
  <2>2. Held(t)' \subseteq Held(t)
    BY Zenon, <1>16 DEF TypeOK, Fields, CommitEarlyError, Held, Writes
  <2>3. Published(t)' = Published(t) /\ (Published(t) = {} \/ commit_ts'[t] = commit_ts[t])
    BY Zenon, <1>16 DEF TypeOK, Fields, CommitEarlyError, Published, Writes
  <2>4. (Live(t)' => Live(t)) /\ (MayPublish(t)' => MayPublish(t) \/ Held(t)' = {})
    BY Zenon, <1>16 DEF TypeOK, Fields, CommitEarlyError, Live, MayPublish, Held, Writes
  <2>5. UNCHANGED <<versions, committed, bulk_rows, read_ts, vacuum_min, vacuum_todo, raced>>
    BY Zenon, <1>16 DEF CommitEarlyError
  <2>6. Quiet
    BY Zenon, <2>1, <2>2, <2>3, <2>4, <2>5 DEF Quiet
  <2>7. QED
    BY Zenon, <2>6, QuietStep
<1>17. ~CommitLateError(t)
  BY Zenon DEF CommitLateError
<1> QED
  BY Zenon, <1>10, <1>11, <1>12, <1>14, <1>15, <1>16, <1>17, WriteCommitRow DEF Commit

-----------------------------------------------------------------------------
(* rollback, Drop and the vacuum *)

\* rollback and Drop release only the transaction's own rows.
LEMMA WriteRollback ==
  ASSUME TypeOK, Fields, RowsInv, NEW t \in Tx, Rollback(t) \/ Drop(t)
  PROVE  RowsInv'
<1> USE DEF tmVars, rvVars, txVars, vacVars, histVars
<1>18. CASE RollbackStart(t)
  <2>1. ASSUME NEW x \in Tx, x # t
        PROVE  /\ Held(x)' = Held(x) /\ Published(x)' = Published(x)
               /\ commit_ts'[x] = commit_ts[x]
               /\ Live(x)' = Live(x) /\ MayPublish(x)' = MayPublish(x)
    BY Zenon, <1>18, <2>1 DEF TypeOK, RollbackStart, Held, Published, Writes, Live, MayPublish
  <2>2. Held(t)' \subseteq Held(t)
    BY Zenon, <1>18 DEF TypeOK, Fields, RollbackStart, Held, Writes
  <2>3. Published(t)' = Published(t) /\ (Published(t) = {} \/ commit_ts'[t] = commit_ts[t])
    BY Zenon, <1>18 DEF TypeOK, Fields, RollbackStart, Published, Writes
  <2>4. (Live(t)' => Live(t)) /\ (MayPublish(t)' => MayPublish(t) \/ Held(t)' = {})
    BY Zenon, <1>18 DEF TypeOK, Fields, RollbackStart, Live, MayPublish, Held, Writes
  <2>5. UNCHANGED <<versions, committed, bulk_rows, read_ts, vacuum_min, vacuum_todo, raced>>
    BY Zenon, <1>18 DEF RollbackStart
  <2>6. Quiet
    BY Zenon, <2>1, <2>2, <2>3, <2>4, <2>5 DEF Quiet
  <2>7. QED
    BY Zenon, <2>6, QuietStep
<1>19. ASSUME NEW r \in Row, RollbackRow(t, r) PROVE RowsInv'
  <2>1. \A x \in Tx : /\ Published(x)' = Published(x) /\ Live(x)' = Live(x)
                       /\ MayPublish(x)' = MayPublish(x)
    BY Zenon, <1>19 DEF TypeOK, RollbackRow, Published, Writes, Live, MayPublish
  <2>2. /\ r \in Held(t) /\ Held(t)' = Held(t) \ {r}
        /\ \A x \in Tx : x # t => Held(x)' = Held(x)
    BY <1>19 DEF TypeOK, RollbackRow, Held, Writes
  <2>3. /\ \A q \in Row : q # r => versions'[q] = versions[q]
        /\ UNCHANGED <<committed, bulk_rows, read_ts, commit_ts, vacuum_min, vacuum_todo, raced>>
    BY Zenon, <1>19 DEF TypeOK, RollbackRow
  <2>4. /\ \A x \in Tx : Held(x) \subseteq Row
        /\ \A x \in Tx : x # t => r \notin Held(x)
    <3>1. \A x \in Tx : Held(x) \subseteq Row
      BY Zenon DEF Held
    <3>2. \A x \in Tx : x # t => r \notin Held(x)
      BY Zenon, <2>2 DEF RowsInv, Marks
    <3>3. QED
      BY Zenon, <3>1, <3>2
  <2>5. \A c \in Tx : \A q : Kept(c, q)' = Kept(c, q)
    BY Zenon, <2>1, <2>3 DEF Kept
  <2>6. Marks' /\ MarksFresh'
    <3>1. Marks'
      BY <2>2, <2>3, <2>4 DEF RowsInv, Marks
    <3>2. \A x \in Tx : Held(x)' \subseteq Held(x)
      BY Zenon, <2>2
    <3>3. MarksFresh'
      BY Zenon, <2>1, <2>3, <3>2 DEF RowsInv, MarksFresh
    <3>4. QED
      BY Zenon, <3>1, <3>3
  <2>7. Allocation'
    BY <2>1, <2>2, <2>3, <2>5 DEF RowsInv, Allocation
  <2>8. History' /\ VacuumKnows' /\ Serialized'
    BY Zenon, <2>1, <2>3 DEF RowsInv, History, VacuumKnows, Serialized
  <2>9. QED
    BY Zenon, <2>6, <2>7, <2>8 DEF RowsInv
<1>20. CASE RollbackDeactivate(t)
  <2>1. ASSUME NEW x \in Tx, x # t
        PROVE  /\ Held(x)' = Held(x) /\ Published(x)' = Published(x)
               /\ commit_ts'[x] = commit_ts[x]
               /\ Live(x)' = Live(x) /\ MayPublish(x)' = MayPublish(x)
    BY Zenon, <1>20, <2>1 DEF TypeOK, RollbackDeactivate, Held, Published, Writes, Live,
       MayPublish
  <2>2. Held(t)' \subseteq Held(t)
    BY Zenon, <1>20 DEF TypeOK, Fields, RollbackDeactivate, Held, Writes
  <2>3. Published(t)' = Published(t) /\ (Published(t) = {} \/ commit_ts'[t] = commit_ts[t])
    BY Zenon, <1>20 DEF TypeOK, Fields, RollbackDeactivate, Published, Writes
  <2>4. (Live(t)' => Live(t)) /\ (MayPublish(t)' => MayPublish(t) \/ Held(t)' = {})
    BY Zenon, <1>20 DEF TypeOK, Fields, RollbackDeactivate, Live, MayPublish, Held, Writes
  <2>5. UNCHANGED <<versions, committed, bulk_rows, read_ts, vacuum_min, vacuum_todo, raced>>
    BY Zenon, <1>20 DEF RollbackDeactivate
  <2>6. Quiet
    BY Zenon, <2>1, <2>2, <2>3, <2>4, <2>5 DEF Quiet
  <2>7. QED
    BY Zenon, <2>6, QuietStep
<1>21. CASE RollbackFinish(t)
  <2>1. ASSUME NEW x \in Tx, x # t
        PROVE  /\ Held(x)' = Held(x) /\ Published(x)' = Published(x)
               /\ commit_ts'[x] = commit_ts[x]
               /\ Live(x)' = Live(x) /\ MayPublish(x)' = MayPublish(x)
    BY Zenon, <1>21, <2>1 DEF TypeOK, RollbackFinish, Held, Published, Writes, Live, MayPublish
  <2>2. Held(t)' \subseteq Held(t)
    BY Zenon, <1>21 DEF TypeOK, Fields, RollbackFinish, Held, Writes
  <2>3. Published(t)' = Published(t) /\ (Published(t) = {} \/ commit_ts'[t] = commit_ts[t])
    BY Zenon, <1>21 DEF TypeOK, Fields, RollbackFinish, Published, Writes
  <2>4. (Live(t)' => Live(t)) /\ (MayPublish(t)' => MayPublish(t) \/ Held(t)' = {})
    BY Zenon, <1>21 DEF TypeOK, Fields, RollbackFinish, Live, MayPublish, Held, Writes
  <2>5. UNCHANGED <<versions, committed, bulk_rows, read_ts, vacuum_min, vacuum_todo, raced>>
    BY Zenon, <1>21 DEF RollbackFinish
  <2>6. Quiet
    BY Zenon, <2>1, <2>2, <2>3, <2>4, <2>5 DEF Quiet
  <2>7. QED
    BY Zenon, <2>6, QuietStep
<1>22. CASE Drop(t)
  <2>1. ASSUME NEW x \in Tx, x # t
        PROVE  /\ Held(x)' = Held(x) /\ Published(x)' = Published(x)
               /\ commit_ts'[x] = commit_ts[x]
               /\ Live(x)' = Live(x) /\ MayPublish(x)' = MayPublish(x)
    BY Zenon, <1>22, <2>1 DEF TypeOK, Drop, Held, Published, Writes, Live, MayPublish
  <2>2. Held(t)' \subseteq Held(t)
    BY Zenon, <1>22 DEF TypeOK, Fields, Drop, Held, Writes
  <2>3. Published(t)' = Published(t) /\ (Published(t) = {} \/ commit_ts'[t] = commit_ts[t])
    BY Zenon, <1>22 DEF TypeOK, Fields, Drop, Published, Writes
  <2>4. (Live(t)' => Live(t)) /\ (MayPublish(t)' => MayPublish(t) \/ Held(t)' = {})
    BY Zenon, <1>22 DEF TypeOK, Fields, Drop, Live, MayPublish, Held, Writes
  <2>5. UNCHANGED <<versions, committed, bulk_rows, read_ts, vacuum_min, vacuum_todo, raced>>
    BY Zenon, <1>22 DEF Drop
  <2>6. Quiet
    BY Zenon, <2>1, <2>2, <2>3, <2>4, <2>5 DEF Quiet
  <2>7. QED
    BY Zenon, <2>6, QuietStep
<1> QED
  BY Zenon, <1>18, <1>19, <1>20, <1>21, <1>22 DEF Rollback

\* vacuum forgets only histories older than every live writer's snapshot.
LEMMA WriteVacuum ==
  ASSUME TypeOK, Fields, RowsInv, Counted, Vacuum
  PROVE  RowsInv'
<1> USE DEF tmVars, rvVars, txVars, vacVars, histVars
<1>23. ASSUME NEW m \in Ts, VacuumStart(m) PROVE RowsInv'
  <2>1. \A x \in Tx : /\ Held(x)' = Held(x) /\ Published(x)' = Published(x)
                       /\ Live(x)' = Live(x) /\ MayPublish(x)' = MayPublish(x)
    BY <1>23 DEF VacuumStart, Held, Published, Writes, Live, MayPublish
  <2>2. /\ UNCHANGED <<versions, committed, bulk_rows, read_ts, commit_ts>>
        /\ vacuum_min' = m /\ raced \subseteq raced'
    BY Zenon, <1>23 DEF VacuumStart
  <2>3. Marks' /\ MarksFresh' /\ Allocation'
    BY <2>1, <2>2 DEF RowsInv, Marks, MarksFresh, Allocation, Kept
  <2>4. History' /\ Serialized'
    BY Zenon, <2>1, <2>2 DEF RowsInv, History, Serialized
  <2>5. ASSUME NEW x \in Tx, Live(x), x \notin raced'
        PROVE  m <= read_ts[x]
    <3>1. CASE pc[x] \in {"has_ts", "is_active"}
      BY <1>23, <2>5, <3>1, Positive DEF TypeOK, Fields, VacuumStart
    <3>2. CASE Registered(x)
      <4>1. read_ts[x] \in Ts /\ active_read_ts[read_ts[x]] > 0
        BY Zenon, <3>2 DEF Counted
      <4>2. QED
        BY <1>23, <4>1, Positive DEF VacuumStart, IsMinActiveReadTs
    <3>3. QED
      BY Zenon, <2>5, <3>1, <3>2 DEF TypeOK, Live, Registered, PC
  <2>6. VacuumKnows'
    BY Zenon, <2>1, <2>2, <2>5 DEF VacuumKnows
  <2>7. QED
    BY Zenon, <2>3, <2>4, <2>6 DEF RowsInv
<1>24. ASSUME NEW r \in Row, VacuumRow(r) PROVE RowsInv'
  <2>1. \A x \in Tx : /\ Held(x)' = Held(x) /\ Published(x)' = Published(x)
                       /\ Live(x)' = Live(x) /\ MayPublish(x)' = MayPublish(x)
    BY <1>24 DEF VacuumRow, Held, Published, Writes, Live, MayPublish
  <2>2. /\ \A q \in Row \ {r} : committed'[q] = committed[q]
        /\ \/ committed'[r].last_ts = committed[r].last_ts
           \/ committed'[r] = NoEntry /\ committed[r].last_ts < vacuum_min
        /\ committed[r] = NoEntry => committed'[r] = NoEntry
    BY Zenon, <1>24, VacuumEntryType DEF TypeOK, VacuumRow
  <2>3. /\ \A q \in Row : committed[q].last_ts \in Nat
        /\ \A x \in Tx : read_ts[x] \in Nat /\ commit_ts[x] \in Nat
        /\ vacuum_min \in Nat
    BY Positive DEF TypeOK, CommittedVersion, NoEntry, Ts
  <2>4. /\ UNCHANGED <<versions, bulk_rows, read_ts, commit_ts, vacuum_min, raced>>
        /\ vacuum_todo # {}
    BY Zenon, <1>24 DEF VacuumRow
  <2>5. \A x \in Tx : Held(x) \subseteq Row /\ Published(x) \subseteq Row
    BY Zenon DEF TypeOK, Held, Published, Writes
  <2>6. Marks' /\ MarksFresh'
    <3>1. \A q \in Row : committed'[q].last_ts \in Nat /\ committed'[q].last_ts <= committed[q].last_ts
      BY <2>2, <2>3 DEF NoEntry
    <3>2. Marks'
      BY Zenon, <2>1, <2>4 DEF RowsInv, Marks
    <3>3. MarksFresh'
      BY <2>1, <2>3, <2>4, <2>5, <3>1 DEF RowsInv, MarksFresh
    <3>4. QED
      BY Zenon, <3>2, <3>3
  <2>7. Allocation'
    <3>1. \A c \in Tx : \A q : Kept(c, q)' = Kept(c, q)
      BY Zenon, <2>1, <2>4 DEF Kept
    <3>2. \A q \in Row : committed'[q] # NoEntry => committed[q] # NoEntry
      BY Zenon, <2>2
    <3>3. QED
      BY <2>1, <2>4, <3>1, <3>2 DEF RowsInv, Allocation
  <2>8. History'
    <3>1. \A x \in Tx : Live(x) /\ x \notin raced => vacuum_min <= read_ts[x]
      BY Zenon, <2>4 DEF RowsInv, VacuumKnows
    <3>2. ASSUME NEW a \in Tx, NEW q \in Published(a)
          PROVE  \/ commit_ts[a] <= committed'[q].last_ts
                 \/ \A x \in Tx : Live(x) /\ x \notin raced => commit_ts[a] <= read_ts[x]
      <4>1. CASE committed'[q].last_ts = committed[q].last_ts
        BY Zenon, <3>2, <4>1 DEF RowsInv, History
      <4>2. CASE committed[q].last_ts < vacuum_min
        <5>1. q \in Row
          BY Zenon, <2>5, <3>2
        <5>2. CASE commit_ts[a] <= committed[q].last_ts
          BY <2>3, <3>1, <4>2, <5>1, <5>2
        <5>3. CASE ~(commit_ts[a] <= committed[q].last_ts)
          BY Zenon, <3>2, <5>3 DEF RowsInv, History
        <5>4. QED
          BY Zenon, <5>2, <5>3
      <4>3. QED
        BY Zenon, <2>2, <2>5, <3>2, <4>1, <4>2
    <3>3. QED
      BY Zenon, <2>1, <2>4, <3>2 DEF History
  <2>9. VacuumKnows' /\ Serialized'
    BY Zenon, <2>1, <2>4 DEF RowsInv, VacuumKnows, Serialized
  <2>10. QED
    BY Zenon, <2>6, <2>7, <2>8, <2>9 DEF RowsInv
<1> QED
  BY Zenon, <1>23, <1>24 DEF Vacuum

\* Every step keeps it.
LEMMA WriteStep ==
  ASSUME TypeOK, Fields, RowsInv, Counted, ~LateErrors, [Next]_vars
  PROVE  RowsInv'
<1>1. CASE UNCHANGED vars
  <2>1. \A x \in Tx : /\ Held(x)' = Held(x) /\ Published(x)' = Published(x)
                       /\ Live(x)' = Live(x) /\ MayPublish(x)' = MayPublish(x)
    BY <1>1 DEF vars, txVars, Held, Published, Writes, Live, MayPublish
  <2>2. UNCHANGED <<versions, committed, bulk_rows, read_ts, commit_ts, vacuum_min,
                    vacuum_todo, raced>>
    BY Zenon, <1>1 DEF vars, rvVars, txVars, vacVars, histVars
  <2>3. Quiet
    BY Zenon, <2>1, <2>2 DEF Quiet
  <2>4. QED
    BY Zenon, <2>3, QuietStep
<1>2. QED
  BY Zenon, <1>1, WriteBegin, WriteStatement, WriteCommit, WriteRollback, WriteVacuum DEF Next
=============================================================================

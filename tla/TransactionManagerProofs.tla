---------------------- MODULE TransactionManagerProofs ----------------------
(***************************************************************************)
(* The theorems on the transaction manager, for any number of              *)
(* transactions, rows and timestamps: its types; active_read_ts counts the *)
(* snapshots in use; the first committer wins; what a snapshot may see;    *)
(* and which marks rows carry.  The first two hold whichever way           *)
(* transactions end, the others provided commit does not fail after        *)
(* publishing its rows (LateErrors = FALSE; with it rollback drops marks   *)
(* of other writers).                                                      *)
(***************************************************************************)
EXTENDS TransactionManagerRows

(* Readers' snapshots and the release of marks *)

\* A step of transaction t: nothing of another transaction changes.
OthersSame(t) ==
  \A x \in Tx \ {t} :
    /\ pc'[x] = pc[x] /\ is_read_only'[x] = is_read_only[x]
    /\ read_ts'[x] = read_ts[x] /\ commit_ts'[x] = commit_ts[x]
    /\ marking'[x] = marking[x] /\ modified_rows'[x] = modified_rows[x]
    /\ bulk_rows'[x] = bulk_rows[x] /\ togo'[x] = togo[x]
    /\ (x \in past' <=> x \in past) /\ (x \in raced' <=> x \in raced)

LEMMA Others ==
  ASSUME NEW t \in Tx, OthersSame(t), NEW x \in Tx \ {t}
  PROVE  /\ Held(x)' = Held(x) /\ Writes(x)' = Writes(x)
         /\ Reader(x)' = Reader(x) /\ Stamped(x)' = Stamped(x)
         /\ \A r : Passed(x, r)' = Passed(x, r) /\ Kept(x, r)' = Kept(x, r)
<1>1. Held(x)' = Held(x) /\ Writes(x)' = Writes(x)
  BY Zenon DEF OthersSame, Held, Writes
<1>2. Reader(x)' = Reader(x) /\ Stamped(x)' = Stamped(x)
  BY Zenon DEF OthersSame, Reader, Stamped
<1>3. \A r : Passed(x, r)' = Passed(x, r) /\ Kept(x, r)' = Kept(x, r)
  BY Zenon DEF OthersSame, Passed, Kept, Published, Writes
<1>4. QED
  BY Zenon, <1>1, <1>2, <1>3

\* A step of t that takes no mark, publishes nothing and takes no snapshot.
Calm(t) ==
  /\ OthersSame(t)
  /\ UNCHANGED <<versions, committed, vacuum_min, vacuum_todo>>
  /\ bulk_rows'[t] = bulk_rows[t]
  /\ Held(t)' \subseteq Held(t)
  /\ Stamped(t)' => Stamped(t) /\ read_ts'[t] = read_ts[t] /\ commit_ts'[t] = commit_ts[t]
  /\ \A r : Kept(t, r)' => Kept(t, r) /\ commit_ts'[t] = commit_ts[t]
  /\ Reader(t)' => Reader(t) /\ read_ts'[t] = read_ts[t]
  /\ \A r \in Writes(t)' : Passed(t, r)' => r \in Writes(t) /\ Passed(t, r)

\* Such a step keeps the invariant.
LEMMA CalmStep ==
  ASSUME SnapInv, NEW t \in Tx, Calm(t)
  PROVE  SnapInv'
<1>1. \A x \in Tx :
        /\ Held(x)' \subseteq Held(x) /\ bulk_rows'[x] = bulk_rows[x]
        /\ \A r : Kept(x, r)' => Kept(x, r) /\ commit_ts'[x] = commit_ts[x]
        /\ Reader(x)' => Reader(x) /\ read_ts'[x] = read_ts[x]
        /\ \A r \in Writes(x)' : Passed(x, r)' => r \in Writes(x) /\ Passed(x, r)
  BY Others DEF Calm, OthersSame
<1>2. UNCHANGED <<versions, committed, vacuum_min, vacuum_todo>>
  BY Zenon DEF Calm
<1>3. EntriesOrdered'
  BY Zenon, <1>2 DEF SnapInv, EntriesOrdered
<1>4. StampsFresh'
  BY Others DEF SnapInv, StampsFresh, Calm, OthersSame
<1>5. InsertsNew'
  BY Zenon, <1>1, <1>2 DEF SnapInv, InsertsNew
<1>6. VacuumKnowsReaders'
  BY Zenon, <1>1, <1>2 DEF SnapInv, VacuumKnowsReaders
<1>7. InsertsHidden'
  BY <1>1, <1>2 DEF SnapInv, InsertsHidden
<1>8. Released'
  BY Zenon, <1>1, <1>2 DEF SnapInv, Released
<1>9. QED
  BY Zenon, <1>3, <1>4, <1>5, <1>6, <1>7, <1>8 DEF SnapInv

\* The moves of a transaction that change nothing but where it is.
Move(from, to, t) ==
  \/ from \in {"has_ts", "is_active"} /\ to \in {"is_active", "running"}
  \/ from \in {"running", "failed"} /\ to \in {"locked", "dropped"}
  \/ from = "running" /\ is_read_only[t] /\ to = "committed"
  \/ from = "stamped" /\ togo[t] = {} /\ to = "logged"
  \/ from = "logged" /\ to = "committed"
  \/ from = "rolling" /\ togo[t] = {} /\ to = "rolled"
  \/ from = "rolled" /\ to = "aborted"

\* They are calm.
LEMMA MoveStep ==
  ASSUME TypeOK, Fields, SnapInv, NEW t \in Tx, NEW to \in PC, Move(pc[t], to, t),
         pc' = [pc EXCEPT ![t] = to],
         UNCHANGED <<versions, committed, txVars, togo, vacVars, histVars>>
  PROVE  SnapInv'
<1> USE DEF txVars, vacVars, histVars
<1>1. OthersSame(t)
  BY Zenon DEF TypeOK, OthersSame
<1>2. UNCHANGED <<versions, committed, vacuum_min, vacuum_todo, read_ts, commit_ts, bulk_rows>>
  OBVIOUS
<1>3. pc'[t] = to
  BY Zenon DEF TypeOK
<1>4. Held(t)' \subseteq Held(t)
  BY Zenon, <1>3 DEF Fields, Move, Held, Writes
<1>5. (Stamped(t)' => Stamped(t)) /\ (Reader(t)' => Reader(t))
  BY Zenon, <1>3 DEF Move, Stamped, Reader
<1>6. \A q : Kept(t, q)' => Kept(t, q)
  BY Zenon, <1>3 DEF Fields, Move, Kept, Published, Writes
<1>7. \A q \in Writes(t)' : q \in Writes(t) /\ (Passed(t, q)' => Passed(t, q))
  BY Zenon, <1>3 DEF Fields, Move, Passed, Writes
<1>8. Calm(t)
  BY Zenon, <1>1, <1>2, <1>4, <1>5, <1>6, <1>7 DEF Calm
<1>9. QED
  BY Zenon, <1>8, CalmStep

\* A snapshot taken now has every commit behind it.
LEMMA SnapBegin ==
  ASSUME IInv, SnapInv, NEW t \in Tx, Begin(t)
  PROVE  SnapInv'
<1> USE DEF tmVars, rvVars, txVars, vacVars, histVars
<1>a. TypeOK /\ Fields /\ RowsInv /\ SnapInv
  BY Zenon DEF IInv
<1>1. ASSUME NEW ro \in BOOLEAN, BeginId(t, ro) PROVE SnapInv'
  <2>1. OthersSame(t)
    BY Zenon, <1>1, <1>a DEF TypeOK, BeginId, OthersSame
  <2>2. UNCHANGED <<versions, committed, vacuum_min, vacuum_todo>> /\ bulk_rows'[t] = bulk_rows[t]
    BY Zenon, <1>1 DEF BeginId
  <2>3. Held(t)' \subseteq Held(t) 
    BY Zenon, <1>1, <1>a DEF TypeOK, Fields, BeginId, Held, Writes
  <2>8. Stamped(t)' => Stamped(t) /\ read_ts'[t] = read_ts[t] /\ commit_ts'[t] = commit_ts[t]
    BY Zenon, <1>1, <1>a DEF TypeOK, BeginId, Stamped
  <2>4. \A q : Kept(t, q)' => Kept(t, q) /\ commit_ts'[t] = commit_ts[t]
    BY Zenon, <1>1, <1>a DEF TypeOK, Fields, BeginId, Kept, Published, Writes
  <2>5. Reader(t)' => Reader(t) /\ read_ts'[t] = read_ts[t]
    BY Zenon, <1>1, <1>a DEF TypeOK, BeginId, Reader
  <2>6. \A q \in Writes(t)' : Passed(t, q)' => q \in Writes(t) /\ Passed(t, q)
    BY Zenon, <1>1, <1>a DEF TypeOK, Fields, BeginId, Passed, Writes
  <2>7. QED
    BY Zenon, <1>a, <2>1, <2>2, <2>3, <2>4, <2>5, <2>6, <2>8, CalmStep DEF Calm
<1>2. CASE BeginSnapshot(t)
  <2>1. OthersSame(t)
    BY Zenon, <1>2, <1>a DEF TypeOK, BeginSnapshot, OthersSame
  <2>2. UNCHANGED <<versions, committed, bulk_rows, commit_ts, vacuum_min, vacuum_todo>>
    BY Zenon, <1>2 DEF BeginSnapshot
  <2>3. /\ Held(t)' = {} /\ pc'[t] = "has_ts" /\ ~Stamped(t)'
        /\ \A r : ~Kept(t, r)' /\ ~Passed(t, r)'
    BY Zenon, <1>2, <1>a DEF TypeOK, BeginSnapshot, Held, Kept, Passed, Published, Writes,
       Stamped
  <2>4. \A a \in Tx : commit_ts[a] <= read_ts'[t]
    BY Zenon, <1>2, <1>a DEF TypeOK, Fields, BeginSnapshot
  <2>5. vacuum_todo # {} /\ Reader(t)' => vacuum_min <= read_ts'[t]
    BY <1>2, <1>a, Positive DEF TypeOK, BeginSnapshot, Reader
  <2>6. \A a \in Tx : commit_ts[a] \in Nat /\ read_ts'[t] \in Nat
    BY <1>2, <1>a, Positive DEF TypeOK, BeginSnapshot, Ts
  <2>7. EntriesOrdered' /\ StampsFresh'
    BY Zenon, <1>a, <2>1, <2>2, <2>3, Others DEF SnapInv, EntriesOrdered, StampsFresh,
       OthersSame
  <2>8. InsertsNew' /\ VacuumKnowsReaders'
    BY <1>a, <2>1, <2>2, <2>3, <2>5, Others DEF SnapInv, InsertsNew, VacuumKnowsReaders,
       OthersSame
  <2>9. InsertsHidden'
    <3>1. SUFFICES ASSUME NEW a \in Tx, NEW x \in Tx, NEW r \in Row, Kept(a, r)', Reader(x)',
                          a # x, read_ts'[x] < commit_ts'[a]
                   PROVE  /\ committed'[r] # NoEntry /\ read_ts'[x] < committed'[r].first_ts
                          /\ versions'[r] # x
      BY Zenon DEF InsertsHidden
    <3>2. x # t /\ a # t
      BY <2>2, <2>3, <2>4, <2>6, <3>1
    <3>3. Kept(a, r) /\ Reader(x) /\ read_ts'[x] = read_ts[x]
      BY Zenon, <2>1, <3>1, <3>2, Others DEF OthersSame
    <3>4. QED
      BY Zenon, <1>a, <2>2, <3>1, <3>3 DEF SnapInv, InsertsHidden
  <2>10. Released'
    BY <1>a, <2>1, <2>2, <2>3, Others DEF SnapInv, Released
  <2>11. QED
    BY Zenon, <2>7, <2>8, <2>9, <2>10 DEF SnapInv
<1>3. ASSUME NEW ts \in SnapshotTs, BeginSnapshotAt(t, ts) PROVE SnapInv'
  <2>1. OthersSame(t)
    BY Zenon, <1>3, <1>a DEF TypeOK, BeginSnapshotAt, OthersSame
  <2>2. UNCHANGED <<versions, committed, vacuum_min, vacuum_todo>> /\ bulk_rows'[t] = bulk_rows[t]
    BY Zenon, <1>3 DEF BeginSnapshotAt
  <2>3. Held(t)' \subseteq Held(t) 
    BY Zenon, <1>3, <1>a DEF TypeOK, Fields, BeginSnapshotAt, Held, Writes
  <2>8. Stamped(t)' => Stamped(t) /\ read_ts'[t] = read_ts[t] /\ commit_ts'[t] = commit_ts[t]
    BY Zenon, <1>3, <1>a DEF TypeOK, BeginSnapshotAt, Stamped
  <2>4. \A q : Kept(t, q)' => Kept(t, q) /\ commit_ts'[t] = commit_ts[t]
    BY Zenon, <1>3, <1>a DEF TypeOK, Fields, BeginSnapshotAt, Kept, Published, Writes
  <2>5. Reader(t)' => Reader(t) /\ read_ts'[t] = read_ts[t]
    BY Zenon, <1>3, <1>a DEF TypeOK, BeginSnapshotAt, Reader
  <2>6. \A q \in Writes(t)' : Passed(t, q)' => q \in Writes(t) /\ Passed(t, q)
    BY Zenon, <1>3, <1>a DEF TypeOK, Fields, BeginSnapshotAt, Passed, Writes
  <2>7. QED
    BY Zenon, <1>a, <2>1, <2>2, <2>3, <2>4, <2>5, <2>6, <2>8, CalmStep DEF Calm
<1>4. CASE BeginActive(t)
  <2>1. Move(pc[t], "is_active", t)
    BY Zenon, <1>4 DEF BeginActive, Move
  <2>2. /\ pc' = [pc EXCEPT ![t] = "is_active"]
        /\ UNCHANGED <<versions, committed, txVars, togo, vacVars, histVars>>
    BY Zenon, <1>4 DEF BeginActive
  <2>3. QED
    BY Zenon, <1>a, <2>1, <2>2, MoveStep DEF PC
<1>5. CASE BeginRegister(t)
  <2>1. Move(pc[t], "running", t)
    BY Zenon, <1>5 DEF BeginRegister, Move
  <2>2. /\ pc' = [pc EXCEPT ![t] = "running"]
        /\ UNCHANGED <<versions, committed, txVars, togo, vacVars, histVars>>
    BY Zenon, <1>5 DEF BeginRegister
  <2>3. QED
    BY Zenon, <1>a, <2>1, <2>2, MoveStep DEF PC
<1> QED
  BY Zenon, <1>1, <1>2, <1>3, <1>4, <1>5 DEF Begin

\* A statement marks no row that a later commit inserted.
LEMMA SnapStatement ==
  ASSUME IInv, SnapInv, NEW t \in Tx, Statement(t)
  PROVE  SnapInv'
<1> USE DEF tmVars, rvVars, txVars, vacVars, histVars
<1>a. TypeOK /\ Fields /\ RowsInv /\ SnapInv
  BY Zenon DEF IInv
<1>1. ASSUME NEW r \in Row, InsertRow(t, r) PROVE SnapInv'
  <2>1. OthersSame(t)
    BY Zenon, <1>1, <1>a DEF TypeOK, InsertRow, OthersSame
  <2>2. /\ UNCHANGED <<committed, read_ts, commit_ts, pc, vacuum_min, vacuum_todo, past, raced>>
        /\ versions'[r] = t /\ \A q \in Row \ {r} : versions'[q] = versions[q]
        /\ bulk_rows'[t] = bulk_rows[t] \cup {r} /\ ~Stamped(t)'
    BY Zenon, <1>1, <1>a DEF TypeOK, InsertRow, MayWrite, Stamped
  <2>3. \A c \in Tx : ~Kept(c, r)
    BY Zenon, <1>1 DEF InsertRow, Unallocated, Kept, Published
  <2>4. committed[r] = NoEntry
    BY Zenon, <1>1, <1>a, <2>3 DEF InsertRow, Unallocated, RowsInv, Allocation
  <2>5. /\ Held(t)' = Held(t) \cup {r} /\ Reader(t)' = Reader(t)
        /\ \A q : ~Kept(t, q)' /\ ~Passed(t, q)'
    BY Zenon, <1>1, <1>a DEF TypeOK, InsertRow, MayWrite, Held, Kept, Published, Writes,
       Passed, Reader
  <2>6. \A x \in Tx : Held(x) \subseteq Row /\ Writes(x) \subseteq Row
    BY Zenon, <1>a DEF TypeOK, Held, Writes
  <2>7. EntriesOrdered' /\ StampsFresh'
    BY <1>a, <2>1, <2>2, Others DEF SnapInv, EntriesOrdered, StampsFresh, OthersSame
  <2>8. InsertsNew'
    <3>1. \A x \in Tx \ {t} : Held(x)' = Held(x) /\ bulk_rows'[x] = bulk_rows[x]
      BY Zenon, <2>1, Others DEF OthersSame
    <3>2. QED
      BY <1>a, <2>2, <2>4, <2>5, <3>1 DEF SnapInv, InsertsNew
  <2>9. VacuumKnowsReaders'
    BY Zenon, <1>a, <2>2 DEF SnapInv, VacuumKnowsReaders, Reader
  <2>10. InsertsHidden'
    <3>1. \A a \in Tx, q \in Row : Kept(a, q)' => Kept(a, q) /\ q # r
      BY Zenon, <2>1, <2>3, <2>5, Others
    <3>2. QED
      BY <1>a, <2>2, <3>1 DEF SnapInv, InsertsHidden, Reader
  <2>11. Released'
    BY <1>a, <2>1, <2>2, <2>5, <2>6, Others DEF SnapInv, Released
  <2>12. QED
    BY Zenon, <2>7, <2>8, <2>9, <2>10, <2>11 DEF SnapInv
<1>2. ASSUME NEW r \in Row, SetMark(t, r) PROVE SnapInv'
  <2>1. OthersSame(t)
    BY Zenon, <1>2, <1>a DEF TypeOK, SetMark, OthersSame
  <2>2. /\ UNCHANGED <<committed, read_ts, commit_ts, pc, bulk_rows, vacuum_min, vacuum_todo,
                       past, raced>>
        /\ versions'[r] = t /\ \A q \in Row \ {r} : versions'[q] = versions[q]
        /\ ~Stamped(t)'
    BY Zenon, <1>2, <1>a DEF TypeOK, SetMark, MayWrite, Stamped
  <2>3. committed[r].last_ts <= read_ts[t]
    BY Zenon, <1>2 DEF SetMark, MarkRowOk
  <2>4. /\ Held(t)' = Held(t) \cup {r} /\ Reader(t)' = Reader(t)
        /\ \A q : ~Kept(t, q)' /\ ~Passed(t, q)'
        /\ r \in bulk_rows[t] => r \in Held(t)
    BY Zenon, <1>2, <1>a DEF TypeOK, SetMark, MayWrite, Held, Kept, Published, Writes, Passed,
       Reader
  <2>5. \A x \in Tx : Held(x) \subseteq Row /\ Writes(x) \subseteq Row
    BY Zenon, <1>a DEF TypeOK, Held, Writes
  <2>6. EntriesOrdered' /\ StampsFresh'
    BY ZenonT(30), <1>a, <2>1, <2>2, Others DEF SnapInv, EntriesOrdered, StampsFresh, OthersSame
  <2>7. InsertsNew'
    BY Zenon, <1>a, <2>1, <2>2, <2>4, Others DEF SnapInv, InsertsNew
  <2>8. VacuumKnowsReaders'
    BY Zenon, <1>a, <2>2 DEF SnapInv, VacuumKnowsReaders, Reader
  <2>9. InsertsHidden'
    <3>1. \A a \in Tx, q \in Row : Kept(a, q)' => Kept(a, q)
      BY Zenon, <2>1, <2>4, Others
    <3>2. ~(read_ts[t] < committed[r].first_ts)
      BY <1>a, <2>3, Positive DEF SnapInv, EntriesOrdered, TypeOK, CommittedVersion, NoEntry, Ts
    <3>3. QED
      BY <1>a, <2>2, <3>1, <3>2 DEF SnapInv, InsertsHidden, Reader
  <2>10. Released'
    BY <1>a, <2>1, <2>2, <2>4, <2>5, Others DEF SnapInv, Released
  <2>11. QED
    BY Zenon, <2>6, <2>7, <2>8, <2>9, <2>10 DEF SnapInv
<1>3. ASSUME NEW r \in Row, SetConflict(t, r) PROVE SnapInv'
  <2>1. OthersSame(t)
    BY Zenon, <1>3, <1>a DEF TypeOK, SetConflict, OthersSame
  <2>2. UNCHANGED <<versions, committed, vacuum_min, vacuum_todo>> /\ bulk_rows'[t] = bulk_rows[t]
    BY Zenon, <1>3 DEF SetConflict
  <2>3. Held(t)' \subseteq Held(t) 
    BY <1>3, <1>a DEF TypeOK, Fields, SetConflict, MayWrite, Held, Writes
  <2>8. Stamped(t)' => Stamped(t) /\ read_ts'[t] = read_ts[t] /\ commit_ts'[t] = commit_ts[t]
    BY Zenon, <1>3, <1>a DEF TypeOK, SetConflict, MayWrite, Stamped
  <2>4. \A q : Kept(t, q)' => Kept(t, q) /\ commit_ts'[t] = commit_ts[t]
    BY Zenon, <1>3, <1>a DEF TypeOK, Fields, SetConflict, MayWrite, Kept, Published, Writes
  <2>5. Reader(t)' => Reader(t) /\ read_ts'[t] = read_ts[t]
    BY Zenon, <1>3, <1>a DEF TypeOK, SetConflict, MayWrite, Reader
  <2>6. \A q \in Writes(t)' : Passed(t, q)' => q \in Writes(t) /\ Passed(t, q)
    BY Zenon, <1>3, <1>a DEF TypeOK, Fields, SetConflict, MayWrite, Passed, Writes
  <2>7. QED
    BY Zenon, <1>a, <2>1, <2>2, <2>3, <2>4, <2>5, <2>6, <2>8, CalmStep DEF Calm
<1>4. CASE SetWrite(t)
  <2>1. OthersSame(t)
    BY Zenon, <1>4, <1>a DEF TypeOK, SetWrite, OthersSame
  <2>2. UNCHANGED <<versions, committed, vacuum_min, vacuum_todo>> /\ bulk_rows'[t] = bulk_rows[t]
    BY Zenon, <1>4 DEF SetWrite
  <2>3. Held(t)' \subseteq Held(t) 
    BY Zenon, <1>4, <1>a DEF TypeOK, Fields, SetWrite, MayWrite, Held, Writes
  <2>8. Stamped(t)' => Stamped(t) /\ read_ts'[t] = read_ts[t] /\ commit_ts'[t] = commit_ts[t]
    BY Zenon, <1>4, <1>a DEF TypeOK, SetWrite, MayWrite, Stamped
  <2>4. \A q : Kept(t, q)' => Kept(t, q) /\ commit_ts'[t] = commit_ts[t]
    BY Zenon, <1>4, <1>a DEF TypeOK, Fields, SetWrite, MayWrite, Kept, Published, Writes
  <2>5. Reader(t)' => Reader(t) /\ read_ts'[t] = read_ts[t]
    BY Zenon, <1>4, <1>a DEF TypeOK, SetWrite, MayWrite, Reader
  <2>6. \A q \in Writes(t)' : Passed(t, q)' => q \in Writes(t) /\ Passed(t, q)
    BY Zenon, <1>4, <1>a DEF TypeOK, Fields, SetWrite, MayWrite, Passed, Writes
  <2>7. QED
    BY Zenon, <1>a, <2>1, <2>2, <2>3, <2>4, <2>5, <2>6, <2>8, CalmStep DEF Calm
<1> QED
  BY Zenon, <1>1, <1>2, <1>3, <1>4 DEF Statement

-----------------------------------------------------------------------------
(* commit, rollback, Drop and the vacuum *)

\* commit_row opens the history of an inserted row at the commit timestamp and
\* leaves the beginning of any other history where it was.
LEMMA SnapCommit ==
  ASSUME IInv, SnapInv, NEW t \in Tx, ~LateErrors, Commit(t)
  PROVE  SnapInv'
<1> USE DEF tmVars, rvVars, txVars, vacVars, histVars
<1>a. TypeOK /\ Fields /\ RowsInv /\ SnapInv
  BY Zenon DEF IInv
<1>1. CASE CommitReadOnly(t)
  <2>1. Move(pc[t], "committed", t)
    BY Zenon, <1>1 DEF CommitReadOnly, Move
  <2>2. /\ pc' = [pc EXCEPT ![t] = "committed"]
        /\ UNCHANGED <<versions, committed, txVars, togo, vacVars, histVars>>
    BY Zenon, <1>1 DEF CommitReadOnly
  <2>3. QED
    BY Zenon, <1>a, <2>1, <2>2, MoveStep DEF PC
<1>2. CASE CommitLock(t)
  <2>1. Move(pc[t], "locked", t)
    BY Zenon, <1>2 DEF CommitLock, MayWrite, Move
  <2>2. /\ pc' = [pc EXCEPT ![t] = "locked"]
        /\ UNCHANGED <<versions, committed, txVars, togo, vacVars, histVars>>
    BY Zenon, <1>2 DEF CommitLock
  <2>3. QED
    BY Zenon, <1>a, <2>1, <2>2, MoveStep DEF PC
<1>3. CASE CommitStamp(t)
  <2>1. OthersSame(t)
    BY Zenon, <1>3, <1>a DEF TypeOK, CommitStamp, OthersSame
  <2>2. UNCHANGED <<versions, committed, bulk_rows, read_ts, vacuum_min, vacuum_todo, past, raced>>
    BY Zenon, <1>3 DEF CommitStamp
  <2>3. /\ Held(t)' \subseteq Held(t) /\ (Reader(t)' => Reader(t))
        /\ \A r : ~Kept(t, r)' /\ (r \in Writes(t)' => ~Passed(t, r)')
    BY Zenon, <1>3, <1>a DEF TypeOK, CommitStamp, Held, Kept, Published, Writes, Passed, Reader
  <2>4. ~is_read_only'[t] => read_ts'[t] < commit_ts'[t]
    <3>1. read_ts'[t] = read_ts[t] /\ commit_ts'[t] = current_ts + 1 /\ is_read_only' = is_read_only
      BY Zenon, <1>3, <1>a DEF TypeOK, CommitStamp
    <3>2. ~is_read_only[t] => Live(t)
      BY Zenon, <1>3 DEF CommitStamp, Live
    <3>3. current_ts \in Nat /\ read_ts[t] \in Nat /\ (Live(t) => read_ts[t] <= current_ts)
      BY SMTT(30), <1>a, Positive DEF TypeOK, Fields, Ts
    <3>4. QED
      BY <3>1, <3>2, <3>3
  <2>5. EntriesOrdered' /\ StampsFresh'
    BY Zenon, <1>a, <2>1, <2>2, <2>4, Others DEF SnapInv, EntriesOrdered, StampsFresh,
       OthersSame, Stamped
  <2>6. InsertsNew' /\ VacuumKnowsReaders'
    BY Zenon, <1>a, <2>1, <2>2, <2>3, Others DEF SnapInv, InsertsNew, VacuumKnowsReaders
  <2>7. InsertsHidden'
    <3>1. \A a \in Tx, q \in Row : Kept(a, q)' => Kept(a, q) /\ commit_ts'[a] = commit_ts[a]
      BY Zenon, <2>1, <2>3, Others DEF OthersSame
    <3>2. \A x \in Tx : Reader(x)' => Reader(x)
      BY Zenon, <2>1, <2>3, Others
    <3>3. QED
      BY SMTT(30), <1>a, <2>2, <3>1, <3>2 DEF SnapInv, InsertsHidden
  <2>8. Released'
    BY <1>a, <2>1, <2>2, <2>3, Others DEF SnapInv, Released
  <2>9. QED
    BY Zenon, <2>5, <2>6, <2>7, <2>8 DEF SnapInv
<1>4. ASSUME NEW r \in Row, CommitRow(t, r) PROVE SnapInv'
  <2>1. OthersSame(t)
    BY Zenon, <1>4, <1>a DEF TypeOK, CommitRow, OthersSame
  <2>2. /\ UNCHANGED <<read_ts, commit_ts, pc, is_read_only, bulk_rows, vacuum_min, vacuum_todo,
                       past, raced>>
        /\ versions'[r] = NoTx /\ committed'[r] = CommitRowEntry(committed[r], commit_ts[t])
        /\ \A q \in Row \ {r} : versions'[q] = versions[q] /\ committed'[q] = committed[q]
        /\ pc[t] = "stamped" /\ r \in togo[t] /\ Writes(t)' = Writes(t)
    BY Zenon, <1>4, <1>a DEF TypeOK, CommitRow, Writes
  <2>3. /\ \A q \in Row : committed[q].first_ts \in Nat /\ committed[q].last_ts \in Nat
        /\ \A x \in Tx : read_ts[x] \in Nat /\ commit_ts[x] \in Nat
    <3>1. \A q \in Row : committed[q] \in CommittedVersion(Ts)
      BY Zenon, <1>a DEF TypeOK
    <3>2. \A e \in CommittedVersion(Ts) : e.first_ts \in Nat /\ e.last_ts \in Nat
      BY Positive DEF CommittedVersion, NoEntry
    <3>3. \A x \in Tx : read_ts[x] \in Nat /\ commit_ts[x] \in Nat
      BY <1>a, Positive DEF TypeOK
    <3>4. QED
      BY Zenon, <3>1, <3>2, <3>3
  <2>4. r \in Held(t) /\ versions[r] = t /\ committed[r].last_ts <= read_ts[t]
    BY Zenon, <1>a, <2>2 DEF RowsInv, Marks, MarksFresh, MayPublish, Held
  <2>5. read_ts[t] < commit_ts[t]
    <3>1. ~is_read_only[t]
      BY Zenon, <1>a, <2>2 DEF Fields, Writes
    <3>2. QED
      BY Zenon, <1>a, <2>2, <3>1 DEF SnapInv, StampsFresh, Stamped
  <2>6. /\ committed[r] = NoEntry => /\ committed'[r].first_ts = commit_ts[t]
                                     /\ committed'[r].last_ts = commit_ts[t]
        /\ committed[r] # NoEntry => /\ committed'[r].first_ts = committed[r].first_ts
                                     /\ committed'[r].last_ts = commit_ts[t]
    <3>1. committed[r].first_ts <= committed[r].last_ts
      BY Zenon, <1>a DEF SnapInv, EntriesOrdered
    <3>2. ~(commit_ts[t] < committed[r].first_ts) /\ commit_ts[t] > committed[r].last_ts
      BY <2>3, <2>4, <2>5, <3>1
    <3>3. QED
      BY <2>2, <3>2 DEF CommitRowEntry
  <2>7. committed'[r] # NoEntry
    BY <1>a, <2>2, CommitRowEntryType DEF TypeOK, Fields
  <2>8. Held(t)' = Held(t) \ {r} /\ \A x \in Tx \ {t} : r \notin Held(x)
    <3>1. Held(t)' = Held(t) \ {r}
      BY Zenon, <1>4, <1>a DEF TypeOK, CommitRow, Held
    <3>2. QED
      BY Zenon, <1>a, <2>4, <3>1 DEF RowsInv, Marks
  <2>9. EntriesOrdered'
    BY <1>a, <2>2, <2>3, <2>4, <2>5, <2>6 DEF SnapInv, EntriesOrdered
  <2>10. StampsFresh' /\ VacuumKnowsReaders'
    BY Zenon, <1>a, <2>2 DEF SnapInv, StampsFresh, Stamped, VacuumKnowsReaders, Reader
  <2>11. InsertsNew'
    <3>1. \A x \in Tx : Held(x) \subseteq Row
      BY Zenon DEF Held
    <3>2. \A x \in Tx \ {t} : Held(x)' = Held(x)
      BY Zenon, <2>1, Others
    <3>3. QED
      BY <1>a, <2>2, <2>8, <3>1, <3>2 DEF SnapInv, InsertsNew
  <2>12. InsertsHidden'
    <3>1. SUFFICES ASSUME NEW a \in Tx, NEW x \in Tx, NEW q \in Row, Kept(a, q)', Reader(x),
                          a # x, read_ts[x] < commit_ts[a]
                   PROVE  /\ committed'[q] # NoEntry /\ read_ts[x] < committed'[q].first_ts
                          /\ versions'[q] # x
      BY <2>2 DEF InsertsHidden, Reader
    <3>2. CASE Kept(a, q)
      <4>1. /\ committed[q] # NoEntry /\ read_ts[x] < committed[q].first_ts /\ versions[q] # x
        BY Zenon, <1>a, <3>1, <3>2 DEF SnapInv, InsertsHidden
      <4>2. x # NoTx
        BY Zenon, Positive DEF NoTx
      <4>3. QED
        BY Zenon, <2>2, <2>6, <2>7, <4>1, <4>2
    <3>3. CASE ~Kept(a, q)
      <4>1. a = t
        BY Zenon, <2>1, <3>1, <3>3, Others
      <4>2. q = r
        BY Zenon, <1>4, <1>a, <3>1, <3>3, <4>1 DEF TypeOK, CommitRow, Kept, Published, Writes
      <4>3. committed[r] = NoEntry
        BY Zenon, <1>a, <2>2, <2>4, <3>1, <4>1, <4>2 DEF SnapInv, InsertsNew, Kept
      <4>4. x # NoTx
        BY Zenon, Positive DEF NoTx
      <4>5. QED
        BY Zenon, <2>2, <2>6, <2>7, <3>1, <4>1, <4>2, <4>3, <4>4
    <3>4. QED
      BY Zenon, <3>2, <3>3
  <2>13. Released'
    <3>1. \A x \in Tx : x # NoTx /\ Writes(x) \subseteq Row
      BY Zenon, <1>a, Positive DEF NoTx, TypeOK, Writes
    <3>2. \A q \in Writes(t) : Passed(t, q)' => Passed(t, q) \/ q = r
      BY Zenon, <1>4, <1>a DEF TypeOK, CommitRow, Passed
    <3>3. \A x \in Tx \ {t} : Writes(x)' = Writes(x) /\ \A q : Passed(x, q)' = Passed(x, q)
      BY Zenon, <2>1, Others
    <3>4. QED
      BY <1>a, <2>2, <3>1, <3>2, <3>3 DEF SnapInv, Released
  <2>14. QED
    BY Zenon, <2>9, <2>10, <2>11, <2>12, <2>13 DEF SnapInv
<1>5. CASE CommitLogged(t)
  <2>1. Move(pc[t], "logged", t)
    BY Zenon, <1>5 DEF CommitLogged, Move
  <2>2. /\ pc' = [pc EXCEPT ![t] = "logged"]
        /\ UNCHANGED <<versions, committed, txVars, togo, vacVars, histVars>>
    BY Zenon, <1>5 DEF CommitLogged
  <2>3. QED
    BY Zenon, <1>a, <2>1, <2>2, MoveStep DEF PC
<1>6. CASE CommitFinish(t)
  <2>1. Move(pc[t], "committed", t)
    BY Zenon, <1>6 DEF CommitFinish, Move
  <2>2. /\ pc' = [pc EXCEPT ![t] = "committed"]
        /\ UNCHANGED <<versions, committed, txVars, togo, vacVars, histVars>>
    BY Zenon, <1>6 DEF CommitFinish
  <2>3. QED
    BY Zenon, <1>a, <2>1, <2>2, MoveStep DEF PC
<1>7. CASE CommitEarlyError(t)
  <2>1. OthersSame(t)
    BY Zenon, <1>7, <1>a DEF TypeOK, CommitEarlyError, OthersSame
  <2>2. UNCHANGED <<versions, committed, vacuum_min, vacuum_todo>> /\ bulk_rows'[t] = bulk_rows[t]
    BY Zenon, <1>7 DEF CommitEarlyError
  <2>3. Held(t)' \subseteq Held(t) 
    BY Zenon, <1>7, <1>a DEF TypeOK, Fields, CommitEarlyError, Held, Writes
  <2>8. Stamped(t)' => Stamped(t) /\ read_ts'[t] = read_ts[t] /\ commit_ts'[t] = commit_ts[t]
    BY Zenon, <1>7, <1>a DEF TypeOK, CommitEarlyError, Stamped
  <2>4. \A q : Kept(t, q)' => Kept(t, q) /\ commit_ts'[t] = commit_ts[t]
    BY Zenon, <1>7, <1>a DEF TypeOK, Fields, CommitEarlyError, Kept, Published, Writes
  <2>5. Reader(t)' => Reader(t) /\ read_ts'[t] = read_ts[t]
    BY Zenon, <1>7, <1>a DEF TypeOK, CommitEarlyError, Reader
  <2>6. \A q \in Writes(t)' : Passed(t, q)' => q \in Writes(t) /\ Passed(t, q)
    BY Zenon, <1>7, <1>a DEF TypeOK, Fields, CommitEarlyError, Passed, Writes
  <2>7. QED
    BY Zenon, <1>a, <2>1, <2>2, <2>3, <2>4, <2>5, <2>6, <2>8, CalmStep DEF Calm
<1>8. ~CommitLateError(t)
  BY Zenon DEF CommitLateError
<1> QED
  BY Zenon, <1>1, <1>2, <1>3, <1>4, <1>5, <1>6, <1>7, <1>8 DEF Commit

\* rollback and Drop give no reader anything to see.
LEMMA SnapRollback ==
  ASSUME IInv, SnapInv, NEW t \in Tx, Rollback(t) \/ Drop(t)
  PROVE  SnapInv'
<1> USE DEF tmVars, rvVars, txVars, vacVars, histVars
<1>a. TypeOK /\ Fields /\ RowsInv /\ SnapInv
  BY Zenon DEF IInv
<1>1. CASE RollbackStart(t)
  <2>1. OthersSame(t)
    BY Zenon, <1>1, <1>a DEF TypeOK, RollbackStart, OthersSame
  <2>2. UNCHANGED <<versions, committed, vacuum_min, vacuum_todo>> /\ bulk_rows'[t] = bulk_rows[t]
    BY Zenon, <1>1 DEF RollbackStart
  <2>3. Held(t)' \subseteq Held(t) 
    BY Zenon, <1>1, <1>a DEF TypeOK, Fields, RollbackStart, Held, Writes
  <2>8. Stamped(t)' => Stamped(t) /\ read_ts'[t] = read_ts[t] /\ commit_ts'[t] = commit_ts[t]
    BY Zenon, <1>1, <1>a DEF TypeOK, RollbackStart, Stamped
  <2>4. \A q : Kept(t, q)' => Kept(t, q) /\ commit_ts'[t] = commit_ts[t]
    BY Zenon, <1>1, <1>a DEF TypeOK, Fields, RollbackStart, Kept, Published, Writes
  <2>5. Reader(t)' => Reader(t) /\ read_ts'[t] = read_ts[t]
    BY Zenon, <1>1, <1>a DEF TypeOK, RollbackStart, Reader
  <2>6. \A q \in Writes(t)' : Passed(t, q)' => q \in Writes(t) /\ Passed(t, q)
    BY Zenon, <1>1, <1>a DEF TypeOK, Fields, RollbackStart, Passed, Writes
  <2>7. QED
    BY Zenon, <1>a, <2>1, <2>2, <2>3, <2>4, <2>5, <2>6, <2>8, CalmStep DEF Calm
<1>2. ASSUME NEW r \in Row, RollbackRow(t, r) PROVE SnapInv'
  <2>1. OthersSame(t)
    BY Zenon, <1>2, <1>a DEF TypeOK, RollbackRow, OthersSame
  <2>2. /\ UNCHANGED <<committed, read_ts, commit_ts, pc, is_read_only, bulk_rows, vacuum_min,
                       vacuum_todo, past, raced>>
        /\ versions'[r] = NoTx /\ \A q \in Row \ {r} : versions'[q] = versions[q]
        /\ pc[t] = "rolling" /\ Writes(t)' = Writes(t)
    BY Zenon, <1>2, <1>a DEF TypeOK, RollbackRow, Writes
  <2>3. /\ Held(t)' \subseteq Held(t) /\ \A q : ~Kept(t, q)'
        /\ \A q \in Writes(t) : Passed(t, q)' => Passed(t, q) \/ q = r
    BY Zenon, <1>2, <1>a DEF TypeOK, RollbackRow, Held, Kept, Published, Writes, Passed
  <2>4. \A x \in Tx : x # NoTx /\ Writes(x) \subseteq Row
    BY Zenon, <1>a, Positive DEF NoTx, TypeOK, Writes
  <2>5. EntriesOrdered' /\ StampsFresh' /\ VacuumKnowsReaders'
    BY Zenon, <1>a, <2>2 DEF SnapInv, EntriesOrdered, StampsFresh, Stamped,
       VacuumKnowsReaders, Reader
  <2>6. InsertsNew'
    BY Zenon, <1>a, <2>1, <2>2, <2>3, Others DEF SnapInv, InsertsNew
  <2>7. InsertsHidden'
    <3>1. \A a \in Tx, q \in Row : Kept(a, q)' => Kept(a, q)
      BY Zenon, <2>1, <2>3, Others
    <3>2. \A x \in Tx : Reader(x)' = Reader(x)
      BY Zenon, <2>2 DEF Reader
    <3>3. \A q \in Row : versions'[q] = versions[q] \/ versions'[q] = NoTx
      BY Zenon, <2>2
    <3>4. UNCHANGED <<committed, read_ts, commit_ts>>
      BY Zenon, <2>2
    <3>5. QED
      BY Zenon, <1>a, <2>4, <3>1, <3>2, <3>3, <3>4 DEF SnapInv, InsertsHidden
  <2>8. Released'
    <3>1. \A x \in Tx \ {t} : Writes(x)' = Writes(x) /\ \A q : Passed(x, q)' = Passed(x, q)
      BY Zenon, <2>1, Others
    <3>2. QED
      BY <1>a, <2>2, <2>3, <2>4, <3>1 DEF SnapInv, Released
  <2>9. QED
    BY Zenon, <2>5, <2>6, <2>7, <2>8 DEF SnapInv
<1>3. CASE RollbackDeactivate(t)
  <2>1. Move(pc[t], "rolled", t)
    BY Zenon, <1>3 DEF RollbackDeactivate, Move
  <2>2. /\ pc' = [pc EXCEPT ![t] = "rolled"]
        /\ UNCHANGED <<versions, committed, txVars, togo, vacVars, histVars>>
    BY Zenon, <1>3 DEF RollbackDeactivate
  <2>3. QED
    BY Zenon, <1>a, <2>1, <2>2, MoveStep DEF PC
<1>4. CASE RollbackFinish(t)
  <2>1. Move(pc[t], "aborted", t)
    BY Zenon, <1>4 DEF RollbackFinish, Move
  <2>2. /\ pc' = [pc EXCEPT ![t] = "aborted"]
        /\ UNCHANGED <<versions, committed, txVars, togo, vacVars, histVars>>
    BY Zenon, <1>4 DEF RollbackFinish
  <2>3. QED
    BY Zenon, <1>a, <2>1, <2>2, MoveStep DEF PC
<1>5. CASE Drop(t)
  <2>1. Move(pc[t], "dropped", t)
    BY Zenon, <1>5 DEF Drop, Move
  <2>2. /\ pc' = [pc EXCEPT ![t] = "dropped"]
        /\ UNCHANGED <<versions, committed, txVars, togo, vacVars, histVars>>
    BY Zenon, <1>5 DEF Drop
  <2>3. QED
    BY Zenon, <1>a, <2>1, <2>2, MoveStep DEF PC
<1> QED
  BY Zenon, <1>1, <1>2, <1>3, <1>4, <1>5 DEF Rollback

\* The vacuum never moves the beginning of a history past a reader's snapshot.
LEMMA SnapVacuum ==
  ASSUME IInv, SnapInv, Counted, Vacuum
  PROVE  SnapInv'
<1> USE DEF tmVars, rvVars, txVars, vacVars, histVars
<1>a. TypeOK /\ Fields /\ RowsInv /\ SnapInv
  BY Zenon DEF IInv
<1>1. ASSUME NEW m \in Ts, VacuumStart(m) PROVE SnapInv'
  <2>1. /\ UNCHANGED <<versions, committed, pc, read_ts, commit_ts, is_read_only, past,
                       bulk_rows>>
        /\ vacuum_min' = m /\ raced \subseteq raced'
    BY Zenon, <1>1 DEF VacuumStart
  <2>2. \A x \in Tx : /\ Held(x)' = Held(x) /\ Writes(x)' = Writes(x)
                      /\ Reader(x)' => Reader(x)
                      /\ \A r : Kept(x, r)' = Kept(x, r) /\ Passed(x, r)' = Passed(x, r)
    BY <1>1 DEF VacuumStart, Held, Writes, Reader, Kept, Published, Passed
  <2>3. EntriesOrdered' /\ StampsFresh'
    BY Zenon, <1>a, <2>1 DEF SnapInv, EntriesOrdered, StampsFresh, Stamped
  <2>4. InsertsNew' /\ InsertsHidden' /\ Released'
    <3>1. InsertsNew'
      BY Zenon, <1>a, <2>1, <2>2 DEF SnapInv, InsertsNew
    <3>2. InsertsHidden'
      BY Zenon, <1>a, <2>1, <2>2 DEF SnapInv, InsertsHidden
    <3>3. Released'
      BY Zenon, <1>a, <2>1, <2>2 DEF SnapInv, Released
    <3>4. QED
      BY Zenon, <3>1, <3>2, <3>3
  <2>5. ASSUME NEW x \in Tx, Reader(x)'
        PROVE  m <= read_ts[x]
    <3>1. CASE pc[x] \in {"has_ts", "is_active"}
      BY <1>1, <1>a, <2>5, <3>1, Positive DEF TypeOK, Fields, VacuumStart, Reader
    <3>2. CASE Registered(x)
      <4>1. read_ts[x] \in Ts /\ active_read_ts[read_ts[x]] > 0
        BY Zenon, <3>2 DEF Counted
      <4>2. QED
        BY <1>1, <4>1, Positive DEF VacuumStart, IsMinActiveReadTs
    <3>3. QED
      BY Zenon, <1>a, <2>1, <2>5, <3>1, <3>2 DEF TypeOK, Reader, Registered, PC
  <2>6. VacuumKnowsReaders'
    BY Zenon, <2>1, <2>5 DEF VacuumKnowsReaders
  <2>7. QED
    BY Zenon, <2>3, <2>4, <2>6 DEF SnapInv
<1>2. ASSUME NEW r \in Row, VacuumRow(r) PROVE SnapInv'
  <2>1. /\ UNCHANGED <<versions, pc, read_ts, commit_ts, is_read_only, past, raced, bulk_rows,
                       vacuum_min>>
        /\ \A q \in Row \ {r} : committed'[q] = committed[q]
        /\ committed'[r] = VacuumEntry(committed[r], vacuum_min) /\ vacuum_todo # {}
    BY Zenon, <1>2, <1>a DEF TypeOK, VacuumRow
  <2>2. \A x \in Tx : /\ Held(x)' = Held(x) /\ Writes(x)' = Writes(x) /\ Reader(x)' = Reader(x)
                      /\ \A q : Kept(x, q)' = Kept(x, q) /\ Passed(x, q)' = Passed(x, q)
    BY <1>2 DEF VacuumRow, Held, Writes, Reader, Kept, Published, Passed
  <2>3. /\ committed[r] \in CommittedVersion(Ts) /\ vacuum_min \in Ts
        /\ committed[r].first_ts <= committed[r].last_ts
        /\ \A x \in Tx : read_ts[x] \in Nat
    BY <1>a, Positive DEF TypeOK, SnapInv, EntriesOrdered, Ts
  <2>4. /\ committed'[r].first_ts <= committed'[r].last_ts
        /\ committed[r] = NoEntry => committed'[r] = NoEntry
        /\ vacuum_min <= committed[r].first_ts => committed'[r] = committed[r]
    BY <2>1, <2>3, Positive DEF VacuumEntry, CommittedVersion, NoEntry
  <2>5. EntriesOrdered' /\ StampsFresh'
    BY Zenon, <1>a, <2>1, <2>4 DEF SnapInv, EntriesOrdered, StampsFresh, Stamped
  <2>6. InsertsNew'
    <3>1. \A x \in Tx : Held(x) \subseteq Row
      BY Zenon DEF Held
    <3>2. QED
      BY Zenon, <1>a, <2>1, <2>2, <2>4, <3>1 DEF SnapInv, InsertsNew
  <2>7. VacuumKnowsReaders' /\ Released'
    BY Zenon, <1>a, <2>1, <2>2 DEF SnapInv, VacuumKnowsReaders, Released
  <2>8. InsertsHidden'
    <3>1. SUFFICES ASSUME NEW a \in Tx, NEW x \in Tx, NEW q \in Row, Kept(a, q), Reader(x),
                          a # x, read_ts[x] < commit_ts[a]
                   PROVE  /\ committed'[q] # NoEntry /\ read_ts[x] < committed'[q].first_ts
                          /\ versions[q] # x
      BY <2>1, <2>2 DEF InsertsHidden
    <3>2. /\ committed[q] # NoEntry /\ read_ts[x] < committed[q].first_ts /\ versions[q] # x
      BY Zenon, <1>a, <3>1 DEF SnapInv, InsertsHidden
    <3>3. vacuum_min <= read_ts[x]
      BY Zenon, <1>a, <2>1, <3>1 DEF SnapInv, VacuumKnowsReaders
    <3>4. committed'[q] = committed[q]
      <4>1. CASE q = r
        <5>1. vacuum_min <= committed[r].first_ts
          BY <2>3, <3>2, <3>3, <4>1, Positive DEF CommittedVersion, NoEntry
        <5>2. QED
          BY Zenon, <2>4, <4>1, <5>1
      <4>2. QED
        BY Zenon, <2>1, <4>1
    <3>5. QED
      BY Zenon, <3>2, <3>4
  <2>9. QED
    BY Zenon, <2>5, <2>6, <2>7, <2>8 DEF SnapInv
<1> QED
  BY Zenon, <1>1, <1>2 DEF Vacuum

\* Every step keeps the whole invariant.
LEMMA SnapStep ==
  ASSUME IInv, SnapInv, Counted, ~LateErrors, [Next]_vars
  PROVE  SnapInv'
<1>1. CASE UNCHANGED vars
  <2>1. \A x \in Tx : /\ Held(x)' = Held(x) /\ Writes(x)' = Writes(x) /\ Reader(x)' = Reader(x)
                      /\ \A q : Kept(x, q)' = Kept(x, q) /\ Passed(x, q)' = Passed(x, q)
    BY <1>1 DEF vars, txVars, histVars, Held, Writes, Reader, Kept, Published, Passed
  <2>2. UNCHANGED <<versions, committed, pc, is_read_only, read_ts, commit_ts, bulk_rows,
                    vacuum_min, vacuum_todo>>
    BY Zenon, <1>1 DEF vars, rvVars, txVars, vacVars
  <2>3. EntriesOrdered' /\ StampsFresh' /\ InsertsNew'
    BY Zenon, <2>1, <2>2 DEF SnapInv, EntriesOrdered, StampsFresh, Stamped, InsertsNew
  <2>4. VacuumKnowsReaders' /\ InsertsHidden' /\ Released'
    BY Zenon, <2>1, <2>2 DEF SnapInv, VacuumKnowsReaders, InsertsHidden, Released
  <2>5. QED
    BY Zenon, <2>3, <2>4 DEF SnapInv
<1>2. QED
  BY Zenon, <1>1, SnapBegin, SnapStatement, SnapCommit, SnapRollback, SnapVacuum DEF Next

LEMMA InitSnap == Init => SnapInv
<1> SUFFICES ASSUME Init PROVE SnapInv
  OBVIOUS
<1>1. \A x \in Tx : /\ pc[x] = "unborn" /\ Writes(x) = {} /\ Held(x) = {} /\ ~Reader(x)
                    /\ \A r : ~Kept(x, r)
  BY Zenon DEF Init, Writes, Held, Reader, Kept
<1>2. EntriesOrdered /\ StampsFresh /\ InsertsNew
  BY <1>1 DEF Init, EntriesOrdered, StampsFresh, Stamped, InsertsNew, NoEntry
<1>3. VacuumKnowsReaders /\ InsertsHidden /\ Released
  BY Zenon, <1>1 DEF Init, VacuumKnowsReaders, InsertsHidden, Released
<1>4. QED
  BY Zenon, <1>2, <1>3 DEF SnapInv

\* An insert that is not rolled back is either still marked, with no history,
\* or published with the history that hides it.
LEMMA SnapImpliesHidden == IInv /\ SnapInv => NoFutureRows
<1> SUFFICES ASSUME IInv, SnapInv, NEW t \in Tx, NEW a \in Tx, NEW r \in bulk_rows[a],
                    Registered(t), t \notin raced, t \notin past, a # t,
                    pc[a] \notin {"rolling", "rolled", "aborted"},
                    commit_ts[a] = 0 \/ commit_ts[a] > read_ts[t]
             PROVE  ~Visible(t, r)
  BY Zenon DEF NoFutureRows
<1>1. r \in Row /\ Reader(t) /\ t # NoTx /\ a # NoTx /\ read_ts[t] \in Nat /\ commit_ts[a] \in Nat
  BY Positive DEF IInv, TypeOK, Registered, Reader, NoTx, Ts
<1>2. r \in Held(a) \/ Kept(a, r)
  BY Zenon, <1>1 DEF IInv, TypeOK, Fields, PC, Held, Kept, Published, Writes
<1>3. CASE r \in Held(a)
  <2>1. versions[r] = a /\ committed[r] = NoEntry
    BY Zenon, <1>3 DEF IInv, RowsInv, Marks, SnapInv, InsertsNew
  <2>2. QED
    BY Zenon, <1>1, <2>1 DEF Visible, IsVisible
<1>4. CASE Kept(a, r) /\ commit_ts[a] > read_ts[t]
  <2>1. committed[r] # NoEntry /\ read_ts[t] < committed[r].first_ts /\ versions[r] # t
    BY Zenon, <1>1, <1>4 DEF SnapInv, InsertsHidden
  <2>2. committed[r].first_ts \in Nat
    BY <1>1, Positive DEF IInv, TypeOK, CommittedVersion, NoEntry
  <2>3. QED
    BY <1>1, <2>1, <2>2 DEF Visible, IsVisible
<1>5. Kept(a, r) => commit_ts[a] # 0
  <2>1. Kept(a, r) => Stamped(a)
    BY Zenon, <1>1 DEF IInv, Fields, Kept, Published, Stamped
  <2>2. QED
    BY <2>1 DEF IInv, TypeOK, SnapInv, StampsFresh, Ts
<1>6. QED
  BY Zenon, <1>2, <1>3, <1>4, <1>5
-----------------------------------------------------------------------------
(* active_read_ts counts the snapshots in use *)

INSTANCE FiniteSetTheorems

\* Finitely many transactions, so finitely many snapshots to count.
LEMMA TxFinite == IsFiniteSet(Tx)
<1>1. 1 \in Int /\ MaxTx - 1 \in Int
  BY ConstantsAssumption
<1>2. QED
  BY Zenon, <1>1, FS_Interval DEF Tx

\* ... of every timestamp.
LEMMA SnapshotsFinite == \A ts \in Ts : IsFiniteSet(Snapshots(ts))
BY Zenon, TxFinite, FS_Subset DEF Snapshots

\* A step that changes neither the counts nor which snapshots are registered.
LEMMA BalanceKept ==
  ASSUME ReadTsBalanced, active_read_ts' = active_read_ts,
         \A x \in Tx : /\ Registered(x)' = Registered(x)
                       /\ Registered(x) => read_ts'[x] = read_ts[x]
  PROVE  ReadTsBalanced'
<1>1. \A ts \in Ts : Snapshots(ts)' = Snapshots(ts)
  BY Zenon DEF Snapshots
<1>2. QED
  BY Zenon, <1>1 DEF ReadTsBalanced

\* The registration of one snapshot.
LEMMA BalanceEnter ==
  ASSUME TypeOK, ReadTsBalanced, NEW t \in Tx, ~Registered(t), Registered(t)',
         read_ts[t] \in Ts, read_ts' = read_ts,
         active_read_ts' = [active_read_ts EXCEPT ![read_ts[t]] = @ + 1],
         \A x \in Tx \ {t} : Registered(x)' = Registered(x)
  PROVE  ReadTsBalanced'
<1>1. Snapshots(read_ts[t])' = Snapshots(read_ts[t]) \cup {t} /\ t \notin Snapshots(read_ts[t])
  BY Zenon DEF Snapshots
<1>2. \A ts \in Ts \ {read_ts[t]} : Snapshots(ts)' = Snapshots(ts)
  BY Zenon DEF Snapshots
<1>3. Cardinality(Snapshots(read_ts[t])') = Cardinality(Snapshots(read_ts[t])) + 1
  BY Zenon, <1>1, SnapshotsFinite, FS_AddElement
<1>4. QED
  BY Zenon, <1>2, <1>3 DEF ReadTsBalanced, TypeOK

\* The removal of one snapshot: a registered transaction's count is positive,
\* so remove_read_ts takes exactly one off it.
LEMMA BalanceLeave ==
  ASSUME TypeOK, ReadTsBalanced, NEW t \in Tx, Registered(t), ~Registered(t)',
         read_ts[t] \in Ts, read_ts' = read_ts, RemoveReadTs(read_ts[t]),
         \A x \in Tx \ {t} : Registered(x)' = Registered(x)
  PROVE  ReadTsBalanced'
<1>1. Snapshots(read_ts[t])' = Snapshots(read_ts[t]) \ {t} /\ t \in Snapshots(read_ts[t])
  BY Zenon DEF Snapshots
<1>2. \A ts \in Ts \ {read_ts[t]} : Snapshots(ts)' = Snapshots(ts)
  BY Zenon DEF Snapshots
<1>3. /\ Cardinality(Snapshots(read_ts[t])') = Cardinality(Snapshots(read_ts[t])) - 1
      /\ Cardinality(Snapshots(read_ts[t])) \in Nat
      /\ Cardinality(Snapshots(read_ts[t])') \in Nat
  BY <1>1, SnapshotsFinite, FS_RemoveElement, FS_CardinalityType, FS_Subset
<1>4. active_read_ts[read_ts[t]] > 0
  BY <1>3 DEF ReadTsBalanced
<1>5. QED
  BY Zenon, <1>2, <1>3, <1>4 DEF ReadTsBalanced, RemoveReadTs, TypeOK

\* Every step keeps the counts exact.
LEMMA BalanceStep ==
  ASSUME TypeOK, Fields, ReadTsBalanced, [Next]_vars
  PROVE  ReadTsBalanced'
<1> USE DEF Registered, tmVars, txVars
<1>1. ASSUME NEW t \in Tx, NEW ro \in BOOLEAN, BeginId(t, ro) PROVE ReadTsBalanced'
  <2>1. pc[t] = "unborn"
    BY <1>1, Positive DEF BeginId, Fields
  <2>2. QED
    BY SMTT(30), <1>1, <2>1, BalanceKept DEF BeginId, TypeOK
<1>2. ASSUME NEW t \in Tx, BeginSnapshot(t) PROVE ReadTsBalanced'
  BY <1>2, BalanceKept DEF BeginSnapshot, TypeOK
<1>3. ASSUME NEW t \in Tx, NEW ts \in SnapshotTs, BeginSnapshotAt(t, ts) PROVE ReadTsBalanced'
  BY <1>3, BalanceKept DEF BeginSnapshotAt, TypeOK
<1>4. ASSUME NEW t \in Tx, BeginActive(t) PROVE ReadTsBalanced'
  BY <1>4, BalanceKept DEF BeginActive, TypeOK
<1>5. ASSUME NEW t \in Tx, BeginRegister(t) PROVE ReadTsBalanced'
  BY Zenon, <1>5, BalanceEnter DEF BeginRegister, Fields, TypeOK
<1>6. ASSUME NEW t \in Tx, NEW r \in Row, InsertRow(t, r) PROVE ReadTsBalanced'
  BY Zenon, <1>6, BalanceKept DEF InsertRow, MayWrite, TypeOK
<1>7. ASSUME NEW t \in Tx, NEW r \in Row, SetMark(t, r) PROVE ReadTsBalanced'
  BY Zenon, <1>7, BalanceKept DEF SetMark, MayWrite, TypeOK
<1>8. ASSUME NEW t \in Tx, NEW r \in Row, SetConflict(t, r) PROVE ReadTsBalanced'
  BY <1>8, BalanceKept DEF SetConflict, MayWrite, TypeOK
<1>9. ASSUME NEW t \in Tx, SetWrite(t) PROVE ReadTsBalanced'
  BY Zenon, <1>9, BalanceKept DEF SetWrite, MayWrite, TypeOK
<1>10. ASSUME NEW t \in Tx, CommitReadOnly(t) PROVE ReadTsBalanced'
  BY Zenon, <1>10, BalanceLeave DEF CommitReadOnly, Fields, TypeOK
<1>11. ASSUME NEW t \in Tx, CommitLock(t) PROVE ReadTsBalanced'
  BY <1>11, BalanceKept DEF CommitLock, MayWrite, TypeOK
<1>12. ASSUME NEW t \in Tx, CommitStamp(t) PROVE ReadTsBalanced'
  BY <1>12, BalanceKept DEF CommitStamp, TypeOK
<1>13. ASSUME NEW t \in Tx, NEW r \in Row, CommitRow(t, r) PROVE ReadTsBalanced'
  BY Zenon, <1>13, BalanceKept DEF CommitRow, TypeOK
<1>14. ASSUME NEW t \in Tx, CommitLogged(t) PROVE ReadTsBalanced'
  BY <1>14, BalanceKept DEF CommitLogged, TypeOK
<1>15. ASSUME NEW t \in Tx, CommitFinish(t) PROVE ReadTsBalanced'
  BY Zenon, <1>15, BalanceLeave DEF CommitFinish, Fields, TypeOK
<1>16. ASSUME NEW t \in Tx, CommitEarlyError(t) PROVE ReadTsBalanced'
  BY <1>16, BalanceKept DEF CommitEarlyError, TypeOK
<1>17. ASSUME NEW t \in Tx, CommitLateError(t) PROVE ReadTsBalanced'
  BY <1>17, BalanceKept DEF CommitLateError, TypeOK
<1>18. ASSUME NEW t \in Tx, RollbackStart(t) PROVE ReadTsBalanced'
  BY <1>18, BalanceKept DEF RollbackStart, TypeOK
<1>19. ASSUME NEW t \in Tx, NEW r \in Row, RollbackRow(t, r) PROVE ReadTsBalanced'
  BY Zenon, <1>19, BalanceKept DEF RollbackRow, TypeOK
<1>20. ASSUME NEW t \in Tx, RollbackDeactivate(t) PROVE ReadTsBalanced'
  BY <1>20, BalanceKept DEF RollbackDeactivate, TypeOK
<1>21. ASSUME NEW t \in Tx, RollbackFinish(t) PROVE ReadTsBalanced'
  BY Zenon, <1>21, BalanceLeave DEF RollbackFinish, Fields, TypeOK
<1>22. ASSUME NEW t \in Tx, Drop(t) PROVE ReadTsBalanced'
  BY Zenon, <1>22, BalanceLeave DEF Drop, Fields, TypeOK
<1>23. ASSUME NEW m \in Ts, VacuumStart(m) PROVE ReadTsBalanced'
  BY Zenon, <1>23, BalanceKept DEF VacuumStart, TypeOK
<1>24. ASSUME NEW r \in Row, VacuumRow(r) PROVE ReadTsBalanced'
  BY Zenon, <1>24, BalanceKept DEF VacuumRow, TypeOK
<1>25. CASE UNCHANGED vars
  BY Zenon, <1>25, BalanceKept DEF vars
<1>26. QED
  BY Zenon, <1>1, <1>2, <1>3, <1>4, <1>5, <1>6, <1>7, <1>8, <1>9, <1>10, <1>11, <1>12, <1>13,
     <1>14, <1>15, <1>16, <1>17, <1>18, <1>19, <1>20, <1>21, <1>22, <1>23, <1>24, <1>25
  DEF Next, Begin, Statement, Commit, Rollback, Vacuum

\* A registered transaction is counted at its snapshot.
LEMMA RegisteredCounted ==
  ASSUME TypeOK, Fields, ReadTsBalanced
  PROVE  Counted
<1> SUFFICES ASSUME NEW t \in Tx, Registered(t)
             PROVE  read_ts[t] \in Ts /\ active_read_ts[read_ts[t]] > 0
  BY Zenon DEF Counted
<1>1. read_ts[t] \in Ts
  BY Zenon DEF Fields, Registered
<1>2. t \in Snapshots(read_ts[t]) /\ IsFiniteSet(Snapshots(read_ts[t]))
  BY Zenon, <1>1, SnapshotsFinite DEF Snapshots
<1>3. Cardinality(Snapshots(read_ts[t])) \in Nat /\ Cardinality(Snapshots(read_ts[t])) # 0
  BY Zenon, <1>2, FS_CardinalityType, FS_EmptySet
<1>4. QED
  BY <1>1, <1>3 DEF ReadTsBalanced
-----------------------------------------------------------------------------
\* The initial states satisfy the invariant.
LEMMA InitIInv == Init => IInv
<1> SUFFICES ASSUME Init PROVE IInv
  OBVIOUS
<1> USE DEF Init
<1>1. TypeOK
  BY ConstantsAssumption DEF TypeOK, PC, CommittedVersion, NoEntry, NoTx, Ts
<1>2. Fields
  BY ConstantsAssumption DEF Fields, Live, Writes, Tx
<1>3. ReadTsBalanced
  <2>1. \A ts \in Ts : Snapshots(ts) = {}
    BY Zenon DEF Snapshots, Registered
  <2>2. QED
    BY Zenon, <2>1, FS_EmptySet DEF ReadTsBalanced
<1>4. \A t \in Tx : Held(t) = {} /\ Published(t) = {}
  BY Zenon DEF Held, Published, Writes
<1>5. Marks /\ MarksFresh /\ Allocation /\ History /\ VacuumKnows /\ Serialized
  BY Zenon, <1>4 DEF Marks, MarksFresh, MayPublish, Allocation, History, VacuumKnows, Serialized
<1>6. QED
  BY Zenon, <1>1, <1>2, <1>3, <1>5 DEF IInv, RowsInv

\* The type invariant holds for every number of transactions, rows and
\* timestamps, whichever way transactions end.
THEOREM TypeCorrect == Spec => []TypeOK
<1>1. Init => TypeOK /\ Fields
  BY Zenon, InitIInv DEF IInv
<1>2. TypeOK /\ Fields /\ [Next]_vars => TypeOK' /\ Fields'
  BY Zenon, TypeStep
<1>3. QED
  BY <1>1, <1>2, PTL DEF Spec

\* begin_at, commit, rollback and Drop keep active_read_ts an exact count of
\* the snapshots in use, late errors of commit included.
THEOREM ReadTsBalance == Spec => []ReadTsBalanced
<1>1. Init => TypeOK /\ Fields /\ ReadTsBalanced
  BY Zenon, InitIInv DEF IInv
<1>2. TypeOK /\ Fields /\ ReadTsBalanced /\ [Next]_vars
        => TypeOK' /\ Fields' /\ ReadTsBalanced'
  BY Zenon, TypeStep, BalanceStep
<1>3. QED
  BY <1>1, <1>2, PTL DEF Spec
\* Published rows carry the property: FirstCommitterWins follows from the
\* invariant, because a committed transaction has published all it wrote.
LEMMA IInvImplies == IInv => FirstCommitterWins
<1> SUFFICES ASSUME IInv PROVE FirstCommitterWins
  OBVIOUS
<1>1. \A t \in Tx : pc[t] = "committed" => Published(t) = Writes(t)
  BY Zenon DEF Published
<1>2. QED
  BY Zenon, <1>1 DEF IInv, RowsInv, Serialized, FirstCommitterWins

\* First committer wins for every number of transactions, rows and timestamps,
\* as long as commit does not fail after its first commit_row.
THEOREM FirstCommitter ==
  ASSUME ~LateErrors
  PROVE  Spec => []FirstCommitterWins
<1>1. Init => IInv
  BY Zenon, InitIInv
<1>2. IInv /\ [Next]_vars => IInv'
  BY Zenon, TypeStep, BalanceStep, RegisteredCounted, WriteStep DEF IInv
<1>3. IInv => FirstCommitterWins
  BY Zenon, IInvImplies
<1>4. QED
  BY <1>1, <1>2, <1>3, PTL DEF Spec

\* A snapshot shows no row whose insert was committed after it, or not at all.
THEOREM NoFuture ==
  ASSUME ~LateErrors
  PROVE  Spec => []NoFutureRows
<1>1. Init => IInv /\ SnapInv
  BY Zenon, InitIInv, InitSnap
<1>2. IInv /\ SnapInv /\ [Next]_vars => IInv' /\ SnapInv'
  BY Zenon, TypeStep, BalanceStep, RegisteredCounted, WriteStep, SnapStep DEF IInv
<1>3. IInv /\ SnapInv => NoFutureRows
  BY Zenon, SnapImpliesHidden
<1>4. QED
  BY <1>1, <1>2, <1>3, PTL DEF Spec

\* The marks of recorded rows: held until commit or rollback reaches them,
\* gone afterwards.
THEOREM MarksRecorded ==
  ASSUME ~LateErrors
  PROVE  Spec => []RecordedMarks
<1>1. Init => IInv /\ SnapInv
  BY Zenon, InitIInv, InitSnap
<1>2. IInv /\ SnapInv /\ [Next]_vars => IInv' /\ SnapInv'
  BY Zenon, TypeStep, BalanceStep, RegisteredCounted, WriteStep, SnapStep DEF IInv
<1>3. IInv /\ SnapInv => RecordedMarks
  <2>1. IInv => \A t \in Tx : pc[t] \in {"running", "locked"} => Writes(t) \subseteq Held(t)
    BY Zenon DEF IInv, TypeOK, Held, Writes
  <2>2. QED
    BY Zenon, <2>1 DEF IInv, RowsInv, Marks, SnapInv, Released, Passed, RecordedMarks
<1>4. QED
  BY <1>1, <1>2, <1>3, PTL DEF Spec
=============================================================================

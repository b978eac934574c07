---------------------------- MODULE RowIdsProofs ----------------------------
(***************************************************************************)
(* What RowIds promises of the marks on uncommitted rows and of the set of *)
(* active writers, for any number of transactions, rows, statements and    *)
(* restarts, and for every choice of the kinds of steps in play; and of    *)
(* the rows and the counters, when transactions take turns.                *)
(***************************************************************************)
EXTENDS RowIds, TLAPS

Sizes == MaxTx \in Nat /\ MaxId \in Nat

Active == Pending \cup {"published", "unmarked"}
Marking == Pending \cup {"dropped"}

\* The rows of a transaction, whatever they are.
PerTx(f) == f = [t \in Tx |-> f[t]]

MarkTypes ==
  /\ versions \in [Id -> Tx \cup {NoTx}]
  /\ pc \in [Tx -> PC]
  /\ PerTx(reserved) /\ PerTx(deleted)

\* A mark is its writer's: the writer can still be rolled back or was dropped, and
\* knows the row as one to release.  That it knows the row is what makes the
\* property inductive: release goes through Resolved, not through versions.
MarksOwned ==
  \A i \in Id :
    versions[i] # NoTx => pc[versions[i]] \in Marking /\ i \in Resolved(versions[i])

\* active_tx_ids holds the transactions that have neither logged their commit nor left
\* in rollback or Drop, and no others: it is what rollback looks at before it takes
\* row ids back.
ActiveRight == active_tx_ids = {t \in Tx : pc[t] \in Active}

Inv == MarkTypes /\ MarksOwned /\ ActiveRight

LEMMA InitInv == Init => Inv
  BY DEF Init, Inv, MarkTypes, MarksOwned, ActiveRight, PerTx, PC, Active, Pending

-----------------------------------------------------------------------------
(* Steps by what they do to the marks *)

\* A step that keeps a transaction on the same side of Active and Marking and no
\* mark, reservation or deletion changes.
LEMMA Moves ==
  ASSUME Sizes, Inv, NEW t \in Tx, NEW step \in PC, Goto(t, step),
         pc[t] \in Marking => step \in Marking,
         UNCHANGED <<versions, reserved, deleted>>
  PROVE  MarkTypes' /\ MarksOwned'
  <1>1. MarkTypes'
    BY Zenon DEF Inv, MarkTypes, PerTx, Goto, Id
  <1>2. ASSUME NEW i \in Id, versions[i] # NoTx
        PROVE  pc'[versions[i]] \in Marking /\ i \in Resolved(versions[i])
    <2>1. versions[i] \in Tx /\ pc[versions[i]] \in Marking /\ i \in Resolved(versions[i])
      BY Zenon, <1>2 DEF Inv, MarkTypes, MarksOwned
    <2> QED BY Zenon, <2>1 DEF Inv, MarkTypes, Goto
  <1> QED BY Zenon, <1>1, <1>2 DEF MarksOwned, Resolved

\* Marking rows for a transaction that will know them.
LEMMA Marks ==
  ASSUME Sizes, Inv, NEW t \in Tx, NEW rows, NEW step \in Marking,
         versions' = Marked(rows, t), pc' = [pc EXCEPT ![t] = step],
         \A u \in Tx : Resolved(u) \subseteq reserved'[u] \cup deleted'[u],
         rows \subseteq reserved'[t] \cup deleted'[t]
  PROVE  MarksOwned'
  <1>1. ASSUME NEW i \in Id, versions'[i] # NoTx
        PROVE  /\ pc'[versions'[i]] \in Marking
               /\ i \in reserved'[versions'[i]] \cup deleted'[versions'[i]]
    <2>1. CASE i \in rows
      BY Zenon, <2>1 DEF Marked, Inv, MarkTypes
    <2>2. CASE i \notin rows
      <3>1. versions'[i] = versions[i] /\ versions[i] \in Tx
        BY Zenon, <1>1, <2>2 DEF Marked, Inv, MarkTypes
      <3>2. pc[versions[i]] \in Marking /\ i \in Resolved(versions[i])
        BY Zenon, <1>1, <3>1 DEF Inv, MarksOwned
      <3> QED BY Zenon, <3>1, <3>2 DEF Inv, MarkTypes
    <2> QED BY Zenon, <2>1, <2>2
  <1> QED BY Zenon, <1>1 DEF MarksOwned, Resolved

\* Releasing what the transaction knows releases every mark of it.
LEMMA Releases ==
  ASSUME Sizes, Inv, NEW t \in Tx, NEW step \in PC,
         versions' = Unmarked(Resolved(t)), Goto(t, step),
         UNCHANGED <<reserved, deleted>>
  PROVE  MarkTypes' /\ MarksOwned'
  <1>1. MarkTypes'
    BY Zenon DEF Inv, MarkTypes, PerTx, Goto, Unmarked
  <1>2. ASSUME NEW i \in Id, versions'[i] # NoTx
        PROVE  pc'[versions'[i]] \in Marking /\ i \in Resolved(versions'[i])
    <2>1. i \notin Resolved(t) /\ versions'[i] = versions[i]
      BY Zenon, <1>2 DEF Unmarked
    <2>2. versions[i] \in Tx /\ pc[versions[i]] \in Marking /\ i \in Resolved(versions[i])
      BY Zenon, <1>2, <2>1 DEF Inv, MarkTypes, MarksOwned
    <2> QED BY Zenon, <2>1, <2>2 DEF Inv, MarkTypes, Goto
  <1> QED BY Zenon, <1>1, <1>2 DEF MarksOwned, Resolved

LEMMA ActiveKept ==
  ASSUME Inv, NEW t \in Tx, NEW step, Goto(t, step), UNCHANGED active_tx_ids,
         pc[t] \in Active <=> step \in Active
  PROVE  ActiveRight'
  BY Zenon DEF Inv, MarkTypes, ActiveRight, Goto

LEMMA ActiveLeft ==
  ASSUME Inv, NEW t \in Tx, NEW step, Goto(t, step), step \notin Active,
         active_tx_ids' = active_tx_ids \ {t}
  PROVE  ActiveRight'
  BY Zenon DEF Inv, MarkTypes, ActiveRight, Goto
-----------------------------------------------------------------------------
LEMMA StatementInv ==
  ASSUME Sizes, Inv, NEW t \in Tx, Statement(t)
  PROVE  Inv'
  <1> USE DEF Marking, Active, Pending
  <1>1. ASSUME NEW k, NoteTableWrite(t, k) PROVE Inv'
    <2>1. Goto(t, "based") /\ pc[t] = "open"
          /\ UNCHANGED <<versions, reserved, deleted, active_tx_ids>>
      BY Zenon, <1>1 DEF NoteTableWrite, Start, tableVars
    <2> QED BY Zenon, <2>1, Moves, ActiveKept DEF Inv, PC
  <1>2. ASSUME NEW k, NEW n, AllocateBatch(t, k, n) PROVE Inv'
    <2>1. Goto(t, "allocated") /\ pc[t] = "open"
          /\ UNCHANGED <<versions, reserved, deleted, active_tx_ids>>
      BY Zenon, <1>2 DEF AllocateBatch, FetchAdd, Start
    <2> QED BY Zenon, <2>1, Moves, ActiveKept DEF Inv, PC
  <1>3. CASE Allocate(t)
    <2>1. Goto(t, "allocated") /\ pc[t] = "based"
          /\ UNCHANGED <<versions, reserved, deleted, active_tx_ids>>
      BY Zenon, <1>3 DEF Allocate, FetchAdd
    <2> QED BY Zenon, <2>1, Moves, ActiveKept DEF Inv, PC
  <1>4. CASE Reserve(t)
    <2>1. Goto(t, "reserved") /\ pc[t] = "allocated" /\ UNCHANGED <<deleted, active_tx_ids>>
          /\ versions' = Marked(ids[t], t)
          /\ reserved' = [reserved EXCEPT ![t] = @ \cup ids[t]]
      BY Zenon, <1>4 DEF Reserve
    <2>2. MarkTypes'
      BY Zenon, <2>1 DEF Inv, MarkTypes, PerTx, Goto, Marked, PC
    <2>3. /\ \A u \in Tx : Resolved(u) \subseteq reserved'[u] \cup deleted'[u]
          /\ ids[t] \subseteq reserved'[t] \cup deleted'[t]
      BY Zenon, <2>1 DEF Inv, MarkTypes, PerTx, Resolved
    <2>4. MarksOwned'
      BY Zenon, <2>1, <2>3, Marks DEF Goto
    <2> QED BY Zenon, <2>1, <2>2, <2>4, ActiveKept DEF Inv
  <1>5. CASE Append(t)
    <2>1. Goto(t, "appended") /\ pc[t] = "reserved"
          /\ UNCHANGED <<versions, reserved, deleted, active_tx_ids>>
      BY Zenon, <1>5 DEF Append, tableVars
    <2> QED BY Zenon, <2>1, Moves, ActiveKept DEF Inv, PC
  <1>6. CASE BulkAppend(t)
    <2>1. Goto(t, "open") /\ pc[t] = "allocated" /\ UNCHANGED <<deleted, active_tx_ids>>
          /\ versions' = Marked(ids[t], t)
          /\ reserved' = [reserved EXCEPT ![t] = @ \cup ids[t]]
      BY Zenon, <1>6 DEF BulkAppend
    <2>2. MarkTypes'
      BY Zenon, <2>1 DEF Inv, MarkTypes, PerTx, Goto, Marked, PC
    <2>3. /\ \A u \in Tx : Resolved(u) \subseteq reserved'[u] \cup deleted'[u]
          /\ ids[t] \subseteq reserved'[t] \cup deleted'[t]
      BY Zenon, <2>1 DEF Inv, MarkTypes, PerTx, Resolved
    <2>4. MarksOwned'
      BY Zenon, <2>1, <2>3, Marks DEF Goto
    <2> QED BY Zenon, <2>1, <2>2, <2>4, ActiveKept DEF Inv
  <1>7. CASE Count(t)
    <2>1. Goto(t, "open") /\ pc[t] = "appended"
          /\ UNCHANGED <<versions, reserved, deleted, active_tx_ids>>
      BY Zenon, <1>7 DEF Count
    <2> QED BY Zenon, <2>1, Moves, ActiveKept DEF Inv, PC
  <1>8. CASE Fail(t)
    <2>1. Goto(t, "failed") /\ pc[t] \in {"reserved", "appended"}
          /\ UNCHANGED <<versions, reserved, deleted, active_tx_ids>>
      BY Zenon, <1>8 DEF Fail, tableVars
    <2> QED BY Zenon, <2>1, Moves, ActiveKept DEF Inv, PC
  <1>9. ASSUME NEW i \in Id, Delete(t, i) PROVE Inv'
    <2>1. pc[t] = "open" /\ UNCHANGED <<pc, reserved, active_tx_ids>>
          /\ versions' = Marked({i}, t)
          /\ deleted' = [deleted EXCEPT ![t] = @ \cup {i}]
      BY Zenon, <1>9 DEF Delete, Start
    <2>2. MarkTypes'
      BY Zenon, <2>1 DEF Inv, MarkTypes, PerTx, Marked
    <2>3. /\ \A u \in Tx : Resolved(u) \subseteq reserved'[u] \cup deleted'[u]
          /\ {i} \subseteq reserved'[t] \cup deleted'[t]
      BY Zenon, <2>1 DEF Inv, MarkTypes, PerTx, Resolved
    <2>4. pc' = [pc EXCEPT ![t] = "open"]
      BY Zenon, <2>1 DEF Inv, MarkTypes
    <2>5. MarksOwned'
      BY Zenon, <2>1, <2>3, <2>4, Marks
    <2> QED BY Zenon, <2>1, <2>2, <2>5 DEF Inv, ActiveRight
  <1> QED BY Zenon, <1>1, <1>2, <1>3, <1>4, <1>5, <1>6, <1>7, <1>8, <1>9 DEF Statement

LEMMA CommitInv ==
  ASSUME Sizes, Inv, NEW t \in Tx, Commit(t)
  PROVE  Inv'
  <1> USE DEF Marking, Active, Pending
  <1>1. CASE CommitPublish(t)
    <2>1. versions' = Unmarked(Resolved(t)) /\ Goto(t, "published")
          /\ pc[t] \in {"open", "failed"} /\ UNCHANGED <<reserved, deleted, active_tx_ids>>
      BY Zenon, <1>1 DEF CommitPublish, MayCommit
    <2> QED BY Zenon, <2>1, Releases, ActiveKept DEF Inv, PC
  <1>2. CASE CommitLog(t)
    <2>1. Goto(t, "logged") /\ pc[t] = "published" /\ UNCHANGED <<versions, reserved, deleted>>
          /\ active_tx_ids' = active_tx_ids \ {t}
      BY Zenon, <1>2 DEF CommitLog, tableVars
    <2> QED BY Zenon, <2>1, Moves, ActiveLeft DEF Inv, PC
  <1>3. CASE CommitSave(t)
    <2>1. pc[t] = "logged" /\ UNCHANGED <<versions, reserved, deleted, active_tx_ids>>
          /\ (Goto(t, "uncounted") \/ Goto(t, "committed"))
      BY Zenon, <1>3 DEF CommitSave, tableVars
    <2> QED BY Zenon, <2>1, Moves, ActiveKept DEF Inv, PC
  <1>4. CASE FastCount(t)
    <2>1. pc[t] = "uncounted" /\ UNCHANGED <<versions, reserved, deleted, active_tx_ids>>
          /\ Goto(t, "committed")
      BY Zenon, <1>4 DEF FastCount
    <2> QED BY Zenon, <2>1, Moves, ActiveKept DEF Inv, PC
  <1> QED BY Zenon, <1>1, <1>2, <1>3, <1>4 DEF Commit

LEMMA RollbackInv ==
  ASSUME Sizes, Inv, NEW t \in Tx, Rollback(t)
  PROVE  Inv'
  <1> USE DEF Marking, Active, Pending
  <1>1. CASE RollbackMarks(t)
    <2>1. versions' = Unmarked(Resolved(t)) /\ Goto(t, "unmarked")
          /\ pc[t] \in {"open", "failed"} /\ UNCHANGED <<reserved, deleted, active_tx_ids>>
      BY Zenon, <1>1 DEF RollbackMarks
    <2> QED BY Zenon, <2>1, Releases, ActiveKept DEF Inv, PC
  <1>2. CASE RollbackDeactivate(t)
    <2>1. Goto(t, "deactivated") /\ pc[t] = "unmarked" /\ UNCHANGED <<versions, reserved, deleted>>
          /\ active_tx_ids' = active_tx_ids \ {t}
      BY Zenon, <1>2 DEF RollbackDeactivate, tableVars
    <2> QED BY Zenon, <2>1, Moves, ActiveLeft DEF Inv, PC
  <1>3. CASE RollbackCheck(t)
    <2>1. pc[t] = "deactivated" /\ UNCHANGED <<versions, reserved, deleted, active_tx_ids>>
          /\ (Goto(t, "rolled_back") \/ Goto(t, "restore") \/ Goto(t, "tombstone"))
      BY Zenon, <1>3 DEF RollbackCheck, tableVars
    <2> QED BY Zenon, <2>1, Moves, ActiveKept DEF Inv, PC
  <1>4. CASE RollbackRestore(t)
    <2>1. pc[t] = "restore" /\ Goto(t, "rolled_back")
          /\ UNCHANGED <<versions, reserved, deleted, active_tx_ids>>
      BY Zenon, <1>4 DEF RollbackRestore
    <2> QED BY Zenon, <2>1, Moves, ActiveKept DEF Inv, PC
  <1>5. CASE RollbackTombstone(t)
    <2>1. pc[t] = "tombstone" /\ Goto(t, "rolled_back")
          /\ UNCHANGED <<versions, reserved, deleted, active_tx_ids>>
      BY Zenon, <1>5 DEF RollbackTombstone, tableVars
    <2> QED BY Zenon, <2>1, Moves, ActiveKept DEF Inv, PC
  <1> QED BY Zenon, <1>1, <1>2, <1>3, <1>4, <1>5 DEF Rollback

\* A restart forgets every mark and every active writer.
LEMMA ReopenInv ==
  ASSUME Sizes, Inv, NEW entry, Reopen(entry)
  PROVE  Inv'
  <1>1. MarkTypes' /\ MarksOwned'
    BY Zenon DEF Reopen, Inv, MarkTypes, MarksOwned, PerTx, PC
  <1>2. ActiveRight'
    BY Zenon DEF Reopen, Inv, MarkTypes, ActiveRight, Active, Pending, Done
  <1> QED BY Zenon, <1>1, <1>2 DEF Inv

LEMMA NextInv == ASSUME Sizes, Inv, [Next]_vars PROVE Inv'
  <1>1. ASSUME NEW t \in Tx, Begin(t) PROVE Inv'
    <2>1. Goto(t, "open") /\ pc[t] = "idle" /\ UNCHANGED <<versions, reserved, deleted>>
          /\ active_tx_ids' = active_tx_ids \cup {t}
      BY Zenon, <1>1 DEF Begin, tableVars
    <2>2. MarkTypes' /\ MarksOwned'
      BY Zenon, <2>1, Moves DEF PC, Marking, Pending
    <2>3. ActiveRight'
      BY Zenon, <2>1 DEF Inv, MarkTypes, ActiveRight, Goto, Active, Pending
    <2> QED BY Zenon, <2>2, <2>3 DEF Inv
  <1>2. ASSUME NEW t \in Tx, Drop(t) PROVE Inv'
    <2>1. Goto(t, "dropped") /\ UNCHANGED <<versions, reserved, deleted>>
          /\ active_tx_ids' = active_tx_ids \ {t}
      BY Zenon, <1>2 DEF Drop, tableVars
    <2> QED BY Zenon, <2>1, Moves, ActiveLeft DEF Inv, PC, Marking, Active, Pending
  <1>3. CASE Checkpoint
    BY Zenon, <1>3 DEF Checkpoint, txVars, Inv, MarkTypes, MarksOwned, ActiveRight, PerTx,
       Resolved
  <1>4. CASE Crash
    BY Zenon, <1>4, ReopenInv DEF Crash
  <1>5. CASE Close
    BY Zenon, <1>5, ReopenInv DEF Close
  <1>6. CASE UNCHANGED vars
    BY Zenon, <1>6 DEF vars, tableVars, txVars, Inv, MarkTypes, MarksOwned, ActiveRight,
       PerTx, Resolved
  <1> QED BY Zenon, <1>1, <1>2, <1>3, <1>4, <1>5, <1>6, StatementInv, CommitInv,
       RollbackInv DEF Next

\* A transaction that has committed or rolled back leaves no row marked, whatever its
\* statements were and whichever of them failed (commit, rollback, Drop and the version
\* marks of the table).
THEOREM MarksAlwaysReleased == ASSUME Sizes PROVE Spec => []MarksReleased
  <1>1. Inv => MarksReleased
    BY Zenon DEF Inv, MarksOwned, MarksReleased, Marking
  <1> QED BY <1>1, InitInv, NextInv, PTL DEF Spec

\* The set of active writers that rollback consults is exact at every step.
THEOREM ActiveExact == ASSUME Sizes PROVE Spec => []ActiveRight
  <1>1. Inv => ActiveRight
    BY Zenon DEF Inv
  <1> QED BY <1>1, InitInv, NextInv, PTL DEF Spec
-----------------------------------------------------------------------------
(* Rows created one transaction at a time *)

\* Connections that take turns, each statement a CREATE of one row in a transaction of its
\* own, which may fail or be rolled back, and a process that may be stopped or killed.
OneAtATime == Enabled \subseteq {"create", "fail", "rollback", "crash", "close"}

\* What the catalog file counts.
Saved == catalog_file.num_rows
Rest == next_row_id = Saved /\ catalog.num_rows = Saved

Fresh(t) == stmts[t] = 0 /\ written[t] = {} /\ bases[t] = NoBase
Based(t) ==
  stmts[t] # 0 /\ stmt[t] = "create" /\ bases[t] = [next |-> Saved, rows |-> Saved]
\* t was given the one id that the catalog file does not count.
Handed(t) == Based(t) /\ Saved < MaxId /\ next_row_id = Saved + 1 /\ ids[t] = {Saved}

\* How far t has taken the counters and the row.
Under(t) ==
  /\ pc[t] \notin {"uncounted", "tombstone"}
  /\ pc[t] = "open" =>
       \/ Fresh(t) /\ Rest
       \/ Handed(t) /\ catalog.num_rows = Saved + 1 /\ written[t] = {Saved}
  /\ pc[t] = "based" => Based(t) /\ Rest /\ written[t] = {}
  /\ pc[t] \in {"allocated", "reserved"} =>
       Handed(t) /\ catalog.num_rows = Saved /\ written[t] = {}
  /\ pc[t] = "appended" => Handed(t) /\ catalog.num_rows = Saved /\ written[t] = {Saved}
  /\ pc[t] \in {"published", "logged"} =>
       /\ Handed(t) /\ catalog.num_rows = Saved + 1 /\ written[t] = {Saved}
       /\ cells[Saved] = t /\ (pc[t] = "logged" => durable[Saved] = t)
  /\ pc[t] \in {"unmarked", "deactivated"} => (Fresh(t) /\ Rest) \/ Handed(t)
  /\ pc[t] \in {"failed", "restore"} => Handed(t)

\* The rows below the saved count are there, and stay after a crash; what was acknowledged
\* is among them.
RowsSaved ==
  /\ \A i \in Id : i < Saved => cells[i] \in Tx /\ durable[i] = cells[i]
  /\ \A a \in acked : a[1] \in Id /\ a[1] < Saved /\ cells[a[1]] = a[2]

CounterTypes ==
  /\ Saved \in Nat /\ Saved <= MaxId /\ next_row_id \in Nat /\ catalog.num_rows \in Nat
  /\ \A e \in {catalog, catalog_file} :
       /\ e = [num_rows |-> e.num_rows, next_row_id |-> e.next_row_id]
       /\ e.next_row_id \in Nat /\ e.next_row_id <= Saved
  /\ PerTx(stmt) /\ PerTx(stmts) /\ PerTx(ids) /\ PerTx(bases) /\ PerTx(written)
  /\ \A t \in Tx : stmts[t] \in Nat /\ deleted[t] = {}

TurnInv ==
  /\ CounterTypes /\ RowsSaved
  /\ \A t, u \in Tx : pc[t] \notin Done /\ pc[u] \notin Done => t = u
  /\ \A t \in Tx : pc[t] = "idle" => Fresh(t)
  /\ \A t \in Tx : pc[t] \notin Done => Under(t)
  /\ (\A t \in Tx : pc[t] \in Done) => Rest

INSTANCE FiniteSetTheorems

\* What all transactions share.
Counters == <<next_row_id, catalog, catalog_file, dataVars, acked, deleted>>

LEMMA CountersKept ==
  ASSUME TurnInv, UNCHANGED Counters,
         PerTx(stmt'), PerTx(stmts'), PerTx(ids'), PerTx(bases'), PerTx(written'),
         \A t \in Tx : stmts'[t] \in Nat
  PROVE  CounterTypes' /\ RowsSaved'
<1>1. UNCHANGED <<next_row_id, catalog, catalog_file, cells, durable, acked, deleted>>
  BY Zenon DEF Counters, dataVars
<1>2. CounterTypes'
  BY Zenon, <1>1 DEF TurnInv, CounterTypes, Saved, PerTx
<1> QED
  BY Zenon, <1>1, <1>2 DEF TurnInv, RowsSaved, Saved

\* Only t is under way, and only what t knows changes.
Alone(t) ==
  \A u \in Tx : u # t =>
    pc[u] \in Done /\ stmts'[u] = stmts[u] /\ written'[u] = written[u] /\ bases'[u] = bases[u]

LEMMA Turn ==
  ASSUME Inv, TurnInv, NEW t \in Tx, NEW step, Goto(t, step), Alone(t), step # "idle",
         CounterTypes', RowsSaved',
         step \in Done => Rest', step \notin Done => Under(t)'
  PROVE  TurnInv'
<1>1. pc'[t] = step /\ \A u \in Tx : u # t => pc'[u] = pc[u] /\ pc[u] \in Done
  BY Zenon DEF Goto, Alone, Inv, MarkTypes
<1>2. \A u \in Tx : pc'[u] = "idle" => Fresh(u)'
  BY Zenon, <1>1 DEF Alone, TurnInv, Fresh
<1>3. \A u, w \in Tx : pc'[u] \notin Done /\ pc'[w] \notin Done => u = w
  BY Zenon, <1>1
<1>4. \A u \in Tx : pc'[u] \notin Done => Under(u)'
  BY Zenon, <1>1
<1>5. (\A u \in Tx : pc'[u] \in Done) => Rest'
  BY Zenon, <1>1
<1> QED
  BY Zenon, <1>2, <1>3, <1>4, <1>5 DEF TurnInv

LEMMA AloneIs ==
  ASSUME TurnInv, NEW t \in Tx, pc[t] \notin Done,
         stmts' = stmts \/ stmts' = [stmts EXCEPT ![t] = stmts'[t]],
         written' = written \/ written' = [written EXCEPT ![t] = written'[t]],
         bases' = bases \/ bases' = [bases EXCEPT ![t] = bases'[t]]
  PROVE  Alone(t)
BY Zenon DEF Alone, TurnInv, CounterTypes, PerTx

\* A step of t that moves no counter and no row.
LEMMA Quiet ==
  ASSUME Inv, TurnInv, NEW t \in Tx, pc[t] \notin Done, NEW step, Goto(t, step),
         step \notin Done, UNCHANGED <<Counters, stmt, stmts, ids, bases, written>>, Under(t)'
  PROVE  TurnInv'
<1>1. CounterTypes' /\ RowsSaved'
  BY Zenon, CountersKept DEF TurnInv, CounterTypes
<1>2. Alone(t)
  BY Zenon, AloneIs
<1>3. step # "idle"
  BY Zenon DEF Done
<1> QED
  BY Zenon, <1>1, <1>2, <1>3, Turn

LEMMA TurnBegin ==
  ASSUME Sizes, OneAtATime, Inv, TurnInv, NEW t \in Tx, Begin(t)
  PROVE  TurnInv'
<1>1. /\ pc[t] = "idle" /\ Goto(t, "open")
      /\ UNCHANGED <<Counters, stmt, stmts, ids, bases, written>>
  BY Zenon DEF Begin, Counters, tableVars, dataVars, histVars
<1>2. \A u \in Tx : pc[u] \in Done
  BY Zenon DEF Begin, OneAtATime
<1>3. Rest /\ Fresh(t)
  BY Zenon, <1>1, <1>2 DEF TurnInv
<1>4. CounterTypes' /\ RowsSaved'
  BY Zenon, <1>1, CountersKept DEF TurnInv, CounterTypes
<1>5. pc'[t] = "open"
  BY Zenon, <1>1 DEF Goto, Inv, MarkTypes
<1>6. Rest' /\ Fresh(t)'
  BY Zenon, <1>1, <1>3 DEF Rest, Fresh, Saved, Counters
<1>7. Under(t)'
  BY Zenon, <1>5, <1>6 DEF Under
<1>8. Alone(t)
  BY Zenon, <1>1, <1>2 DEF Alone
<1> QED
  BY Zenon, <1>1, <1>4, <1>7, <1>8, Turn DEF Done

\* NoteTableWrite, of a transaction that has run no statement.
LEMMA TurnNote ==
  ASSUME Sizes, OneAtATime, Inv, TurnInv, NEW t \in Tx, NEW k, NoteTableWrite(t, k)
  PROVE  TurnInv'
<1>1. /\ k = "create" /\ pc[t] = "open" /\ Goto(t, "based") /\ stmts[t] < 1
      /\ UNCHANGED <<Counters, ids, written>>
      /\ stmts' = [stmts EXCEPT ![t] = @ + 1] /\ stmt' = [stmt EXCEPT ![t] = k]
  BY Zenon DEF NoteTableWrite, Start, OneAtATime, Counters, tableVars, histVars, dataVars
<1>2. stmts[t] = 0 /\ pc[t] \notin Done
  BY <1>1 DEF TurnInv, CounterTypes, Done
<1>3. Fresh(t) /\ Rest
  BY Zenon, <1>1, <1>2 DEF TurnInv, Under, Handed, Based
<1>4. bases' = [bases EXCEPT ![t] = [next |-> Saved, rows |-> Saved]]
  BY Zenon, <1>1, <1>3 DEF NoteTableWrite, Fresh, Rest
<1>5. CounterTypes' /\ RowsSaved'
  <2>1. PerTx(stmt') /\ PerTx(stmts') /\ PerTx(ids') /\ PerTx(bases') /\ PerTx(written')
    BY Zenon, <1>1, <1>4 DEF TurnInv, CounterTypes, PerTx
  <2>2. \A u \in Tx : stmts'[u] \in Nat
    BY <1>1 DEF TurnInv, CounterTypes, PerTx
  <2> QED
    BY Zenon, <1>1, <2>1, <2>2, CountersKept
<1>6. pc'[t] = "based" /\ stmt'[t] = "create" /\ bases'[t] = [next |-> Saved, rows |-> Saved]
  BY Zenon, <1>1, <1>4 DEF Goto, Inv, MarkTypes, TurnInv, CounterTypes, PerTx
<1>n. stmts'[t] # 0
  BY <1>1, <1>2 DEF TurnInv, CounterTypes, PerTx
<1>7. Based(t)' /\ Rest' /\ written'[t] = {}
  BY Zenon, <1>1, <1>3, <1>6, <1>n DEF Based, Rest, Fresh, Saved, Counters
<1>8. Under(t)'
  BY Zenon, <1>6, <1>7 DEF Under
<1>9. Alone(t)
  <2>1. stmts' = [stmts EXCEPT ![t] = stmts'[t]] /\ bases' = [bases EXCEPT ![t] = bases'[t]]
    BY Zenon, <1>1, <1>4 DEF TurnInv, CounterTypes, PerTx
  <2> QED
    BY Zenon, <1>1, <1>2, <2>1, AloneIs
<1> QED
  BY Zenon, <1>1, <1>5, <1>8, <1>9, Turn DEF Done

LEMMA TurnAllocate ==
  ASSUME Sizes, OneAtATime, Inv, TurnInv, NEW t \in Tx, Allocate(t)
  PROVE  TurnInv'
<1>1. /\ pc[t] = "based" /\ Goto(t, "allocated") /\ next_row_id + 1 <= MaxId
      /\ next_row_id' = next_row_id + 1
      /\ ids' = [ids EXCEPT ![t] = next_row_id .. next_row_id + 1 - 1]
      /\ UNCHANGED <<catalog, catalog_file, cells, durable, acked, deleted, stmt, stmts, bases,
                     written>>
  BY Zenon DEF Allocate, FetchAdd, dataVars, histVars
<1>2. pc[t] \notin Done /\ Based(t) /\ Rest /\ written[t] = {}
  BY Zenon, <1>1 DEF TurnInv, Under, Done
<1>3. /\ next_row_id = Saved /\ Saved \in Nat /\ catalog.num_rows = Saved
      /\ next_row_id .. next_row_id + 1 - 1 = {Saved}
  BY <1>2 DEF Rest, TurnInv, CounterTypes
<1>s. Saved' = Saved
  BY Zenon, <1>1 DEF Saved
<1>4. Saved < MaxId /\ next_row_id' = Saved + 1 /\ next_row_id' \in Nat
  BY <1>1, <1>3 DEF Sizes
<1>5. CounterTypes' /\ RowsSaved'
  <2>1. PerTx(ids')
    BY Zenon, <1>1 DEF TurnInv, CounterTypes, PerTx
  <2>2. CounterTypes'
    BY Zenon, <1>1, <1>s, <1>4, <2>1 DEF TurnInv, CounterTypes, PerTx
  <2> QED
    BY Zenon, <1>1, <1>s, <2>2 DEF TurnInv, RowsSaved
<1>6. pc'[t] = "allocated" /\ ids'[t] = {Saved}
  BY Zenon, <1>1, <1>3 DEF Goto, Inv, MarkTypes, TurnInv, CounterTypes, PerTx
<1>7. Handed(t)'
  BY Zenon, <1>1, <1>2, <1>s, <1>4, <1>6 DEF Handed, Based
<1>8. Under(t)'
  BY Zenon, <1>1, <1>2, <1>3, <1>s, <1>6, <1>7 DEF Under
<1>9. Alone(t)
  BY Zenon, <1>1, <1>2, AloneIs
<1> QED
  BY Zenon, <1>1, <1>5, <1>8, <1>9, Turn DEF Done

\* The statement's own steps on the row.
LEMMA TurnRow ==
  ASSUME Sizes, OneAtATime, Inv, TurnInv, NEW t \in Tx, Reserve(t) \/ Append(t) \/ Fail(t)
  PROVE  TurnInv'
<1>1. /\ UNCHANGED Counters
      /\ UNCHANGED <<next_row_id, catalog, catalog_file, stmt, stmts, ids, bases>>
  BY Zenon DEF Reserve, Append, Fail, Counters, tableVars, dataVars, histVars
<1>2. pc[t] \notin Done /\ pc[t] \in {"allocated", "reserved", "appended"}
  BY Zenon DEF Reserve, Append, Fail, Done
<1>3. Under(t)
  BY Zenon, <1>2 DEF TurnInv
<1>4. Handed(t) /\ catalog.num_rows = Saved /\ Saved' = Saved
  BY Zenon, <1>1, <1>2, <1>3 DEF Under, Saved
<1>5. Handed(t)'
  BY Zenon, <1>1, <1>4 DEF Handed, Based
<1>6. CASE Append(t)
  <2>1. /\ pc[t] = "reserved" /\ Goto(t, "appended")
        /\ written' = [written EXCEPT ![t] = @ \cup ids[t]]
    BY Zenon, <1>6 DEF Append
  <2>2. written[t] = {} /\ ids[t] = {Saved}
    BY Zenon, <1>3, <1>4, <2>1 DEF Under, Handed
  <2>3. written' = [written EXCEPT ![t] = written'[t]] /\ written'[t] = {Saved} /\ PerTx(written')
    BY Zenon, <2>1, <2>2 DEF TurnInv, CounterTypes, PerTx
  <2>4. CounterTypes' /\ RowsSaved'
    BY Zenon, <1>1, <2>3, CountersKept DEF TurnInv, CounterTypes
  <2>5. pc'[t] = "appended"
    BY Zenon, <2>1 DEF Goto, Inv, MarkTypes
  <2>6. Under(t)'
    BY Zenon, <1>1, <1>4, <1>5, <2>3, <2>5 DEF Under
  <2>7. Alone(t)
    BY Zenon, <1>1, <1>2, <2>3, AloneIs
  <2> QED
    BY Zenon, <2>1, <2>4, <2>6, <2>7, Turn DEF Done
<1>7. CASE Reserve(t)
  <2>1. pc[t] = "allocated" /\ Goto(t, "reserved") /\ written' = written
    BY Zenon, <1>7 DEF Reserve
  <2>2. pc'[t] = "reserved"
    BY Zenon, <2>1 DEF Goto, Inv, MarkTypes
  <2>3. Under(t)'
    BY Zenon, <1>1, <1>3, <1>4, <1>5, <2>1, <2>2 DEF Under
  <2> QED
    BY Zenon, <1>1, <1>2, <2>1, <2>3, Quiet DEF Done
<1>8. CASE Fail(t)
  <2>1. Goto(t, "failed") /\ written' = written
    BY Zenon, <1>8 DEF Fail
  <2>2. pc'[t] = "failed"
    BY Zenon, <2>1 DEF Goto, Inv, MarkTypes
  <2>3. Under(t)'
    BY Zenon, <1>5, <2>2 DEF Under
  <2> QED
    BY Zenon, <1>1, <1>2, <2>1, <2>3, Quiet DEF Done
<1> QED
  BY Zenon, <1>6, <1>7, <1>8

LEMMA EntryWith ==
  ASSUME NEW e, NEW n, NEW m, e = [num_rows |-> m, next_row_id |-> e.next_row_id]
  PROVE  [e EXCEPT !.num_rows = n] = [num_rows |-> n, next_row_id |-> e.next_row_id]
OBVIOUS

LEMMA TurnCount ==
  ASSUME Sizes, OneAtATime, Inv, TurnInv, NEW t \in Tx, Count(t)
  PROVE  TurnInv'
<1>1. /\ pc[t] = "appended" /\ CountRows(Cardinality(ids[t])) /\ Goto(t, "open")
      /\ UNCHANGED <<next_row_id, catalog_file, cells, durable, acked, deleted, stmt, stmts, ids,
                     bases, written>>
  BY Zenon DEF Count, dataVars, histVars
<1>2. pc[t] \notin Done /\ Handed(t) /\ catalog.num_rows = Saved /\ written[t] = {Saved}
  BY Zenon, <1>1 DEF TurnInv, Under, Done
<1>3. Saved' = Saved
  BY Zenon, <1>1 DEF Saved
<1>4. Cardinality(ids[t]) = 1
  BY Zenon, <1>2, FS_Singleton DEF Handed
<1>5. catalog' = [num_rows |-> Saved + 1, next_row_id |-> catalog.next_row_id]
  <2>1. catalog' = [catalog EXCEPT !.num_rows = catalog.num_rows + Cardinality(ids[t])]
    BY Zenon, <1>1 DEF CountRows
  <2>2. catalog = [num_rows |-> catalog.num_rows, next_row_id |-> catalog.next_row_id]
    BY Zenon DEF TurnInv, CounterTypes
  <2> QED
    BY Zenon, <1>2, <1>4, <2>1, <2>2, EntryWith
<1>6. catalog'.num_rows = Saved + 1 /\ catalog'.next_row_id = catalog.next_row_id
  BY Zenon, <1>5
<1>7. Saved + 1 \in Nat
  BY DEF TurnInv, CounterTypes
<1>8. CounterTypes' /\ RowsSaved'
  <2>1. \A e \in {catalog', catalog_file'} :
          /\ e = [num_rows |-> e.num_rows, next_row_id |-> e.next_row_id]
          /\ e.next_row_id \in Nat /\ e.next_row_id <= Saved
    BY Zenon, <1>1, <1>5, <1>6 DEF TurnInv, CounterTypes
  <2>2. CounterTypes'
    BY Zenon, <1>1, <1>3, <1>6, <1>7, <2>1 DEF TurnInv, CounterTypes, PerTx
  <2> QED
    BY Zenon, <1>1, <1>3, <2>2 DEF TurnInv, RowsSaved
<1>9. Handed(t)' /\ pc'[t] = "open"
  BY Zenon, <1>1, <1>2, <1>3 DEF Handed, Based, Goto, Inv, MarkTypes
<1>10. Under(t)'
  BY Zenon, <1>1, <1>2, <1>3, <1>6, <1>9 DEF Under
<1>11. Alone(t)
  BY Zenon, <1>1, <1>2, AloneIs
<1> QED
  BY Zenon, <1>1, <1>8, <1>10, <1>11, Turn DEF Done

\* What t is about to save is a row, and none of the rows saved already.
LEMMA NewRow ==
  ASSUME Sizes, TurnInv, Saved < MaxId
  PROVE  Saved \in Id /\ \A i \in Id : i < Saved => i # Saved
BY DEF Sizes, TurnInv, CounterTypes, Id

LEMMA TurnPublish ==
  ASSUME Sizes, OneAtATime, Inv, TurnInv, NEW t \in Tx, CommitPublish(t)
  PROVE  TurnInv'
<1>1. /\ pc[t] = "open" /\ Goto(t, "published") /\ stmts[t] > 0
      /\ UNCHANGED <<next_row_id, catalog, catalog_file, durable, acked, deleted, stmt, stmts,
                     ids, bases, written>>
  BY Zenon DEF CommitPublish, MayCommit, OneAtATime, histVars
<1>2. pc[t] \notin Done /\ stmts[t] # 0
  BY <1>1 DEF TurnInv, CounterTypes, Done
<1>3. Handed(t) /\ catalog.num_rows = Saved + 1 /\ written[t] = {Saved} /\ deleted[t] = {}
  BY Zenon, <1>1, <1>2 DEF TurnInv, Under, Fresh, CounterTypes
<1>4. Saved' = Saved
  BY Zenon, <1>1 DEF Saved
<1>5. Saved \in Id /\ \A i \in Id : i < Saved => i # Saved
  BY Zenon, <1>3, NewRow DEF Handed
<1>6. cells' = [i \in Id |-> IF i \in deleted[t] THEN Null
                             ELSE IF i \in written[t] THEN t ELSE cells[i]]
  BY Zenon DEF CommitPublish
<1>7. cells'[Saved] = t /\ \A i \in Id : i < Saved => cells'[i] = cells[i]
  BY Zenon, <1>3, <1>5, <1>6
<1>8. CounterTypes'
  BY Zenon, <1>1, <1>4 DEF TurnInv, CounterTypes, PerTx
<1>9. RowsSaved'
  BY Zenon, <1>1, <1>4, <1>7 DEF TurnInv, RowsSaved
<1>10. Handed(t)' /\ pc'[t] = "published"
  BY Zenon, <1>1, <1>3, <1>4 DEF Handed, Based, Goto, Inv, MarkTypes
<1>11. Under(t)'
  BY Zenon, <1>1, <1>3, <1>4, <1>7, <1>10 DEF Under
<1>12. Alone(t)
  BY Zenon, <1>1, <1>2, AloneIs
<1> QED
  BY Zenon, <1>1, <1>8, <1>9, <1>11, <1>12, Turn DEF Done

LEMMA TurnLog ==
  ASSUME Sizes, OneAtATime, Inv, TurnInv, NEW t \in Tx, CommitLog(t)
  PROVE  TurnInv'
<1>1. /\ pc[t] = "published" /\ Goto(t, "logged")
      /\ UNCHANGED <<next_row_id, catalog, catalog_file, cells, acked, deleted, stmt, stmts,
                     ids, bases, written>>
  BY Zenon DEF CommitLog, tableVars, histVars
<1>2. pc[t] \notin Done
  BY Zenon, <1>1 DEF Done
<1>3. /\ Handed(t) /\ catalog.num_rows = Saved + 1 /\ written[t] = {Saved} /\ deleted[t] = {}
      /\ cells[Saved] = t
  BY Zenon, <1>1, <1>2 DEF TurnInv, Under, CounterTypes
<1>4. Saved' = Saved
  BY Zenon, <1>1 DEF Saved
<1>5. Saved \in Id /\ \A i \in Id : i < Saved => i # Saved
  BY Zenon, <1>3, NewRow DEF Handed
<1>6. durable' = [i \in Id |-> IF i \in written[t] \cup deleted[t] THEN cells[i] ELSE durable[i]]
  BY Zenon DEF CommitLog
<1>7. durable'[Saved] = t /\ \A i \in Id : i < Saved => durable'[i] = durable[i]
  BY Zenon, <1>3, <1>5, <1>6
<1>8. CounterTypes'
  BY Zenon, <1>1, <1>4 DEF TurnInv, CounterTypes, PerTx
<1>9. RowsSaved'
  BY Zenon, <1>1, <1>4, <1>7 DEF TurnInv, RowsSaved
<1>10. Handed(t)' /\ pc'[t] = "logged"
  BY Zenon, <1>1, <1>3, <1>4 DEF Handed, Based, Goto, Inv, MarkTypes
<1>11. Under(t)'
  BY Zenon, <1>1, <1>3, <1>4, <1>7, <1>10 DEF Under
<1>12. Alone(t)
  BY Zenon, <1>1, <1>2, AloneIs
<1> QED
  BY Zenon, <1>1, <1>8, <1>9, <1>11, <1>12, Turn DEF Done

\* The catalog file now counts the row, which is in the table and logged.
LEMMA TurnSave ==
  ASSUME Sizes, OneAtATime, Inv, TurnInv, NEW t \in Tx, CommitSave(t)
  PROVE  TurnInv'
<1>1. /\ pc[t] = "logged" /\ catalog_file' = catalog
      /\ UNCHANGED <<next_row_id, catalog, cells, durable, deleted, stmt, stmts, ids, bases,
                     written>>
  BY Zenon DEF CommitSave, tableVars, dataVars
<1>2. pc[t] \notin Done
  BY Zenon, <1>1 DEF Done
<1>3. /\ Handed(t) /\ catalog.num_rows = Saved + 1 /\ written[t] = {Saved} /\ deleted[t] = {}
      /\ cells[Saved] = t /\ durable[Saved] = t
  BY Zenon, <1>1, <1>2 DEF TurnInv, Under, CounterTypes
<1>4. stmt[t] = "create" /\ Saved < MaxId /\ next_row_id = Saved + 1
  BY Zenon, <1>3 DEF Handed, Based
<1>5. Goto(t, "committed") /\ Acknowledge(t)
  BY Zenon, <1>4 DEF CommitSave
<1>6. Saved' = Saved + 1
  BY Zenon, <1>1, <1>3 DEF Saved
<1>7. Saved \in Nat /\ Saved' \in Nat /\ Saved' <= MaxId /\ Saved \in Id
      /\ \A i \in Id : i < Saved' => i < Saved \/ i = Saved
  BY <1>4, <1>6 DEF Sizes, TurnInv, CounterTypes, Id
<1>8. \A i \in Id : i < Saved => i < Saved'
  BY <1>6, <1>7 DEF Id, Sizes
<1>9. Saved < Saved'
  BY <1>6, <1>7
<1>10. catalog.next_row_id \in Nat /\ catalog.next_row_id <= Saved'
  <2>1. catalog.next_row_id \in Nat /\ catalog.next_row_id <= Saved
    BY Zenon DEF TurnInv, CounterTypes
  <2> QED
    BY <1>6, <1>7, <2>1
<1>11. CounterTypes'
  BY Zenon, <1>1, <1>7, <1>10 DEF TurnInv, CounterTypes, PerTx
<1>12. RowsSaved'
  <2>1. ASSUME NEW i \in Id, i < Saved' PROVE cells'[i] \in Tx /\ durable'[i] = cells'[i]
    BY Zenon, <1>1, <1>3, <1>7, <2>1 DEF TurnInv, RowsSaved
  <2>2. ASSUME NEW a \in acked'
        PROVE  a[1] \in Id /\ a[1] < Saved' /\ cells'[a[1]] = a[2]
    <3>1. a \in acked \/ a \in {Saved} \X {t}
      BY Zenon, <1>3, <1>5, <2>2 DEF Acknowledge
    <3>2. CASE a \in acked
      BY Zenon, <1>1, <1>8, <3>2 DEF TurnInv, RowsSaved
    <3>3. CASE a \in {Saved} \X {t}
      <4>1. a[1] = Saved /\ a[2] = t
        BY <3>3
      <4> QED
        BY Zenon, <1>1, <1>3, <1>7, <1>9, <4>1
    <3> QED
      BY Zenon, <3>1, <3>2, <3>3
  <2> QED
    BY Zenon, <2>1, <2>2 DEF RowsSaved
<1>13. Rest'
  BY Zenon, <1>1, <1>3, <1>4, <1>6 DEF Rest
<1>14. Alone(t)
  BY Zenon, <1>1, <1>2, AloneIs
<1> QED
  BY Zenon, <1>5, <1>11, <1>12, <1>13, <1>14, Turn DEF Done

\* Rollback finds no other writer active, and puts the counters back.
LEMMA TurnRollback ==
  ASSUME Sizes, OneAtATime, Inv, TurnInv, NEW t \in Tx, Rollback(t)
  PROVE  TurnInv'
<1>1. CASE RollbackMarks(t) \/ RollbackDeactivate(t)
  <2>1. UNCHANGED <<Counters, stmt, stmts, ids, bases, written>>
    BY Zenon, <1>1 DEF RollbackMarks, RollbackDeactivate, Counters, tableVars, dataVars, histVars
  <2>2. UNCHANGED <<next_row_id, catalog, catalog_file>>
    BY Zenon, <2>1 DEF Counters
  <2>3. pc[t] \in {"open", "failed", "unmarked"} /\ pc[t] \notin Done
        /\ (Goto(t, "unmarked") \/ Goto(t, "deactivated"))
    BY Zenon, <1>1 DEF RollbackMarks, RollbackDeactivate, Done
  <2>4. (Fresh(t) /\ Rest) \/ Handed(t)
    BY Zenon, <2>3 DEF TurnInv, Under
  <2>5. (Fresh(t)' /\ Rest') \/ Handed(t)'
    BY Zenon, <2>1, <2>2, <2>4 DEF Fresh, Rest, Handed, Based, Saved
  <2>6. pc'[t] \in {"unmarked", "deactivated"}
    BY Zenon, <2>3 DEF Goto, Inv, MarkTypes
  <2>7. Under(t)'
    BY Zenon, <2>5, <2>6 DEF Under
  <2> QED
    BY Zenon, <2>1, <2>3, <2>7, Quiet DEF Done
<1>2. CASE RollbackCheck(t)
  <2>1. UNCHANGED <<Counters, stmt, stmts, ids, bases, written>> /\ pc[t] = "deactivated"
    BY Zenon, <1>2 DEF RollbackCheck, Counters, tableVars, dataVars, histVars
  <2>2. UNCHANGED <<next_row_id, catalog, catalog_file>> /\ pc[t] \notin Done
    BY Zenon, <2>1 DEF Counters, Done
  <2>3. (Fresh(t) /\ Rest) \/ Handed(t)
    BY Zenon, <2>1, <2>2 DEF TurnInv, Under
  <2>4. Alone(t) /\ CounterTypes' /\ RowsSaved'
    BY Zenon, <2>1, <2>2, AloneIs, CountersKept DEF TurnInv, CounterTypes
  <2>5. CASE Fresh(t) /\ Rest
    <3>1. Goto(t, "rolled_back")
      BY Zenon, <1>2, <2>5 DEF RollbackCheck, Fresh
    <3>2. Rest'
      BY Zenon, <2>2, <2>5 DEF Rest, Saved
    <3> QED
      BY Zenon, <2>4, <3>1, <3>2, Turn DEF Done
  <2>6. CASE Handed(t)
    <3>1. bases[t].next = Saved /\ Saved < MaxId /\ Saved \in Nat
      BY <2>6 DEF Handed, Based, TurnInv, CounterTypes
    <3>2. bases[t].next # MaxId
      BY <3>1 DEF Sizes
    <3>3. bases[t] # NoBase
      BY <3>2 DEF NoBase
    <3>4. \A u \in Tx : pc[u] \in Done \/ pc[u] = "deactivated"
      BY Zenon, <2>1, <2>2 DEF TurnInv
    <3>5. \A u \in Tx : pc[u] \notin Active
      BY <3>4 DEF Active, Pending, Done
    <3>6. active_tx_ids = {}
      BY Zenon, <3>5 DEF Inv, ActiveRight
    <3>7. Goto(t, "restore")
      BY Zenon, <1>2, <3>3, <3>6 DEF RollbackCheck
    <3>8. Handed(t)' /\ pc'[t] = "restore"
      BY Zenon, <2>1, <2>2, <2>6, <3>7 DEF Handed, Based, Saved, Goto, Inv, MarkTypes
    <3>9. Under(t)'
      BY Zenon, <3>8 DEF Under
    <3> QED
      BY Zenon, <2>1, <2>2, <3>7, <3>9, Quiet DEF Done
  <2> QED
    BY Zenon, <2>3, <2>5, <2>6
<1>3. CASE RollbackRestore(t)
  <2>1. /\ pc[t] = "restore" /\ Goto(t, "rolled_back") /\ next_row_id' = bases[t].next
        /\ catalog' = [catalog EXCEPT !.num_rows = bases[t].rows]
        /\ UNCHANGED <<catalog_file, cells, durable, acked, deleted, stmt, stmts, ids, bases,
                       written>>
    BY Zenon, <1>3 DEF RollbackRestore, dataVars
  <2>2. pc[t] \notin Done
    BY Zenon, <2>1 DEF Done
  <2>3. Handed(t) /\ Saved' = Saved
    BY Zenon, <2>1, <2>2 DEF TurnInv, Under, Saved
  <2>4. bases[t].next = Saved /\ bases[t].rows = Saved
    BY <2>3 DEF Handed, Based
  <2>5. catalog' = [num_rows |-> Saved, next_row_id |-> catalog.next_row_id]
    <3>1. catalog = [num_rows |-> catalog.num_rows, next_row_id |-> catalog.next_row_id]
      BY Zenon DEF TurnInv, CounterTypes
    <3> QED
      BY Zenon, <2>1, <2>4, <3>1, EntryWith
  <2>6. catalog'.num_rows = Saved /\ catalog'.next_row_id = catalog.next_row_id
    BY Zenon, <2>5
  <2>7. Rest'
    BY Zenon, <2>1, <2>3, <2>4, <2>6 DEF Rest
  <2>8. \A e \in {catalog', catalog_file'} :
          /\ e = [num_rows |-> e.num_rows, next_row_id |-> e.next_row_id]
          /\ e.next_row_id \in Nat /\ e.next_row_id <= Saved
    BY Zenon, <2>1, <2>5, <2>6 DEF TurnInv, CounterTypes
  <2>9. CounterTypes'
    BY Zenon, <2>1, <2>3, <2>4, <2>6, <2>8 DEF TurnInv, CounterTypes, PerTx
  <2>10. RowsSaved'
    BY Zenon, <2>1, <2>3 DEF TurnInv, RowsSaved
  <2>11. Alone(t)
    BY Zenon, <2>1, <2>2, AloneIs
  <2> QED
    BY Zenon, <2>1, <2>7, <2>9, <2>10, <2>11, Turn DEF Done
<1>4. ~RollbackTombstone(t)
  BY Zenon DEF RollbackTombstone, TurnInv, Under, Done
<1> QED
  BY Zenon, <1>1, <1>2, <1>3, <1>4 DEF Rollback

\* After a restart no transaction is under way and both counters are what the file says.
LEMMA TurnReopen ==
  ASSUME Sizes, OneAtATime, Inv, TurnInv, Crash \/ Close
  PROVE  TurnInv'
<1>1. /\ pc' = [t \in Tx |-> IF pc[t] \in Done THEN pc[t] ELSE "dead"]
      /\ UNCHANGED <<stmt, stmts, ids, bases, written, deleted, acked>>
  BY Zenon DEF Crash, Close, Reopen, histVars
<1>2. \A t \in Tx : pc'[t] \in Done /\ (pc'[t] = "idle" => pc[t] = "idle")
  BY Zenon, <1>1 DEF Done
<1>3. \A t \in Tx : pc'[t] = "idle" => Fresh(t)'
  BY Zenon, <1>1, <1>2 DEF TurnInv, Fresh
<1>4. /\ catalog' = catalog_file'
      /\ catalog_file' = [num_rows |-> Saved, next_row_id |-> catalog_file'.next_row_id]
      /\ catalog_file'.next_row_id \in Nat /\ catalog_file'.next_row_id <= Saved
      /\ next_row_id' = Saved /\ Saved \in Nat
  <2>1. CASE Crash
    <3>1. /\ catalog' = catalog_file /\ catalog_file' = catalog_file
          /\ next_row_id' = Larger(catalog_file.next_row_id, Saved)
      BY Zenon, <2>1 DEF Crash, Reopen, RestoredRowId, Saved
    <3>2. /\ catalog_file.next_row_id \in Nat /\ catalog_file.next_row_id <= Saved /\ Saved \in Nat
          /\ catalog_file = [num_rows |-> Saved, next_row_id |-> catalog_file.next_row_id]
      BY Zenon DEF TurnInv, CounterTypes, Saved
    <3>3. Larger(catalog_file.next_row_id, Saved) = Saved
      BY <3>2 DEF Larger
    <3> QED
      BY Zenon, <3>1, <3>2, <3>3
  <2>2. CASE Close
    <3>1. /\ catalog' = Closed /\ catalog_file' = Closed /\ \A t \in Tx : pc[t] \in Done
          /\ next_row_id' = Larger(Closed.next_row_id, Closed.num_rows)
      BY Zenon, <2>2 DEF Close, Reopen, RestoredRowId
    <3>2. /\ catalog.num_rows = Saved /\ next_row_id = Saved /\ Saved \in Nat
          /\ catalog.next_row_id \in Nat /\ catalog.next_row_id <= Saved
      BY Zenon, <3>1 DEF TurnInv, CounterTypes, Rest
    <3>3. Larger(Saved, Saved) = Saved /\ Larger(catalog.next_row_id, Saved) = Saved
      BY <3>2 DEF Larger
    <3>4. Closed = [num_rows |-> Saved, next_row_id |-> Saved]
      BY Zenon, <3>2, <3>3 DEF Closed
    <3>5. Closed.num_rows = Saved /\ Closed.next_row_id = Saved
      BY <3>4
    <3>6. Saved <= Saved
      BY <3>2
    <3> QED
      BY Zenon, <3>1, <3>2, <3>3, <3>4, <3>5, <3>6
  <2> QED
    BY Zenon, <2>1, <2>2
<1>5. catalog_file'.num_rows = Saved
  BY <1>4
<1>6. Saved' = Saved
  BY Zenon, <1>5 DEF Saved
<1>7. CounterTypes'
  BY Zenon, <1>1, <1>4, <1>5, <1>6 DEF TurnInv, CounterTypes, PerTx
<1>8. RowsSaved'
  <2>1. durable' = durable /\ (cells' = cells \/ cells' = durable)
    BY Zenon DEF Crash, Close
  <2> QED
    BY Zenon, <1>1, <1>6, <2>1 DEF TurnInv, RowsSaved
<1>9. Rest'
  BY Zenon, <1>4, <1>5, <1>6 DEF Rest
<1> QED
  BY Zenon, <1>2, <1>3, <1>7, <1>8, <1>9 DEF TurnInv

LEMMA InitTurn == ASSUME Sizes, Init PROVE TurnInv
<1>1. /\ catalog = [num_rows |-> 0, next_row_id |-> 0] /\ catalog_file = catalog
      /\ next_row_id = 0
  BY Zenon DEF Init
<1>2. Saved = 0 /\ catalog.num_rows = 0 /\ catalog.next_row_id = 0
  BY <1>1 DEF Saved
<1>3. CounterTypes
  <2>1. Saved \in Nat /\ Saved <= MaxId /\ next_row_id \in Nat /\ catalog.num_rows \in Nat
    BY <1>1, <1>2 DEF Sizes
  <2>2. /\ catalog.next_row_id \in Nat /\ catalog.next_row_id <= Saved
        /\ catalog = [num_rows |-> catalog.num_rows, next_row_id |-> catalog.next_row_id]
    BY <1>1, <1>2
  <2>3. PerTx(stmt) /\ PerTx(stmts) /\ PerTx(ids) /\ PerTx(bases) /\ PerTx(written)
    BY Zenon DEF Init, PerTx
  <2>4. \A t \in Tx : stmts[t] \in Nat /\ deleted[t] = {}
    BY DEF Init
  <2> QED
    BY Zenon, <1>1, <2>1, <2>2, <2>3, <2>4 DEF CounterTypes
<1>4. RowsSaved
  <2>1. \A i \in Id : ~(i < Saved)
    BY <1>2 DEF Id, Sizes
  <2>2. acked = {}
    BY Zenon DEF Init
  <2> QED
    BY Zenon, <2>1, <2>2 DEF RowsSaved
<1>5. \A t \in Tx : pc[t] = "idle" /\ Fresh(t)
  BY Zenon DEF Init, Fresh
<1>6. Rest
  BY Zenon, <1>1, <1>2 DEF Rest
<1> QED
  BY Zenon, <1>3, <1>4, <1>5, <1>6 DEF TurnInv, Done

LEMMA NextTurn ==
  ASSUME Sizes, OneAtATime, Inv, TurnInv, [Next]_vars
  PROVE  TurnInv'
<1>1. ASSUME NEW t \in Tx PROVE ~BulkAppend(t) /\ ~FastCount(t)
  BY Zenon DEF BulkAppend, FastCount, TurnInv, Under, Handed, Based, Done
<1>2. ASSUME NEW t \in Tx, NEW k, NEW n PROVE ~AllocateBatch(t, k, n)
  BY Zenon DEF AllocateBatch, Start, OneAtATime
<1>3. ASSUME NEW t \in Tx, NEW i PROVE ~Delete(t, i)
  BY Zenon DEF Delete, Start, OneAtATime
<1>4. ASSUME NEW t \in Tx, Statement(t) PROVE TurnInv'
  BY Zenon, <1>1, <1>2, <1>3, <1>4, TurnNote, TurnAllocate, TurnRow, TurnCount DEF Statement
<1>5. ASSUME NEW t \in Tx, Commit(t) PROVE TurnInv'
  BY Zenon, <1>1, <1>5, TurnPublish, TurnLog, TurnSave DEF Commit
<1>6. ASSUME NEW t \in Tx PROVE ~Drop(t)
  BY Zenon DEF Drop, OneAtATime
<1>7. ~Checkpoint
  BY Zenon DEF Checkpoint, OneAtATime
<1>8. CASE UNCHANGED vars
  <2>1. /\ UNCHANGED Counters /\ UNCHANGED <<next_row_id, catalog, catalog_file, cells, durable>>
        /\ UNCHANGED <<pc, stmt, stmts, ids, bases, written>>
    BY Zenon, <1>8 DEF vars, tableVars, dataVars, txVars, histVars, Counters
  <2>2. CounterTypes' /\ RowsSaved'
    BY Zenon, <2>1, CountersKept DEF TurnInv, CounterTypes
  <2>3. Saved' = Saved
    BY Zenon, <2>1 DEF Saved
  <2>4. \A t \in Tx : Fresh(t)' <=> Fresh(t)
    BY Zenon, <2>1 DEF Fresh
  <2>5. Rest' <=> Rest
    BY Zenon, <2>1, <2>3 DEF Rest
  <2>6. \A t \in Tx : (Handed(t)' <=> Handed(t)) /\ (Based(t)' <=> Based(t))
    BY Zenon, <2>1, <2>3 DEF Handed, Based
  <2>7. \A t \in Tx : Under(t) => Under(t)'
    BY Zenon, <2>1, <2>3, <2>4, <2>5, <2>6 DEF Under
  <2> QED
    BY Zenon, <2>1, <2>2, <2>4, <2>5, <2>7 DEF TurnInv
<1> QED
  BY Zenon, <1>4, <1>5, <1>6, <1>7, <1>8, TurnBegin, TurnRollback, TurnReopen DEF Next

\* With the rows of the table those below the saved count, the scan finds just them.
LEMMA RestScan ==
  ASSUME Sizes, TurnInv, Rest
  PROVE  /\ ScanBound = Saved
         /\ \A i \in Id : i < ScanBound => cells[i] \in Tx
         /\ Cardinality({i \in Id : i < ScanBound /\ IsRow(i)}) = Saved
<1>1. Saved \in Nat /\ Saved <= MaxId /\ MaxId \in Nat
  BY Zenon DEF TurnInv, CounterTypes, Sizes
<1>2. ScanBound = Saved
  BY <1>1 DEF ScanBound, Larger, Rest
<1>3. \A i \in Id : i < ScanBound => cells[i] \in Tx
  BY Zenon, <1>2 DEF TurnInv, RowsSaved
<1>4. {i \in Id : i < Saved} = 0..Saved - 1
  BY <1>1 DEF Id
<1>5. {i \in Id : i < ScanBound /\ IsRow(i)} = 0..Saved - 1
  BY Zenon, <1>2, <1>3, <1>4 DEF IsRow
<1>6. Cardinality(0..Saved - 1) = Saved
  <2>1. 0 \in Int /\ Saved - 1 \in Int
    BY <1>1
  <2>2. Cardinality(0..Saved - 1) = IF 0 > Saved - 1 THEN 0 ELSE Saved - 1 - 0 + 1
    BY Zenon, <2>1, FS_Interval
  <2> QED
    BY <1>1, <2>2
<1> QED
  BY Zenon, <1>2, <1>3, <1>5, <1>6

\* When transactions take turns creating single rows, no rollback, failed statement, crash
\* or shutdown loses a row whose commit returned, leaves a row id that a scan reads and
\* nobody wrote, or leaves num_rows other than the number of rows (the hand-kept counters
\* of rollback, commit, restore_tables_from_catalog and Database::drop).
THEOREM TurnsKeepRows ==
  ASSUME Sizes, OneAtATime
  PROVE  Spec => [](CommittedRowsKept /\ CountAgrees /\ NoPhantomRows)
<1>1. ASSUME Inv, TurnInv PROVE CommittedRowsKept /\ CountAgrees /\ NoPhantomRows
  <2>1. \A a \in acked : a[1] \in Id /\ a[1] < Saved /\ cells[a[1]] = a[2]
    BY Zenon, <1>1 DEF TurnInv, RowsSaved
  <2>2. \A i \in Id : i < Saved => i < ScanBound
    <3>1. next_row_id = Saved \/ next_row_id = Saved + 1
      <4>1. ASSUME NEW t \in Tx, pc[t] \notin Done PROVE Rest \/ Handed(t)
        <5>1. Under(t) /\ pc[t] \in PC
          BY Zenon, <1>1, <4>1 DEF TurnInv, Inv, MarkTypes
        <5> QED
          BY Zenon, <4>1, <5>1 DEF Under, PC, Done
      <4>2. (\A t \in Tx : pc[t] \in Done) => Rest
        BY Zenon, <1>1 DEF TurnInv
      <4> QED
        BY Zenon, <4>1, <4>2 DEF Rest, Handed
    <3>2. Saved \in Nat /\ catalog.num_rows \in Nat
      BY Zenon, <1>1 DEF TurnInv, CounterTypes
    <3>3. \A i \in Id : i \in Int
      BY DEF Id, Sizes
    <3> QED
      BY <3>1, <3>2, <3>3 DEF ScanBound, Larger
  <2>3. CommittedRowsKept
    BY Zenon, <2>1, <2>2 DEF CommittedRowsKept
  <2>4. Quiescent => Rest
    BY Zenon, <1>1 DEF Quiescent, TurnInv
  <2>5. \A i \in Id : cells[i] \in Tx => cells[i] # Empty
    BY DEF Tx, Empty, Sizes
  <2>6. CountAgrees
    BY Zenon, <1>1, <2>4, RestScan DEF CountAgrees, Rest
  <2>7. NoPhantomRows
    BY Zenon, <1>1, <2>4, <2>5, RestScan DEF NoPhantomRows
  <2> QED
    BY Zenon, <2>3, <2>6, <2>7
<1>2. Init => Inv /\ TurnInv
  BY Zenon, InitInv, InitTurn
<1>3. Inv /\ TurnInv /\ [Next]_vars => Inv' /\ TurnInv'
  BY Zenon, NextInv, NextTurn
<1> QED
  BY <1>1, <1>2, <1>3, PTL DEF Spec
=============================================================================

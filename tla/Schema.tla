------------------------------ MODULE Schema ------------------------------
(***************************************************************************)
(* Schema changes.  A DDL statement edits two registries, the catalog (what *)
(* the binder reads and what is saved to disk) and the storage manager (the *)
(* column files behind it), and leaves an undo record in its transaction.   *)
(* Neither registry is versioned: a statement takes effect for everyone at  *)
(* once, and a rollback edits the registries back, record by record, newest *)
(* first.  The catalog is saved lazily, when a commit finds it dirty.       *)
(*                                                                         *)
(* Statements of several transactions interleave.  Each statement holds the *)
(* two registry locks while it changes them, so the change is one step; the *)
(* two caches of plans are cleared after the locks are released, one after  *)
(* the other, while a query goes from cache to cache in steps of its own.   *)
(* Column types are left out; a file is known by the table and column it    *)
(* was named after, and holds the tables (by their creation number) whose   *)
(* rows were written to it.                                                 *)
(***************************************************************************)
EXTENDS Integers, Sequences, SequencesExt

CONSTANTS
    Txs,            \* write transactions
    Workloads,      \* what a behaviour may do: the statements committed at
                    \* the start (setup), those transactions may execute
                    \* (statements) and how many (max), and the tables that
                    \* are queried and loaded with rows meanwhile (queried,
                    \* loaded)
    MaxReopens      \* bound on restarts

VARIABLES
    work,      \* the workload of this behaviour
    cat,       \* the catalog in memory
    sto,       \* the storage manager's registries
    files,     \* the files on disk: name -> tables whose rows they hold
    undo,      \* the undo buffer of every open transaction
    disk,      \* catalog.ltng
    dirty,     \* LazyCatalog::dirty
    caches,    \* plan_caches (bound) and physical_plan_caches (plans): table ->
               \* entry; the entries of a query are in one shard of each
    query,     \* a query under way
    clearing,  \* the statements that have changed the schema and have yet to
               \* clear a cache: transaction -> the next one
    steps,     \* statements executed so far
    reopens,   \* restarts so far
    before,    \* history: the schema when the oldest open change began
    mixed,     \* history: changes of two open transactions overlapped
    keyless    \* history: the tables (by creation number) whose storage lost a
               \* built-in column to a DROP COLUMN that the catalog refused

vars == <<work, cat, sto, files, undo, disk, dirty, caches, query, clearing, steps, reopens,
          before, mixed, keyless>>
planning == <<caches, query, clearing>>
registries == <<cat, sto, files>>

None == <<>>
Builtins == {"_id", "_src", "_dst"}

\* The key columns every table of a kind starts with.
KeyColumns(kind) == IF kind = "node" THEN <<"_id">> ELSE <<"_src", "_dst">>
UserColumns(cols) == SelectSeq(cols, LAMBDA c : c \notin Builtins)

ConstraintSlots == 1 .. work.max

Without(f, x) == [y \in DOMAIN f \ {x} |-> f[y]]
With(f, x, v) == [y \in DOMAIN f \cup {x} |-> IF y = x THEN v ELSE f[y]]
HasColumn(cols, c) == \E i \in DOMAIN cols : cols[i] = c
RenameIn(cols, old, new) == [i \in DOMAIN cols |-> IF cols[i] = old THEN new ELSE cols[i]]

-----------------------------------------------------------------------------
(* The catalog.  Every operation answers whether it applied, and the catalog. *)

Accept(c) == [ok |-> TRUE, cat |-> c]
Refuse(c) == [ok |-> FALSE, cat |-> c]
EmptyCatalog ==
    [tables |-> <<>>, byName |-> <<>>, sequences |-> {}, macros |-> {}]

TakenName(c, t) == t \in DOMAIN c.tables

AddTable(c, t, kind, cols, from, to, pk, id) ==
    IF TakenName(c, t) THEN Refuse(c)
    ELSE Accept([c EXCEPT !.tables = With(@, t,
            [kind |-> kind, cols |-> KeyColumns(kind) \o cols, from |-> from, to |-> to,
             pk |-> pk, constraints |-> <<>>, indexes |-> <<>>, id |-> id])])

RemoveTable(c, t) == [c EXCEPT !.tables = Without(@, t)]

AddColumn(c, t, col) ==
    IF col \in Builtins \/ ~TakenName(c, t) THEN Refuse(c)
    ELSE IF HasColumn(c.tables[t].cols, col) THEN Refuse(c)
    ELSE Accept([c EXCEPT !.tables[t].cols = Append(@, col)])

RemoveColumn(c, t, col) ==
    IF col \in Builtins \/ ~TakenName(c, t) THEN Refuse(c)
    ELSE IF ~HasColumn(c.tables[t].cols, col) THEN Refuse(c)
    ELSE Accept([c EXCEPT !.tables[t].cols = RemoveFirst(@, col)])

RenameColumn(c, t, old, new) ==
    IF old \in Builtins \/ new \in Builtins \/ ~TakenName(c, t) THEN Refuse(c)
    ELSE IF HasColumn(c.tables[t].cols, new) \/ ~HasColumn(c.tables[t].cols, old) THEN Refuse(c)
    ELSE Accept([c EXCEPT !.tables[t].cols = RenameIn(@, old, new)])

Moved(tables, old, new) == With(Without(tables, old), new, tables[old])

\* Renaming a node table also repoints the relationship tables that name it.
RenameTable(c, old, new) ==
    IF TakenName(c, new) \/ ~TakenName(c, old) THEN Refuse(c)
    ELSE LET moved == Moved(c.tables, old, new)
             Point(x) == IF x = old /\ c.tables[old].kind = "node" THEN new ELSE x
         IN  Accept([c EXCEPT !.tables = [t \in DOMAIN moved |->
                [moved[t] EXCEPT !.from = Point(@), !.to = Point(@)]]])

\* constraint_by_name: where each constraint sits, by name.
ConstraintIndex(tables) ==
    LET At == {<<t, i>> : t \in DOMAIN tables, i \in ConstraintSlots}
        Named == {x \in At : x[2] \in DOMAIN tables[x[1]].constraints}
        Name(x) == tables[x[1]].constraints[x[2]].name
    IN  [m \in {Name(x) : x \in Named} |-> CHOOSE x \in Named : Name(x) = m]

AddConstraint(c, name, t, prop) ==
    IF ~TakenName(c, t) THEN Refuse(c)
    ELSE IF \E i \in DOMAIN c.tables[t].constraints :
                \/ c.tables[t].constraints[i].name = name
                \/ c.tables[t].constraints[i].prop = prop
         THEN Refuse(c)
    ELSE Accept([c EXCEPT !.tables[t].constraints = Append(@, [name |-> name, prop |-> prop]),
                          !.byName = With(@, name, <<t, Len(c.tables[t].constraints) + 1>>)])

\* The constraint is taken out by its recorded position, and a lookup that
\* leads nowhere still rebuilds the index.
RemoveConstraint(c, name) ==
    IF name \notin DOMAIN c.byName THEN Refuse(c)
    ELSE LET at == c.byName[name]
             found == TakenName(c, at[1]) /\ at[2] \in DOMAIN c.tables[at[1]].constraints
             kept == IF found
                     THEN [c.tables EXCEPT ![at[1]].constraints = RemoveAt(@, at[2])]
                     ELSE c.tables
         IN  [ok |-> found, cat |-> [c EXCEPT !.tables = kept, !.byName = ConstraintIndex(kept)]]

-----------------------------------------------------------------------------
(* The storage manager: tables, whose columns know their file, and indexes. *)

EmptyStorage == [tables |-> <<>>, indexes |-> <<>>, search |-> {}]

StoredColumns(s, t) == [i \in DOMAIN s.tables[t].cols |-> s.tables[t].cols[i].name]
FilesOf(s, t) ==
    IF t \notin DOMAIN s.tables THEN {}
    ELSE {s.tables[t].cols[i].file : i \in DOMAIN s.tables[t].cols}

\* FileHandle::open creates a missing file and keeps an existing one.
Open(fs, names) == [f \in DOMAIN fs \cup names |-> IF f \in DOMAIN fs THEN fs[f] ELSE {}]

CreateStored(d, t, kind, cols) ==
    LET names == KeyColumns(kind) \o UserColumns(cols)
    IN  [d EXCEPT
            !.sto.tables = With(@, t, [kind |-> kind,
                cols |-> [i \in DOMAIN names |-> [name |-> names[i], file |-> <<t, names[i]>>]]]),
            !.files = Open(@, {<<t, names[i]>> : i \in DOMAIN names})]

AttachIndex(d, key, file) ==
    [d EXCEPT !.sto.indexes = With(@, key, file), !.files = Open(@, {file})]

DropStored(d, t) ==
    [d EXCEPT !.sto.tables = Without(@, t), !.sto.indexes = Without(@, t),
              !.sto.search = {x \in @ : x[1] # t}]

CanAddStored(d, t, col) ==
    t \in DOMAIN d.sto.tables /\ ~HasColumn(StoredColumns(d.sto, t), col)
AddStored(d, t, col) ==
    [d EXCEPT !.sto.tables[t].cols = Append(@, [name |-> col, file |-> <<t, col>>]),
              !.files = Open(@, {<<t, col>>})]

CanRemoveStored(d, t, col) ==
    t \in DOMAIN d.sto.tables /\ HasColumn(StoredColumns(d.sto, t), col)
RemoveStored(d, t, col) ==
    [d EXCEPT !.sto.tables[t].cols = RemoveAt(@, SelectInSeq(@, LAMBDA c : c.name = col))]

\* The file keeps the name it was created under.
MoveStored(d, old, new) ==
    IF old \in DOMAIN d.sto.tables
    THEN [d EXCEPT !.sto.tables = Moved(@, old, new)]
    ELSE d
RenameStored(d, t, old, new) ==
    IF CanRemoveStored(d, t, old)
    THEN LET i == SelectInSeq(d.sto.tables[t].cols, LAMBDA c : c.name = old)
         IN  [d EXCEPT !.sto.tables[t].cols[i].name = new]
    ELSE d

-----------------------------------------------------------------------------
(* The statements.  Each answers the registries it leaves, the undo record  *)
(* it pushes, whether it ran to its end, where the caches are cleared,      *)
(* and whether it took the catalog for writing, which marks it dirty.  fail *)
(* is the step of it whose input or output fails, if any.                   *)

Done(d, record) == [d |-> d, log |-> <<record>>, ended |-> TRUE, locked |-> TRUE]
Unlogged(d) == [d |-> d, log |-> <<>>, ended |-> TRUE, locked |-> TRUE]
Failed(d) == [d |-> d, log |-> <<>>, ended |-> FALSE, locked |-> TRUE]
Exists(d) == [d |-> d, log |-> <<>>, ended |-> FALSE, locked |-> FALSE]

CreateNode(d, s, id, fail) ==
    LET added == AddTable(d.cat, s.t, "node", s.cols, None, None, s.pk, id)
        stored == CreateStored([d EXCEPT !.cat = added.cat], s.t, "node", s.cols)
    IN  IF TakenName(d.cat, s.t) /\ d.cat.tables[s.t].kind = "node" THEN Exists(d)
        ELSE IF ~added.ok \/ fail = "table" THEN Failed(d)
        ELSE IF s.pk /\ fail = "index" THEN Failed([stored EXCEPT !.cat = d.cat])
        ELSE Done(IF s.pk THEN AttachIndex(stored, s.t, <<s.t, "pk_index">>) ELSE stored,
                  [op |-> "createTable", t |-> s.t])

CreateRel(d, s, id, fail) ==
    LET added == AddTable(d.cat, s.t, "rel", s.cols, s.from, s.to, FALSE, id)
    IN  IF TakenName(d.cat, s.t) /\ d.cat.tables[s.t].kind = "rel" THEN Exists(d)
        ELSE IF ~added.ok \/ fail = "table" THEN Failed(d)
        ELSE Done(CreateStored([d EXCEPT !.cat = added.cat], s.t, "rel", s.cols),
                  [op |-> "createTable", t |-> s.t])

DropTable(d, s, id, fail) ==
    IF ~TakenName(d.cat, s.t) THEN [Unlogged(d) EXCEPT !.locked = FALSE]
    ELSE Done([DropStored(d, s.t) EXCEPT !.cat = RemoveTable(@, s.t)],
              [op |-> "dropTable", t |-> s.t, entry |-> d.cat.tables[s.t]])

AlterAddColumn(d, s, id, fail) ==
    LET added == AddColumn(d.cat, s.t, s.col)
        stored == AddStored(d, s.t, s.col)
    IN  IF ~CanAddStored(d, s.t, s.col) \/ fail = "column" THEN Failed(d)
        ELSE IF ~added.ok THEN Failed(RemoveStored(stored, s.t, s.col))
        ELSE Done([stored EXCEPT !.cat = added.cat],
                  [op |-> "addColumn", t |-> s.t, col |-> s.col])

\* Storage goes first: a column the catalog then refuses to drop is gone.
AlterDropColumn(d, s, id, fail) ==
    LET removed == RemoveColumn(d.cat, s.t, s.col)
        stored == RemoveStored(d, s.t, s.col)
    IN  IF ~CanRemoveStored(d, s.t, s.col) THEN Failed(d)
        ELSE IF ~removed.ok THEN Failed(stored)
        ELSE Done([stored EXCEPT !.cat = removed.cat],
                  [op |-> "dropColumn", t |-> s.t, col |-> s.col])

AlterRenameTable(d, s, id, fail) ==
    LET renamed == RenameTable(d.cat, s.t, s.new)
    IN  IF ~renamed.ok THEN Failed(d)
        ELSE Done([MoveStored(d, s.t, s.new) EXCEPT !.cat = renamed.cat],
                  [op |-> "renameTable", t |-> s.t, new |-> s.new])

AlterRenameColumn(d, s, id, fail) ==
    LET renamed == RenameColumn(d.cat, s.t, s.col, s.new)
    IN  IF ~renamed.ok THEN Failed(d)
        ELSE Done([RenameStored(d, s.t, s.col, s.new) EXCEPT !.cat = renamed.cat],
                  [op |-> "renameColumn", t |-> s.t, col |-> s.col, new |-> s.new])

CreateSequence(d, s, id, fail) ==
    IF s.name \in d.cat.sequences THEN Failed(d)
    ELSE Done([d EXCEPT !.cat.sequences = @ \cup {s.name}], [op |-> "createSequence", name |-> s.name])

CreateMacro(d, s, id, fail) ==
    IF s.name \in d.cat.macros THEN Failed(d)
    ELSE Done([d EXCEPT !.cat.macros = @ \cup {s.name}], [op |-> "createMacro", name |-> s.name])

CreateConstraint(d, s, id, fail) ==
    LET added == AddConstraint(d.cat, s.name, s.t, s.prop)
    IN  IF ~added.ok THEN Failed(d)
        ELSE Done([d EXCEPT !.cat = added.cat],
                  [op |-> "createConstraint", name |-> s.name, t |-> s.t])

\* The undo record comes from a search by name, the removal from the index.
DropConstraint(d, s, id, fail) ==
    LET removed == RemoveConstraint(d.cat, s.name)
        owners == {o \in (DOMAIN d.cat.tables) \X ConstraintSlots :
                      /\ o[2] \in DOMAIN d.cat.tables[o[1]].constraints
                      /\ d.cat.tables[o[1]].constraints[o[2]].name = s.name}
        x == CHOOSE y \in owners : TRUE
        after == [d EXCEPT !.cat = removed.cat]
    IN  IF ~removed.ok THEN Failed(after)
        ELSE IF owners = {} THEN Unlogged(after)
        ELSE Done(after, [op |-> "dropConstraint", t |-> x[1],
                          constraint |-> d.cat.tables[x[1]].constraints[x[2]]])

CreateIndex(d, s, id, fail) ==
    LET file == <<s.t, s.name, "idx">>
        opened == AttachIndex(d, s.name, file)
    IN  IF fail = "index" THEN Failed(d)
        ELSE Done(IF TakenName(d.cat, s.t)
                  THEN [opened EXCEPT !.cat.tables[s.t].indexes = With(@, s.prop, s.name)]
                  ELSE opened,
                  [op |-> "createIndex", name |-> s.name, t |-> s.t, prop |-> s.prop, file |-> file])

DropIndex(d, s, id, fail) ==
    LET Uses(t) == {p \in DOMAIN d.cat.tables[t].indexes : d.cat.tables[t].indexes[p] = s.name}
        users == {t \in DOMAIN d.cat.tables : Uses(t) # {}}
        t == CHOOSE u \in users : TRUE
        p == CHOOSE q \in Uses(t) : TRUE
        after == [d EXCEPT !.sto.indexes = Without(@, s.name),
                           !.cat.tables = [u \in DOMAIN @ |->
                                [@[u] EXCEPT !.indexes = [q \in DOMAIN @ \ Uses(u) |-> @[q]]]]]
    IN  Done(after, [op |-> "dropIndex", name |-> s.name,
                     at |-> IF users = {} THEN None ELSE <<t, p>>])

\* Vector and full-text indexes: storage only, and nothing to undo.
CreateSearchIndex(d, s, id, fail) ==
    IF fail = "index" THEN Failed(d)
    ELSE Unlogged([d EXCEPT !.sto.search = @ \cup {<<s.t, s.kind>>}])

Effect(d, s, id, fail) ==
    CASE s.op = "createNode" -> CreateNode(d, s, id, fail)
      [] s.op = "createRel" -> CreateRel(d, s, id, fail)
      [] s.op = "dropTable" -> DropTable(d, s, id, fail)
      [] s.op = "addColumn" -> AlterAddColumn(d, s, id, fail)
      [] s.op = "dropColumn" -> AlterDropColumn(d, s, id, fail)
      [] s.op = "renameTable" -> AlterRenameTable(d, s, id, fail)
      [] s.op = "renameColumn" -> AlterRenameColumn(d, s, id, fail)
      [] s.op = "createSequence" -> CreateSequence(d, s, id, fail)
      [] s.op = "createMacro" -> CreateMacro(d, s, id, fail)
      [] s.op = "createConstraint" -> CreateConstraint(d, s, id, fail)
      [] s.op = "dropConstraint" -> DropConstraint(d, s, id, fail)
      [] s.op = "createIndex" -> CreateIndex(d, s, id, fail)
      [] s.op = "dropIndex" -> DropIndex(d, s, id, fail)
      [] s.op = "createSearchIndex" -> CreateSearchIndex(d, s, id, fail)

-----------------------------------------------------------------------------
(* UndoBuffer::rollback, one record. *)

UndoCreateTable(d, r) ==
    LET gone == FilesOf(d.sto, r.t)
                    \cup (IF r.t \in DOMAIN d.sto.indexes THEN {<<r.t, "pk_index">>} ELSE {})
    IN  [DropStored(d, r.t) EXCEPT
            !.cat = RemoveTable(@, r.t),
            !.files = [f \in DOMAIN @ \ gone |-> @[f]]]

\* The table comes back without its primary-key index.
UndoDropTable(d, r) ==
    [CreateStored(d, r.t, r.entry.kind, r.entry.cols) EXCEPT
        !.cat.tables = With(@, r.t, r.entry)]

\* Mutant: only the catalog forgets the column.
UndoAddColumn_CatalogOnly(d, r) == [d EXCEPT !.cat = RemoveColumn(@, r.t, r.col).cat]

UndoAddColumn(d, r) ==
    LET e == [d EXCEPT !.cat = RemoveColumn(@, r.t, r.col).cat]
    IN  IF CanRemoveStored(e, r.t, r.col) THEN RemoveStored(e, r.t, r.col) ELSE e

UndoDropColumn(d, r) ==
    LET e == [d EXCEPT !.cat = AddColumn(@, r.t, r.col).cat]
    IN  IF CanAddStored(e, r.t, r.col) THEN AddStored(e, r.t, r.col) ELSE e

\* Moves the entry back, not the endpoints that were repointed to it.
UndoRenameTable(d, r) ==
    MoveStored(IF TakenName(d.cat, r.new)
               THEN [d EXCEPT !.cat.tables = Moved(@, r.new, r.t)]
               ELSE d, r.new, r.t)

\* The catalog may refuse; storage renames all the same.
UndoRenameColumn(d, r) ==
    RenameStored([d EXCEPT !.cat = RenameColumn(@, r.t, r.new, r.col).cat], r.t, r.new, r.col)

UndoCreateConstraint(d, r) ==
    IF ~TakenName(d.cat, r.t) THEN d
    ELSE [d EXCEPT !.cat.tables[r.t].constraints = SelectSeq(@, LAMBDA c : c.name # r.name)]

UndoDropConstraint(d, r) ==
    IF ~TakenName(d.cat, r.t) THEN d
    ELSE [d EXCEPT !.cat.tables[r.t].constraints = Append(@, r.constraint)]

UndoCreateIndex(d, r) ==
    LET e == [d EXCEPT !.sto.indexes = Without(@, r.name), !.files = Without(@, r.file)]
    IN  IF ~TakenName(e.cat, r.t) THEN e
        ELSE [e EXCEPT !.cat.tables[r.t].indexes = Without(@, r.prop)]

\* Reopens the index under a file name that leaves the table out.
UndoDropIndex(d, r) ==
    LET e == AttachIndex(d, r.name, <<r.name, "idx">>)
    IN  IF r.at = None \/ ~TakenName(e.cat, r.at[1]) THEN e
        ELSE [e EXCEPT !.cat.tables[r.at[1]].indexes = With(@, r.at[2], r.name)]

UndoOne(r, d) ==
    CASE r.op = "createTable" -> UndoCreateTable(d, r)
      [] r.op = "dropTable" -> UndoDropTable(d, r)
      [] r.op = "addColumn" -> UndoAddColumn(d, r)
      [] r.op = "dropColumn" -> UndoDropColumn(d, r)
      [] r.op = "renameTable" -> UndoRenameTable(d, r)
      [] r.op = "renameColumn" -> UndoRenameColumn(d, r)
      [] r.op = "createSequence" -> [d EXCEPT !.cat.sequences = @ \ {r.name}]
      [] r.op = "createMacro" -> [d EXCEPT !.cat.macros = @ \ {r.name}]
      [] r.op = "createConstraint" -> UndoCreateConstraint(d, r)
      [] r.op = "dropConstraint" -> UndoDropConstraint(d, r)
      [] r.op = "createIndex" -> UndoCreateIndex(d, r)
      [] r.op = "dropIndex" -> UndoDropIndex(d, r)

\* Mutant: the records are undone oldest first.
UndoAll_OldestFirst(d, log) == FoldRight(UndoOne, Reverse(log), d)

UndoAll(d, log) == FoldRight(UndoOne, log, d)

-----------------------------------------------------------------------------
(* What the history variables compare: names, kinds and sets of columns. *)
SchemaOf(c) ==
    [tables |-> [t \in DOMAIN c.tables |->
                    [kind |-> c.tables[t].kind, id |-> c.tables[t].id, cols |-> ToSet(c.tables[t].cols)]],
     sequences |-> c.sequences, macros |-> c.macros]

Current == [cat |-> cat, sto |-> sto, files |-> files]
Become(d) == cat' = d.cat /\ sto' = d.sto /\ files' = d.files

NoEntries == [bound |-> <<>>, plans |-> <<>>]
NoQuery == [at |-> "none"]

Init ==
    /\ work \in Workloads
    /\ LET Apply(s, d) == Effect(d, s, 0, "none").d
           d0 == FoldRight(Apply, work.setup, [cat |-> EmptyCatalog, sto |-> EmptyStorage, files |-> <<>>])
       IN  cat = d0.cat /\ sto = d0.sto /\ files = d0.files
    /\ undo = <<>> /\ disk = cat /\ dirty = FALSE
    /\ caches = NoEntries /\ query = NoQuery /\ clearing = <<>>
    /\ steps = 0 /\ reopens = 0
    /\ before = SchemaOf(cat) /\ mixed = FALSE /\ keyless = {}

Begin(tx) ==
    /\ tx \notin DOMAIN undo
    /\ undo' = With(undo, tx, <<>>)
    /\ UNCHANGED <<work, registries, disk, dirty, planning, steps, reopens, before, mixed, keyless>>

\* A transaction between two of its statements.
Ready(tx) == tx \in DOMAIN undo /\ tx \notin DOMAIN clearing

\* What a schema change overtakes is late: a query under way, and, when no clear
\* follows, what is cached.
Late(f) == [t \in DOMAIN f |-> [f[t] EXCEPT !.late = TRUE]]
QueryLate == IF query = NoQuery THEN query ELSE [query EXCEPT !.late = TRUE]
CachesLate == [bound |-> Late(caches.bound), plans |-> Late(caches.plans)]

\* PhysicalDDL::get_next up to the release of the locks.  A statement that ran to
\* its end goes on to clear the caches (there is nothing in them unless tables are
\* queried); one that finds the table there, or fails, does not.  A statement that fails half way leaves its
\* transaction open, with what it did before failing.
Execute(tx) ==
    /\ Ready(tx)
    /\ steps < work.max
    /\ steps' = steps + 1
    /\ \E s \in work.statements, fail \in {"none", "table", "column", "index"} :
         LET r == Effect(Current, s, steps + 1, fail)
         IN  /\ Become(r.d)
             /\ undo' = [undo EXCEPT ![tx] = @ \o r.log]
             /\ dirty' = (dirty \/ r.locked)
             /\ before' = IF undo[tx] = <<>> THEN SchemaOf(cat) ELSE before
             /\ clearing' = IF r.ended /\ work.queried # {} THEN With(clearing, tx, "bound")
                            ELSE clearing
             /\ query' = IF r.d # Current THEN QueryLate ELSE query
             /\ caches' = IF r.d # Current /\ ~r.ended THEN CachesLate ELSE caches
             /\ keyless' = IF s.op = "dropColumn" /\ ~r.ended /\ r.d.sto # sto /\ TakenName(cat, s.t)
                           THEN keyless \cup {cat.tables[s.t].id} ELSE keyless
    /\ mixed' = (mixed \/ \E other \in DOMAIN undo \ {tx} : undo[other] # <<>>)
    /\ UNCHANGED <<work, disk, reopens>>

\* invalidate_plan_caches: the bound statements ...
ClearBound(tx) ==
    /\ tx \in DOMAIN clearing /\ clearing[tx] = "bound"
    /\ caches' = [caches EXCEPT !.bound = <<>>]
    /\ clearing' = [clearing EXCEPT ![tx] = "plans"]
    /\ UNCHANGED <<work, registries, undo, disk, dirty, query, steps, reopens, before, mixed, keyless>>

\* Mutant: the physical plans are kept.
ClearPlans_Kept(tx) ==
    /\ tx \in DOMAIN clearing /\ clearing[tx] = "plans"
    /\ clearing' = Without(clearing, tx)
    /\ UNCHANGED <<work, registries, undo, disk, dirty, caches, query, steps, reopens, before, mixed, keyless>>

\* ... then the physical plans.
ClearPlans(tx) ==
    /\ tx \in DOMAIN clearing /\ clearing[tx] = "plans"
    /\ caches' = [caches EXCEPT !.plans = <<>>]
    /\ clearing' = Without(clearing, tx)
    /\ UNCHANGED <<work, registries, undo, disk, dirty, query, steps, reopens, before, mixed, keyless>>

\* Saving happens under the catalog lock, so nothing is lost in between.
Save == disk' = cat /\ dirty' = FALSE

\* Commit takes the catalog for writing, so it always finds it dirty.
Commit(tx) ==
    /\ Ready(tx)
    /\ undo' = Without(undo, tx)
    /\ Save
    /\ UNCHANGED <<work, registries, planning, steps, reopens, before, mixed, keyless>>

\* Mutant: the catalog is edited back without being marked dirty.
Rollback_NotDirty(tx) ==
    /\ Ready(tx)
    /\ Become(UndoAll(Current, undo[tx]))
    /\ undo' = Without(undo, tx)
    /\ UNCHANGED <<work, disk, dirty, planning, steps, reopens, before, mixed, keyless>>

\* The caches stay as they are.
Rollback(tx) ==
    /\ Ready(tx)
    /\ Become(UndoAll(Current, undo[tx]))
    /\ undo' = Without(undo, tx)
    /\ dirty' = (dirty \/ undo[tx] # <<>>)
    /\ query' = IF undo[tx] = <<>> THEN query ELSE QueryLate
    /\ caches' = IF undo[tx] = <<>> THEN caches ELSE CachesLate
    /\ UNCHANGED <<work, disk, clearing, steps, reopens, before, mixed, keyless>>

\* Rows written to a table by a transaction of their own, which commits.
Insert(t) ==
    /\ t \in work.loaded /\ t \in DOMAIN cat.tables /\ t \in DOMAIN sto.tables
    /\ files' = [f \in DOMAIN files |->
                    IF f \in FilesOf(sto, t) THEN files[f] \cup {cat.tables[t].id} ELSE files[f]]
    /\ files' # files
    /\ Save
    /\ UNCHANGED <<work, cat, sto, undo, planning, steps, reopens, before, mixed, keyless>>

\* Database::checkpoint saves the catalog as it stands.
Checkpoint ==
    /\ dirty
    /\ Save
    /\ UNCHANGED <<work, registries, undo, planning, steps, reopens, before, mixed, keyless>>

\* Storage is rebuilt from the saved catalog, files found by current names.
Restored(c, fs) ==
    LET Put(t, d) ==
            LET e == c.tables[t]
                stored == CreateStored(d, t, e.kind, e.cols)
            IN  IF e.kind = "rel" THEN stored
                ELSE [AttachIndex(stored, t, <<t, "pk_index">>) EXCEPT
                        !.sto.search = @ \cup {<<t, "fts">>, <<t, "vector">>}]
    IN  FoldRight(Put, SetToSeq(DOMAIN c.tables),
            [cat |-> [c EXCEPT !.byName = ConstraintIndex(c.tables)],
             sto |-> EmptyStorage, files |-> fs])

\* A crash and the next Database::new.
Reopen ==
    /\ reopens < MaxReopens
    /\ reopens' = reopens + 1
    /\ Become(Restored(disk, files))
    /\ undo' = <<>> /\ caches' = NoEntries /\ query' = NoQuery /\ clearing' = <<>>
    /\ dirty' = FALSE /\ mixed' = FALSE /\ keyless' = {}
    /\ UNCHANGED <<work, disk, steps, before>>

-----------------------------------------------------------------------------
(* build_physical_plan of a read-only query.  Each cache has its own lock, the *)
(* binder reads the catalog and the planner the storage manager.               *)

notQuery == <<work, registries, undo, disk, dirty, clearing, steps, reopens, before, mixed, keyless>>

Entry(q) == [cols |-> q.cols, stored |-> q.stored, late |-> q.late]

\* A physical plan is used as it is.  A query that begins while a statement has yet
\* to clear a cache is late.
QueryStart(t) ==
    /\ query = NoQuery /\ t \in work.queried
    /\ query' = IF t \in DOMAIN caches.plans
                THEN [at |-> "ready", t |-> t, cols |-> caches.plans[t].cols,
                      stored |-> caches.plans[t].stored,
                      late |-> caches.plans[t].late \/ clearing # <<>>]
                ELSE [at |-> "parsed", t |-> t, cols |-> None, stored |-> None,
                      late |-> clearing # <<>>]
    /\ UNCHANGED <<caches, notQuery>>

\* The bound statement of the cache, or one bound under the catalog's read lock.
Bind ==
    /\ query.at = "parsed"
    /\ query' = IF query.t \in DOMAIN caches.bound
                THEN [query EXCEPT !.at = "bound", !.cols = caches.bound[query.t].cols,
                                   !.late = @ \/ caches.bound[query.t].late]
                ELSE IF TakenName(cat, query.t)
                THEN [query EXCEPT !.at = "fresh", !.cols = cat.tables[query.t].cols]
                ELSE NoQuery
    /\ UNCHANGED <<caches, notQuery>>

CacheBound ==
    /\ query.at = "fresh"
    /\ caches' = [caches EXCEPT !.bound = With(@, query.t, Entry(query))]
    /\ query' = [query EXCEPT !.at = "bound"]
    /\ UNCHANGED notQuery

\* PhysicalPlanner: the table as storage has it, or "table not found".
Plan ==
    /\ query.at = "bound"
    /\ query' = IF query.t \in DOMAIN sto.tables
                THEN [query EXCEPT !.at = "planned", !.stored = StoredColumns(sto, query.t)]
                ELSE NoQuery
    /\ UNCHANGED <<caches, notQuery>>

CachePlan ==
    /\ query.at = "planned"
    /\ caches' = [caches EXCEPT !.plans = With(@, query.t, Entry(query))]
    /\ query' = [query EXCEPT !.at = "ready"]
    /\ UNCHANGED notQuery

QueryEnd ==
    /\ query.at = "ready"
    /\ query' = NoQuery
    /\ UNCHANGED <<caches, notQuery>>

Next ==
    \/ \E tx \in Txs : Begin(tx) \/ Execute(tx) \/ Commit(tx) \/ Rollback(tx)
    \/ \E tx \in DOMAIN clearing : ClearBound(tx) \/ ClearPlans(tx)
    \/ \E t \in DOMAIN cat.tables : Insert(t)
    \/ \E t \in work.queried : QueryStart(t)
    \/ Bind \/ CacheBound \/ Plan \/ CachePlan \/ QueryEnd
    \/ Checkpoint
    \/ Reopen

Spec == Init /\ [][Next]_vars

-----------------------------------------------------------------------------
\* The catalog and the storage manager describe the same tables: after any
\* sequence of statements, failures half way through one, commits, rollbacks
\* and restarts, every table of the catalog has storage of its kind with the
\* same columns in the same order, the built-in ones included.  Two exceptions.
\* ALTER TABLE t DROP COLUMN of a built-in column drops it from storage before
\* the catalog refuses, until the next restart: of such a table (keyless) only
\* the other columns agree.  And once changes of two open transactions have
\* overlapped (mixed) a rollback can break the agreement: renaming a column back
\* is refused by the catalog when the old name was taken meanwhile, and done in
\* storage all the same.
SchemasAgree ==
    ~mixed =>
        \A t \in DOMAIN cat.tables :
            /\ t \in DOMAIN sto.tables
            /\ sto.tables[t].kind = cat.tables[t].kind
            /\ IF cat.tables[t].id \in keyless
               THEN UserColumns(StoredColumns(sto, t)) = UserColumns(cat.tables[t].cols)
               ELSE StoredColumns(sto, t) = cat.tables[t].cols

\* A rollback undoes the transaction's schema changes, however many and
\* however they build on each other: the tables, their columns, sequences and
\* macros are those from before its first change, provided no other open
\* transaction was changing the schema at the same time.  (The order of columns,
\* the endpoints a rename repointed, constraints and indexes do not all come back
\* and are left out.)
RollbackUndone ==
    \A tx \in Txs : Rollback(tx) /\ ~mixed /\ undo[tx] # <<>> => SchemaOf(cat') = before
RollbackUndoes == [][RollbackUndone]_vars

\* lazy_catalog.rs: "ensuring catalog changes are never silently lost".  When
\* the catalog in memory differs from the one on disk it is marked dirty, so
\* that the next commit or checkpoint saves it: after rollbacks too.
Persisted(c) == [c EXCEPT !.byName = <<>>]
NeverSilentlyLost == Persisted(disk) # Persisted(cat) => dirty

\* regression_fixes.rs: "re-running the same query string after a schema change
\* must re-bind against the new schema, not reuse the old plan".  A query that met
\* no schema change on its way through the two caches runs on the catalog's and
\* storage's columns of now, whatever it found cached; and what is cached by such
\* queries matches them too, or a statement that has changed the schema is about
\* to clear it.  Late, and excepted: a query that began before a change, or before
\* its statement had cleared both caches; the entries it leaves, which can outlive
\* the clear, and the queries that use them; and what was cached before a rollback
\* or before a statement that failed after changing storage, as neither clears.
Matches(e, t) == TakenName(cat, t) /\ e.cols = cat.tables[t].cols
MatchesStored(e, t) == t \in DOMAIN sto.tables /\ e.stored = StoredColumns(sto, t)
CachedPlansCurrent ==
    /\ \A t \in DOMAIN caches.bound :
          \/ caches.bound[t].late
          \/ \E tx \in DOMAIN clearing : clearing[tx] = "bound"
          \/ Matches(caches.bound[t], t)
    /\ \A t \in DOMAIN caches.plans :
          \/ caches.plans[t].late
          \/ clearing # <<>>
          \/ Matches(caches.plans[t], t) /\ MatchesStored(caches.plans[t], t)
    /\ query.at = "ready" /\ ~query.late => Matches(query, query.t) /\ MatchesStored(query, query.t)

=============================================================================

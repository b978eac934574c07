------------------------------- MODULE Column -------------------------------
(***************************************************************************)
(* One column of a table: storage/column.rs, storage/stats/column_stats.rs *)
(* and the maintenance of Database::vacuum and Database::decompress.  A    *)
(* column is a file of pages, a file of null bytes, an overflow file for   *)
(* long strings and statistics.  Pages hold raw cells, or, once VACUUM has *)
(* re-encoded the column, a block of values each; the statistics, which no *)
(* transaction owns and which reach the disk with a checkpoint, say which. *)
(*                                                                         *)
(* One transaction writes at a time, seen by itself and by readers of what *)
(* is committed; the versions of a page are PageVersions' subject, which   *)
(* rows a reader sees is TransactionManager's.  LIST and STRUCT columns,   *)
(* which store children through the same operations, are left out.         *)
(***************************************************************************)
EXTENDS Codecs

CONSTANTS
  Kinds,       \* types of column
  Vals,        \* values written to it, numbers from 1
  Batches,     \* sequences of rows an insert brings
  Touched,     \* rows an update addresses
  PageUnits,   \* units of a page (1024 in the code)
  StringUnits, \* units of a string's cell (16 in the code)
  Sample,      \* values the analyzer is shown (4096 in the code)
  OverCap,     \* overflow pages a direct scan reads (1024 in the code)
  MaxRows,     \* bound on the rows
  MaxSteps,    \* bound on the operations
  null, junk   \* no value; bytes that decode to nothing that was written

VARIABLES
  col,         \* [kind, indexed]: the column's type, is_column_indexed
  data,        \* [pages, nulls, rows, truth] as the running transaction sees it
  old,         \* the same as committed, while a transaction runs
  pend,        \* pending_nulls of the running transaction
  over,        \* pages of the overflow file
  stats,       \* ColumnStats: num_values, compression_meta, page_bounds(_valid)
  compressed,  \* the flag of the same name
  saved,       \* the statistics in the catalog on disk
  marks,       \* version_info.has_modifications
  tx,          \* the running transaction: none, user, vacuum, or vacuumed
  harm,        \* history: what has happened that the code does not survive
  steps

vars == <<col, data, old, pend, over, stats, compressed, saved, marks, tx, harm, steps>>

Rows == 0 .. MaxRows - 1
NoMeta == [codec |-> "uncompressed", min |-> 0, max |-> 0, width |-> 0]
Long == Max(Vals)            \* the string too long for a cell

ElementUnits(kind) ==
  CASE kind = "int32" -> 1
    [] kind \in {"int64", "node", "double"} -> 2
    [] kind = "string" -> StringUnits

Size == ElementUnits(col.kind)
PerPage == PageUnits \div Size
ValuesPerPage(meta) == IF meta.codec = "uncompressed" THEN PerPage ELSE Block
DivCeil(a, b) == (a + b - 1) \div b

RawPage == [codec |-> "raw", body |-> [i \in 1 .. PageUnits |-> 0]]
PageAt(pages, p) == IF p < Len(pages) THEN pages[p + 1] ELSE RawPage

\* The bytes of a page taken as raw cells; a compressed one gives some that mean nothing.
Bytes(page) == IF page.codec = "raw" THEN page.body ELSE [i \in 1 .. PageUnits |-> Radix - 1]

\* add_new_page until the file has the page p.
Grown(pages, p) ==
  [i \in 1 .. Max({p + 1, Len(pages)}) |-> PageAt(pages, i - 1)]
-----------------------------------------------------------------------------
(* Cells: serialize_value_into and parse_value *)

Padded(s, n) == [i \in 1 .. n |-> IF i <= Len(s) THEN s[i] ELSE 0]

\* A long string's cell points to the overflow page o.
Cell(v, o) ==
  CASE col.kind = "int32" -> <<v>>
    [] col.kind \in {"int64", "node", "double"} -> Word(v)
    [] col.kind = "string" -> Padded(IF v = Long THEN <<v, o>> ELSE <<v>>, Size)

\* pointers below reach are followed, the others give the empty string, 0.
StringIn(cell, reach) ==
  IF cell[1] = Long THEN (IF cell[2] < reach THEN Long ELSE 0)
  ELSE IF cell = Padded(<<cell[1]>>, Size) THEN cell[1] ELSE junk

NumberIn(cell) == IF col.kind = "int32" THEN cell[1] ELSE Number(cell)

Parse(cell, reach) == IF col.kind = "string" THEN StringIn(cell, reach) ELSE NumberIn(cell)

\* append_to_overflow takes a page of its own for each long string.
Overflows(v) == IF col.kind = "string" /\ v = Long THEN 1 ELSE 0

PutCell(pages, r, cell) ==
  LET p == r \div PerPage
      at == (r % PerPage) * Size
      grown == Grown(pages, p)
  IN  [grown EXCEPT ![p + 1] =
        [codec |-> "raw",
         body |-> [i \in 1 .. PageUnits |->
                     IF i > at /\ i <= at + Size THEN cell[i - at] ELSE Bytes(@)[i]]]]
-----------------------------------------------------------------------------
(* Reading *)

CellAt(pages, r) ==
  LET at == (r % PerPage) * Size
  IN  SubSeq(Bytes(PageAt(pages, r \div PerPage)), at + 1, at + Size)

\* The value i of the n read from the value off of a compressed page: the words are
\* written to the buffer one after the other, the cells are read from it.
BlockCell(page, off, n, i, meta, reach) ==
  LET units == Padded(FlattenSeq(Decompress(page, off, n, meta)), Max({2 * n, n * Size}))
  IN  IF page.codec = meta.codec THEN Parse(SubSeq(units, (i - 1) * Size + 1, i * Size), reach)
      ELSE junk

\* get_plain_value.
PlainValue(pages, meta, r, reach) ==
  CASE meta.codec = "constant" -> meta.min
    [] meta.codec = "uncompressed" -> Parse(CellAt(pages, r), reach)
    [] OTHER -> BlockCell(PageAt(pages, r \div Block), r % Block, 1, 1, meta, reach)

\* The rows of a range that are decompressed together: those in one page.
ScanBlock(pages, meta, off, n, r, reach) ==
  LET page == r \div Block
      first == Max({off, page * Block})
      count == Min({off + n, (page + 1) * Block}) - first
  IN  BlockCell(PageAt(pages, page), first % Block, count, r - first + 1, meta, reach)

\* scan, which does not look at the nulls.
ScanValue(pages, meta, off, n, r, reach) ==
  CASE meta.codec = "constant" -> meta.min
    [] meta.codec = "uncompressed" -> Parse(CellAt(pages, r), reach)
    [] OTHER -> ScanBlock(pages, meta, off, n, r, reach)

Scan(pages, meta, n) == [i \in 1 .. n |-> ScanValue(pages, meta, 0, n, i - 1, over)]

\* is_null looks at the pending entries first, the last one of a row.
IsNull(nulls, pending, r) ==
  LET mine == SelectSeq(pending, LAMBDA e : e[1] = r)
  IN  IF mine # <<>> THEN Last(mine)[2] ELSE r < MaxRows /\ nulls[r]

Flushed(nulls, pending) == [r \in Rows |-> IsNull(nulls, pending, r)]

\* zone_map_should_skip: bounds that cannot hold the value asked for, if one is.
Skips(page, zone) ==
  /\ zone # null
  /\ stats.valid
  /\ page < Len(stats.bounds)
  /\ stats.bounds[page + 1] # null
  /\ zone < stats.bounds[page + 1][1] \/ zone > stats.bounds[page + 1][2]

\* get_value.
GetValue(view, pending, r) ==
  IF IsNull(view.nulls, pending, r) THEN null ELSE PlainValue(view.pages, stats.meta, r, over)

\* scan_to_array_vectorized and scan_string_vectorized, of raw columns, through the buffer
\* manager: the rows of a skipped page are null.
Vectorized(view, pending, r, zone) ==
  IF Skips(r \div PerPage, zone) \/ IsNull(view.nulls, pending, r) THEN null
  ELSE NumberIn(CellAt(view.pages, r))

VectorizedString(view, pending, r, zone) ==
  IF Skips(r \div PerPage, zone) \/ IsNull(view.nulls, pending, r) THEN null
  ELSE StringIn(CellAt(view.pages, r), over)

\* scan_to_array, after flush_pending_nulls; a constant column does not look at the nulls.
ScanToArray(view, pending, off, n, r, zone) ==
  CASE stats.meta.codec = "constant" -> stats.meta.min
    [] stats.meta.codec = "uncompressed" /\ col.kind = "string" ->
         VectorizedString(view, pending, r, zone)
    [] stats.meta.codec = "uncompressed" /\ col.kind # "string" ->
         Vectorized(view, pending, r, zone)
    [] OTHER ->
         IF Skips(r \div Block, zone) \/ IsNull(view.nulls, pending, r) THEN null
         ELSE ScanBlock(view.pages, stats.meta, off, n, r, over)

\* Raw columns without marks, and scans without a value to look for, take the files as they
\* are; of the overflow file only its first pages.
CanReadDirect == ~marks /\ stats.meta.codec = "uncompressed"

DirectPrimitive(view, r) == IF view.nulls[r] THEN null ELSE NumberIn(CellAt(view.pages, r))

DirectString(view, r) ==
  IF view.nulls[r] THEN null ELSE StringIn(CellAt(view.pages, r), Min({over, OverCap}))

DirectScan(view, r) ==
  IF col.kind = "string" THEN DirectString(view, r) ELSE DirectPrimitive(view, r)
-----------------------------------------------------------------------------
(* Statistics *)

Within_Newest(b, v) == <<v, v>>

Within(b, v) == IF b = null THEN <<v, v>> ELSE <<Min({b[1], v}), Max({b[2], v})>>

\* ColumnStats::update_page_bounds.
BoundsWith(st, page, v) ==
  IF ~st.valid \/ v = null THEN st
  ELSE [st EXCEPT !.bounds = [i \in 1 .. Max({Len(@), page + 1}) |->
          IF i = page + 1 THEN Within(IF i <= Len(@) THEN @[i] ELSE null, v)
          ELSE IF i <= Len(@) THEN @[i] ELSE null]]

\* ColumnStats::update, for the value of a row of an insert that is not null.
Counted(st, page, v) == BoundsWith([st EXCEPT !.n = @ + 1], page, v)

\* compute_page_bounds, over what a reader of the view sees.
PageBounds(view, st) ==
  LET per == ValuesPerPage(st.meta)
      Seen(p) == {ScanToArray(view, <<>>, p * per, Min({per, st.n - p * per}), r, null) :
                    r \in p * per .. Min({(p + 1) * per, st.n}) - 1} \ {null}
  IN  IF st.n = 0 THEN st
      ELSE [st EXCEPT !.valid = TRUE, !.per = per,
              !.bounds = [i \in 1 .. DivCeil(st.n, per) |->
                 IF Seen(i - 1) \ {junk} = {} THEN null
                 ELSE <<Min(Seen(i - 1) \ {junk}), Max(Seen(i - 1) \ {junk})>>]]
-----------------------------------------------------------------------------
(* Writing: a transaction of the user *)

Step == steps < MaxSteps /\ steps' = steps + 1

CellsFrom(vs, first) ==
  [i \in DOMAIN vs |->
     Cell(vs[i], first + Cardinality({j \in 1 .. i - 1 : Overflows(vs[j]) = 1}))]

NewOverflows(vs) == Cardinality({i \in DOMAIN vs : Overflows(vs[i]) = 1})

\* The raw pages decompress_all writes for the values vs.
RawPages(vs) ==
  LET units == FlattenSeq(CellsFrom(vs, over))
  IN  [p \in 1 .. DivCeil(Len(vs), PerPage) |->
         [codec |-> "raw",
          body |-> [i \in 1 .. PageUnits |->
                      IF i <= PerPage * Size /\ (p - 1) * PerPage * Size + i <= Len(units)
                      THEN units[(p - 1) * PerPage * Size + i] ELSE 0]]]

\* decompress_all: num_values values are written raw over the first pages; the compressed
\* pages behind them stay in the file.
Decompressed(pages) ==
  LET raw == RawPages(Scan(pages, stats.meta, stats.n))
  IN  raw \o SubSeq(pages, Len(raw) + 1, Len(pages))

\* A statement of its own first decompresses what VACUUM compressed, in a transaction of
\* its own that is committed before; an explicit transaction does not.
Begin ==
  /\ tx = "none" /\ steps < MaxSteps
  /\ tx' = "user"
  /\ \/ UNCHANGED <<data, over, stats, compressed, harm>>
     \/ /\ compressed
        /\ data' = [data EXCEPT !.pages = Decompressed(@)]
        /\ over' = over + NewOverflows(Scan(data.pages, stats.meta, stats.n))
        /\ stats' = [stats EXCEPT !.meta = NoMeta]
        /\ compressed' = FALSE
        /\ harm' = harm \cup (IF stats.valid /\ stats.per = Block THEN {"bounds"} ELSE {})
  /\ old' = data'
  /\ UNCHANGED <<col, pend, saved, marks, steps>>

\* The transaction that decompresses does not commit: its pages are gone, the flag stays.
DecompressFails ==
  /\ tx = "none" /\ compressed
  /\ Step
  /\ stats' = [stats EXCEPT !.meta = NoMeta]
  /\ compressed' = FALSE
  /\ harm' = harm \cup {"torn"}
  /\ UNCHANGED <<col, data, old, pend, over, saved, marks, tx>>

\* The null bytes of the rows behind the last one.
NullBytes(view, vs) ==
  [r \in Rows |-> IF r >= view.rows /\ r < view.rows + Len(vs)
                  THEN vs[r - view.rows + 1] = null ELSE view.nulls[r]]

\* batch_append_values: null bytes and cells of the new rows, no cell for a null.
Appended(view, vs) ==
  LET cells == CellsFrom(vs, over)
      Row(i) == view.rows + i - 1
      Put(pages, i) == IF vs[i] = null THEN Grown(pages, Row(i) \div PerPage)
                       ELSE PutCell(pages, Row(i), cells[i])
  IN  [pages |-> FoldLeft(Put, view.pages, [i \in DOMAIN vs |-> i]),
       nulls |-> NullBytes(view, vs),
       rows |-> view.rows + Len(vs),
       truth |-> view.truth \o vs]

\* An insert, through it or through bulk_append_array_inner, which does the same to the
\* column; only the values are counted.  A compressed column refuses.
AppendRows(vs) ==
  /\ tx = "user" /\ ~compressed
  /\ data.rows + Len(vs) <= MaxRows
  /\ Step
  /\ data' = Appended(data, vs)
  /\ LET Count(st, i) == IF vs[i] = null THEN st
                         ELSE Counted(st, (data.rows + i - 1) \div PerPage, vs[i])
     IN  stats' = FoldLeft(Count, stats, [i \in DOMAIN vs |-> i])
  /\ over' = over + NewOverflows(vs)
  /\ marks' = TRUE
  /\ UNCHANGED <<col, old, pend, compressed, saved, tx, harm>>

\* append_value, for SET and DELETE: the null byte is buffered, and with a null the buffer
\* is flushed and a zero written; nothing is counted.
AppendValue(r, v) ==
  /\ tx = "user" /\ ~compressed
  /\ r < data.rows
  /\ Step
  /\ LET entries == Append(pend, <<r, v = null>>)
         plain == IF v = null THEN 0 ELSE v
     IN  /\ pend' = IF v = null THEN <<>> ELSE entries
         /\ data' = [data EXCEPT
              !.pages = PutCell(@, r, Cell(plain, over)),
              !.nulls = IF v = null THEN Flushed(@, entries) ELSE @,
              !.truth[r + 1] = v]
         /\ over' = over + Overflows(plain)
         /\ stats' = IF v = null /\ col.kind = "string" THEN stats
                     ELSE BoundsWith(stats, r \div PerPage, plain)
  /\ marks' = TRUE
  /\ UNCHANGED <<col, old, compressed, saved, tx, harm>>

\* A scan of the transaction's own writes flushes its null bytes.
OwnScan ==
  /\ tx = "user" /\ pend # <<>>
  /\ data' = [data EXCEPT !.nulls = Flushed(@, pend)]
  /\ pend' = <<>>
  /\ UNCHANGED <<col, old, over, stats, compressed, saved, marks, tx, harm, steps>>

Commit_NoFlush ==
  /\ tx = "user"
  /\ pend' = <<>>
  /\ tx' = "none"
  /\ old' = data
  /\ UNCHANGED <<col, data, over, stats, compressed, saved, marks, harm, steps>>

\* commit flushes the null bytes and writes the pages to the files.
Commit ==
  /\ tx = "user"
  /\ data' = [data EXCEPT !.nulls = Flushed(@, pend)]
  /\ pend' = <<>>
  /\ tx' = "none"
  /\ old' = data'
  /\ UNCHANGED <<col, over, stats, compressed, saved, marks, harm, steps>>

\* A rollback discards what is in the pages; the file keeps its length and the statistics
\* what was counted.
Rollback ==
  /\ tx = "user"
  /\ data' = [old EXCEPT !.pages = IF data.pages = <<>> THEN @ ELSE Grown(@, Len(data.pages) - 1)]
  /\ pend' = <<>>
  /\ tx' = "none"
  /\ old' = data'
  /\ UNCHANGED <<col, over, stats, compressed, saved, marks, harm, steps>>

\* The version marks of committed rows are vacuumed.
ForgetMarks ==
  /\ tx # "user" /\ marks
  /\ Step
  /\ marks' = FALSE
  /\ UNCHANGED <<col, data, old, pend, over, stats, compressed, saved, tx, harm>>
-----------------------------------------------------------------------------
(* Maintenance: VACUUM *)

\* reencode_compressed: a page for every Block values, or for as many of them as the codec
\* took; a codec that fails ends it.
Encoded(vs, meta) ==
  LET n == Len(vs)
      Source[w \in 0 .. n] ==
        Padded(FlattenSeq(CellsFrom(SubSeq(vs, w + 1, Min({w + Block, n})), over)), Block * Size)
      Out[w \in 0 .. n] == Compress(meta.codec, Source[w], Min({Block, n - w}), meta)
      From[w \in 0 .. n] ==
        IF w = n THEN <<>>
        ELSE IF ~Out[w].ok THEN <<Failed>>
        ELSE IF Out[w].processed = 0 THEN <<>>
        ELSE <<Out[w].page>> \o From[w + Out[w].processed]
  IN  From[0]

\* What a reading of the re-encoded column cannot give back, by cause: the rows the count
\* leaves out; a value outside the range of the sample; a null among equal values; a cell
\* that is not a word; a floating-point number; page bounds of the other layout.
LostBy(meta, vs, st) ==
  (IF data.rows > st.n THEN {"short"} ELSE {})
    \cup (IF /\ meta.codec \in {"constant", "for", "bitpack"}
             /\ \E i \in DOMAIN vs : i > Sample /\ vs[i] \notin meta.min .. meta.max
          THEN {"sample"} ELSE {})
    \cup (IF meta.codec = "constant" /\ \E r \in 0 .. data.rows - 1 : data.nulls[r]
          THEN {"nulls"} ELSE {})
    \cup (IF meta.codec # "constant" /\ Size # 2 THEN {"width"} ELSE {})
    \cup (IF meta.codec = "alp" THEN {"alp"} ELSE {})
    \cup (IF meta.codec # "constant" /\ st.valid /\ Len(st.bounds) > 1
          THEN {"bounds"} ELSE {})

\* optimize up to the analysis: the bounds of an indexed column, and a file cut to the
\* pages its counted values need.
Measured(view) == IF col.indexed THEN PageBounds(view, stats) ELSE stats
Needed(st) == DivCeil(st.n, ValuesPerPage(st.meta))
Cut(pages, k) == SubSeq(pages, 1, Min({k, Len(pages)}))

\* Rows beyond the count are not in the bounds, and are cut with their page.
CutShort(st, rows) ==
  IF (col.indexed /\ st.n < rows) \/ Needed(st) * ValuesPerPage(st.meta) < rows
  THEN {"short"} ELSE {}

\* Two views of the column.  Only bodies of one codec can be compared.
CodecsOf(view) == [p \in DOMAIN view.pages |-> view.pages[p].codec]
Differ(a, b) == CodecsOf(a) # CodecsOf(b) \/ a # b

\* Values, type and count for which optimize does not go on to re-encode.
KeepsLayout(st) == st.n < Block \/ st.meta # NoMeta

\* A file is cut at once, whatever becomes of the transaction.
VacuumKeeps ==
  /\ tx = "none" /\ data.pages # <<>>
  /\ Step
  /\ LET st == Measured(data)
         pages == Cut(data.pages, Needed(st))
     IN  /\ \/ KeepsLayout(st)
            \/ /\ ~KeepsLayout(st)
               /\ NoMeta \in Analyze(col.kind, Scan(pages, NoMeta, Min({st.n, Sample})))
         /\ stats' = st
         /\ data' = [data EXCEPT !.pages = pages]
         /\ harm' = harm \cup CutShort(st, data.rows)
  /\ old' = data'
  /\ tx' = "vacuum"
  /\ UNCHANGED <<col, pend, over, compressed, saved, marks>>

VacuumEncodes ==
  /\ tx = "none" /\ data.pages # <<>>
  /\ Step
  /\ LET st == Measured(data)
         cut == Cut(data.pages, Needed(st))
     IN  /\ ~KeepsLayout(st)
         /\ \E vs \in {Scan(cut, NoMeta, st.n)} :
            \E m \in Analyze(col.kind, SubSeq(vs, 1, Min({st.n, Sample}))) \ {NoMeta} :
            \E pages \in {Encoded(vs, m)} :
              /\ ~Contains(pages, Failed)
              /\ data' = [data EXCEPT !.pages = pages]
              /\ old' = [data EXCEPT !.pages = Cut(cut, Len(pages))]
              /\ stats' = [st EXCEPT !.meta = m]
              /\ harm' = harm \cup LostBy(m, vs, st) \cup CutShort(st, data.rows)
              /\ over' = over + NewOverflows(vs)
  /\ compressed' = TRUE
  /\ tx' = "vacuum"
  /\ UNCHANGED <<col, pend, saved, marks>>

\* A codec refuses the column: VACUUM ends with an error, the file cut.
VacuumRefused ==
  /\ tx = "none" /\ data.pages # <<>>
  /\ Step
  /\ LET st == Measured(data)
         cut == Cut(data.pages, Needed(st))
     IN  /\ ~KeepsLayout(st)
         /\ \E vs \in {Scan(cut, NoMeta, st.n)} :
            \E m \in Analyze(col.kind, SubSeq(vs, 1, Min({st.n, Sample}))) \ {NoMeta} :
              /\ Contains(Encoded(vs, m), Failed)
              /\ over' = over + NewOverflows(vs)
         /\ stats' = st
         /\ data' = [data EXCEPT !.pages = cut]
         /\ harm' = harm \cup CutShort(st, data.rows)
  /\ old' = data'
  /\ UNCHANGED <<col, pend, compressed, saved, marks, tx>>

\* With a writer at work the column keeps its layout; the bounds are those of what is
\* committed, and the writer's values are not in them.
VacuumBusy ==
  /\ tx = "user" /\ data.pages # <<>>
  /\ Step
  /\ LET st == Measured(old)
     IN  /\ stats' = st
         /\ data' = [data EXCEPT !.pages = Cut(@, Needed(st))]
         /\ old' = [old EXCEPT !.pages = Cut(@, Needed(st))]
         /\ harm' = harm \cup CutShort(st, data.rows)
                      \cup (IF col.indexed /\ Differ(data, old) THEN {"writer"} ELSE {})
  /\ UNCHANGED <<col, pend, over, compressed, saved, marks, tx>>

VacuumCommit ==
  /\ tx = "vacuum"
  /\ tx' = "vacuumed"
  /\ old' = data
  /\ UNCHANGED <<col, data, pend, over, stats, compressed, saved, marks, harm, steps>>

\* The commit fails: the pages are gone, the flag and the metadata stay.
VacuumFails ==
  /\ tx = "vacuum"
  /\ tx' = "none"
  /\ data' = old
  /\ harm' = harm \cup (IF Differ(data, old) THEN {"torn"} ELSE {})
  /\ UNCHANGED <<col, old, pend, over, stats, compressed, saved, marks, steps>>

\* update_column_stats and the catalog's save, at a checkpoint; VACUUM ends with one.
Checkpoint ==
  /\ saved' = stats
  /\ \/ tx = "vacuumed" /\ tx' = "none" /\ UNCHANGED steps
     \/ saved # stats /\ Step /\ UNCHANGED tx
  /\ UNCHANGED <<col, data, old, pend, over, stats, compressed, marks, harm>>

\* The process ends and the database is opened again: what was committed, with the
\* statistics of the last checkpoint and without the marks; the bounds count as invalid.
Reopen ==
  /\ Step
  /\ data' = IF tx = "user" \/ tx = "vacuum" THEN old ELSE data
  /\ old' = data'
  /\ pend' = <<>>
  /\ stats' = [saved EXCEPT !.valid = FALSE]
  /\ compressed' = (saved.meta.codec # "uncompressed")
  /\ marks' = FALSE
  /\ tx' = "none"
  /\ harm' = harm \cup (IF saved.meta # stats.meta \/ (tx = "vacuum" /\ Differ(data, old))
                        THEN {"unsaved"} ELSE {})
  /\ UNCHANGED <<col, over, saved>>
-----------------------------------------------------------------------------
Empty == [pages |-> <<>>, nulls |-> [r \in Rows |-> FALSE], rows |-> 0, truth |-> <<>>]
NewStats == [n |-> 0, meta |-> NoMeta, bounds |-> <<>>, valid |-> FALSE, per |-> 0]

Init ==
  /\ col \in [kind : Kinds, indexed : BOOLEAN]
  /\ data = Empty /\ old = Empty
  /\ pend = <<>> /\ over = 0
  /\ stats = NewStats /\ saved = NewStats
  /\ compressed = FALSE /\ marks = FALSE
  /\ tx = "none" /\ harm = {} /\ steps = 0

Next ==
  \/ Begin \/ DecompressFails
  \/ \E vs \in Batches : AppendRows(vs)
  \/ \E r \in Touched, v \in Vals \cup {null} : AppendValue(r, v)
  \/ OwnScan \/ Commit \/ Rollback \/ ForgetMarks
  \/ VacuumKeeps \/ VacuumEncodes \/ VacuumRefused \/ VacuumBusy
  \/ VacuumCommit \/ VacuumFails
  \/ Checkpoint \/ Reopen

Spec == Init /\ [][Next]_vars
-----------------------------------------------------------------------------
(* Properties *)

\* What every way of reading the view gives for a row: alone, with the rows before it, with
\* the rows behind it and with both.
ReadsRight(view, pending) ==
  \A r \in 0 .. view.rows - 1 :
    LET v == view.truth[r + 1]
    IN  /\ GetValue(view, pending, r) = v
        /\ \A off \in {0, r}, end \in {r + 1, view.rows} :
             /\ ScanToArray(view, pending, off, end - off, r, null) = v
             /\ ScanToArray(view, pending, off, end - off, r, v) = v

(* Every read returns what was last written to the row: by row or by range, raw or
   compressed, through the buffer manager, past a zone map for the value or straight from
   the file, by the transaction that wrote it and, once committed, by others, through any
   inserts, updates, rollbacks, vacuums, decompressions and restarts - until one of the
   causes in harm, and except while a VACUUM has re-encoded a column and not committed. *)
ValuesKept ==
  harm = {} =>
    /\ tx # "vacuum" => ReadsRight(data, pend)
    /\ tx = "user" => ReadsRight(old, <<>>)
    /\ CanReadDirect /\ over <= OverCap /\ tx # "vacuum" =>
         \A r \in 0 .. data.rows - 1 : DirectScan(data, r) = data.truth[r + 1]
=============================================================================

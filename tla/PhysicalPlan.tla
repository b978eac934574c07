--------------------------- MODULE PhysicalPlan ---------------------------
(***************************************************************************)
(* The physical planner (processor/physical_plan.rs) and what the plans it *)
(* builds compute, chunk by chunk, for tables that fit in one chunk.       *)
(* Every lookup of a planned expression is <<"col", i>>, column i of the   *)
(* operator's input; reading a column that is not there is an error of the *)
(* whole query.                                                            *)
(***************************************************************************)
EXTENDS Optimizer

CONSTANTS Null, \* the null value
          Oob   \* what a lookup outside the batch evaluates to

(***************************************************************************)
(* Where the planner believes the columns of each variable are             *)
(***************************************************************************)
ScanWidth(s) == IF s.proj # <<>> THEN Len(s.proj) ELSE Width(s.table)

\* collect_variable_positions: the position of every variable, and the number
\* of columns the operator is taken to have.
RECURSIVE Positions(_, _)
Positions(p, start) ==
    CASE p.op \in {"scan", "index"} -> [pos |-> (p.var :> start), n |-> ScanWidth(p)]
      [] p.op = "join" ->
            LET l == Positions(p.left, start)
                r == Positions(p.right, start + l.n)
            IN  [pos |-> r.pos @@ l.pos, n |-> l.n + r.n]
      [] p.op \in {"optional", "union"} ->
            LET l == Positions(p.left, start)
                r == Positions(p.right, start + l.n)
            IN  [pos |-> r.pos @@ l.pos, n |-> r.n]
      [] p.op = "recursive" ->
            LET c == Positions(p.child, start)
            IN  [pos |-> (p.dst :> start + c.n) @@ (p.relvar :> start + c.n + Width(p.table))
                         @@ c.pos,
                 n |-> c.n + Width(p.table) + Width(p.rel)]
      [] OTHER -> Positions(Child(p), start)

\* compute_subtree_num_cols
RECURSIVE SubtreeWidth(_)
SubtreeWidth(p) ==
    CASE p.op \in {"scan", "index"} -> ScanWidth(p)
      [] p.op = "join" -> SubtreeWidth(p.left) + SubtreeWidth(p.right)
      [] p.op = "recursive" -> SubtreeWidth(p.child) + Width(p.table)
      [] p.op \in {"filter", "project", "sort", "limit", "topk", "aggregate"} ->
            SubtreeWidth(p.child)
      [] p.op = "union" -> SubtreeWidth(p.left)
      [] OTHER -> 0

\* variable_projected_indices: the columns read for each variable, the last
\* scan of a variable winning.
RECURSIVE CollectProjected(_, _)
CollectProjected(p, vpi) ==
    CASE p.op \in {"scan", "index"} -> (p.var :> p.proj) @@ vpi
      [] p.op \in Binary -> CollectProjected(p.right, CollectProjected(p.left, vpi))
      [] OTHER -> CollectProjected(p.child, vpi)

\* remap_property_lookup on one lookup and on an expression
Column(v, idx, pos, off, vpi) ==
    LET base == IF v \in DOMAIN pos THEN pos[v] ELSE Base(off, v)
        prop == TableRelative(idx, Base(off, v))
        at == IF v \in DOMAIN vpi THEN SelectInSeq(vpi[v], LAMBDA c : c = prop) ELSE 0
    IN  base + IF at # 0 THEN at - 1 ELSE prop

RECURSIVE Remap(_, _, _, _)
Remap(e, pos, off, vpi) ==
    CASE e[1] = "prop" -> <<"col", Column(e[2], e[3], pos, off, vpi)>>
      [] e[1] = "cmp" -> <<"cmp", e[2], Remap(e[3], pos, off, vpi), Remap(e[4], pos, off, vpi)>>
      [] e[1] \in {"and", "or"} ->
            <<e[1], Remap(e[2], pos, off, vpi), Remap(e[3], pos, off, vpi)>>
      [] e[1] = "not" -> Not(Remap(e[2], pos, off, vpi))
      [] OTHER -> e

RemapItems(items, pos, off, vpi) ==
    [i \in DOMAIN items |-> [items[i] EXCEPT !.e = Remap(@, pos, off, vpi)]]

(***************************************************************************)
(* Join keys                                                               *)
(***************************************************************************)
RECURSIVE EqComparisons(_)
EqComparisons(e) ==
    CASE e[1] = "cmp" /\ e[2] = "=" -> << <<e[3], e[4]>> >>
      [] e[1] = "and" -> EqComparisons(e[2]) \o EqComparisons(e[3])
      [] OTHER -> <<>>

Belongs(e, pos) == e[1] = "prop" /\ e[2] \in DOMAIN pos

\* The comparison that becomes the hash key: one with each side on its own
\* child only, else one that crosses, else the first.
JoinKey(cs, lp, rp) ==
    LET Canonical(c) == /\ Belongs(c[1], lp) /\ ~Belongs(c[1], rp)
                        /\ Belongs(c[2], rp) /\ ~Belongs(c[2], lp)
        Crossing(c) == \/ Belongs(c[1], lp) /\ Belongs(c[2], rp)
                       \/ Belongs(c[2], lp) /\ Belongs(c[1], rp)
        canonical == SelectInSeq(cs, Canonical)
        crossing == SelectInSeq(cs, Crossing)
    IN  IF canonical # 0 THEN canonical ELSE IF crossing # 0 THEN crossing ELSE 1

\* resolve_join_key_pair; a key is taken at its variable's position plus its
\* raw index, whatever columns the scan reads.
KeyPair(c, lp, rp) ==
    LET inOrder == \/ Belongs(c[1], lp) /\ Belongs(c[2], rp)
                   \/ ~(Belongs(c[2], lp) /\ Belongs(c[1], rp)) /\ Belongs(c[1], lp)
        l == IF inOrder THEN c[1] ELSE c[2]
        r == IF inOrder THEN c[2] ELSE c[1]
        At(e, pos) == IF Belongs(e, pos) THEN pos[e[2]] + e[3] ELSE -1
    IN  <<At(l, lp), At(r, rp)>>

(***************************************************************************)
(* PhysicalPlanner::plan.  The result is the physical operator and the     *)
(* projected indices as they are after planning it.                        *)
(***************************************************************************)
Planned(phys, vpi) == [phys |-> phys, vpi |-> vpi]

\* A join of two planned sides.
HashJoinOf(kind, sides, keys, filter) ==
    Planned([op |-> "hash_join", kind |-> kind, left |-> sides.l, right |-> sides.r,
             keys |-> keys, filter |-> filter], sides.vpi)

CrossJoin(sides) == HashJoinOf("cross", sides, <<0, 0>>, None)

\* The comparisons that did not become the key are checked on each pair.
Residual(rest, pos, off, vpi) ==
    IF rest = <<>> THEN None
    ELSE RebuildConjuncts([i \in DOMAIN rest |->
                              Remap(Eq(rest[i][1], rest[i][2]), pos, off, vpi)])

KeyedJoin(sides, cs, k, lp, rp, filter) ==
    HashJoinOf("inner", sides, KeyPair(cs[k], lp, rp), filter)

InnerJoin(sides, cs, lp, rp, width, off, vpi) ==
    LET k == JoinKey(cs, lp, rp)
        shifted == [x \in DOMAIN rp |-> rp[x] + width]
    IN  KeyedJoin(sides, cs, k, lp, rp, Residual(RemoveAt(cs, k), shifted @@ lp, off, vpi))

SemiHashJoin(kind, sides, cs, lp, rp) ==
    LET k == SelectInSeq(cs, LAMBDA c : Belongs(c[1], lp) /\ Belongs(c[2], rp))
    IN  HashJoinOf(kind, sides, IF k = 0 THEN <<0, 0>> ELSE KeyPair(cs[k], lp, rp), None)

OuterJoin(sides, lp, rp) ==
    LET shared == SelectSeq(VarNames, LAMBDA x : x \in DOMAIN lp \cap DOMAIN rp)
    IN  IF shared = <<>> THEN CrossJoin(sides)
        ELSE HashJoinOf("outer", sides, <<lp[shared[1]], rp[shared[1]]>>, None)

\* The scans: a pushed down filter keeps the table's column numbers.
ScanOf(p, off, vpi) ==
    Planned([p EXCEPT !.filter = IF @ = None THEN None ELSE Remap(@, (p.var :> 0), off, <<>>)],
            (p.var :> p.proj) @@ vpi)
IndexScanOf(p, vpi) == Planned(p, (p.var :> p.proj) @@ vpi)

\* The other operators, over a planned child c.
FilterOver(c, e, pos, off, vpi) == Planned(Filter(c.phys, Remap(e, pos, off, vpi)), c.vpi)
ProjectOver(c, items, pos, off) ==
    Planned(Projection(c.phys, RemapItems(items, pos, off, c.vpi)), c.vpi)
SortOver(c, p, pos, off) ==
    Planned([p EXCEPT !.child = c.phys, !.order = RemapItems(@, pos, off, c.vpi)], c.vpi)
UnionOf(sides, all) == Planned(Union(sides.l, sides.r, all), sides.vpi)
Over(c, p) == Planned([p EXCEPT !.child = c.phys], c.vpi)
Sides(l, r) == [l |-> l.phys, r |-> r.phys, vpi |-> r.vpi]

At0(p) == Positions(p, 0).pos

\* Filters, projections and joins look ahead at the columns their scans will
\* read; a sort uses what planning its child has left behind.
RECURSIVE Plan(_, _, _)
Plan(p, off, vpi) ==
    LET Below(v) == Plan(p.child, off, v)
        Right(l) == Sides(l, Plan(p.right, off, l.vpi))
        Both(v) == Right(Plan(p.left, off, v))
        ahead == IF p.op = "join" THEN CollectProjected(p.right, CollectProjected(p.left, vpi))
                 ELSE CollectProjected(p.child, vpi)
        keys == EqComparisons(p.cond)
    IN  CASE p.op = "scan" -> ScanOf(p, off, vpi)
          [] p.op = "index" -> IndexScanOf(p, vpi)
          [] p.op = "filter" -> FilterOver(Below(ahead), p.cond, At0(p.child), off, ahead)
          [] p.op = "project" -> ProjectOver(Below(ahead), p.items, At0(p.child), off)
          [] p.op \in {"sort", "topk"} -> SortOver(Below(vpi), p, At0(p.child), off)
          [] p.op = "join" /\ keys = <<>> -> CrossJoin(Both(vpi))
          [] p.op = "join" /\ keys # <<>> ->
                InnerJoin(Both(ahead), keys, At0(p.left), At0(p.right), SubtreeWidth(p.left),
                          off, ahead)
          [] p.op = "semi" ->
                SemiHashJoin(IF p.anti THEN "anti" ELSE "semi", Both(vpi), keys,
                             At0(p.left), At0(p.right))
          [] p.op = "optional" -> OuterJoin(Both(vpi), At0(p.left), At0(p.right))
          [] p.op = "union" -> UnionOf(Both(vpi), p.all)
          [] OTHER -> Over(Below(vpi), p)

(***************************************************************************)
(* What a physical plan computes: chunks of rows, none of them empty, and  *)
(* whether evaluation failed.                                              *)
(***************************************************************************)
\* Comparison with null is null; AND and OR are null as soon as one operand is.
\* (An AND false on the left in a whole chunk is false there, null on the right or
\* not, which only a NOT above it can tell.)
Strict(x, y, v) == IF Oob \in {x, y} THEN Oob ELSE IF Null \in {x, y} THEN Null ELSE v
Compare(op, x, y) == Strict(x, y, IF op = "=" THEN x = y ELSE x < y)
Logical(op, x, y) == Strict(x, y, IF op = "and" THEN x /\ y ELSE x \/ y)
Negated(x) == IF x \in {Null, Oob} THEN x ELSE ~x

RECURSIVE Eval(_, _)
Eval(e, row) ==
    CASE e[1] = "col" -> IF e[2] < Len(row) THEN row[e[2] + 1] ELSE Oob
      [] e[1] \in {"int", "bool"} -> e[2]
      [] e[1] = "cmp" -> Compare(e[2], Eval(e[3], row), Eval(e[4], row))
      [] e[1] \in {"and", "or"} -> Logical(e[1], Eval(e[2], row), Eval(e[3], row))
      [] e[1] = "not" -> Negated(Eval(e[2], row))

Failed == [err |-> TRUE, chunks |-> <<>>]
Chunks(cs) == [err |-> FALSE, chunks |-> SelectSeq(cs, LAMBDA c : c # <<>>)]
AllRowsOf(c) == FlattenSeq(c.chunks)

\* An operator that works chunk by chunk, and one that collects its input first;
\* both fail if one of the expressions es does on any row.
EvalFails(c, es) ==
    c.err \/ \E i \in DOMAIN c.chunks : \E j \in DOMAIN c.chunks[i] : \E k \in DOMAIN es :
                Eval(es[k], c.chunks[i][j]) = Oob
PerChunk(c, es, Op(_)) ==
    IF EvalFails(c, es) THEN Failed
    ELSE Chunks([i \in DOMAIN c.chunks |-> Op(c.chunks[i])])
Collected(c, es, Op(_)) ==
    IF EvalFails(c, es) THEN Failed ELSE Chunks(<<Op(AllRowsOf(c))>>)

Filtered(rows, e) == SelectSeq(rows, LAMBDA r : Eval(e, r) = TRUE)

\* extract_filter_columns: the columns a pushed down filter looks at.
RECURSIVE FilterColumns(_)
FilterColumns(e) ==
    CASE e[1] = "col" -> {e[2]}
      [] e[1] = "cmp" -> FilterColumns(e[3]) \cup FilterColumns(e[4])
      [] e[1] \in {"and", "or"} -> FilterColumns(e[2]) \cup FilterColumns(e[3])
      [] e[1] = "not" -> FilterColumns(e[2])
      [] OTHER -> {}

\* remap_filter_expression, remap_filter_to_projected: a column that is read is
\* looked up where it is put out, any other keeps its number.
RECURSIVE RemapFilter(_, _)
RemapFilter(e, cols) ==
    CASE e[1] = "col" -> IF e[2] \in ToSet(cols)
                         THEN <<"col", SelectInSeq(cols, LAMBDA c : c = e[2]) - 1>> ELSE e
      [] e[1] = "cmp" -> <<"cmp", e[2], RemapFilter(e[3], cols), RemapFilter(e[4], cols)>>
      [] e[1] \in {"and", "or"} -> <<e[1], RemapFilter(e[2], cols), RemapFilter(e[3], cols)>>
      [] e[1] = "not" -> Not(RemapFilter(e[2], cols))
      [] OTHER -> e

\* extract_zone_maps: the value that every row the filter keeps has in a column,
\* for the columns it compares with one; the last comparison of a column counts.
RECURSIVE ZoneMaps(_)
ZoneMaps(e) ==
    CASE e[1] = "cmp" /\ e[2] = "=" /\ e[3][1] = "col" /\ e[4][1] = "int" -> e[3][2] :> e[4][2]
      [] e[1] = "cmp" /\ e[2] = "=" /\ e[3][1] = "int" /\ e[4][1] = "col" -> e[4][2] :> e[3][2]
      [] e[1] = "and" -> ZoneMaps(e[3]) @@ ZoneMaps(e[2])
      [] OTHER -> <<>>

\* A column whose page cannot hold the value wanted is read as nulls; the bounds of
\* the page, of its known values, are taken to be valid.
SkipsPage(zones, rows, c) ==
    LET known == {rows[i][c + 1] : i \in DOMAIN rows} \ {Null}
    IN  c \in DOMAIN zones /\ known # {}
        /\ (zones[c] < Min(known) \/ zones[c] > Max(known))

\* with_projected_idxs drops the columns the table does not have and reads all of
\* them if none is left; with_filter reads those of the filter after them.
ProjectedIdxs(s) == SelectSeq(s.proj, LAMBDA c : c < Width(s.table))

FilterIdxs(s) ==
    IF s.filter = None THEN <<>>
    ELSE SetToSortSeq({c \in FilterColumns(s.filter) : c < Width(s.table)}, <)

AllColumns(s) == [i \in 1 .. Width(s.table) |-> i - 1]

ColumnsRead(s) ==
    IF ProjectedIdxs(s) = <<>> THEN AllColumns(s)
    ELSE ProjectedIdxs(s)
            \o SelectSeq(FilterIdxs(s), LAMBDA c : c \notin ToSet(ProjectedIdxs(s)))

ScanRows(cols, zones, rows) ==
    LET Read(c, row) == IF SkipsPage(zones, rows, c) THEN Null ELSE row[c + 1]
    IN  [i \in DOMAIN rows |-> [k \in DOMAIN cols |-> Read(cols[k], rows[i])]]

\* A scan of all columns looks at those of the filter first, and reads no others
\* when every row fails it.
FilterPass(s, zones, rows) ==
    LET cols == FilterIdxs(s)
        e == RemapFilter(s.filter, cols)
        in == Chunks(<<ScanRows(cols, zones, rows)>>)
    IN  IF ProjectedIdxs(s) # <<>> \/ cols = <<>> THEN [err |-> FALSE, none |-> FALSE]
        ELSE [err |-> EvalFails(in, <<e>>),
              none |-> \A i \in DOMAIN in.chunks : \A j \in DOMAIN in.chunks[i] :
                          Eval(e, in.chunks[i][j]) = FALSE]

ScanFiltered(s, cols, rows) ==
    LET e == RemapFilter(s.filter, cols)
    IN  PerChunk(Chunks(<<rows>>), <<e>>, LAMBDA c : Filtered(c, e))

ScanTable(s, db) ==
    LET rows == db[s.table]
        cols == ColumnsRead(s)
        zones == ZoneMaps(s.filter)
        pass == FilterPass(s, zones, rows)
    IN  IF s.filter = None THEN Chunks(<<ScanRows(cols, <<>>, rows)>>)
        ELSE IF pass.err THEN Failed
        ELSE IF pass.none THEN Chunks(<<>>)
        ELSE ScanFiltered(s, cols, ScanRows(cols, zones, rows))

\* The index gives one row for a key.
LookUp(s, db) ==
    LET at == SelectInSeq(db[s.table], LAMBDA x : x[s.at + 1] = s.value[2])
        cols == IF s.proj = <<>> THEN AllColumns(s) ELSE s.proj
    IN  Chunks(IF at = 0 THEN <<>> ELSE <<ScanRows(cols, <<>>, <<db[s.table][at]>>)>>)

\* Sort puts nulls first in both directions; top-k, when it keeps fewer than
\* half of the rows, orders them as values, where null is the least.
Before(x, y, desc, nullsFirst) ==
    x # y /\ IF x = Null THEN nullsFirst \/ ~desc
             ELSE IF y = Null THEN ~nullsFirst /\ desc
             ELSE IF desc THEN x > y ELSE x < y

SortedRows(rows, order, nullsFirst) ==
    LET Key(r, k) == Eval(order[k].e, r)
        Less(i, j) == \/ \E k \in DOMAIN order :
                            /\ Before(Key(rows[i], k), Key(rows[j], k), order[k].desc, nullsFirst)
                            /\ \A m \in 1 .. k - 1 : Key(rows[i], m) = Key(rows[j], m)
                      \/ /\ \A k \in DOMAIN order : Key(rows[i], k) = Key(rows[j], k)
                         /\ i < j
        at == SortSeq([i \in DOMAIN rows |-> i], Less)
    IN  [i \in DOMAIN at |-> rows[at[i]]]

Taken(rows, n) == SubSeq(rows, 1, IF n < Len(rows) THEN n ELSE Len(rows))

Skipped(rows, n) == SubSeq(rows, n + 1, Len(rows))

\* Top-k compares values only when it drops more than half of the rows.
TopKRows(p, rows) == Taken(SortedRows(rows, p.order, Len(rows) <= 2 * p.n), p.n)

\* The build side of a hash join: its rows by key, in order.  A null has no entry.
KeyAt(row, k) == IF k >= 0 /\ k < Len(row) THEN row[k + 1] ELSE Oob

Bucket(build, k, key) ==
    IF key \in {Null, Oob} THEN <<>> ELSE SelectSeq(build, LAMBDA r : KeyAt(r, k) = key)

\* Left columns, then right columns; nothing stands for the right columns of an
\* unmatched row when the build side produced no chunk at all.
JoinedRows(p, probe, build) ==
    LET Matches(l) == Bucket(build, p.keys[2], KeyAt(l, p.keys[1]))
        Nulls == IF build = <<>> THEN <<>> ELSE [i \in DOMAIN build[1] |-> Null]
        With(l, ms) == [i \in DOMAIN ms |-> l \o ms[i]]
        Pairs(l) ==
            CASE p.kind = "cross" -> With(l, build)
              [] p.kind = "inner" -> With(l, Matches(l))
              [] p.kind = "outer" -> IF Matches(l) = <<>> THEN <<l \o Nulls>>
                                     ELSE With(l, Matches(l))
              [] p.kind = "semi" -> IF Matches(l) = <<>> THEN <<>> ELSE <<l>>
              [] p.kind = "anti" -> IF Matches(l) = <<>> THEN <<l>> ELSE <<>>
    IN  FlattenSeq([i \in DOMAIN probe |-> Pairs(probe[i])])

\* A chunk of the left side that joins with nothing ends the join.
HashJoin(p, l, r) ==
    LET build == AllRowsOf(r)
        out == [i \in DOMAIN l.chunks |-> JoinedRows(p, l.chunks[i], build)]
        end == SelectInSeq(out, LAMBDA o : o = <<>>)
    IN  IF l.err \/ r.err THEN Failed
        ELSE Chunks(IF end = 0 THEN out ELSE SubSeq(out, 1, end - 1))

\* COUNT skips nulls; SUM is a number, 0 for nothing but nulls.
AggregateValue(f, vs) ==
    LET known == SelectSeq(vs, LAMBDA v : v # Null)
    IN  IF f = "count" THEN Len(known) ELSE FoldLeft(+, 0, known)

\* A group key is put out as text.  The texts of the one-digit numbers and of
\* null are the integers from 100 on, in the order of the strings.
Text(v) == 100 + (IF v = Null THEN 10 ELSE v)

GroupOut(p, key, group) ==
    LET Values(a) == [i \in DOMAIN group |-> group[i][a.col + 1]]
    IN  [i \in DOMAIN key |-> Text(key[i])]
            \o [i \in DOMAIN p.aggs |-> AggregateValue(p.aggs[i].f, Values(p.aggs[i]))]

\* One row per distinct key; without a key one row in all.
AggregateRows(p, rows) ==
    LET Key(r) == [i \in DOMAIN p.by |-> r[p.by[i] + 1]]
        Same(r) == SelectSeq(rows, LAMBDA x : Key(x) = Key(r))
        firsts == SelectSeq([i \in DOMAIN rows |-> i],
                            LAMBDA i : \A j \in 1 .. i - 1 : Key(rows[j]) # Key(rows[i]))
        Group(r) == GroupOut(p, Key(r), Same(r))
    IN  IF p.by = <<>> THEN <<GroupOut(p, <<>>, rows)>>
        ELSE [i \in DOMAIN firsts |-> Group(rows[firsts[i]])]

\* Breadth-first walks from the node in column 0, each node once per depth.
RECURSIVE Reached(_, _, _)
Reached(edges, from, depth) ==
    IF depth = 0 THEN {from}
    ELSE {e[2] : e \in {x \in edges : x[1] \in Reached(edges, from, depth - 1)}}

RecursiveRows(p, rows, db) ==
    LET edges == {<<e[1], e[2]>> : e \in ToSet(db[p.rel])}
        depths == [d \in 1 .. p.bounds[2] |-> d]
        wanted == SelectSeq(depths, LAMBDA d : d >= p.bounds[1])
        Via(n, from, d) == CHOOSE m \in Reached(edges, from, d - 1) : <<m, n>> \in edges
        Out(r, n, d) == r \o db[p.table][n + 1] \o <<Via(n, r[1], d), n>> \o <<d, n>>
        At(r, d) == LET ns == SetToSeq(Reached(edges, r[1], d))
                    IN  [i \in DOMAIN ns |-> Out(r, ns[i], d)]
    IN  FlattenSeq([i \in DOMAIN rows |->
            FlattenSeq([k \in DOMAIN wanted |-> At(rows[i], wanted[k])])])

Distinct(rows) == SelectSeq([i \in DOMAIN rows |-> i],
                            LAMBDA i : \A j \in 1 .. i - 1 : rows[j] # rows[i])

\* The chunks of the left arm, then those of the right one; a row that was put
\* out before is dropped.
UnionChunks(l, r, all) ==
    LET both == l.chunks \o r.chunks
        Earlier(i) == FlattenSeq(SubSeq(both, 1, i - 1))
        Fresh(i) == SelectSeq(Distinct(Earlier(i) \o both[i]), LAMBDA k : k > Len(Earlier(i)))
        New(i) == LET at == Fresh(i) IN [k \in DOMAIN at |-> both[i][at[k] - Len(Earlier(i))]]
    IN  IF l.err \/ r.err THEN Failed
        ELSE Chunks(IF all THEN both ELSE [i \in DOMAIN both |-> New(i)])

Projected(items, rows) ==
    [i \in DOMAIN rows |-> [k \in DOMAIN items |-> Eval(items[k].e, rows[i])]]

RECURSIVE Run(_, _)
Run(p, db) ==
    LET c == Run(p.child, db)
        l == Run(p.left, db)
        r == Run(p.right, db)
        Es(items) == [k \in DOMAIN items |-> items[k].e]
        Kept(cond, in) == PerChunk(in, <<cond>>, LAMBDA x : Filtered(x, cond))
    IN  CASE p.op = "scan" -> ScanTable(p, db)
          [] p.op = "index" -> LookUp(p, db)
          [] p.op = "filter" -> Kept(p.cond, c)
          [] p.op = "project" -> PerChunk(c, Es(p.items), LAMBDA x : Projected(p.items, x))
          [] p.op = "hash_join" -> IF p.filter = None THEN HashJoin(p, l, r)
                                   ELSE Kept(p.filter, HashJoin(p, l, r))
          [] p.op = "sort" -> Collected(c, Es(p.order), LAMBDA x : SortedRows(x, p.order, TRUE))
          [] p.op = "topk" -> Collected(c, Es(p.order), LAMBDA x : TopKRows(p, x))
          [] p.op = "limit" -> Collected(c, <<>>, LAMBDA x : Taken(x, p.n))
          [] p.op = "skip" -> Collected(c, <<>>, LAMBDA x : Skipped(x, p.n))
          [] p.op = "aggregate" -> Collected(c, <<>>, LAMBDA x : AggregateRows(p, x))
          [] p.op = "recursive" -> PerChunk(c, <<>>, LAMBDA x : RecursiveRows(p, x, db))
          [] p.op = "union" -> UnionChunks(l, r, p.all)

\* The answer to a logical plan.
Answer(p, off, db) ==
    LET out == Run(Plan(p, off, <<>>).phys, db) IN [err |-> out.err, rows |-> AllRowsOf(out)]
=============================================================================

----------------------------- MODULE QueryPlan -----------------------------
(***************************************************************************)
(* From a parsed query to a logical plan: the binder                       *)
(* (planner/binder.rs) and the logical planner (planner/logical_plan.rs).  *)
(*                                                                         *)
(* Expressions are tagged tuples.  A property lookup is written            *)
(* <<"prop", v, i>> both before binding, where i is the position of the    *)
(* property in the table of v, and after it, where the binder has replaced *)
(* i by the number later stages resolve.  Names of properties, literals    *)
(* and types are abstracted to positions and small integers; positions     *)
(* count from 0, as in the code.  Column 0 of a node table is its _id,     *)
(* columns 0 and 1 of a relationship table are its _src and _dst.          *)
(***************************************************************************)
EXTENDS Integers, Sequences, FiniteSets, SequencesExt

CONSTANTS VarNames,     \* every variable of a query, in string order
          NodeTables,   \* the node tables of the catalog
          RelTables,    \* its relationship tables, in catalog order
          Width(_),     \* how many columns a table has
          FromTable(_), \* the node table a relationship table starts in
          ToTable(_)    \* the node table it ends in

None == <<"none">>
Prop(v, i) == <<"prop", v, i>>
Num(n) == <<"int", n>>
Bool(b) == <<"bool", b>>
Eq(l, r) == <<"cmp", "=", l, r>>
And(l, r) == <<"and", l, r>>
Not(e) == <<"not", e>>

(***************************************************************************)
(* The binder                                                              *)
(***************************************************************************)
\* What Binder accumulates: the table of each variable, the offset of its
\* first column, and the elements of the match clause being bound with the
\* offset of the next one.
EmptyBinder == [vars |-> <<>>, off |-> <<>>, col |-> 0, elems |-> <<>>]

\* A variable enters the scope at the current offset, replacing an earlier
\* binding of the same name.
Register(b, v, table) ==
    [b EXCEPT !.vars = (v :> table) @@ b.vars,
              !.off = (v :> b.col) @@ b.off,
              !.col = b.col + Width(table)]

NodeElem(table, v, props) ==
    [kind |-> "node", table |-> table, var |-> v, props |-> props]
RelElem(tables, v, src, dst, bounds) ==
    [kind |-> "rel", table |-> tables[1], tables |-> tables, var |-> v,
     src |-> src, dst |-> dst, bounds |-> bounds]

\* The tables an unlabelled relationship may stand for.
ResolveRelTables(src, dst, dir) ==
    LET from == IF dir = "left" THEN dst ELSE src
        to == IF dir = "left" THEN src ELSE dst
    IN  SelectSeq(RelTables, LAMBDA r : FromTable(r) = from /\ ToTable(r) = to)

\* The first node of a pattern: its label, else the table of the variable it
\* repeats, else the end of the first relationship that the arrow leaves.
BindStart(b, p) ==
    LET first == p.chain[1]
        table == IF p.label # "" THEN p.label
                 ELSE IF p.var \in DOMAIN b.vars THEN b.vars[p.var]
                 ELSE IF first.dir = "left" THEN ToTable(first.rel)
                 ELSE FromTable(first.rel)
        r == Register(b, p.var, table)
    IN  [r EXCEPT !.elems = Append(@, NodeElem(table, p.var, p.props))]

\* One relationship and its far node.  A far node that is already bound keeps
\* its offset.  The direction chooses tables and is then forgotten.
BindLink(b, cur, k) ==
    LET tables == IF k.rel # "" THEN <<k.rel>>
                  ELSE ResolveRelTables(b.vars[cur], k.label, k.dir)
        b1 == Register(b, k.relvar, tables[1])
        table == IF k.var \in DOMAIN b1.vars THEN b1.vars[k.var]
                 ELSE IF k.label # "" THEN k.label
                 ELSE IF k.dir = "left" THEN FromTable(tables[1])
                 ELSE ToTable(tables[1])
        b2 == IF k.var \in DOMAIN b1.vars THEN b1
              ELSE Register(b1, k.var, table)
    IN  [b2 EXCEPT !.elems = @ \o << RelElem(tables, k.relvar, cur, k.var, k.bounds),
                                     NodeElem(table, k.var, k.props) >>]

BindPattern(b, p) ==
    LET Start(i) == IF i = 1 THEN p.var ELSE p.chain[i - 1].var
    IN  FoldLeftDomain(LAMBDA acc, i : BindLink(acc, Start(i), p.chain[i]),
                       BindStart(b, p), p.chain)

\* A match clause: offsets restart at 0 whatever was bound before it.
BindMatch(b, patterns) ==
    FoldLeft(BindPattern, [b EXCEPT !.col = 0, !.elems = <<>>], patterns)

\* Expressions.  A subquery is bound with the same binder, so what it
\* registers stays: the result is the expression and the binder after it.
RECURSIVE BindExpression(_, _)
BindExpression(b, e) ==
    CASE e[1] = "prop" -> <<Prop(e[2], b.off[e[2]] + e[3]), b>>
      [] e[1] = "cmp" -> LET l == BindExpression(b, e[3])
                             r == BindExpression(l[2], e[4])
                         IN  << <<"cmp", e[2], l[1], r[1]>>, r[2] >>
      [] e[1] \in {"and", "or"} -> LET l == BindExpression(b, e[2])
                                       r == BindExpression(l[2], e[3])
                                   IN  << <<e[1], l[1], r[1]>>, r[2] >>
      [] e[1] = "not" -> LET x == BindExpression(b, e[2])
                         IN  <<Not(x[1]), x[2]>>
      [] e[1] = "exists" -> LET m == BindMatch(b, e[2])
                                w == IF e[3] = None THEN <<None, m>>
                                     ELSE BindExpression(m, e[3])
                            IN  << <<"exists", m.elems, w[1]>>, w[2] >>
      [] e[1] = "agg" -> IF e[3] = None THEN <<e, b>>
                         ELSE LET x == BindExpression(b, e[3])
                              IN  << <<"agg", e[2], x[1]>>, x[2] >>
      [] OTHER -> <<e, b>>

\* RETURN: a bare variable stands for all its columns and * for all variables', numbered within its
\* table and not from its offset, unlike every other lookup.
BindItem(b, item) ==
    LET Whole(v) == [i \in 1 .. Width(b.vars[v]) |->
                        [e |-> Prop(v, i - 1), alias |-> item.alias]]
        all == SelectSeq(VarNames, LAMBDA v : v \in DOMAIN b.vars)
    IN  IF item.e[1] = "star" THEN FlattenSeq([i \in DOMAIN all |-> Whole(all[i])])
        ELSE IF item.e[1] = "var" THEN Whole(item.e[2])
        ELSE << [e |-> BindExpression(b, item.e)[1], alias |-> item.alias] >>

BindReturn(b, ret) ==
    [ret EXCEPT !.items = FlattenSeq([i \in DOMAIN ret.items |-> BindItem(b, ret.items[i])]),
                !.order = [i \in DOMAIN ret.order |->
                              [e |-> BindExpression(b, ret.order[i].e)[1],
                               desc |-> ret.order[i].desc]]]

(***************************************************************************)
(* Logical operators                                                       *)
(***************************************************************************)
\* proj is the columns a scan reads, empty when it reads them all.
Scan(table, v) ==
    [op |-> "scan", table |-> table, var |-> v, proj |-> <<>>, filter |-> None]
Filter(c, e) == [op |-> "filter", child |-> c, cond |-> e]
Join(l, r, e) == [op |-> "join", left |-> l, right |-> r, cond |-> e]
Optional(l, r) == [op |-> "optional", left |-> l, right |-> r]
SemiJoin(l, r, e, anti) ==
    [op |-> "semi", left |-> l, right |-> r, cond |-> e, anti |-> anti]
RecursiveJoin(c, k, table) ==
    [op |-> "recursive", child |-> c, rel |-> k.table, relvar |-> k.var,
     src |-> k.src, dst |-> k.dst, table |-> table, bounds |-> k.bounds]
Projection(c, items) == [op |-> "project", child |-> c, items |-> items]
Aggregate(c, by, dep, aggs) ==
    [op |-> "aggregate", child |-> c, by |-> by, dep |-> dep, aggs |-> aggs]
Sort(c, order) == [op |-> "sort", child |-> c, order |-> order]
TopK(c, order, n) == [op |-> "topk", child |-> c, order |-> order, n |-> n]
Limit(c, n) == [op |-> "limit", child |-> c, n |-> n]
Skip(c, n) == [op |-> "skip", child |-> c, n |-> n]
Union(l, r, all) == [op |-> "union", left |-> l, right |-> r, all |-> all]

Unary == {"filter", "recursive", "project", "aggregate", "sort", "topk", "limit", "skip"}
Binary == {"join", "optional", "semi", "union"}

\* node_count, which the optimizer takes for "nothing changed".
RECURSIVE NodeCount(_)
NodeCount(p) ==
    CASE p.op \in Unary -> 1 + NodeCount(p.child)
      [] p.op \in Binary -> 1 + NodeCount(p.left) + NodeCount(p.right)
      [] OTHER -> 1

\* get_child and set_child: of a binary operator they see the left side only.
HasChild(p) == p.op \in Unary \cup Binary
Child(p) == IF p.op \in Unary THEN p.child ELSE p.left
WithChild(p, c) ==
    IF p.op \in Unary THEN [p EXCEPT !.child = c] ELSE [p EXCEPT !.left = c]

(***************************************************************************)
(* The logical planner                                                     *)
(***************************************************************************)
\* One filter per property written in the node pattern.
FilterProps(plan, v, props) ==
    FoldLeft(LAMBDA acc, p : Filter(acc, Eq(Prop(v, p[1]), Num(p[2]))), plan, props)

\* NOT (prev._src = cur._src AND prev._dst = cur._dst)
DistinctRels(prev, cur) ==
    Not(And(Eq(Prop(prev, 0), Prop(cur, 0)), Eq(Prop(prev, 1), Prop(cur, 1))))

\* State of the walk over a clause's elements: the plan, the variables already
\* produced, and the relationships traversed so far.
PlanNode(s, n) ==
    IF n.var \in s.bound
    THEN [s EXCEPT !.plan = FilterProps(@, n.var, n.props)]
    ELSE [s EXCEPT !.plan = Join(@, FilterProps(Scan(n.table, n.var), n.var, n.props),
                                 Bool(TRUE)),
                   !.bound = @ \cup {n.var}]

PlanRel(s, k, n) ==
    LET joined == Join(Join(s.plan, Scan(k.table, k.var),
                            Eq(Prop(k.src, 0), Prop(k.var, 0))),
                       FilterProps(Scan(n.table, n.var), n.var, n.props),
                       Eq(Prop(k.var, 1), Prop(n.var, 0)))
        same == SelectSeq(s.rels, LAMBDA r : r.table = k.table)
    IN  [plan |-> FoldLeft(LAMBDA acc, r : Filter(acc, DistinctRels(r.var, k.var)),
                           joined, same),
         bound |-> s.bound \cup {k.src, k.var, n.var},
         rels |-> Append(s.rels, [var |-> k.var, table |-> k.table])]

PlanRecursive(s, k, n) ==
    [s EXCEPT !.plan = FilterProps(RecursiveJoin(@, k, n.table), k.dst, n.props),
              !.bound = @ \cup {k.src, k.dst, k.var}]

RECURSIVE PlanElements(_, _)
PlanElements(s, es) ==
    IF es = <<>> THEN s.plan
    ELSE IF es[1].kind = "node" THEN PlanElements(PlanNode(s, es[1]), Tail(es))
    ELSE IF es[1].bounds # <<>>
         THEN PlanElements(PlanRecursive(s, es[1], es[2]), SubSeq(es, 3, Len(es)))
         ELSE PlanElements(PlanRel(s, es[1], es[2]), SubSeq(es, 3, Len(es)))

PlanOneMatch(es) ==
    PlanElements([plan |-> FilterProps(Scan(es[1].table, es[1].var), es[1].var, es[1].props),
                  bound |-> {es[1].var}, rels |-> <<>>],
                 Tail(es))

\* Every choice of one table per relationship, and the union of their plans.
RECURSIVE Alternatives(_)
Alternatives(es) ==
    IF es = <<>> THEN << <<>> >>
    ELSE LET rest == Alternatives(Tail(es))
             tables == IF es[1].kind = "rel" THEN es[1].tables ELSE <<es[1].table>>
         IN  FlattenSeq([i \in DOMAIN tables |->
                [j \in DOMAIN rest |-> << [es[1] EXCEPT !.table = tables[i]] >> \o rest[j]]])

PlanMatch(es) ==
    LET alts == Alternatives(es)
    IN  FoldLeft(LAMBDA acc, a : Union(acc, PlanOneMatch(a), TRUE),
                 PlanOneMatch(alts[1]), Tail(alts))

\* The items of a RETURN that are aggregates, and the group keys.
IsAggregate(item) == item.e[1] = "agg"
GroupKeys(items) == SelectSeq(items, LAMBDA it : ~IsAggregate(it))

\* Counting rows and counting a bare variable count a literal.
AggregateArg(item) ==
    IF item.e[3] = None \/ item.e[3][1] = "var"
    THEN [e |-> Num(1), alias |-> "_dummy"]
    ELSE [e |-> item.e[3], alias |-> ""]

\* The input column of an aggregate is computed while the items are walked,
\* from the group keys and the arguments met so far.
AggregateCalls(items) ==
    LET Before(i, P(_)) == Len(SelectSeq(SubSeq(items, 1, i - 1), P))
        Call(i) == [f |-> items[i].e[2],
                    col |-> Before(i, LAMBDA it : ~IsAggregate(it)) + Before(i, IsAggregate)]
        at == SelectSeq([i \in DOMAIN items |-> i], LAMBDA i : IsAggregate(items[i]))
    IN  [k \in DOMAIN at |-> Call(at[k])]

\* remap_agg_order_by: a sort key becomes a column of the aggregate's output.
\* A key that is a lookup keeps its variable.
RemapAggOrderBy(e, items) ==
    LET keys == GroupKeys(items)
        key == SelectInSeq(keys, LAMBDA it : it.e = e)
        agg == SelectInSeq(items, LAMBDA it : it.e = e)
        preceding == Len(SelectSeq(SubSeq(items, 1, agg - 1), IsAggregate))
    IN  IF e[1] = "prop" /\ key # 0 THEN Prop(e[2], key - 1)
        ELSE IF e[1] = "agg" /\ agg # 0 THEN Prop("", Len(keys) + preceding)
        ELSE e

\* The columns of the aggregate's output, back in the order of the items.
FinalItems(items) ==
    LET keys == Len(GroupKeys(items))
        Upto(i, P(_)) == Len(SelectSeq(SubSeq(items, 1, i), P))
    IN  [i \in DOMAIN items |->
            [e |-> Prop("", IF IsAggregate(items[i])
                            THEN keys + Upto(i, IsAggregate) - 1
                            ELSE Upto(i, LAMBDA it : ~IsAggregate(it)) - 1),
             alias |-> items[i].alias]]

SortUnlessEmpty(plan, order) == IF order = <<>> THEN plan ELSE Sort(plan, order)

PlanAggregation(plan, ret) ==
    LET keys == GroupKeys(ret.items)
        args == SelectSeq(ret.items, IsAggregate)
        pre == Projection(plan, keys \o [i \in DOMAIN args |-> AggregateArg(args[i])])
        agg == Aggregate(pre, [i \in DOMAIN keys |-> i - 1], {}, AggregateCalls(ret.items))
        order == [i \in DOMAIN ret.order |->
                     [ret.order[i] EXCEPT !.e = RemapAggOrderBy(@, ret.items)]]
    IN  Projection(SortUnlessEmpty(agg, order), FinalItems(ret.items))

\* DISTINCT groups by every item; the sort keys are left as they are.
PlanDistinct(plan, ret) ==
    LET agg == Aggregate(Projection(plan, ret.items),
                         [i \in DOMAIN ret.items |-> i - 1], {}, <<>>)
    IN  SortUnlessEmpty(Projection(agg, FinalItems(ret.items)), ret.order)

SkipTo(plan, n) == IF n = -1 THEN plan ELSE Skip(plan, n)
LimitTo(plan, n) == IF n = -1 THEN plan ELSE Limit(plan, n)

PlanItems(plan, ret) ==
    IF \E i \in DOMAIN ret.items : IsAggregate(ret.items[i]) THEN PlanAggregation(plan, ret)
    ELSE IF ret.distinct THEN PlanDistinct(plan, ret)
    ELSE Projection(SortUnlessEmpty(plan, ret.order), ret.items)

PlanReturn(plan, ret) == LimitTo(SkipTo(PlanItems(plan, ret), ret.skip), ret.limit)

(***************************************************************************)
(* A whole query: a MATCH with its WHERE, the MATCH and OPTIONAL MATCH     *)
(* clauses after it, and a RETURN.  The result is the plan and the offsets *)
(* that the physical planner is given.                                     *)
(***************************************************************************)
BindWhere(b, where) == IF where = None THEN <<None, b>> ELSE BindExpression(b, where)

BindClauses(b0, clauses) ==
    LET Clause(acc, c) == LET b == BindMatch(acc.b, c.patterns)
                          IN  [b |-> b, clauses |-> Append(acc.clauses,
                                           [optional |-> c.optional, elems |-> b.elems])]
    IN  FoldLeft(Clause, [b |-> b0, clauses |-> <<>>], clauses)

BoundQuery(elems, where, rest, ret) ==
    [elems |-> elems, where |-> where, clauses |-> rest.clauses,
     ret |-> BindReturn(rest.b, ret), offsets |-> rest.b.off]

BindAfterMatch(elems, where, q) ==
    BoundQuery(elems, where[1], BindClauses(where[2], q.clauses), q.ret)

BindQuery(q) ==
    LET m == BindMatch(EmptyBinder, q.match)
    IN  BindAfterMatch(m.elems, BindWhere(m, q.where), q)

PlanQuery(bq) ==
    LET matched == PlanMatch(bq.elems)
        filtered == IF bq.where = None THEN matched ELSE Filter(matched, bq.where)
        Clause(plan, c) == IF c.optional THEN Optional(plan, PlanMatch(c.elems))
                           ELSE Join(plan, PlanMatch(c.elems), Bool(TRUE))
    IN  PlanReturn(FoldLeft(Clause, filtered, bq.clauses), bq.ret)

\* UNION of two arms: each is bound by a binder of its own, only the offsets of
\* the first survive, and a trailing SKIP or LIMIT is hoisted above the union.
PlanUnion(plans, all, ret) ==
    LimitTo(SkipTo(Union(plans[1], plans[2], all), ret.skip), ret.limit)

\* The arms of a query, as each is bound.
Arms(q) ==
    IF q.union = <<>> THEN <<q>>
    ELSE <<q, [q.union[1] EXCEPT !.ret.skip = -1, !.ret.limit = -1]>>

PlanArms(q, plans) ==
    IF q.union = <<>> THEN plans[1] ELSE PlanUnion(plans, q.union[2], q.union[1].ret)

PlanStatement(q) ==
    PlanArms(q, [i \in DOMAIN Arms(q) |-> PlanQuery(BindQuery(Arms(q)[i]))])
=============================================================================

----------------------------- MODULE Optimizer -----------------------------
(***************************************************************************)
(* The rules of the optimizer, one operator per rule of optimizer/mod.rs,  *)
(* in the order they run.  FactorizationRewriter and ForeignJoinPushDown   *)
(* return their argument and are left out; CountRelTableOptimizer looks    *)
(* for an aggregate directly over a scan or a join, which the logical      *)
(* planner never builds, so all it does is empty the dependent columns.    *)
(***************************************************************************)
EXTENDS QueryPlan

CONSTANTS SubName(_),  \* the variable "__sub_" followed by a name
          Indexed(_)   \* the positions of a node table's key and its indexed properties

(***************************************************************************)
(* Variables of expressions and plans                                      *)
(***************************************************************************)
RECURSIVE ExtractVariables(_)
ExtractVariables(e) ==
    CASE e[1] = "prop" -> {e[2]}
      [] e[1] = "cmp" -> ExtractVariables(e[3]) \cup ExtractVariables(e[4])
      [] e[1] \in {"and", "or"} -> ExtractVariables(e[2]) \cup ExtractVariables(e[3])
      [] e[1] = "not" -> ExtractVariables(e[2])
      [] e[1] = "exists" -> {e[2][i].var : i \in DOMAIN e[2]} \cup ExtractVariables(e[3])
      [] OTHER -> {}

\* LogicalOperator::get_variables
RECURSIVE GetVariables(_)
GetVariables(p) ==
    CASE p.op = "scan" -> {p.var}
      [] p.op = "project" -> {p.items[i].alias : i \in DOMAIN p.items}
      [] p.op \in {"join", "union"} -> GetVariables(p.left) \cup GetVariables(p.right)
      [] p.op = "aggregate" -> {}
      [] OTHER -> GetVariables(Child(p))

\* FilterPushDown::provided_variables
RECURSIVE ProvidedVariables(_)
ProvidedVariables(p) ==
    CASE p.op \in {"scan", "index"} -> {p.var}
      [] p.op = "project" -> {p.items[i].alias : i \in DOMAIN p.items}
      [] p.op \in {"join", "union"} ->
            ProvidedVariables(p.left) \cup ProvidedVariables(p.right)
      [] p.op = "recursive" -> ProvidedVariables(p.child) \cup {p.src, p.dst, p.relvar}
      [] p.op = "topk" -> {}
      [] OTHER -> ProvidedVariables(Child(p))

(***************************************************************************)
(* SubqueryUnnesting: EXISTS becomes a semi join, NOT EXISTS an anti join. *)
(***************************************************************************)
RECURSIVE RenameVars(_, _)
RenameVars(e, vs) ==
    CASE e[1] = "prop" -> IF e[2] \in vs THEN Prop(SubName(e[2]), e[3]) ELSE e
      [] e[1] = "cmp" -> <<"cmp", e[2], RenameVars(e[3], vs), RenameVars(e[4], vs)>>
      [] e[1] \in {"and", "or"} -> <<e[1], RenameVars(e[2], vs), RenameVars(e[3], vs)>>
      [] e[1] = "not" -> Not(RenameVars(e[2], vs))
      [] OTHER -> e

RenameElem(el, vs) ==
    LET New(v) == IF v \in vs THEN SubName(v) ELSE v
    IN  IF el.kind = "node" THEN [el EXCEPT !.var = New(@)]
        ELSE [el EXCEPT !.src = New(@), !.dst = New(@)]

\* The correlated variables are equated one by one.
CreateSemiJoin(child, elems, where, anti) ==
    LET left == GetVariables(child)
        match == PlanOneMatch([i \in DOMAIN elems |-> RenameElem(elems[i], left)])
        sub == IF where = None THEN match ELSE Filter(match, RenameVars(where, left))
        right == GetVariables(sub)
        common == SelectSeq(VarNames, LAMBDA v : v \in left /\ SubName(v) \in right)
        Key(v) == Eq(Prop(v, 0), Prop(SubName(v), 0))
        cond == IF common = <<>> THEN Bool(TRUE)
                ELSE FoldLeft(LAMBDA acc, v : And(acc, Key(v)), Key(common[1]), Tail(common))
    IN  SemiJoin(child, sub, cond, anti)

RECURSIVE UnnestSubquery(_, _)
UnnestSubquery(child, e) ==
    CASE e[1] = "exists" -> CreateSemiJoin(child, e[2], e[3], FALSE)
      [] e[1] = "not" /\ e[2][1] = "exists" -> CreateSemiJoin(child, e[2][2], e[2][3], TRUE)
      [] e[1] = "and" -> UnnestSubquery(UnnestSubquery(child, e[2]), e[3])
      [] OTHER -> Filter(child, e)

RECURSIVE SubqueryUnnesting(_)
SubqueryUnnesting(p) ==
    CASE p.op = "filter" -> UnnestSubquery(SubqueryUnnesting(p.child), p.cond)
      [] p.op \in {"join", "semi"} -> [p EXCEPT !.left = SubqueryUnnesting(@),
                                                !.right = SubqueryUnnesting(@)]
      [] HasChild(p) /\ p.op \notin {"filter", "join", "semi"} ->
            WithChild(p, SubqueryUnnesting(Child(p)))
      [] OTHER -> p

(***************************************************************************)
(* FilterPushDown: a condition moves to the scan that provides all its     *)
(* variables, through joins conjunct by conjunct.                          *)
(***************************************************************************)
RECURSIVE SplitConjuncts(_)
SplitConjuncts(e) ==
    IF e[1] = "and" THEN SplitConjuncts(e[2]) \o SplitConjuncts(e[3]) ELSE <<e>>

RebuildConjuncts(es) == FoldLeft(And, es[1], Tail(es))

RECURSIVE FilterPushDown(_)
RECURSIVE PushFilter(_, _)
\* A condition above a plan that has been pushed down already.
PushFilter(c, e) ==
    LET Below(side, es) == IF es = <<>> THEN side
                           ELSE FilterPushDown(Filter(side, RebuildConjuncts(es)))
        Within(x, vs) == ExtractVariables(x) \subseteq vs
    IN  CASE c.op = "scan" /\ Within(e, {c.var}) ->
                [c EXCEPT !.filter = IF @ = None THEN e ELSE And(@, e)]
          [] c.op = "join" ->
                LET l == ProvidedVariables(c.left)
                    r == ProvidedVariables(c.right)
                    all == SplitConjuncts(e)
                    toLeft == SelectSeq(all, LAMBDA x : Within(x, l))
                    toRight == SelectSeq(all, LAMBDA x : ~Within(x, l) /\ Within(x, r))
                    rest == SelectSeq(all, LAMBDA x : ~Within(x, l) /\ ~Within(x, r))
                    join == Join(Below(c.left, toLeft), Below(c.right, toRight), c.cond)
                IN  IF rest = <<>> THEN join ELSE Filter(join, RebuildConjuncts(rest))
          [] c.op = "union" -> [c EXCEPT !.left = Below(@, <<e>>), !.right = Below(@, <<e>>)]
          [] c.op = "semi" /\ Within(e, ProvidedVariables(c.left)) ->
                [c EXCEPT !.left = Below(@, <<e>>)]
          [] OTHER -> Filter(c, e)

FilterPushDown(p) ==
    CASE p.op = "filter" -> PushFilter(FilterPushDown(p.child), p.cond)
      [] p.op \in Unary \ {"filter"} -> [p EXCEPT !.child = FilterPushDown(@)]
      [] p.op \in {"join", "union", "optional"} ->
            [p EXCEPT !.left = FilterPushDown(@), !.right = FilterPushDown(@)]
      [] OTHER -> p

(***************************************************************************)
(* IndexPushDown: Filter(Scan, key = literal) becomes an index scan.       *)
(***************************************************************************)
IndexScan(s, at, value) ==
    [op |-> "index", table |-> s.table, var |-> s.var, at |-> at, value |-> value,
     proj |-> s.proj]

\* The lookup and the literal of an indexable comparison, else nothing.  The index
\* of the lookup is compared as it is, offset and all.
IndexablePair(s, e) ==
    LET Key(x) == x[1] = "prop" /\ x[2] = s.var /\ x[3] \in Indexed(s.table)
    IN  IF e[1] # "cmp" \/ e[2] # "=" THEN <<>>
        ELSE IF Key(e[3]) /\ e[4][1] = "int" THEN <<e[3], e[4]>>
        ELSE IF Key(e[4]) /\ e[3][1] = "int" THEN <<e[4], e[3]>> ELSE <<>>

RECURSIVE IndexPushDown(_)
IndexPushDown(p) ==
    CASE p.op = "filter" ->
            LET c == IndexPushDown(p.child)
                pair == IndexablePair(c, p.cond)
            IN  IF c.op = "scan" /\ c.table \in NodeTables /\ pair # <<>>
                THEN IndexScan(c, pair[1][3], pair[2])
                ELSE Filter(c, p.cond)
      [] p.op \in Unary \ {"filter", "topk"} -> [p EXCEPT !.child = IndexPushDown(@)]
      [] p.op \in {"join", "union"} ->
            [p EXCEPT !.left = IndexPushDown(@), !.right = IndexPushDown(@)]
      [] OTHER -> p

(***************************************************************************)
(* TopKOptimizer, LimitPushDown, OrderByPushDown                           *)
(***************************************************************************)
RECURSIVE TopKOptimizer(_)
TopKOptimizer(p) ==
    CASE p.op = "limit" -> LET c == TopKOptimizer(p.child)
                           IN  IF c.op = "sort" THEN TopK(c.child, c.order, p.n)
                               ELSE Limit(c, p.n)
      [] p.op \in {"join", "union"} ->
            [p EXCEPT !.left = TopKOptimizer(@), !.right = TopKOptimizer(@)]
      [] HasChild(p) /\ p.op \notin {"limit", "join", "union"} ->
            WithChild(p, TopKOptimizer(Child(p)))
      [] OTHER -> p

RECURSIVE LimitPushDown(_)
LimitPushDown(p) ==
    CASE p.op = "limit" -> LET c == LimitPushDown(p.child)
                           IN  IF c.op = "project"
                               THEN Projection(Limit(c.child, p.n), c.items)
                               ELSE Limit(c, p.n)
      [] p.op \in {"join", "union"} ->
            [p EXCEPT !.left = LimitPushDown(@), !.right = LimitPushDown(@)]
      [] HasChild(p) /\ p.op \notin {"limit", "join", "union"} ->
            WithChild(p, LimitPushDown(Child(p)))
      [] OTHER -> p

RECURSIVE OrderByPushDown(_)
OrderByPushDown(p) ==
    CASE p.op = "sort" ->
            LET c == OrderByPushDown(p.child)
            IN  IF c.op = "sort" THEN Sort(c.child, p.order)
                ELSE IF c.op = "project"
                        /\ \A i \in DOMAIN p.order : p.order[i].e[1] = "prop"
                THEN Projection(Sort(c.child, p.order), c.items)
                ELSE Sort(c, p.order)
      [] HasChild(p) /\ p.op # "sort" -> WithChild(p, OrderByPushDown(Child(p)))
      [] OTHER -> p

(***************************************************************************)
(* ProjectionPushDown: each scan reads the columns that lookups above it   *)
(* name.  What is required is a set of pairs of a variable and the index   *)
(* of a lookup; a projection replaces it by what its own items need.       *)
(***************************************************************************)
RECURSIVE PropertyIndices(_)
PropertyIndices(e) ==
    CASE e[1] = "prop" -> {<<e[2], e[3]>>}
      [] e[1] = "cmp" -> PropertyIndices(e[3]) \cup PropertyIndices(e[4])
      [] e[1] \in {"and", "or"} -> PropertyIndices(e[2]) \cup PropertyIndices(e[3])
      [] e[1] = "not" -> PropertyIndices(e[2])
      [] OTHER -> {}

IndicesOf(items) == UNION {PropertyIndices(items[i].e) : i \in DOMAIN items}

\* Mutant: the first column of the table is left where the plan has it.
TableRelative_Strict(idx, base) == IF idx > base THEN idx - base ELSE idx

\* The index of a lookup, seen from the table: whatever is below the
\* variable's offset is taken to be relative to the table already.
TableRelative(idx, base) == IF idx >= base THEN idx - base ELSE idx

Base(off, v) == IF v \in DOMAIN off THEN off[v] ELSE 0

\* A variable's indices are relativised and sorted; two that become equal stay.
ScanColumns(s, req, off) ==
    LET idx == {r[2] : r \in {x \in req \cup PropertyIndices(s.filter) : x[1] = s.var}}
        sorted == SetToSortSeq(idx, <)
        rel == [i \in DOMAIN sorted |-> TableRelative(sorted[i], Base(off, s.var))]
    IN  SortSeq(rel, <)

RECURSIVE PushColumns(_, _, _)
PushColumns(p, req, off) ==
    CASE p.op = "project" -> [p EXCEPT !.child = PushColumns(@, IndicesOf(p.items), off)]
      [] p.op = "filter" ->
            [p EXCEPT !.child = PushColumns(@, req \cup PropertyIndices(p.cond), off)]
      [] p.op \in {"join", "semi"} ->
            LET r == req \cup PropertyIndices(p.cond)
            IN  [p EXCEPT !.left = PushColumns(@, r, off), !.right = PushColumns(@, r, off)]
      [] p.op = "scan" ->
            IF p.proj # <<>> THEN p ELSE [p EXCEPT !.proj = ScanColumns(p, req, off)]
      [] p.op \in {"sort", "topk"} ->
            [p EXCEPT !.child = PushColumns(@, req \cup IndicesOf(p.order), off)]
      [] p.op = "recursive" ->
            [p EXCEPT !.child = PushColumns(@, req \cup {<<p.src, 0>>, <<p.dst, 0>>}, off)]
      [] p.op \in {"optional", "union", "aggregate", "limit", "skip"} ->
            WithChild(p, PushColumns(Child(p), req, off))
      [] OTHER -> p

ProjectionPushDown(p, off) == PushColumns(p, {}, off)

(***************************************************************************)
(* AggKeyDependencyOptimizer: a column of a variable whose _id is a group  *)
(* key need not be one.                                                    *)
(***************************************************************************)
DependentColumns(by, items) ==
    LET Lookup(c) == items[c + 1].e
        IsLookup(c) == Lookup(c)[1] = "prop"
        keyed == {Lookup(c)[2] : c \in {k \in ToSet(by) : IsLookup(k) /\ Lookup(k)[3] = 0}}
    IN  {c \in ToSet(by) : IsLookup(c) /\ Lookup(c)[3] # 0 /\ Lookup(c)[2] \in keyed}

RECURSIVE AggKeyDependency(_)
AggKeyDependency(p) ==
    CASE p.op = "aggregate" ->
            LET c == AggKeyDependency(p.child)
                dep == IF c.op = "project" THEN DependentColumns(p.by, c.items) ELSE {}
            IN  Aggregate(c, SelectSeq(p.by, LAMBDA k : k \notin dep), dep, p.aggs)
      [] HasChild(p) /\ p.op # "aggregate" -> WithChild(p, AggKeyDependency(Child(p)))
      [] OTHER -> p

RECURSIVE CountRelTable(_)
CountRelTable(p) ==
    CASE p.op = "aggregate" -> Aggregate(CountRelTable(p.child), p.by, {}, p.aggs)
      [] HasChild(p) /\ p.op # "aggregate" -> WithChild(p, CountRelTable(Child(p)))
      [] OTHER -> p

(***************************************************************************)
(* The loop over the rules                                                 *)
(***************************************************************************)
NumRules == 9
ApplyRule(k, p, off) ==
    CASE k = 1 -> SubqueryUnnesting(p)
      [] k = 2 -> FilterPushDown(p)
      [] k = 3 -> IndexPushDown(p)
      [] k = 4 -> TopKOptimizer(p)
      [] k = 5 -> LimitPushDown(p)
      [] k = 6 -> OrderByPushDown(p)
      [] k = 7 -> ProjectionPushDown(p, off)
      [] k = 8 -> AggKeyDependency(p)
      [] k = 9 -> CountRelTable(p)

MaxIterations == 5
=============================================================================

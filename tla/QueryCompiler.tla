--------------------------- MODULE QueryCompiler ---------------------------
(***************************************************************************)
(* A query on its way from the parser to its answer: it is bound and       *)
(* planned, the rules of the optimizer rewrite the plan one after the      *)
(* other, in rounds, until a round leaves the number of operators          *)
(* unchanged, and the plan is executed.  What a query should answer is     *)
(* defined here as well, directly from its text: the assignments of rows   *)
(* to its variables that satisfy its patterns and its condition.           *)
(***************************************************************************)
EXTENDS PhysicalPlan

VARIABLES query,  \* the query; its field union holds the second arm, if any
          db,     \* the tables it runs on
          phase,  \* "parsed", "rewriting", "done"
          plan,   \* the plan as it stands
          off,    \* the binder's column offsets
          rule,   \* the next rule of the round
          round,  \* rounds begun
          count   \* operators when the round began

vars == <<query, db, phase, plan, off, rule, round, count>>

(***************************************************************************)
(* What a query means                                                      *)
(***************************************************************************)
\* An environment binds variables to rows and remembers the relationships it
\* has used.
Bind(env, v, row) == [env EXCEPT !.b = (v :> row) @@ @]
EnvBegin == [b |-> <<>>, used |-> {}]

HasProps(row, props) == \A i \in DOMAIN props : row[props[i][1] + 1] = props[i][2]

ExtendNode(env, v, table, props) ==
    IF v \in DOMAIN env.b
    THEN IF HasProps(env.b[v], props) THEN <<env>> ELSE <<>>
    ELSE LET rows == SelectSeq(db[table], LAMBDA r : HasProps(r, props))
         IN  [i \in DOMAIN rows |-> Bind(env, v, rows[i])]

\* The ends of relationship row e as seen along an arrow.
Ends(e, dir) ==
    CASE dir = "right" -> {<<e[1], e[2]>>}
      [] dir = "left" -> {<<e[2], e[1]>>}
      [] dir = "both" -> {<<e[1], e[2]>>, <<e[2], e[1]>>}

NodeTableOf(t, dir) == IF dir = "left" THEN FromTable(t) ELSE ToTable(t)

ExtendLink(env, cur, curTable, k) ==
    LET tables == IF k.rel # "" THEN <<k.rel>>
                  ELSE ResolveRelTables(curTable, k.label, k.dir)
        Far(t, n) == IF k.var \in DOMAIN env.b
                     THEN IF env.b[k.var][1] = n THEN <<env.b[k.var]>> ELSE <<>>
                     ELSE <<db[NodeTableOf(t, k.dir)][n + 1]>>
        Via(t, i) ==
            LET e == db[t][i]
                ends == SetToSeq({x \in Ends(e, k.dir) : x[1] = env.b[cur][1]})
                new == [env EXCEPT !.used = @ \cup {<<t, i>>}, !.b = (k.relvar :> e) @@ @]
                To(n) == LET far == SelectSeq(Far(t, n), LAMBDA r : HasProps(r, k.props))
                         IN  [m \in DOMAIN far |-> Bind(new, k.var, far[m])]
            IN  IF <<t, i>> \in env.used THEN <<>>
                ELSE FlattenSeq([m \in DOMAIN ends |-> To(ends[m][2])])
    IN  FlattenSeq([t \in DOMAIN tables |->
            FlattenSeq([i \in DOMAIN db[tables[t]] |-> Via(tables[t], i)])])

\* A variable-length relationship reaches a node once for each length.
ExtendWalk(env, cur, k) ==
    LET edges == {<<e[1], e[2]>> : e \in ToSet(db[k.rel])}
        At(d) == LET ns == SetToSeq(Reached(edges, env.b[cur][1], d))
                     rows == [i \in DOMAIN ns |-> db[ToTable(k.rel)][ns[i] + 1]]
                     kept == SelectSeq(rows, LAMBDA r : HasProps(r, k.props))
                 IN  [i \in DOMAIN kept |-> Bind(env, k.var, kept[i])]
    IN  FlattenSeq([i \in 1 .. k.bounds[2] - k.bounds[1] + 1 |-> At(k.bounds[1] + i - 1)])

StartTable(p) == IF p.label # "" \/ p.chain = <<>> THEN p.label
                 ELSE IF p.chain[1].dir = "left" THEN ToTable(p.chain[1].rel)
                 ELSE FromTable(p.chain[1].rel)

MatchPattern(envs, p) ==
    LET table == StartTable(p)
        start == FlattenSeq([i \in DOMAIN envs |-> ExtendNode(envs[i], p.var, table, p.props)])
        Cur(i) == IF i = 1 THEN p.var ELSE p.chain[i - 1].var
        CurTable(i) == IF i = 1 THEN table ELSE p.chain[i - 1].label
        Link(es, i) == FlattenSeq([j \in DOMAIN es |->
                          IF p.chain[i].bounds # <<>> THEN ExtendWalk(es[j], Cur(i), p.chain[i])
                          ELSE ExtendLink(es[j], Cur(i), CurTable(i), p.chain[i])])
    IN  FoldLeftDomain(Link, start, p.chain)

Match(env, patterns) ==
    FoldLeft(MatchPattern, <<[env EXCEPT !.used = {}]>>, patterns)

\* Three-valued evaluation.
RECURSIVE Meaning(_, _)
Meaning(e, env) ==
    CASE e[1] = "prop" -> env.b[e[2]][e[3] + 1]
      [] e[1] \in {"int", "bool"} -> e[2]
      [] e[1] = "cmp" ->
            LET x == Meaning(e[3], env)
                y == Meaning(e[4], env)
            IN  IF Null \in {x, y} THEN Null ELSE IF e[2] = "=" THEN x = y ELSE x < y
      [] e[1] = "and" -> LET s == {Meaning(e[2], env), Meaning(e[3], env)}
                         IN  IF FALSE \in s THEN FALSE ELSE IF Null \in s THEN Null ELSE TRUE
      [] e[1] = "or" -> LET s == {Meaning(e[2], env), Meaning(e[3], env)}
                        IN  IF TRUE \in s THEN TRUE ELSE IF Null \in s THEN Null ELSE FALSE
      [] e[1] = "not" -> LET x == Meaning(e[2], env) IN IF x = Null THEN Null ELSE ~x
      [] e[1] = "exists" ->
            \E m \in ToSet(Match(env, e[2])) : e[3] = None \/ Meaning(e[3], m) = TRUE

\* The assignments of a whole query.  An OPTIONAL MATCH that matches nothing
\* leaves its variables unbound.
Assignments(q) ==
    LET base == SelectSeq(Match(EnvBegin, q.match),
                          LAMBDA env : q.where = None \/ Meaning(q.where, env) = TRUE)
        Extend(env, c) == LET m == Match(env, c.patterns)
                         IN  IF c.optional /\ m = <<>> THEN <<env>> ELSE m
        Clause(envs, c) == FlattenSeq([i \in DOMAIN envs |-> Extend(envs[i], c)])
    IN  FoldLeft(Clause, base, q.clauses)

\* The values of the items under an assignment; an aggregate ranges over the
\* assignments that agree on the other items.  The items of a group, and those
\* of a RETURN DISTINCT, which is one, are answered as text.
ItemValues(items, env) ==
    LET all == SelectSeq(VarNames, LAMBDA v : v \in DOMAIN env.b)
        Values(e) == CASE e[1] = "var" -> env.b[e[2]]
                       [] e[1] = "star" -> FlattenSeq([k \in DOMAIN all |-> env.b[all[k]]])
                       [] OTHER -> <<Meaning(e, env)>>
    IN  FlattenSeq([i \in DOMAIN items |-> Values(items[i].e)])

GroupRow(items, group) ==
    LET Arg(e, env) == IF e[3] = None \/ e[3][1] = "var" THEN 1 ELSE Meaning(e[3], env)
        Value(e) == IF e[1] = "agg"
                    THEN AggregateValue(e[2], [i \in DOMAIN group |-> Arg(e, group[i])])
                    ELSE Text(Meaning(e, group[1]))
    IN  [i \in DOMAIN items |-> Value(items[i].e)]

FirstsOf(s) == LET at == Distinct(s) IN [i \in DOMAIN at |-> s[at[i]]]

GroupRows(items, keys, envs) ==
    LET Row(k) == GroupRow(items, SelectSeq(envs, LAMBDA env : ItemValues(keys, env) = k))
        groups == FirstsOf([i \in DOMAIN envs |-> ItemValues(keys, envs[i])])
    IN  IF keys = <<>> THEN <<GroupRow(items, envs)>>
        ELSE [i \in DOMAIN groups |-> Row(groups[i])]

RowsOf(ret, envs) ==
    LET rows == [i \in DOMAIN envs |-> ItemValues(ret.items, envs[i])]
        Texts(row) == [k \in DOMAIN row |-> Text(row[k])]
    IN  IF \E i \in DOMAIN ret.items : IsAggregate(ret.items[i])
        THEN GroupRows(ret.items, GroupKeys(ret.items), envs)
        ELSE IF ret.distinct THEN FirstsOf([i \in DOMAIN rows |-> Texts(rows[i])]) ELSE rows

AllRows(q) == RowsOf(q.ret, Assignments(q))

\* An answer is right when it has as many rows as SKIP and LIMIT leave, all of
\* them rows of the query, and their sort keys are those of that stretch of
\* the sorted rows.  Each sort key is an item of the RETURN.
Count(s, x) == Len(SelectSeq(s, LAMBDA y : y = x))
WithinBag(s, t) == \A i \in DOMAIN s : Count(s, s[i]) <= Count(t, s[i])

Window(s, skip, limit) ==
    LET rest == IF skip = -1 THEN s ELSE SubSeq(s, skip + 1, Len(s))
    IN  IF limit = -1 THEN rest ELSE Taken(rest, limit)

RightRows(all, ret, rows) ==
    LET At(o) == SelectInSeq(ret.items, LAMBDA it : it.e = o.e)
        order == [i \in DOMAIN ret.order |->
                     [e |-> <<"col", At(ret.order[i]) - 1>>, desc |-> ret.order[i].desc]]
        Keys(rs) == [i \in DOMAIN rs |-> [k \in DOMAIN order |-> Eval(order[k].e, rs[i])]]
        window == Window(SortedRows(all, order, TRUE), ret.skip, ret.limit)
    IN  /\ Len(rows) = Len(window)
        /\ WithinBag(rows, all)
        /\ Keys(rows) = Keys(window)

\* UNION takes the rows of both arms, once each unless ALL is written; the SKIP
\* and LIMIT of the second arm are those of the whole.
UnionRows(q, rows) == IF q.union = <<>> \/ q.union[2] THEN rows ELSE FirstsOf(rows)

Right(q, ans) ==
    LET arms == IF q.union = <<>> THEN <<q>> ELSE <<q, q.union[1]>>
        all == FlattenSeq([i \in DOMAIN arms |-> AllRows(arms[i])])
    IN  /\ ~ans.err
        /\ RightRows(UnionRows(q, all), Last(arms).ret, ans.rows)

(***************************************************************************)
(* The queries the compiler gets right                                     *)
(***************************************************************************)
Lookups(q) ==
    PropertyIndices(q.where) \cup IndicesOf(q.ret.items)
        \cup UNION {PropertyIndices(q.ret.items[i].e[3]) :
                       i \in {k \in DOMAIN q.ret.items : IsAggregate(q.ret.items[k])}}
RelVars(q) ==
    UNION {{q.match[i].chain[j].relvar : j \in DOMAIN q.match[i].chain} : i \in DOMAIN q.match}
HasSubquery(e) == e[1] = "exists" \/ (e[1] = "not" /\ e[2][1] = "exists")
Grouped(q) == q.ret.distinct \/ \E i \in DOMAIN q.ret.items : IsAggregate(q.ret.items[i])

WholeVariables(q) ==
    LET Of(e) == CASE e[1] = "var" -> {e[2]} [] e[1] = "star" -> ToSet(VarNames) [] OTHER -> {}
    IN  UNION {Of(q.ret.items[i].e) : i \in DOMAIN q.ret.items}

\* The columns of a variable returned whole are numbered from 0, and one whose
\* number reaches the offset of the variable is taken for an offset number: the gap
\* of src/README.md:45.
WholeFits(q) ==
    LET b == BindMatch(EmptyBinder, q.match)
    IN  \A v \in WholeVariables(q) \cap DOMAIN b.off :
            b.off[v] = 0 \/ Width(b.vars[v]) <= b.off[v]

\* The join on a relationship reads its columns by raw index, and a lookup of
\* _src makes the scan read _src twice, ahead of _dst.
NoSourceLookup(q) == \A l \in Lookups(q) : l[1] \in RelVars(q) => l[2] # 0

\* Columns that depend on an _id among the group keys are dropped from the
\* group, and with it from the output the projection above still reads.
NoDependentKey(q) ==
    Grouped(q) =>
        LET keys == GroupKeys(q.ret.items)
        IN  \A i, j \in DOMAIN keys :
                keys[i].e[2] = keys[j].e[2] /\ keys[i].e[3] = 0 => keys[j].e[3] = 0

\* A sort above a group looks its key up where the scan below the group has the
\* column, so the group keys must be the first columns that the scan reads.
SortsPlainly(q) ==
    Grouped(q) /\ q.ret.order # <<>> =>
        LET keys == GroupKeys(q.ret.items)
            read == SetToSortSeq({l[2] : l \in Lookups(q)}, <)
        IN  /\ Len(q.match) = 1 /\ q.match[1].chain = <<>> /\ q.clauses = <<>>
            /\ ~HasSubquery(q.where)
            /\ IsPrefix(FirstsOf([i \in DOMAIN keys |-> keys[i].e[3]]), read)

\* OPTIONAL MATCH joins on the first column read of the variable both sides
\* share, and later lookups of that variable find the right side's copy.
OptionalCounted(q) ==
    (\E i \in DOMAIN q.clauses : q.clauses[i].optional) =>
        Lookups(q) = {} /\ WholeVariables(q) = {}

\* The arms for the tables of an unlabelled relationship are given positions one
\* after the other, and only the first arm is told which columns to read.  What
\* is joined to them ends at the first arm that joins with nothing.
OneTable(q) ==
    \/ Lookups(q) = {} /\ WholeVariables(q) = {} /\ ~HasSubquery(q.where) /\ q.clauses = <<>>
    \/ \A i \in DOMAIN q.match : \A j \in DOMAIN q.match[i].chain :
           q.match[i].chain[j].rel # ""

\* * also returns the variables of an EXISTS, and numbers the columns of a
\* variable-length relationship as if it were a single one.
StarPlain(q) ==
    (\E i \in DOMAIN q.ret.items : q.ret.items[i].e[1] = "star") =>
        /\ ~HasSubquery(q.where)
        /\ \A i \in DOMAIN q.match : \A j \in DOMAIN q.match[i].chain :
               q.match[i].chain[j].bounds = <<>>

\* An aggregate reads the column after the keys written before it.
AggregatesLast(q) ==
    \A i, j \in DOMAIN q.ret.items :
        i < j /\ IsAggregate(q.ret.items[i]) => IsAggregate(q.ret.items[j])

\* Top-k puts nulls last when it sorts downwards, sort puts them first.  (A null
\* among the keys of a group is a text.)
NoNullsDown(q) ==
    q.ret.limit # -1 /\ ~Grouped(q) =>
        \A i \in DOMAIN q.ret.order : ~q.ret.order[i].desc \/ q.ret.order[i].e[3] # 2

Supported(q) ==
    /\ NoSourceLookup(q) /\ NoDependentKey(q) /\ SortsPlainly(q)
    /\ AggregatesLast(q) /\ NoNullsDown(q) /\ OneTable(q) /\ WholeFits(q)
    /\ OptionalCounted(q) /\ StarPlain(q)


(***************************************************************************)
(* The steps                                                               *)
(***************************************************************************)
\* Connection::execute: bind and plan
PlanIt ==
    /\ phase = "parsed"
    /\ plan' = PlanStatement(query) /\ count' = NodeCount(plan')
    /\ off' = BindQuery(query).offsets
    /\ phase' = "rewriting" /\ rule' = 1 /\ round' = 1
    /\ UNCHANGED <<query, db>>

\* One rule of the round
Rewrite ==
    /\ phase = "rewriting" /\ rule <= NumRules
    /\ plan' = ApplyRule(rule, plan, off)
    /\ rule' = rule + 1
    /\ UNCHANGED <<query, db, phase, off, round, count>>

\* The end of a round
EndRound ==
    /\ phase = "rewriting" /\ rule > NumRules
    /\ IF NodeCount(plan) = count \/ round = MaxIterations
       THEN phase' = "done" /\ UNCHANGED <<rule, round, count>>
       ELSE rule' = 1 /\ round' = round + 1 /\ count' = NodeCount(plan) /\ UNCHANGED phase
    /\ UNCHANGED <<query, db, plan, off>>

Next == PlanIt \/ Rewrite \/ EndRound

\* A plan can be executed once its EXISTS has become a semi join and, if it sorts
\* above a group, once its scans have been narrowed.
Executable ==
    \/ phase = "done"
    \/ /\ phase = "rewriting"
       /\ rule > 1 \/ round > 1 \/ ~HasSubquery(query.where)
       /\ rule > 7 \/ round > 1 \/ ~Grouped(query) \/ query.ret.order = <<>>

\* Every plan on the way, from the planner's to the one executed, answers the
\* query: binding, planning and each rule of the optimizer keep its meaning, and
\* the physical planner finds each column where the plan puts it.  Three notes of
\* the repository say otherwise of queries that are among these, and are out of
\* date.  tests/rel_traversal_crucible.rs:1436 and 1583-1584 allow count(*) over
\* (a)-[:E]->(b) extra rows "due to a hash join column mapping edge case": the
\* mapping is right, with and without properties on the relationship, and as a
\* HashJoin is not parallel-safe one builder numbers the rows of its build side.
\* src/README.md:47 lists "join semantics for self-loops" among the failing tests:
\* relationships from a node to itself are in the tables, and are found once, in one
\* step and in two.  src/README.md:47 and 362 call OptionalMatch not yet planned or
\* executed: it is planned as an outer join (physical_plan.rs:930-958) and has the
\* right number of rows, but what it returns is not always right (OptionalCounted).
PlanRight == Executable /\ Supported(query) => Right(query, Answer(plan, off, db))
=============================================================================

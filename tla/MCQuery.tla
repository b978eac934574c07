------------------------------ MODULE MCQuery ------------------------------
(* The databases and queries QueryCompiler is checked with. *)
EXTENDS QueryCompiler

\* P: _id, k, x; Q: _id, k; R: _src, _dst, w; S: _src, _dst
DBs == << [P |-> << <<0, 7, 5>>, <<1, 8, Null>>, <<2, 9, 5>> >>,
           Q |-> << <<0, 7>>, <<1, 5>> >>,
           R |-> << <<0, 1, 5>>, <<1, 2, 6>>, <<0, 2, 5>>, <<2, 2, 7>> >>,
           S |-> << <<0, 1>>, <<2, 0>>, <<2, 1>> >>],
          [P |-> << <<0, 7, Null>>, <<1, 8, 4>> >>, Q |-> <<>>,
           R |-> << <<0, 1, Null>> >>, S |-> << <<1, 0>> >>] >>

Node(v, l) == [var |-> v, label |-> l, props |-> <<>>, chain |-> <<>>]
Link(rel, rv, v) == [rel |-> rel, relvar |-> rv, dir |-> "right", bounds |-> <<>>,
                     var |-> v, label |-> "P", props |-> <<>>]
Path(v, l, chain) == [Node(v, l) EXCEPT !.chain = chain]

Patterns(n) ==
    CASE n = 1 -> << Node("a", "P") >>
      [] n = 2 -> << Path("a", "P", << Link("R", "r", "b") >>) >>
      [] n = 3 -> << Node("b", "Q"), Node("a", "P") >>
      [] n = 4 -> << Path("a", "P", << Link("R", "r", "b"), Link("S", "s", "c") >>) >>
      [] n = 5 -> << Path("a", "P", << Link("R", "r", "b"), Link("R", "s", "c") >>) >>
      [] n = 6 -> << Path("a", "P", << Link("", "r", "b") >>) >>
      [] n = 7 -> << Path("a", "P", << [Link("R", "r", "b") EXCEPT !.bounds = <<1, 2>>] >>) >>
      [] n = 8 -> << [Node("a", "P") EXCEPT !.props = << <<2, 5>> >>] >>
      [] n = 9 -> << Node("a", "P") >>
      [] n = 10 -> << Node("a", "P") >>
      [] n = 11 -> << Path("a", "P", << Link("S", "s", "b") >>) >>
      [] n = 12 -> << [Path("a", "P", << Link("R", "r", "b") >>) EXCEPT !.props = << <<1, 9>> >>] >>

Clauses(n) ==
    CASE n = 9 -> << [patterns |-> << Node("b", "Q") >>, optional |-> FALSE] >>
      [] n = 10 -> << [patterns |-> << Path("a", "", << Link("R", "r", "b") >>) >>,
                       optional |-> TRUE] >>
      [] OTHER -> <<>>

VarsOf(n) == CASE n \in {1, 8, 10} -> {"a"} [] n \in {3, 6, 7, 9, 11} -> {"a", "b"}
               [] n \in {2, 12} -> {"a", "b", "r"} [] OTHER -> {"a", "b", "c", "r"}
TableOf(n, v) == CASE v = "r" -> "R"
                   [] v = "b" -> IF n \in {3, 9} THEN "Q" ELSE "P" [] OTHER -> "P"
Cols(n, v) == 0 .. Width(TableOf(n, v)) - 1

Sub == << Path("a", "", << Link("R", "x", "y") >>) >>
Wheres(n) ==
    CASE n = 1 -> None
      [] n = 2 -> Eq(Prop("a", 2), Num(5))
      [] n = 3 -> Not(Eq(Prop("a", 2), Num(5)))
      [] n = 4 -> <<"exists", Sub, None>>
      [] n = 5 -> Not(<<"exists", Sub, <<"cmp", "<", Prop("y", 0), Num(2)>> >>)
      [] n = 6 -> And(Eq(Prop("a", 2), Num(5)), <<"cmp", "<", Num(7), Prop("b", 1)>>)
      [] n = 7 -> <<"cmp", "<", Prop("a", 1), Prop("b", 1)>>

Item(e) == [e |-> e, alias |-> "i"]
Order(e, d) == [e |-> e, desc |-> d]
Query(n, w, items, form, order, skip, limit) ==
    [match |-> Patterns(n), where |-> Wheres(w), clauses |-> Clauses(n), union |-> <<>>,
     ret |-> [items |-> items, distinct |-> form = "distinct", order |-> order,
              skip |-> skip, limit |-> limit]]

\* The items of a RETURN.
Items(form, v, i, u, j) ==
    CASE form = "group" -> << Item(Prop(v, i)), Item(<<"agg", "sum", Prop(u, j)>>) >>
      [] form = "late" -> << Item(<<"agg", "sum", Prop(u, j)>>), Item(Prop(v, i)) >>
      [] form = "count" -> << Item(<<"agg", "count", None>>) >>
      [] form = "all" -> << Item(<<"var", v>>) >>
      [] form = "star" -> << Item(<<"star">>) >>
      [] OTHER -> << Item(Prop(v, i)), Item(Prop(u, j)) >>

Ordered(items, dir) == IF dir = "none" THEN <<>> ELSE << Order(items[1].e, dir = "down") >>

\* The second arm of a union.
Arm(n, skip, limit) ==
    Query(n, 1, << Item(Prop("a", 1)), Item(Prop("a", 0)) >>, "plain", <<>>, skip, limit)

Forms == {"plain", "group", "late", "distinct", "count", "all", "star"}
Windows == {<<-1, -1>>, <<1, -1>>, <<-1, 1>>, <<1, 1>>}

Init ==
    /\ phase = "parsed" /\ plan = None /\ off = <<>> /\ rule = 1 /\ round = 0 /\ count = 0
    /\ \E d \in DOMAIN DBs : db = DBs[d]
    /\ \/ \E n \in 1 .. 12, w \in 1 .. 7, v \in {"a", "b", "r"}, form \in Forms,
            dir \in {"none", "up", "down"}, win \in Windows :
         /\ w \in {6, 7} => n \in 2 .. 7
         /\ w \in {4, 5} => n # 10
         /\ v \in VarsOf(n)
         /\ dir = "none" \/ win = <<-1, -1>> => w = 1
         /\ dir # "none" \/ win # <<-1, -1>> => n \in {1, 2, 7}
         /\ \E i \in Cols(n, v) :
             LET items == Items(form, v, i, "a", 2)
             IN  /\ form \in {"count", "all", "star"} => i = 0 /\ dir = "none"
                 /\ form = "late" => dir = "none"
                 /\ query = Query(n, w, items, form, Ordered(items, dir), win[1], win[2])
       \/ \E n \in {1, 2, 8}, m \in {1, 2}, i \in {0, 1}, all \in BOOLEAN, win \in Windows :
             query = [Query(n, 2, Items("plain", "a", i, "a", 0), "plain", <<>>, -1, -1)
                         EXCEPT !.union = << Arm(m, win[1], win[2]), all >>]

Spec == Init /\ [][Next]_vars
=============================================================================

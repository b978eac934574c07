------------------------------- MODULE Paths -------------------------------
(***************************************************************************)
(* The path searches over the adjacency index: bfs_shortest_path, which    *)
(* allShortestPaths and the path functions of expressions call, and the    *)
(* two-sided search of PhysicalShortestPath.  A graph grows by one         *)
(* relationship at a time and both searches are compared in every graph    *)
(* with a definition of shortest path that searches nothing.               *)
(*                                                                         *)
(* A graph gives every node the sequence of its neighbours, one entry a    *)
(* relationship, as CSRIndex::for_each_neighbor lists them.                *)
(***************************************************************************)
EXTENDS Integers, Sequences, SequencesExt, FiniteSets

CONSTANTS
  PNodes,      \* node ids: 0 .. PNodes - 1, the search goes from 0 to the last
  MaxEdges,    \* bound on the relationships
  Depths       \* the search depths tried

VARIABLES fwd, bwd

pvars == <<fwd, bwd>>

PathNodes == 0 .. PNodes - 1
Src == 0
Dst == PNodes - 1

Size == Len(FlattenSeq([i \in 1 .. PNodes |-> fwd[i - 1]]))

Init == fwd = [n \in PathNodes |-> <<>>] /\ bwd = [n \in PathNodes |-> <<>>]

\* A relationship enters both indexes.  Sources come in ascending order, as a
\* build sorts them.
AddEdge(s, d) ==
  /\ Size < MaxEdges
  /\ \A n \in PathNodes : n > s => fwd[n] = <<>>
  /\ fwd' = [fwd EXCEPT ![s] = Append(@, d)]
  /\ bwd' = [bwd EXCEPT ![d] = Append(@, s)]

Next == \E s, d \in PathNodes : s # d /\ AddEdge(s, d)

-----------------------------------------------------------------------------
(* bfs_shortest_path                                                       *)

Unreached == 1000             \* u32::MAX

\* A search's state: the queue, the distance of the nodes reached, the
\* predecessors recorded for a node, and the distance of the target.
Start(src) ==
  [queue |-> <<src>>,
   dist |-> [n \in PathNodes |-> IF n = src THEN 0 ELSE Unreached],
   preds |-> [n \in PathNodes |-> <<>>],
   found |-> Unreached]

\* Mutant: a node reached before records no further predecessor.
VisitNeighbor_FirstOnly(b, cur, n, dst) ==
  LET d == b.dist[cur] + 1
      recorded == [b EXCEPT !.preds[n] = Append(@, cur)]
  IN  CASE n = dst /\ b.found = Unreached -> [recorded EXCEPT !.found = d]
        [] n = dst /\ b.found # Unreached -> IF d = b.found THEN recorded ELSE b
        [] n # dst /\ d < b.found /\ b.dist[n] = Unreached ->
             [recorded EXCEPT !.dist[n] = d, !.queue = Append(@, n)]
        [] OTHER -> b

\* The body of the loop over the neighbours of cur, for neighbour n.
VisitNeighbor(b, cur, n, dst) ==
  LET d == b.dist[cur] + 1
      recorded == [b EXCEPT !.preds[n] = Append(@, cur)]
  IN  CASE n = dst /\ b.found = Unreached -> [recorded EXCEPT !.found = d]
        [] n = dst /\ b.found # Unreached -> IF d = b.found THEN recorded ELSE b
        [] n # dst /\ d >= b.found -> b
        [] n # dst /\ d < b.found /\ b.dist[n] = d -> recorded
        [] n # dst /\ d < b.found /\ b.dist[n] = Unreached ->
             [recorded EXCEPT !.dist[n] = d, !.queue = Append(@, n)]
        [] OTHER -> b

RECURSIVE Bfs(_, _, _)
Bfs(b, dst, depth) ==
  IF b.queue = <<>> THEN b
  ELSE LET cur == Head(b.queue)
           popped == [b EXCEPT !.queue = Tail(@)]
       IN  IF b.dist[cur] >= b.found \/ b.dist[cur] >= depth THEN Bfs(popped, dst, depth)
           ELSE Bfs(FoldLeft(LAMBDA acc, n : VisitNeighbor(acc, cur, n, dst),
                             popped, fwd[cur]), dst, depth)

\* The stack walk from the target back over the predecessors.
RECURSIVE WalkBack(_, _, _)
WalkBack(b, node, src) ==
  IF node = src THEN <<<<src>>>>
  ELSE FlattenSeq([i \in DOMAIN b.preds[node] |->
         LET paths == WalkBack(b, b.preds[node][i], src)
         IN  [j \in DOMAIN paths |-> Append(paths[j], node)]])

BfsShortestPath(src, dst, depth) ==
  IF src = dst THEN <<<<src>>>>
  ELSE LET b == Bfs(Start(src), dst, depth)
       IN  IF b.found = Unreached THEN <<>> ELSE WalkBack(b, dst, src)

-----------------------------------------------------------------------------
(* PhysicalShortestPath::find_shortest_path                                *)

\* One side of the search: its queue and the parent of every node visited
\* (the root is its own parent).  met is the pair of adjacent nodes, one of
\* each side, that ends the search.
Side(root) == [queue |-> <<root>>, parent |-> (root :> root)]
NotMet == <<>>

\* One level of one side: every node queued when the level starts, every
\* neighbour in order, until one is met that the other side has visited.
ExpandNode(a, cur, adj, other) ==
  FoldLeft(LAMBDA acc, n :
             IF acc.met # NotMet THEN acc
             ELSE IF n \in DOMAIN other.parent THEN [acc EXCEPT !.met = <<cur, n>>]
             ELSE IF n \in DOMAIN acc.side.parent THEN acc
             ELSE [acc EXCEPT !.side.parent = @ @@ (n :> cur),
                              !.side.queue = Append(@, n)],
           a, adj[cur])

ExpandLevel(side, adj, other) ==
  FoldLeft(LAMBDA acc, cur : ExpandNode(acc, cur, adj, other),
           [side |-> [side EXCEPT !.queue = <<>>], met |-> NotMet], side.queue)

RECURSIVE ToRoot(_, _)
ToRoot(parent, n) == IF parent[n] = n THEN <<n>> ELSE <<n>> \o ToRoot(parent, parent[n])

\* reconstruct_path: the source side's half turned round, then the other's.
Reconstruct(src, dst, a, b) == Reverse(ToRoot(src.parent, a)) \o ToRoot(dst.parent, b)

\* Mutant: one more level is searched.
DepthReached_OneMore(srcDepth, dstDepth, depth) == srcDepth + dstDepth > depth

DepthReached(srcDepth, dstDepth, depth) == srcDepth + dstDepth >= depth

\* The loop.  The source side stops at the depth; the sum of both depths is
\* only compared after the source side's level.
RECURSIVE TwoSided(_, _, _, _, _)
TwoSided(src, dst, srcDepth, dstDepth, depth) ==
  LET goes == srcDepth < depth /\ src.queue # <<>>
      f == IF goes THEN ExpandLevel(src, fwd, dst) ELSE [side |-> src, met |-> NotMet]
      sd == IF goes THEN srcDepth + 1 ELSE srcDepth
      g == IF dst.queue # <<>> THEN ExpandLevel(dst, bwd, f.side) ELSE [side |-> dst, met |-> NotMet]
      dd == IF dst.queue # <<>> THEN dstDepth + 1 ELSE dstDepth
  IN  IF f.met # NotMet THEN Reconstruct(f.side, dst, f.met[1], f.met[2])
      ELSE IF DepthReached(sd, dstDepth, depth) \/ (f.side.queue = <<>> /\ dst.queue = <<>>) THEN <<>>
      ELSE IF g.met # NotMet THEN Reconstruct(f.side, g.side, g.met[2], g.met[1])
      ELSE IF f.side.queue = <<>> /\ g.side.queue = <<>> THEN <<>>
      ELSE TwoSided(f.side, g.side, sd, dd, depth)

FindShortestPath(src, dst, depth) ==
  IF src = dst THEN <<src>> ELSE TwoSided(Side(src), Side(dst), 0, 0, depth)

-----------------------------------------------------------------------------
\* The reference: all walks of k relationships from the source to the target,
\* one for every choice of relationships, and the least k that has any.
RECURSIVE Walks(_, _)
Walks(n, k) ==
  IF k = 0 THEN <<<<n>>>>
  ELSE FlattenSeq([i \in DOMAIN bwd[n] |->
         LET ws == Walks(bwd[n][i], k - 1)
         IN  [j \in DOMAIN ws |-> Append(ws[j], n)]])

WalksBetween(src, dst, k) == SelectSeq(Walks(dst, k), LAMBDA w : w[1] = src)

Shortest(src, dst, depth) ==
  LET ks == {k \in 0 .. depth : WalksBetween(src, dst, k) # <<>>}
  IN  IF ks = {} THEN <<>>
      ELSE WalksBetween(src, dst, CHOOSE k \in ks : \A j \in ks : k <= j)

Occurs(ps, p) == Len(SelectSeq(ps, LAMBDA q : q = p))

\* bfs_shortest_path returns every shortest path within the depth, one for each
\* choice among parallel relationships, and nothing else.
AllShortestRight ==
  \A depth \in Depths, dst \in {Src, Dst} :
    LET got == BfsShortestPath(Src, dst, depth)
        all == Shortest(Src, dst, depth)
    IN  \A p \in ToSet(got \o all) : Occurs(got, p) = Occurs(all, p)

\* The two-sided search, which stops at the first node both sides know, returns
\* a shortest path whenever there is one within the depth: within the next odd
\* depth, since the sum of the sides' depths is not compared again before the
\* source side's next level.
OneShortestRight ==
  \A depth \in Depths, dst \in {Src, Dst} :
    LET got == FindShortestPath(Src, dst, depth)
        all == Shortest(Src, dst, IF depth % 2 = 0 THEN depth + 1 ELSE depth)
    IN  IF all = <<>> THEN got = <<>> ELSE got \in ToSet(all)
=============================================================================

----------------------------- MODULE Traversal -----------------------------
(***************************************************************************)
(* The walks over the graph that the tools and the command line run:       *)
(* GraphTraverser of src/graph/traversal.ts.  A walk reads and does not    *)
(* write, and it runs to its end in one stretch, so a behaviour is a graph *)
(* and one query with its answer.  What a walk shares along its recursion, *)
(* the sets it marks and the lists it appends to, is a record that each    *)
(* call takes and returns.                                                 *)
(***************************************************************************)
EXTENDS Naturals, Sequences, FiniteSets, SequencesExt, TLC

CONSTANTS
  Nodes,
  Rows,        \* edges there may be, in the order of the table: <<source, target, kind>>
  Containers,  \* nodes whose kind is a class, an interface, a module, ...
  CallerCap    \* how many incoming edges getCallers asks for

VARIABLES
  graph,   \* the edges there are, as indices of Rows
  query,   \* the method and its arguments
  answer   \* [nodes, edges], edges in the order found; of findPath also [found]

vars == <<graph, query, answer>>

Edges == DOMAIN Rows
Unbounded == Cardinality(Nodes)
Kinds == {"contains", "calls", "references", "extends"}
CallKinds == {"calls", "references"}
None == [nodes |-> {}, edges |-> <<>>, found |-> FALSE]

\* The types of the state.
TypeOK ==
  /\ graph \subseteq Edges
  /\ query.method \in {"none", "bfs", "dfs", "callers", "callees", "hierarchy", "impact",
                       "path", "ancestors"}
  /\ answer.nodes \subseteq Nodes /\ \A i \in DOMAIN answer.edges : answer.edges[i] \in graph

Init == graph \in SUBSET Edges /\ query = [method |-> "none"] /\ answer = None

-----------------------------------------------------------------------------
(* The queries behind the walks.                                            *)

\* getOutgoingEdges and getIncomingEdges, in the order of the table; where an edge
\* that was found from one of its ends leads.
Adjacent(n, way, K) ==
  SetToSortSeq({e \in graph : Rows[e][3] \in K /\ Rows[e][IF way = "out" THEN 1 ELSE 2] = n}, <)
Far(e, way) == Rows[e][IF way = "out" THEN 2 ELSE 1]
Capped(s) == SubSeq(s, 1, IF Len(s) < CallerCap THEN Len(s) ELSE CallerCap)

-----------------------------------------------------------------------------
(* Depth first.                                                             *)

Start == [edges |-> <<>>, nodes |-> {}, visited |-> {}]
Seen(n, s) == n \in s.visited
MarkedIfExpanded(n, left, s) == IF left = 0 THEN s ELSE [s EXCEPT !.visited = @ \cup {n}]
Marked(n, left, s) == [s EXCEPT !.visited = @ \cup {n}]

\* getCallersRecursive and getCalleesRecursive.
RECURSIVE Calls(_, _, _, _)
Calls(n, way, left, s) ==
  IF Seen(n, s) THEN s
  ELSE IF left = 0 THEN Marked(n, left, s)
  ELSE LET found == Adjacent(n, way, CallKinds)
           Follow(t, e) ==
             IF Seen(Far(e, way), t) THEN t
             ELSE Calls(Far(e, way), way, left - 1,
                        [t EXCEPT !.edges = Append(@, e), !.nodes = @ \cup {Far(e, way)}])
       IN FoldLeft(Follow, Marked(n, left, s), IF way = "in" THEN Capped(found) ELSE found)

\* getTypeAncestors and getTypeDescendants, which getTypeHierarchy calls in turn on
\* the same sets.
RECURSIVE Types(_, _, _)
Types(n, way, s) ==
  IF Seen(n, s) THEN s
  ELSE LET Follow(t, e) ==
             IF Far(e, way) \in t.nodes THEN t
             ELSE Types(Far(e, way), way,
                        [t EXCEPT !.edges = Append(@, e), !.nodes = @ \cup {Far(e, way)}])
       IN FoldLeft(Follow, Marked(n, 1, s), Adjacent(n, way, {"extends"}))
Hierarchy(n) == Types(n, "in", Types(n, "out", [Start EXCEPT !.nodes = {n}]))

\* getImpactRecursive: into what a container contains without coming nearer to the
\* limit, then to what depends on the node, every such edge being recorded.
RECURSIVE Impact(_, _, _)
Impact(n, left, s) ==
  IF Seen(n, s) THEN s
  ELSE IF left = 0 THEN Marked(n, left, s)
  ELSE LET Enter(t, e) ==
             IF Seen(Rows[e][2], t) THEN t
             ELSE Impact(Rows[e][2], left,
                         [t EXCEPT !.edges = Append(@, e), !.nodes = @ \cup {Rows[e][2]}])
           Depend(t, e) ==
             LET r == [t EXCEPT !.edges = Append(@, e)]
             IN IF Seen(Rows[e][1], t) THEN r
                ELSE Impact(Rows[e][1], left - 1, [r EXCEPT !.nodes = @ \cup {Rows[e][1]}])
           children == IF n \in Containers THEN Adjacent(n, "out", {"contains"}) ELSE <<>>
       IN FoldLeft(Depend, FoldLeft(Enter, Marked(n, left, s), children),
                   Adjacent(n, "in", Kinds \ {"contains"}))

\* dfsRecursive, which marks a node only if it goes on from it.
RECURSIVE Deepen(_, _, _, _)
Deepen(n, left, limit, s) ==
  IF Seen(n, s) \/ Cardinality(s.nodes) >= limit \/ left = 0 THEN s
  ELSE LET Follow(t, e) ==
             IF Cardinality(t.nodes) >= limit \/ Seen(Rows[e][2], t) THEN t
             ELSE Deepen(Rows[e][2], left - 1, limit,
                         [t EXCEPT !.edges = Append(@, e), !.nodes = @ \cup {Rows[e][2]}])
       IN FoldLeft(Follow, Marked(n, left, s), Adjacent(n, "out", Kinds))

-----------------------------------------------------------------------------
(* Breadth first.                                                           *)

\* traverseBFS in both directions: structural edges first, each node enqueued once,
\* and an edge that is found from both its ends recorded once.
Priority(e) == CASE Rows[e][3] = "contains" -> 0 [] Rows[e][3] = "calls" -> 1 [] OTHER -> 2
Around(n) ==
  LET both == Adjacent(n, "out", Kinds) \o Adjacent(n, "in", Kinds)
  IN FoldLeft(LAMBDA s, p : s \o SelectSeq(both, LAMBDA e : Priority(e) = p), <<>>, <<0, 1, 2>>)
Across(n, e) == IF Rows[e][1] = n THEN Rows[e][2] ELSE Rows[e][1]
NoRoom(s, limit) == Cardinality(s.nodes) >= limit
Scan(n, depth, limit, s, e) ==
  LET m == Across(n, e)
  IN IF m \notin s.nodes /\ NoRoom(s, limit) THEN s
     ELSE [s EXCEPT !.nodes = @ \cup {m},
                    !.queue = IF m \in s.nodes THEN @ ELSE Append(@, <<m, depth + 1>>),
                    !.edges = IF e \in Range(@) THEN @ ELSE Append(@, e)]
RECURSIVE Widen(_, _, _)
Widen(s, maxDepth, limit) ==
  IF s.queue = <<>> \/ NoRoom(s, limit) THEN s
  ELSE LET n == Head(s.queue)[1]
           depth == Head(s.queue)[2]
           t == [s EXCEPT !.queue = Tail(@)]
       IN Widen(IF depth >= maxDepth THEN t
                ELSE FoldLeft(LAMBDA r, e : Scan(n, depth, limit, r, e), t, Around(n)),
                maxDepth, limit)

\* findPath: a node may be queued more than once, and is taken up once.
RECURSIVE Search(_, _, _)
Search(queue, visited, to) ==
  IF queue = <<>> THEN None
  ELSE LET path == Head(queue)
           n == path.at
           fresh == SelectSeq(Adjacent(n, "out", Kinds), LAMBDA e : Rows[e][2] \notin visited \cup {n})
       IN IF n = to THEN [nodes |-> {Rows[path.edges[i]][2] : i \in DOMAIN path.edges},
                          edges |-> path.edges, found |-> TRUE]
          ELSE IF n \in visited THEN Search(Tail(queue), visited, to)
          ELSE Search(Tail(queue) \o
                        [i \in DOMAIN fresh |-> [at |-> Rows[fresh[i]][2],
                                                 edges |-> Append(path.edges, fresh[i])]],
                      visited \cup {n}, to)

\* getAncestors: up the first of the edges that contain the node, until one is met
\* again.
RECURSIVE Climb(_, _)
Climb(n, s) ==
  LET up == Adjacent(n, "in", {"contains"})
  IN IF Seen(n, s) \/ up = <<>> THEN s
     ELSE Climb(Rows[up[1]][1],
                [s EXCEPT !.visited = @ \cup {n}, !.edges = Append(@, up[1]),
                          !.nodes = @ \cup {Rows[up[1]][1]}])
-----------------------------------------------------------------------------
(* The methods.                                                             *)

Ask(method, arguments, s) ==
  /\ query.method = "none"
  /\ query' = [method |-> method] @@ arguments
  /\ answer' = [nodes |-> s.nodes, edges |-> s.edges, found |-> s.nodes # {}]
  /\ UNCHANGED graph

Depths == {1, 2, Unbounded}
GetCallers(n, d) == Ask("callers", [from |-> n, depth |-> d], Calls(n, "in", d, Start))
GetCallees(n, d) == Ask("callees", [from |-> n, depth |-> d], Calls(n, "out", d, Start))
GetTypeHierarchy(n) == Ask("hierarchy", [from |-> n], Hierarchy(n))
GetImpactRadius(n, d) ==
  Ask("impact", [from |-> n, depth |-> d], Impact(n, d, [Start EXCEPT !.nodes = {n}]))
TraverseDFS(n, d, limit) ==
  Ask("dfs", [from |-> n, depth |-> d, limit |-> limit],
      Deepen(n, d, limit, [Start EXCEPT !.nodes = {n}]))
TraverseBFS(n, d, limit) ==
  Ask("bfs", [from |-> n, depth |-> d, limit |-> limit],
      Widen([nodes |-> {n}, edges |-> <<>>, queue |-> <<<<n, 0>>>>], d, limit))
FindPath(n, to) ==
  /\ query.method = "none"
  /\ query' = [method |-> "path", from |-> n, to |-> to]
  /\ answer' = Search(<<[at |-> n, edges |-> <<>>]>>, {}, to)
  /\ UNCHANGED graph
GetAncestors(n) == Ask("ancestors", [from |-> n], Climb(n, Start))

Next ==
  \E n \in Nodes :
    \/ GetTypeHierarchy(n) \/ GetAncestors(n) \/ \E to \in Nodes : FindPath(n, to)
    \/ \E d \in Depths :
         \/ GetCallers(n, d) \/ GetCallees(n, d) \/ GetImpactRadius(n, d)
         \/ \E limit \in {2, 3, Unbounded + 1} : TraverseDFS(n, d, limit) \/ TraverseBFS(n, d, limit)

Spec == Init /\ [][Next]_vars

-----------------------------------------------------------------------------
(* What the answers should be, by distances and not by walks.               *)

Pairs(K) == {<<Rows[e][1], Rows[e][2]>> : e \in {x \in graph : Rows[x][3] \in K}}
Flip(R) == {<<p[2], p[1]>> : p \in R}
Hop(R, S) == {p[2] : p \in {q \in R : q[1] \in S}}
RECURSIVE Ball(_, _, _)
Ball(R, S, d) == IF d = 0 THEN S ELSE Ball(R, S \cup Hop(R, S), d - 1)
Every(R, n) == Ball(R, {n}, Unbounded)

EdgesOnce == IsInjective(answer.edges)
EdgesAmongNodes == \A e \in Range(answer.edges) : {Rows[e][1], Rows[e][2]} \subseteq answer.nodes

\* Callers and callees: each once, over edges that are asked for, none further than
\* the depth; all that are next to the node, and without a limit all there are.
Asked(n, way) ==
  LET found == Adjacent(n, way, CallKinds) IN Range(IF way = "in" THEN Capped(found) ELSE found)
CallPairs(way) == UNION {{<<n, Far(e, way)>> : e \in Asked(n, way)} : n \in Nodes}
CallsAreRight(way) ==
  LET R == CallPairs(way)
      n == query.from
  IN /\ Len(answer.edges) = Cardinality(answer.nodes)
     /\ answer.nodes \subseteq Ball(R, {n}, query.depth) \ {n}
     /\ Hop(R, {n}) \ {n} \subseteq answer.nodes
     /\ query.depth = Unbounded => answer.nodes = Every(R, n) \ {n}

\* Impact: no further than the depth, what a container contains being no step; every
\* dependency once; without a limit all dependents, by all their dependencies.
Members(S) == Ball({p \in Pairs({"contains"}) : p[1] \in Containers}, S, Unbounded)
RECURSIVE Radius(_, _)
Radius(S, d) ==
  IF d = 0 THEN S
  ELSE Radius(Members(S) \cup Hop(Flip(Pairs(Kinds \ {"contains"})), Members(S)), d - 1)
ImpactIsRight ==
  LET n == query.from
  IN /\ EdgesOnce /\ EdgesAmongNodes
     /\ answer.nodes \subseteq Radius({n}, query.depth)
     /\ Hop(Flip(Pairs(Kinds \ {"contains"})), {n}) \subseteq answer.nodes
     /\ query.depth = Unbounded =>
          /\ answer.nodes = Radius({n}, Unbounded)
          /\ {e \in graph : Rows[e][3] # "contains" /\ Rows[e][2] \in answer.nodes}
               \subseteq Range(answer.edges)

\* The graph around a node: what is near comes before what is far, up to the limit,
\* with every edge between what was looked at and what was kept.
BreadthIsRight ==
  LET R == Pairs(Kinds) \cup Flip(Pairs(Kinds))
      Near(d) == Ball(R, {query.from}, d)
  IN /\ EdgesOnce /\ EdgesAmongNodes
     /\ Cardinality(answer.nodes) <= query.limit
     /\ \A d \in 0 .. query.depth : Near(d) \subseteq answer.nodes \/ answer.nodes \subseteq Near(d)
     /\ answer.nodes \subseteq Near(query.depth)
     /\ Cardinality(answer.nodes) < query.limit =>
          /\ answer.nodes = Near(query.depth)
          /\ Range(answer.edges) =
               {e \in graph : {Rows[e][1], Rows[e][2]} \cap Near(query.depth - 1) # {}}
DepthIsRight ==
  /\ EdgesOnce /\ EdgesAmongNodes
  /\ Cardinality(answer.nodes) <= query.limit
  /\ answer.nodes \subseteq Ball(Pairs(Kinds), {query.from}, query.depth)
  /\ query.depth = Unbounded /\ Cardinality(answer.nodes) < query.limit =>
       answer.nodes = Every(Pairs(Kinds), query.from)

\* A path is one, is found if there is one, and none is shorter.
PathIsRight ==
  LET R == Pairs(Kinds)
      p == answer.edges
  IN /\ answer.found <=> query.to \in Every(R, query.from)
     /\ answer.found =>
          /\ Len(p) > 0 => Rows[p[1]][1] = query.from /\ Rows[p[Len(p)]][2] = query.to
          /\ \A i \in 1 .. Len(p) - 1 : Rows[p[i]][2] = Rows[p[i + 1]][1]
          /\ \A d \in 0 .. Unbounded : d < Len(p) => query.to \notin Ball(R, {query.from}, d)

\* A hierarchy is a tree of types, with all that the type is built on.
HierarchyIsRight ==
  LET up == Every(Pairs({"extends"}), query.from)
      down == Every(Flip(Pairs({"extends"})), query.from)
  IN /\ up \subseteq answer.nodes /\ answer.nodes \subseteq up \cup down
     /\ EdgesAmongNodes /\ Len(answer.edges) = Cardinality(answer.nodes) - 1

\* Every answer is what its method says, found by whichever road, with cycles,
\* parallel edges and limits in the way.
AnswersAreRight ==
  /\ query.method \in {"callers", "callees"} =>
       CallsAreRight(IF query.method = "callers" THEN "in" ELSE "out")
  /\ query.method = "impact" => ImpactIsRight
  /\ query.method = "bfs" => BreadthIsRight
  /\ query.method = "dfs" => DepthIsRight
  /\ query.method = "path" => PathIsRight
  /\ query.method = "hierarchy" => HierarchyIsRight

\* "Returns both ancestors (types this extends/implements) and descendants (types
\* that extend/implement this)" (getTypeHierarchy of src/index.ts).
HierarchyHasDescendants ==
  query.method = "hierarchy" => Hop(Flip(Pairs({"extends"})), {query.from}) \subseteq answer.nodes
=============================================================================

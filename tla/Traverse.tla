------------------------------ MODULE Traverse ------------------------------
(***************************************************************************)
(* The walks of src/crates/cfglib/src/graph/traverse.rs, edge_traverse.rs  *)
(* and search/events: each is the code's loop over a stack or a queue, as  *)
(* a function of the graph, the start and the direction.                   *)
(***************************************************************************)
EXTENDS Digraph

CONSTANT None            \* no limit, no path, no node

Axis == {"out", "in"}

(* The edges at n along d, as positions, and the end each leads to.        *)
incident(g, n, d) ==
    SelectSeq([i \in DOMAIN g.edges |-> i],
              LAMBDA i : g.edges[i][IF d = "out" THEN 1 ELSE 2] = n)
far(g, e, d) == g.edges[e][IF d = "out" THEN 2 ELSE 1]
near(g, e, d) == g.edges[e][IF d = "out" THEN 1 ELSE 2]
neighbors(g, n, d) == IF d = "out" THEN successors(g, n) ELSE predecessors(g, n)

Without(s, S) == SelectSeq(s, LAMBDA x : x \notin S)

(* The same without repetitions, the first one kept: what a loop that      *)
(* marks as it goes accepts of s.                                          *)
Firsts(s) == FoldLeft(LAMBDA acc, x : IF x \in Range(acc) THEN acc ELSE Append(acc, x),
                      << >>, s)
-----------------------------------------------------------------------------
RECURSIVE preorder_from(_, _, _, _)
preorder_from(g, d, stack, order) ==
    IF stack = << >> THEN order
    ELSE LET n == Last(stack)
         IN  IF n \in Range(order) THEN preorder_from(g, d, Front(stack), order)
             ELSE LET seen == Append(order, n)
                  IN  preorder_from(g, d,
                        Front(stack) \o Reverse(Without(neighbors(g, n, d), Range(seen))),
                        seen)
depth_first_preorder(g, start, d) == preorder_from(g, d, <<start>>, << >>)

(* An entry is a node and whether its successors have been processed.      *)
RECURSIVE postorder_from(_, _, _, _, _)
postorder_from(g, d, stack, visited, order) ==
    IF stack = << >> THEN order
    ELSE LET n == Last(stack)[1]
             rest == Front(stack)
         IN  IF Last(stack)[2] THEN postorder_from(g, d, rest, visited, Append(order, n))
             ELSE IF n \in visited THEN postorder_from(g, d, rest, visited, order)
             ELSE LET seen == visited \cup {n}
                      next == Reverse(Without(neighbors(g, n, d), seen))
                  IN  postorder_from(g, d, Append(rest, <<n, TRUE>>)
                          \o [i \in DOMAIN next |-> <<next[i], FALSE>>], seen, order)
depth_first_postorder(g, start, d) ==
    postorder_from(g, d, <<<<start, FALSE>>>>, {}, << >>)
reverse_postorder(g, start, d) == Reverse(depth_first_postorder(g, start, d))

(* The queue with what was popped before it.                               *)
RECURSIVE breadth_first_from(_, _, _, _)
breadth_first_from(g, d, order, head) ==
    IF head > Len(order) THEN order
    ELSE breadth_first_from(g, d,
           order \o Firsts(Without(neighbors(g, order[head], d), Range(order))), head + 1)
breadth_first(g, start, d) == breadth_first_from(g, d, <<start>>, 1)

(* The nodes reached from any seed by way of nodes in within; a seed need  *)
(* not be in it.                                                           *)
RECURSIVE reachable_from(_, _, _, _, _)
reachable_from(g, d, within, stack, visited) ==
    IF stack = << >> THEN visited
    ELSE LET next == Firsts(Without(SelectSeq(neighbors(g, Last(stack), d),
                                              LAMBDA n : n \in within), visited))
         IN  reachable_from(g, d, within, Front(stack) \o next, visited \cup Range(next))
reachable_in(g, seeds, d, within) ==
    reachable_from(g, d, within, Firsts(seeds), Range(seeds))
reachable(g, seeds, d) == reachable_in(g, seeds, d, g.live)

(* Who discovered each node, as the walk that stops at the goal knows it.  *)
RECURSIVE previous_of(_, _, _, _, _)
previous_of(g, d, goal, queue, previous) ==
    IF queue = << >> \/ Head(queue) = goal THEN previous
    ELSE LET n == Head(queue)
             fresh == Firsts(Without(neighbors(g, n, d), DOMAIN previous))
         IN  previous_of(g, d, goal, Tail(queue) \o fresh,
               [m \in DOMAIN previous \cup Range(fresh) |->
                  IF m \in DOMAIN previous THEN previous[m] ELSE n])
RECURSIVE trace_back(_, _, _)
trace_back(previous, start, n) ==
    IF n = start THEN <<n>> ELSE Append(trace_back(previous, start, previous[n]), n)
shortest_path(g, start, goal, d) ==
    LET previous == previous_of(g, d, goal, <<start>>, [n \in {start} |-> None])
    IN  IF goal \in DOMAIN previous THEN trace_back(previous, start, goal) ELSE None

(* Hops from the start; a node at the limit is not expanded.               *)
RECURSIVE bounded_from(_, _, _, _, _)
bounded_from(g, d, limit, queue, distances) ==
    IF queue = << >> THEN distances
    ELSE LET n == Head(queue)
             fresh == IF limit # None /\ distances[n] >= limit THEN << >>
                      ELSE Firsts(Without(neighbors(g, n, d), DOMAIN distances))
         IN  bounded_from(g, d, limit, Tail(queue) \o fresh,
               [m \in DOMAIN distances \cup Range(fresh) |->
                  IF m \in DOMAIN distances THEN distances[m] ELSE distances[n] + 1])
breadth_first_bounded(g, start, d, limit) ==
    bounded_from(g, d, limit, <<start>>, [n \in {start} |-> 0])

(* Of the nodes both reach, the one nearest to both; the least on a tie.   *)
nearest_common_ancestor(g, a, b, d) ==
    LET fa == breadth_first_bounded(g, a, d, None)
        fb == breadth_first_bounded(g, b, d, None)
        met == {n \in g.live : n \in DOMAIN fa \cap DOMAIN fb}
        rank(n) == (fa[n] + fb[n]) * Bound + n
    IN  IF met = {} THEN None ELSE CHOOSE n \in met : \A m \in met : rank(n) <= rank(m)

common_ancestors(g, a, b, d, limit) ==
    LET fa == breadth_first_bounded(g, a, d, limit)
        fb == breadth_first_bounded(g, b, d, limit)
        met == SelectSeq(breadth_first(g, b, d),
                         LAMBDA n : n \in DOMAIN fa \cap DOMAIN fb)
    IN  [i \in DOMAIN met |-> [node |-> met[i], from_a |-> fa[met[i]], from_b |-> fb[met[i]]]]

RECURSIVE sorted_from(_, _, _, _)
sorted_from(g, counts, queue, order) ==
    IF queue = << >> THEN order
    ELSE LET succ == successors(g, Head(queue))
             left(m, k) == counts[m] - Cardinality({i \in 1..k : succ[i] = m})
             freed == SelectSeq([i \in DOMAIN succ |-> i], LAMBDA i : left(succ[i], i) = 0)
         IN  sorted_from(g, [m \in g.live |-> left(m, Len(succ))],
               Tail(queue) \o [i \in DOMAIN freed |-> succ[freed[i]]],
               Append(order, Head(queue)))
topological_sort(g) ==
    LET counts == [n \in g.live |-> Len(predecessors(g, n))]
        roots == SetToSortSeq({n \in g.live : counts[n] = 0}, <)
        order == sorted_from(g, counts, roots, << >>)
    IN  IF Len(order) = Cardinality(g.live) THEN order ELSE None
-----------------------------------------------------------------------------
(* The frames hold the neighbours still to be read; the arena they share   *)
(* is the one of Scc.  An event is its kind and what it names.             *)
RECURSIVE events_from(_, _, _, _, _)
events_from(g, d, frames, color, events) ==
    IF frames = << >> THEN events
    ELSE LET f == Last(frames)
         IN  IF f.rest = << >>
             THEN events_from(g, d, Front(frames), [color EXCEPT ![f.node] = "black"],
                              Append(events, <<"finish", f.node>>))
             ELSE LET s == Head(f.rest)
                      read == [frames EXCEPT ![Len(frames)].rest = Tail(@)]
                      kind == IF color[s] = "gray" THEN "back" ELSE "cross"
                  IN  IF color[s] = "white"
                      THEN events_from(g, d,
                             Append(read, [node |-> s, depth |-> f.depth + 1,
                                           rest |-> neighbors(g, s, d)]),
                             [color EXCEPT ![s] = "gray"],
                             events \o <<<<"tree", f.node, s>>,
                                         <<"discover", s, f.depth + 1>>>>)
                      ELSE events_from(g, d, read, color,
                                       Append(events, <<kind, f.node, s>>))
depth_first_events(g, start, d) ==
    events_from(g, d, <<[node |-> start, depth |-> 0, rest |-> neighbors(g, start, d)]>>,
                [n \in g.live \cup {start} |-> IF n = start THEN "gray" ELSE "white"],
                <<<<"discover", start, 0>>>>)

(* Reading s, a neighbour of n.                                            *)
bfs_event(acc, n, s, depth) ==
    IF s \in acc.seen
    THEN [acc EXCEPT !.events = Append(@, <<"non_tree", n, s>>)]
    ELSE [seen |-> acc.seen \cup {s}, queue |-> Append(acc.queue, <<s, depth>>),
          events |-> acc.events \o <<<<"tree", n, s>>, <<"discover", s, depth>>>>]
RECURSIVE bfs_from(_, _, _)
bfs_from(g, d, acc) ==
    IF acc.queue = << >> THEN acc.events
    ELSE LET n == Head(acc.queue)[1]
             depth == Head(acc.queue)[2] + 1
         IN  bfs_from(g, d, FoldLeft(LAMBDA a, s : bfs_event(a, n, s, depth),
                                     [acc EXCEPT !.queue = Tail(@)], neighbors(g, n, d)))
breadth_first_events(g, start, d) ==
    bfs_from(g, d, [seen |-> {start}, queue |-> <<<<start, 0>>>>,
                    events |-> <<<<"discover", start, 0>>>>])
-----------------------------------------------------------------------------
(* Walks that report edges: an accepted edge of every node expanded, once. *)
RECURSIVE bfs_edges_from(_, _, _, _, _, _, _)
bfs_edges_from(g, d, limit, accept, queue, seen, steps) ==
    IF queue = << >> THEN steps
    ELSE LET depth == Head(queue)[2]
             es == IF limit # None /\ depth >= limit THEN << >>
                   ELSE SelectSeq(incident(g, Head(queue)[1], d), LAMBDA e : e \in accept)
             fresh == Firsts(Without([i \in DOMAIN es |-> far(g, es[i], d)], seen))
         IN  bfs_edges_from(g, d, limit, accept,
               Tail(queue) \o [i \in DOMAIN fresh |-> <<fresh[i], depth + 1>>],
               seen \cup Range(fresh), steps \o es)
breadth_first_edges_with(g, start, d, limit, accept) ==
    bfs_edges_from(g, d, limit, accept, <<<<start, 0>>>>, {start}, << >>)

(* Mutant of dfs_edges_from: a frame at the limit is read to its end.      *)
RECURSIVE dfs_edges_past_limit(_, _, _, _, _, _, _)
dfs_edges_past_limit(g, d, limit, accept, frames, seen, steps) ==
    IF frames = << >> THEN steps
    ELSE LET f == Last(frames)
             read == [frames EXCEPT ![Len(frames)].rest = Tail(@)]
             next == far(g, Head(f.rest), d)
         IN  IF (limit # None /\ f.depth > limit) \/ f.rest = << >>
             THEN dfs_edges_past_limit(g, d, limit, accept, Front(frames), seen, steps)
             ELSE IF Head(f.rest) \notin accept
             THEN dfs_edges_past_limit(g, d, limit, accept, read, seen, steps)
             ELSE dfs_edges_past_limit(g, d, limit, accept,
                    IF next \in seen THEN read
                    ELSE Append(read, [depth |-> f.depth + 1, rest |-> incident(g, next, d)]),
                    seen \cup {next}, Append(steps, Head(f.rest)))

(* A node is seen when it is first come to, at whatever depth.             *)
RECURSIVE dfs_edges_from(_, _, _, _, _, _, _)
dfs_edges_from(g, d, limit, accept, frames, seen, steps) ==
    IF frames = << >> THEN steps
    ELSE LET f == Last(frames)
             read == [frames EXCEPT ![Len(frames)].rest = Tail(@)]
             next == far(g, Head(f.rest), d)
         IN  IF (limit # None /\ f.depth >= limit) \/ f.rest = << >>
             THEN dfs_edges_from(g, d, limit, accept, Front(frames), seen, steps)
             ELSE IF Head(f.rest) \notin accept
             THEN dfs_edges_from(g, d, limit, accept, read, seen, steps)
             ELSE dfs_edges_from(g, d, limit, accept,
                    IF next \in seen THEN read
                    ELSE Append(read, [depth |-> f.depth + 1, rest |-> incident(g, next, d)]),
                    seen \cup {next}, Append(steps, Head(f.rest)))
depth_first_edges_with(g, start, d, limit, accept) ==
    dfs_edges_from(g, d, limit, accept, <<[depth |-> 0, rest |-> incident(g, start, d)]>>,
                   {start}, << >>)

(* The edge each node was discovered by; the search ends where the goal is *)
(* discovered, though other edges of the same node are still unread.       *)
RECURSIVE parent_edges(_, _, _, _, _)
parent_edges(g, d, goal, queue, parent) ==
    IF queue = << >> \/ goal \in DOMAIN parent THEN parent
    ELSE LET es == incident(g, Head(queue), d)
             fresh == Firsts(Without([i \in DOMAIN es |-> far(g, es[i], d)], DOMAIN parent))
             by(m) == es[Min({i \in DOMAIN es : far(g, es[i], d) = m})]
         IN  parent_edges(g, d, goal, Tail(queue) \o fresh,
               [m \in DOMAIN parent \cup Range(fresh) |->
                  IF m \in DOMAIN parent THEN parent[m] ELSE by(m)])
RECURSIVE edges_back(_, _, _, _, _)
edges_back(g, d, parent, from, n) ==
    IF n = from THEN << >>
    ELSE Append(edges_back(g, d, parent, from, near(g, parent[n], d)), parent[n])
shortest_path_edges(g, from, to, d) ==
    LET parent == parent_edges(g, d, to, <<from>>, [n \in {from} |-> None])
    IN  IF from = to THEN << >>
        ELSE IF to \in DOMAIN parent THEN edges_back(g, d, parent, from, to) ELSE None
-----------------------------------------------------------------------------
(* What paths say, for the walks to be compared with: the nodes at most k  *)
(* accepted edges from n.                                                  *)
Within(g, n, d, k, accept) ==
    LET after[i \in 0..k] ==
          IF i = 0 THEN {n}
          ELSE LET S == after[i - 1]
               IN  S \cup {far(g, e, d) : e \in {f \in accept : near(g, f, d) \in S}}
    IN  after[k]
Edges(g) == DOMAIN g.edges
Reachable(g, n, d) == Within(g, n, d, Bound, Edges(g))
Distance(g, n, m, d) == Min({k \in 0..Bound : m \in Within(g, n, d, k, Edges(g))})
Leaving(g, d, S, accept) == {e \in accept : near(g, e, d) \in S}

Named(events, kind) == SelectSeq(events, LAMBDA e : e[1] = kind)
Nodes(events) == [i \in DOMAIN events |-> events[i][2]]
IsOrderOf(s, S) == Range(s) = S /\ Len(s) = Cardinality(S)
Position(s, x) == CHOOSE i \in DOMAIN s : s[i] = x

(* The three depth-first walks are one walk: events in the order of the    *)
(* preorder and the postorder, each edge read once and classified so that  *)
(* a back edge is one that closes a cycle and every other edge leads to a  *)
(* node finished earlier.                                                  *)
DepthFirstAgrees(g, start, d) ==
    LET events == depth_first_events(g, start, d)
        pre == depth_first_preorder(g, start, d)
        post == depth_first_postorder(g, start, d)
        R == Reachable(g, start, d)
        back == Range(Named(events, "back"))
        sound(e) == Position(post, e[3]) < Position(post, e[2])
        read == Cardinality({i \in DOMAIN events :
                               events[i][1] \in {"tree", "back", "cross"}})
    IN  /\ IsOrderOf(pre, R) /\ Nodes(Named(events, "discover")) = pre
        /\ IsOrderOf(post, R) /\ Nodes(Named(events, "finish")) = post
        /\ read = Cardinality(Leaving(g, d, R, Edges(g)))
        /\ reachable(g, <<start>>, d) = R
        /\ \A e \in back : e[2] \in Reachable(g, e[3], d) /\ ~sound(e)
        /\ \A e \in Range(Named(events, "tree")) \cup Range(Named(events, "cross")) :
              sound(e)

(* Breadth-first walks and paths know the true distances.                  *)
BreadthFirstAgrees(g, start, d) ==
    LET events == breadth_first_events(g, start, d)
        order == breadth_first(g, start, d)
        R == Reachable(g, start, d)
        dist == [n \in R |-> Distance(g, start, n, d)]
    IN  /\ IsOrderOf(order, R)
        /\ \A i, j \in DOMAIN order : i < j => dist[order[i]] <= dist[order[j]]
        /\ Named(events, "discover") =
              [i \in DOMAIN order |-> <<"discover", order[i], dist[order[i]]>>]
        /\ Len(events) = 1 + Len(Named(events, "tree"))
                           + Cardinality(Leaving(g, d, R, Edges(g)))
        /\ breadth_first_bounded(g, start, d, None) = dist
        /\ \A m \in Slots :
              LET path == shortest_path(g, start, m, d)
                  edges == shortest_path_edges(g, start, m, d)
              IN  IF m \in R
                  THEN /\ Len(path) = dist[m] + 1 /\ path[1] = start /\ Last(path) = m
                       /\ \A i \in DOMAIN edges : /\ near(g, edges[i], d) = path[i]
                                                  /\ far(g, edges[i], d) = path[i + 1]
                       /\ Len(edges) = dist[m]
                  ELSE path = None /\ edges = None

(* A bound on depth: breadth-first reports the edges of exactly the nodes  *)
(* nearer than the limit; depth-first may come to a node late and miss its *)
(* edges, but reports none the other would not, each once, and all of them *)
(* where nothing bounds it.                                                *)
BoundsAgree(g, start, d, limit, accept) ==
    LET wide == breadth_first_edges_with(g, start, d, limit, accept)
        deep == depth_first_edges_with(g, start, d, limit, accept)
        nearer == IF limit = None THEN Within(g, start, d, Bound, accept)
                  ELSE IF limit = 0 THEN {}
                  ELSE Within(g, start, d, limit - 1, accept)
    IN  /\ IsOrderOf(wide, Leaving(g, d, nearer, accept))
        /\ Range(deep) \subseteq Range(wide) /\ IsOrderOf(deep, Range(deep))
        /\ Leaving(g, d, IF limit = 0 THEN {} ELSE {start}, accept) \subseteq Range(deep)
        /\ limit = None => Range(deep) = Range(wide)

(* Reachability from two seeds within a set: by the edges into the set.    *)
WithinAgrees(g, a, b, d, S) ==
    LET kept == {e \in Edges(g) : far(g, e, d) \in S}
    IN  reachable_in(g, <<a, b, a>>, d, S) =
            Within(g, a, d, Bound, kept) \cup Within(g, b, d, Bound, kept)

(* Where two walks meet: every node both reach within the bound, in the    *)
(* order the second discovers them, and the nearest of them all.           *)
MeetsAgree(g, a, b, d, limit) ==
    LET k == IF limit = None THEN Bound ELSE limit
        both == Within(g, a, d, k, Edges(g)) \cap Within(g, b, d, k, Edges(g))
        all == common_ancestors(g, a, b, d, limit)
        sum(n) == Distance(g, a, n, d) + Distance(g, b, n, d)
        least == nearest_common_ancestor(g, a, b, d)
    IN  /\ IsOrderOf([i \in DOMAIN all |-> all[i].node], both)
        /\ \A i \in DOMAIN all : all[i].from_a + all[i].from_b = sum(all[i].node)
        /\ \A i, j \in DOMAIN all : i < j => all[i].from_b <= all[j].from_b
        /\ limit = None => IF both \cap g.live = {} THEN least = None
                            ELSE \A n \in both \cap g.live : sum(least) <= sum(n)

Acyclic(g) == \A e \in Range(g.edges) : e[1] \notin Reachable(g, e[2], "out")

SortAgrees(g) ==
    LET order == topological_sort(g)
    IN  IF Acyclic(g)
        THEN /\ IsOrderOf(order, g.live)
             /\ \A e \in Range(g.edges) : Position(order, e[1]) < Position(order, e[2])
        ELSE order = None
=============================================================================

-------------------------------- MODULE Scc --------------------------------
(***************************************************************************)
(* Strongly connected components (src/crates/cfglib/src/graph/scc.rs):     *)
(* tarjan_scc and kosaraju_scc, which walk depth first on an explicit      *)
(* stack of frames whose successors share one arena, and the component DAG *)
(* of a decomposition.  Sequences are the code's vectors; indices into     *)
(* them count from zero, as they do there.                                 *)
(***************************************************************************)
EXTENDS Digraph

NO_COMPONENT == -1
UNVISITED == -1      \* usize::MAX in indices

VARIABLES algorithm,     \* "none", "tarjan" or "kosaraju"
          step,          \* "idle", "walk", "collect" or "returned"
          indices, lowlinks, on_stack,   \* Tarjan's tables
          stack,
          arena, calls,                  \* the walk both make
          finish_order,                  \* Kosaraju's first pass
          components                     \* the SccDecomposition

walkVars == <<arena, calls>>
tarjanVars == <<indices, lowlinks, on_stack>>
sccVars == <<algorithm, step, indices, lowlinks, on_stack, stack, arena, calls,
             finish_order, components>>

SccFrame == [node : Slots, start : Nat, cursor : Nat]
-----------------------------------------------------------------------------
with_node_bound ==
    [nodes |-> << >>, offsets |-> <<0>>, component_of |-> [n \in Slots |-> NO_COMPONENT]]

len(d) == Len(d.offsets) - 1
component(d, i) == SubSeq(d.nodes, d.offsets[i + 1] + 1, d.offsets[i + 2])

(* The nodes appended since the last component become one, in order.       *)
close_component(d) ==
    LET start == Last(d.offsets)
        open == SubSeq(d.nodes, start + 1, Len(d.nodes))
    IN  [d EXCEPT !.nodes = SubSeq(d.nodes, 1, start) \o SortSeq(open, <),
                  !.offsets = Append(@, Len(d.nodes))]

SccInit ==
    /\ algorithm = "none"
    /\ step = "idle"
    /\ indices = [n \in Slots |-> UNVISITED]
    /\ lowlinks = [n \in Slots |-> 0]
    /\ on_stack = [n \in Slots |-> FALSE]
    /\ stack = << >> /\ arena = << >> /\ calls = << >> /\ finish_order = << >>
    /\ components = with_node_bound

(* The call to one of the two algorithms.                                  *)
Decompose(a) ==
    /\ step = "idle"
    /\ algorithm' = a
    /\ step' = "walk"
    /\ UNCHANGED <<graph, tarjanVars, stack, walkVars, finish_order, components>>
-----------------------------------------------------------------------------
top == Last(calls)
Exhausted == top.cursor >= Len(arena)
advanced == [calls EXCEPT ![Len(calls)].cursor = @ + 1]

(* Push the frame of n over the frames, its successors onto the arena.     *)
enter(n, frames) ==
    /\ calls' = Append(frames, [node |-> n, start |-> Len(arena), cursor |-> Len(arena)])
    /\ arena' = arena \o successors(graph, n)

leave ==
    /\ calls' = Front(calls)
    /\ arena' = SubSeq(arena, 1, top.start)

(* Kosaraju marks what it visited; the indices of Tarjan's say the same.   *)
visited(n) == indices[n] # UNVISITED
next_index == Cardinality({n \in Slots : visited(n)})
visit(n, frames) ==
    /\ indices' = [indices EXCEPT ![n] = next_index]
    /\ enter(n, frames)

discover(n, frames) ==
    /\ visit(n, frames)
    /\ lowlinks' = [lowlinks EXCEPT ![n] = next_index]
    /\ stack' = Append(stack, n)
    /\ on_stack' = [on_stack EXCEPT ![n] = TRUE]

(* Mutant of lower: the last link read stands, lower or not.               *)
lower_to_last(n, to) == [lowlinks EXCEPT ![n] = to]

lower(n, to) == [lowlinks EXCEPT ![n] = IF to < @ THEN to ELSE @]

(* Examine the next successor s of the frame on top.                       *)
tarjan_examine(s) ==
    IF ~visited(s)
    THEN discover(s, advanced)
    ELSE /\ calls' = advanced
         /\ lowlinks' = IF on_stack[s] THEN lower(top.node, indices[s]) ELSE lowlinks
         /\ UNCHANGED <<indices, stack, on_stack, arena>>

(* A node whose low link is its own index takes everything above it on the *)
(* stack into a component; then its frame is left, and its parent takes    *)
(* over the low link.                                                      *)
tarjan_finish ==
    LET node == top.node
        at == CHOOSE i \in DOMAIN stack : stack[i] = node
        members == Reverse(SubSeq(stack, at, Len(stack)))
    IN  /\ IF lowlinks[node] = indices[node]
           THEN /\ stack' = SubSeq(stack, 1, at - 1)
                /\ on_stack' = [n \in Slots |-> on_stack[n] /\ n \notin Range(members)]
                /\ components' =
                      close_component(
                        [components EXCEPT
                           !.nodes = @ \o members,
                           !.component_of = [n \in Slots |->
                               IF n \in Range(members) THEN len(components) ELSE @[n]]])
           ELSE UNCHANGED <<stack, on_stack, components>>
        /\ leave
        /\ lowlinks' = IF Len(calls) = 1 THEN lowlinks
                       ELSE lower(calls[Len(calls) - 1].node, lowlinks[node])
        /\ UNCHANGED indices

(* One turn of the walk: the next node that was not visited is a root (a   *)
(* view may yield its nodes in any order), or the top frame goes on.       *)
tarjan_scc ==
    /\ algorithm = "tarjan" /\ step = "walk"
    /\ \/ /\ calls = << >>
          /\ \E n \in graph.live : ~visited(n) /\ discover(n, << >>)
          /\ UNCHANGED <<step, components>>
       \/ /\ calls # << >> /\ ~Exhausted
          /\ tarjan_examine(arena[top.cursor + 1])
          /\ UNCHANGED <<step, components>>
       \/ /\ calls # << >> /\ Exhausted
          /\ tarjan_finish
          /\ UNCHANGED step
       \/ /\ calls = << >> /\ \A n \in graph.live : visited(n)
          /\ step' = "returned"
          /\ UNCHANGED <<tarjanVars, stack, walkVars, components>>
    /\ UNCHANGED <<graph, algorithm, finish_order>>
-----------------------------------------------------------------------------
kosaraju_finish ==
    /\ leave
    /\ finish_order' = Append(finish_order, top.node)
    /\ UNCHANGED indices

(* The first pass: nodes by the time they finish.                          *)
kosaraju_walk ==
    /\ step = "walk"
    /\ \/ /\ calls = << >>
          /\ \E n \in graph.live : ~visited(n) /\ visit(n, << >>)
          /\ UNCHANGED <<step, finish_order>>
       \/ /\ calls # << >> /\ ~Exhausted
          /\ LET s == arena[top.cursor + 1]
             IN  IF ~visited(s) THEN visit(s, advanced)
                 ELSE calls' = advanced /\ UNCHANGED <<indices, arena>>
          /\ UNCHANGED <<step, finish_order>>
       \/ /\ calls # << >> /\ Exhausted
          /\ kosaraju_finish
          /\ UNCHANGED step
       \/ /\ calls = << >> /\ \A n \in graph.live : visited(n)
          /\ step' = "collect"
          /\ UNCHANGED <<indices, walkVars, finish_order>>
    /\ UNCHANGED <<stack, components>>

claim(d, nodes, i) ==
    [d EXCEPT !.component_of = [n \in Slots |-> IF n \in nodes THEN i ELSE @[n]]]
Unclaimed(d, n) == d.component_of[n] = NO_COMPONENT

(* Mutant of mint: the roots are taken in the order they finished.         *)
mint_first_finished ==
    /\ stack = << >> /\ finish_order # << >>
    /\ finish_order' = Tail(finish_order)
    /\ LET root == Head(finish_order)
       IN  IF Unclaimed(components, root)
           THEN /\ components' = claim(components, {root}, len(components))
                /\ stack' = <<root>>
           ELSE UNCHANGED <<components, stack>>

(* The node that finished last of those left is a root; it mints a         *)
(* component unless one claimed it.                                        *)
mint ==
    /\ stack = << >> /\ finish_order # << >>
    /\ finish_order' = Front(finish_order)
    /\ LET root == Last(finish_order)
       IN  IF Unclaimed(components, root)
           THEN /\ components' = claim(components, {root}, len(components))
                /\ stack' = <<root>>
           ELSE UNCHANGED <<components, stack>>

(* Pop a node into the open component and claim its predecessors; the      *)
(* component is closed when nothing is left to pop.                        *)
collect ==
    LET node == Last(stack)
        fresh == SelectSeq(predecessors(graph, node), LAMBDA p : Unclaimed(components, p))
        pushed == FoldLeft(LAMBDA s, p : IF p \in Range(s) THEN s ELSE Append(s, p),
                           << >>, fresh)
        left == Front(stack) \o pushed
        grown == claim([components EXCEPT !.nodes = Append(@, node)], Range(pushed),
                       len(components))
    IN  /\ stack # << >>
        /\ stack' = left
        /\ components' = IF left = << >> THEN close_component(grown) ELSE grown
        /\ UNCHANGED finish_order

kosaraju_scc ==
    /\ algorithm = "kosaraju"
    /\ \/ kosaraju_walk
       \/ /\ step = "collect"
          /\ \/ (mint \/ collect) /\ UNCHANGED step
             \/ /\ stack = << >> /\ finish_order = << >>
                /\ step' = "returned"
                /\ UNCHANGED <<stack, components, finish_order>>
          /\ UNCHANGED <<indices, walkVars>>
    /\ UNCHANGED <<graph, algorithm, lowlinks, on_stack>>

SccNext == tarjan_scc \/ kosaraju_scc
-----------------------------------------------------------------------------
(* The edges of the component DAG, by component, each reported once: nodes *)
(* are read in order and each one's successors in adjacency order.         *)
component_edges(g, d) ==
    LET of(n) == [i \in DOMAIN successors(g, n) |->
                     <<d.component_of[n], d.component_of[successors(g, n)[i]]>>]
        all == FlattenSeq([i \in 1..Cardinality(g.live) |->
                              of(SetToSortSeq(g.live, <)[i])])
    IN  FoldLeft(LAMBDA wired, e :
                    IF e[1] = e[2] \/ e \in Range(wired) THEN wired ELSE Append(wired, e),
                 << >>, all)
-----------------------------------------------------------------------------
SccTypeOK ==
    /\ graph \in ViewType
    /\ algorithm \in {"none", "tarjan", "kosaraju"}
    /\ step \in {"idle", "walk", "collect", "returned"}
    /\ indices \in [Slots -> 0..(Cardinality(graph.live) - 1) \cup {UNVISITED}]
    /\ lowlinks \in [Slots -> Slots]
    /\ on_stack \in [Slots -> BOOLEAN]
    /\ stack \in Seq(graph.live) /\ arena \in Seq(graph.live)
    /\ finish_order \in Seq(graph.live)
    /\ calls \in Seq(SccFrame)
    /\ components.nodes \in Seq(graph.live)
    /\ components.offsets \in Seq(0..Bound)
    /\ components.component_of \in [Slots -> Slots \cup {NO_COMPONENT}]

(* The frames share the arena as a stack (SccFrame): it holds the          *)
(* successors of every frame's node in the order of the frames, a frame's  *)
(* cursor stays within its own run, and each frame was entered from the    *)
(* successor the frame below read last.                                    *)
FramesOwnArena ==
    /\ arena = FlattenSeq([i \in DOMAIN calls |-> successors(graph, calls[i].node)])
    /\ \A i \in DOMAIN calls :
          /\ calls[i].start = Len(FlattenSeq([j \in 1..(i - 1) |->
                                               successors(graph, calls[j].node)]))
          /\ calls[i].cursor - calls[i].start \in 0..Len(successors(graph, calls[i].node))
          /\ i > 1 => calls[i].node = arena[calls[i - 1].cursor]

Mutual(u, v) == Reaches(graph, u, v) /\ Reaches(graph, v, u)

(* While tarjan_scc runs, the stack holds the visited nodes that have no   *)
(* component, in the order they were discovered, on_stack says so of each, *)
(* and every one of them is in one cycle with a node still being walked:   *)
(* none is left behind whose component is complete.                        *)
StackHasWayBack ==
    algorithm = "tarjan" =>
        /\ {n \in Slots : on_stack[n]} = Range(stack)
        /\ Range(stack) = {n \in Slots : visited(n) /\ Unclaimed(components, n)}
        /\ \A i, j \in DOMAIN stack : i < j => indices[stack[i]] < indices[stack[j]]
        /\ \A n \in Range(stack) :
              \E i \in DOMAIN calls :
                 indices[calls[i].node] <= indices[n] /\ Mutual(n, calls[i].node)

Closed(n) == \E i \in 0..(len(components) - 1) : n \in Range(component(components, i))

(* A component that was closed holds exactly the nodes that reach each     *)
(* other, ascending, and the table names it for each of them; when either  *)
(* algorithm returns every live node has one, and no removed slot does.    *)
ComponentsMutual ==
    /\ \A i \in 0..(len(components) - 1) :
          LET nodes == component(components, i)
          IN  /\ nodes # << >>
              /\ \A j, k \in DOMAIN nodes : j < k => nodes[j] < nodes[k]
              /\ Range(nodes) = {n \in graph.live : Mutual(n, nodes[1])}
              /\ \A n \in Range(nodes) : components.component_of[n] = i
    /\ step = "returned" =>
          \A n \in Slots : n \in graph.live <=> Closed(n)

Before(i, j) == IF algorithm = "tarjan" THEN j < i ELSE i < j

(* The numbering contracts of the two: along every edge between components *)
(* Tarjan's number falls and Kosaraju's rises, and a component is closed   *)
(* only once every component it leads to (Tarjan) or that leads to it      *)
(* (Kosaraju) is.  So the component DAG has no cycle, whichever numbering  *)
(* it keeps, and no edge twice.                                            *)
NumberedAlongEdges ==
    /\ \A e \in Range(graph.edges) :
          LET from == components.component_of[e[1]]
              to == components.component_of[e[2]]
          IN  /\ algorithm = "tarjan" /\ Closed(e[1]) => Closed(e[2])
              /\ algorithm = "kosaraju" /\ Closed(e[2]) => Closed(e[1])
              /\ Closed(e[1]) /\ Closed(e[2]) =>
                    IF Mutual(e[1], e[2]) THEN from = to ELSE Before(from, to)
    /\ step = "returned" =>
          LET dag == component_edges(graph, components)
          IN  /\ \A i \in DOMAIN dag : Before(dag[i][1], dag[i][2])
              /\ Cardinality(Range(dag)) = Len(dag)

(* The walk's bookkeeping is right at every step: the shared arena is cut  *)
(* back with each frame, and nothing is on the stack without a way back.   *)
WalkSound == FramesOwnArena /\ StackHasWayBack

(* What either algorithm returns is the partition into components, and     *)
(* numbered as its documentation promises.                                 *)
DecompositionRight == ComponentsMutual /\ NumberedAlongEdges
=============================================================================

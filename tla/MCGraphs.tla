------------------------------ MODULE MCGraphs ------------------------------
(***************************************************************************)
(* The algorithms on one graph.  A client builds a graph edge by edge and  *)
(* then calls one of the algorithms that are modelled step by step: a      *)
(* decomposition on a graph with a removed slot, or a dominator tree, a    *)
(* second time from another root over the same tables; or it asks the      *)
(* queries that build on them.  Every graph within the bounds is built, in *)
(* one order of its edges; nodes are not interchangeable, so every         *)
(* adjacency order is among them.                                          *)
(***************************************************************************)
EXTENDS Scc, Dominators

CONSTANTS Removed,       \* the slot without a node, in a decomposed graph
          SccEdges,      \* how many edges a decomposed graph has at most
          TreeEdges,     \* how many a graph has whose dominators are asked for
          AgainEdges,    \* how many when they are asked for again
          MaxEdges,      \* how many a graph has that queries are asked of
          Lives,         \* the slots that have a node in it
          None

VARIABLE part            \* what is asked

L == INSTANCE Loops

Whole == graph.live = Slots

(* Into the root no edge matters, a self-loop in one place stands for all, *)
(* and so does an edge beside another.                                     *)
Wanted(e) ==
    IF Whole THEN e[1] # e[2] /\ e[2] # 0 /\ Len(graph.edges) < TreeEdges
    ELSE (e[1] # e[2] \/ e[1] = 0) /\ Len(graph.edges) < SccEdges

Follows(e) ==
    graph.edges # << >> =>
        LET l == Last(graph.edges)
        IN  l[1] * Bound + l[2] < e[1] * Bound + e[2] \/ (l = e /\ e = <<0, 1>>)

AddEdge ==
    /\ step = "idle" /\ phase = "idle"
    /\ \E e \in graph.live \X graph.live :
          /\ Wanted(e) /\ Follows(e)
          /\ graph' = [graph EXCEPT !.edges = Append(@, e)]
    /\ UNCHANGED <<sccVars, dominatorVars>>

DecomposeOne ==
    /\ ~Whole
    /\ \E a \in {"tarjan", "kosaraju"} : Decompose(a)
    /\ UNCHANGED dominatorVars

ComputeTree ==
    /\ Whole
    /\ \/ phase = "idle" /\ compute_from_in(0)
       \/ phase = "returned" /\ root = 0 /\ Len(graph.edges) <= AgainEdges
          /\ compute_from_in(1)
    /\ UNCHANGED sccVars

(* Queries are asked of graphs with parallel edges and at most one loop of *)
(* a node on itself.                                                       *)
AddQueried ==
    /\ Len(graph.edges) < MaxEdges
    /\ \E e \in graph.live \X graph.live :
          /\ Follows(e)
          /\ e[1] = e[2] => \A d \in Range(graph.edges) : d[1] # d[2]
          /\ graph' = [graph EXCEPT !.edges = Append(@, e)]
    /\ UNCHANGED <<sccVars, dominatorVars>>

MCInit ==
    /\ SccInit
    /\ DominatorInit
    /\ \/ /\ part = "algorithms"
          /\ graph \in [live : {Slots, Slots \ {Removed}}, edges : {<< >>}]
       \/ part = "queries" /\ graph \in [live : Lives, edges : {<< >>}]

AlgorithmNext ==
    \/ AddEdge \/ DecomposeOne \/ ComputeTree
    \/ SccNext /\ UNCHANGED dominatorVars
    \/ DominatorNext /\ UNCHANGED sccVars

MCNext ==
    /\ \/ part = "algorithms" /\ AlgorithmNext
       \/ part = "queries" /\ AddQueried
    /\ UNCHANGED part

MCSpec == MCInit /\ [][MCNext]_<<part, graph, sccVars, dominatorVars>>
-----------------------------------------------------------------------------
Limits == {None, 0, 1, 2}

(* The walks, searches and orders of one graph agree with each other and   *)
(* with its paths, from every start, both ways, under every bound.         *)
WalksAgreeOn(g) ==
    /\ L!SortAgrees(g)
    /\ \A start \in {0, 1} \cap g.live, d \in L!Axis :
          /\ L!DepthFirstAgrees(g, start, d)
          /\ L!BreadthFirstAgrees(g, start, d)
          /\ \A S \in {{}, {1, 2}, {0, 3}} : L!WithinAgrees(g, start, 2, d, S)
          /\ \A limit \in Limits :
                /\ L!BoundsAgree(g, start, d, limit, L!Edges(g))
                /\ L!BoundsAgree(g, start, d, limit, L!Edges(g) \ {1})
                /\ L!MeetsAgree(g, start, 2, d, limit)

(* Frontiers and the forest over unreached nodes of every rooted graph.    *)
FrontiersRightOn(g) ==
    /\ \A accepts \in {g.live, g.live \ {1}} : L!FrontierAgrees(g, 0, accepts)
    /\ L!ForestAgrees(g, 0)

(* Post-dominators and control dependence of every rooted graph, endless   *)
(* loops included.                                                         *)
PostDominanceRightOn(g) == \A start \in {0, 2} : L!PostAgrees(g, start)

(* Tags that make a difference: none, and each edge that is no back edge   *)
(* by dominance but lies on a cycle.                                       *)
Tagged(g, t) ==
    {{}} \cup {{i} : i \in {j \in L!Edges(g) :
                  Range(L!find_back_edges_tagged(g, {j}, t)) # Range(L!find_back_edges(g, t))}}

(* The loop forest of every rooted graph, with no edge or one edge tagged, *)
(* over reached code and over all code, and its nesting tree.              *)
LoopsRightOn(g) ==
    LET t == L!compute(g, 0)
        dead == L!complete_dominator_forest(g, 0, t)
    IN  \A tags \in Tagged(g, t) :
          LET f == L!compute_tagged(g, tags, t)
              all == L!compute_all_tagged(g, 0, tags, t)
          IN  /\ L!LoopAgrees(g, f, <<[tree |-> t]>>)
              /\ L!NestAgrees(g, f)
              /\ dead # None => L!LoopAgrees(g, all, <<[tree |-> t], [tree |-> dead]>>)

(* What explicit_body says of itself: the body of a loop whose header does *)
(* not dominate its latches is every block on a path from the header to a  *)
(* latch, the walked blocks that the header reaches.                       *)
ExplicitBodyOnPaths(g) ==
    LET t == L!compute(g, 0)
    IN  \A tags \in Tagged(g, t) :
          LET f == L!compute_tagged(g, tags, t)
          IN  \A k \in {c \in DOMAIN f.loops : ~L!is_nested(f.loops[c])} :
                LET loop == f.loops[k]
                IN  loop.explicit = L!reachable_in(g, <<loop.header>>, "out",
                                      L!walked_back(g, t, loop.header, loop.latches))

(* The rewrites that shape loops: every cycle that is entered in several   *)
(* places is split away, and every loop gets one preheader; the intervals  *)
(* of a graph are entered at their headers alone.                          *)
StructureRightOn(g) ==
    /\ L!IntervalsAgree(g, 0)
    /\ L!ReducibleAgrees(g, 0)
    /\ LET t == L!compute(g, 0)
       IN  \A tags \in Tagged(g, t) : L!PreheadersAgree(g, 0, tags)
-----------------------------------------------------------------------------
InAlgorithms == part = "algorithms"
InQueries == part = "queries"

(* At every step of either walk the shared arena is cut back with its      *)
(* frames and the stack has a way back; what is returned is the partition  *)
(* into components, numbered as documented (graph/scc.rs).                 *)
(* While nodes are processed the labels, buckets and semidominators are    *)
(* what the paths say, and so are the tree and its queries at the end      *)
(* (graph/dominator.rs and its parts).                                     *)
AlgorithmsRight ==
    InAlgorithms => WalkSound /\ DecompositionRight /\ LinkEvalHolds /\ TreeRight

(* Walks, searches and orders agree with the paths of the graph            *)
(* (graph/traverse.rs, edge_traverse.rs, search/events).                   *)
WalksAgree == [][InQueries => WalksAgreeOn(graph')]_graph

(* Frontiers, the forest over unreached nodes, post-dominators and control *)
(* dependence are what the paths say (graph/dominator/frontier.rs,         *)
(* forest.rs, post.rs, graph/cdg.rs).                                      *)
DominanceRight == [][InQueries => FrontiersRightOn(graph') /\ PostDominanceRightOn(graph')]_graph

(* The loop forest is the nesting of the loops of the graph, and rewrites  *)
(* that shape loops leave none with a second entry or without a preheader  *)
(* (graph/loop_forest.rs, structure.rs, interval.rs, reducible.rs).        *)
LoopsRight == [][InQueries => LoopsRightOn(graph') /\ StructureRightOn(graph')]_graph
=============================================================================

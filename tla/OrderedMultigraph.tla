------------------------- MODULE OrderedMultigraph -------------------------
(***************************************************************************)
(* What `Graph` promises its callers, with no word about how it is stored: *)
(* a directed multigraph whose nodes and edges are dense slots, some of    *)
(* them removed, in which the edges of every node are read, along either   *)
(* direction, in one definite order.  GraphStore is shown to implement it. *)
(*                                                                         *)
(* Slots are numbered from 1 here and from 0 in the code.                  *)
(***************************************************************************)
EXTENDS Slots

VARIABLES
    nodePayload,  \* payload of every node slot, removed ones included
    edgePayload,  \* payload of every edge slot, removed ones included
    ends,         \* ends[d][e]: the node edge e is attached to along d
    liveNodes,    \* the nodes the graph still holds
    liveEdges,    \* the edges the graph still holds
    before        \* before[d]: pairs <<e, f>> of edges of one node, e read first

vars == <<nodePayload, edgePayload, ends, liveNodes, liveEdges, before>>

Direction == {"out", "in"}

NodeSlots == DOMAIN nodePayload
EdgeSlots == DOMAIN edgePayload

(* The edges node n lists along direction d.                               *)
At(d, n) == {e \in liveEdges : ends[d][e] = n}

TypeOK ==
    /\ \E n \in 0..MaxNodeSlots : nodePayload \in [1..n -> Payload]
    /\ \E e \in 0..MaxEdgeSlots : edgePayload \in [1..e -> Payload]
    /\ ends \in [Direction -> [EdgeSlots -> NodeSlots]]
    /\ liveNodes \subseteq NodeSlots
    /\ liveEdges \subseteq EdgeSlots
    /\ before \in [Direction -> SUBSET (EdgeSlots \X EdgeSlots)]

Init ==
    /\ nodePayload = [n \in 1..0 |-> CHOOSE p \in Payload : TRUE]
    /\ edgePayload = [e \in 1..0 |-> CHOOSE p \in Payload : TRUE]
    /\ ends = [d \in Direction |-> [e \in 1..0 |-> 1]]
    /\ liveNodes = {} /\ liveEdges = {}
    /\ before = [d \in Direction |-> {}]
-----------------------------------------------------------------------------
(* f with one slot more, holding v.                                        *)
Grown(f, v) ==
    LET n == Cardinality(DOMAIN f) + 1
    IN  [i \in 1..n |-> IF i = n THEN v ELSE f[i]]

(* The order along d once the edges in S are no longer listed there.       *)
Unlisted(d, S) == {p \in before[d] : p[1] \notin S /\ p[2] \notin S}

AddNode(p) ==
    /\ Cardinality(NodeSlots) < MaxNodeSlots
    /\ nodePayload' = Grown(nodePayload, p)
    /\ liveNodes' = liveNodes \cup {Cardinality(NodeSlots) + 1}
    /\ UNCHANGED <<edgePayload, ends, liveEdges, before>>

(* The new edge is read after the edges its two endpoints already have.    *)
AddEdge(s, t, p) ==
    LET e == Cardinality(EdgeSlots) + 1
        endpoint == [d \in Direction |-> IF d = "out" THEN s ELSE t]
    IN  /\ e <= MaxEdgeSlots
        /\ edgePayload' = Grown(edgePayload, p)
        /\ ends' = [d \in Direction |-> Grown(ends[d], endpoint[d])]
        /\ liveEdges' = liveEdges \cup {e}
        /\ before' = [d \in Direction |->
                         before[d] \cup (At(d, endpoint[d]) \X {e})]
        /\ UNCHANGED <<nodePayload, liveNodes>>

RemoveEdges(S) ==
    /\ liveEdges' = liveEdges \ S
    /\ before' = [d \in Direction |-> Unlisted(d, S)]
    /\ UNCHANGED <<nodePayload, edgePayload, ends>>

RemoveEdge(e) == RemoveEdges({e}) /\ UNCHANGED liveNodes

RemoveNode(n) ==
    /\ RemoveEdges(At("out", n) \cup At("in", n))
    /\ liveNodes' = liveNodes \ {n}

(* Every edge of S, all of them listed by one node, moves to node n and is *)
(* read after the edges already there, in the order it had.                *)
Attach(S, n, d) ==
    /\ ends' = [ends EXCEPT ![d] =
                   [e \in EdgeSlots |-> IF e \in S THEN n ELSE @[e]]]
    /\ before' = [before EXCEPT ![d] =
                     {p \in @ : p[1] \in S <=> p[2] \in S}
                       \cup ((At(d, n) \ S) \X S)]
    /\ UNCHANGED <<nodePayload, edgePayload, liveNodes, liveEdges>>

Redirect(e, n, d) == ends[d][e] # n /\ Attach({e}, n, d)

MoveAdjacency(old, new, d) ==
    old # new /\ At(d, old) # {} /\ Attach(At(d, old), new, d)

SetNodePayload(n, p) ==
    /\ nodePayload' = [nodePayload EXCEPT ![n] = p]
    /\ UNCHANGED <<edgePayload, ends, liveNodes, liveEdges, before>>

SetEdgePayload(e, p) ==
    /\ edgePayload' = [edgePayload EXCEPT ![e] = p]
    /\ UNCHANGED <<nodePayload, ends, liveNodes, liveEdges, before>>

(* The number compaction gives slot s of the live set S, and its inverse.  *)
Rank(S, s) == Cardinality({t \in S : t <= s})
Slot(S, k) == CHOOSE s \in S : Rank(S, s) = k

(* Removed slots disappear; the survivors keep their order, their payload, *)
(* their endpoints and the order in which every node reads them.           *)
Compact ==
    LET nodes == 1..Cardinality(liveNodes)
        edges == 1..Cardinality(liveEdges)
    IN  /\ nodePayload' = [k \in nodes |-> nodePayload[Slot(liveNodes, k)]]
        /\ edgePayload' = [k \in edges |-> edgePayload[Slot(liveEdges, k)]]
        /\ ends' = [d \in Direction |-> [k \in edges |->
                       Rank(liveNodes, ends[d][Slot(liveEdges, k)])]]
        /\ liveNodes' = nodes
        /\ liveEdges' = edges
        /\ before' = [d \in Direction |->
                         {p \in edges \X edges :
                            <<Slot(liveEdges, p[1]), Slot(liveEdges, p[2])>>
                              \in before[d]}]

Next ==
    \/ \E p \in Payload : AddNode(p)
    \/ \E s, t \in liveNodes, p \in Payload : AddEdge(s, t, p)
    \/ \E e \in liveEdges : RemoveEdge(e)
    \/ \E n \in liveNodes : RemoveNode(n)
    \/ \E e \in liveEdges, n \in liveNodes, d \in Direction : Redirect(e, n, d)
    \/ \E old, new \in liveNodes, d \in Direction : MoveAdjacency(old, new, d)
    \/ \E n \in NodeSlots, p \in Payload : SetNodePayload(n, p)
    \/ \E e \in EdgeSlots, p \in Payload : SetEdgePayload(e, p)
    \/ Compact

Spec == Init /\ [][Next]_vars
-----------------------------------------------------------------------------
(* Removing a node removes its edges, so a live edge joins two live nodes; *)
(* compaction's remap_endpoint asserts it.                                 *)
LiveEndpoints ==
    \A e \in liveEdges, d \in Direction : ends[d][e] \in liveNodes

(* The order relates exactly the pairs of distinct live edges that one     *)
(* node lists, and is a strict total order on each node's edges: every     *)
(* walk of a node's adjacency has one well defined answer.                 *)
AdjacencyOrder ==
    \A d \in Direction :
      /\ \A e, f \in EdgeSlots :
            <<e, f>> \in before[d]
              => /\ e \in liveEdges /\ f \in liveEdges
                 /\ ends[d][e] = ends[d][f]
                 /\ <<f, e>> \notin before[d]
      /\ \A e, f \in liveEdges :
            e # f /\ ends[d][e] = ends[d][f]
              => <<e, f>> \in before[d] \/ <<f, e>> \in before[d]
      /\ \A e, f, g \in liveEdges :
            <<e, f>> \in before[d] /\ <<f, g>> \in before[d]
              => <<e, g>> \in before[d]

(* Every walk has one answer, and none leads to a removed node.            *)
AdjacencySound == LiveEndpoints /\ AdjacencyOrder

(* The order two edges of a node are read in never changes while both stay *)
(* on one node, whatever happens to other edges and wherever both of them  *)
(* move: only compaction touches it, and only to renumber.                 *)
OrderStable ==
    [][\/ Compact
       \/ \A d \in Direction : \A e, f \in liveEdges :
             /\ <<e, f>> \in before[d]
             /\ e \in liveEdges' /\ f \in liveEdges'
             /\ ends'[d][e] = ends'[d][f]
             => <<e, f>> \in before'[d]]_vars
=============================================================================

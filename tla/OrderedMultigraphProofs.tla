---------------------- MODULE OrderedMultigraphProofs ----------------------
(***************************************************************************)
(* For every payload set and every slot bound: removing nodes, redirecting *)
(* edges and compacting never leave a live edge on a removed node, and the *)
(* order in which a node reads its edges stays a strict total order.       *)
(***************************************************************************)
EXTENDS OrderedMultigraph, FiniteSetTheorems, TLAPS

(* Slot spaces are initial intervals of the naturals.                      *)
LEMMA SlotSpaces ==
    ASSUME TypeOK
    PROVE  /\ Cardinality(NodeSlots) \in 0..MaxNodeSlots
           /\ NodeSlots = 1..Cardinality(NodeSlots)
           /\ Cardinality(EdgeSlots) \in 0..MaxEdgeSlots
           /\ EdgeSlots = 1..Cardinality(EdgeSlots)
           /\ IsFiniteSet(liveNodes) /\ liveNodes \subseteq Int
           /\ IsFiniteSet(liveEdges) /\ liveEdges \subseteq Int
<1>1. PICK n \in 0..MaxNodeSlots : nodePayload \in [1..n -> Payload]
  BY DEF TypeOK
<1>2. PICK e \in 0..MaxEdgeSlots : edgePayload \in [1..e -> Payload]
  BY DEF TypeOK
<1>3. n \in Nat /\ e \in Nat
  BY SlotAssumption
<1>4. NodeSlots = 1..n /\ EdgeSlots = 1..e
  BY <1>1, <1>2 DEF NodeSlots, EdgeSlots
<1>5. /\ IsFiniteSet(1..n) /\ Cardinality(1..n) = n
      /\ IsFiniteSet(1..e) /\ Cardinality(1..e) = e
  BY <1>3, FS_Interval
<1>6. liveNodes \subseteq 1..n /\ liveEdges \subseteq 1..e
  BY <1>4 DEF TypeOK
<1>7. IsFiniteSet(liveNodes) /\ IsFiniteSet(liveEdges)
  BY <1>5, <1>6, FS_Subset
<1> QED
  BY <1>3, <1>4, <1>5, <1>6, <1>7

(* Compaction's numbering of a finite set of slots is a strictly           *)
(* increasing bijection onto 1..Cardinality, and Slot is its inverse.      *)
LEMMA RankBijection ==
    ASSUME NEW S, S \subseteq Int, IsFiniteSet(S)
    PROVE  /\ Cardinality(S) \in Nat
           /\ \A s \in S : Rank(S, s) \in 1..Cardinality(S)
           /\ \A s, t \in S : s < t => Rank(S, s) < Rank(S, t)
           /\ \A s, t \in S : Rank(S, s) = Rank(S, t) => s = t
           /\ \A k \in 1..Cardinality(S) :
                 Slot(S, k) \in S /\ Rank(S, Slot(S, k)) = k
           /\ \A s \in S : Slot(S, Rank(S, s)) = s
<1> DEFINE below(s) == {t \in S : t <= s}
           rank == [s \in S |-> Rank(S, s)]
<1>1. Cardinality(S) \in Nat
  BY FS_CardinalityType
<1>2. \A s \in S : IsFiniteSet(below(s)) /\ Cardinality(below(s)) <= Cardinality(S)
  <2> TAKE s \in S
  <2>1. below(s) \in SUBSET S
    OBVIOUS
  <2> QED BY <2>1, FS_Subset
<1>3. \A s \in S : Cardinality(below(s)) \in Nat /\ Cardinality(below(s)) # 0
  <2> TAKE s \in S
  <2>1. IsFiniteSet(below(s)) /\ s \in below(s)
    BY <1>2
  <2>2. Cardinality(below(s)) \in Nat
    BY <2>1, FS_CardinalityType
  <2>3. Cardinality(below(s)) # 0
    BY <2>1, FS_EmptySet
  <2> QED BY <2>2, <2>3
<1>4. \A s \in S : Rank(S, s) \in 1..Cardinality(S)
  BY <1>1, <1>2, <1>3 DEF Rank
<1>5. ASSUME NEW s \in S, NEW t \in S, s < t
      PROVE  Rank(S, s) < Rank(S, t)
  <2>0. s \in Int /\ t \in Int /\ \A u \in S : u \in Int
    OBVIOUS
  <2>1. /\ \A u \in S : u <= s => u <= t
        /\ ~(t <= s) /\ t <= t
    BY <1>5, <2>0
  <2>a. below(s) \in SUBSET below(t) /\ t \in below(t) /\ t \notin below(s)
    BY <2>1
  <2>2. IsFiniteSet(below(s)) /\ IsFiniteSet(below(t))
    BY <1>2
  <2>3. Cardinality(below(s)) <= Cardinality(below(t))
    BY <2>a, <2>2, FS_Subset
  <2>4. Cardinality(below(s)) # Cardinality(below(t))
    BY <2>a, <2>2, FS_Subset
  <2>5. Cardinality(below(s)) \in Nat /\ Cardinality(below(t)) \in Nat
    BY <1>3
  <2> QED BY <2>3, <2>4, <2>5 DEF Rank
<1>6. ASSUME NEW s \in S, NEW t \in S, Rank(S, s) = Rank(S, t)
      PROVE  s = t
  <2>1. s \in Int /\ t \in Int
    OBVIOUS
  <2>2. Rank(S, s) \in Int /\ Rank(S, t) \in Int
    BY <1>1, <1>4
  <2>3. ~(s < t) /\ ~(t < s)
    BY <1>5, <1>6, <2>2
  <2> QED BY <2>1, <2>3
<1>7. rank \in Injection(S, 1..Cardinality(S))
  <2>1. rank \in [S -> 1..Cardinality(S)]
    BY <1>4
  <2>2. \A a, b \in S : rank[a] = rank[b] => a = b
    BY <1>6
  <2> QED BY <2>1, <2>2 DEF Injection, IsInjective
<1>8. rank \in Surjection(S, 1..Cardinality(S))
  <2>1. IsFiniteSet(1..Cardinality(S)) /\ Cardinality(1..Cardinality(S)) = Cardinality(S)
    BY <1>1, FS_Interval
  <2> HIDE DEF rank
  <2> QED BY <1>7, <2>1, FS_Injection
<1>9. \A k \in 1..Cardinality(S) : \E s \in S : Rank(S, s) = k
  <2>1. \A k \in 1..Cardinality(S) : \E s \in S : rank[s] = k
    <3> HIDE DEF rank
    <3> QED BY <1>8 DEF Surjection
  <2> QED BY <2>1
<1>10. \A k \in 1..Cardinality(S) : Slot(S, k) \in S /\ Rank(S, Slot(S, k)) = k
  BY <1>9 DEF Slot
<1>11. \A s \in S : Slot(S, Rank(S, s)) = s
  BY <1>4, <1>6, <1>10
<1> QED
  BY <1>1, <1>4, <1>5, <1>6, <1>10, <1>11

(* Growing a slot space by one.                                            *)
LEMMA GrownSlots ==
    ASSUME NEW T, NEW n \in Nat, NEW f \in [1..n -> T], NEW v \in T
    PROVE  /\ Grown(f, v) \in [1..(n+1) -> T]
           /\ DOMAIN Grown(f, v) = 1..(n+1)
           /\ Grown(f, v)[n+1] = v
           /\ \A i \in 1..n : Grown(f, v)[i] = f[i]
<1>1. DOMAIN f = 1..n /\ Cardinality(DOMAIN f) = n
  BY FS_Interval
<1>2. Grown(f, v) = [i \in 1..(n+1) |-> IF i = n+1 THEN v ELSE f[i]]
  BY <1>1 DEF Grown
<1> QED
  BY <1>2

Inv == TypeOK /\ LiveEndpoints /\ AdjacencyOrder

LEMMA InitInv == Init => Inv
<1> SUFFICES ASSUME Init PROVE Inv
  OBVIOUS
<1>1. 1..0 = {}
  OBVIOUS
<1>2. nodePayload \in [1..0 -> Payload] /\ edgePayload \in [1..0 -> Payload]
  BY <1>1 DEF Init
<1>3. 0 \in 0..MaxNodeSlots /\ 0 \in 0..MaxEdgeSlots
  BY SlotAssumption
<1>4. NodeSlots = {} /\ EdgeSlots = {}
  BY <1>1, <1>2 DEF NodeSlots, EdgeSlots
<1>5. TypeOK
  <2>1. ends \in [Direction -> [EdgeSlots -> NodeSlots]]
    BY <1>1, <1>4 DEF Init
  <2>2. before \in [Direction -> SUBSET (EdgeSlots \X EdgeSlots)]
    BY DEF Init
  <2> QED BY <1>2, <1>3, <2>1, <2>2 DEF TypeOK, Init
<1> QED
  BY <1>5 DEF Inv, LiveEndpoints, AdjacencyOrder, Init

LEMMA AddNodeInv ==
    ASSUME Inv, NEW p \in Payload, AddNode(p)
    PROVE  Inv'
<1> DEFINE n == Cardinality(NodeSlots)
<1>1. n \in Nat /\ NodeSlots = 1..n /\ n + 1 \in 0..MaxNodeSlots
  BY SlotSpaces, SlotAssumption DEF Inv, AddNode
<1>2. nodePayload \in [1..n -> Payload]
  BY <1>1 DEF Inv, TypeOK, NodeSlots
<1>3. nodePayload' \in [1..(n+1) -> Payload] /\ NodeSlots' = 1..(n+1)
  <2> HIDE DEF n
  <2>1. Grown(nodePayload, p) \in [1..(n+1) -> Payload]
    BY <1>1, <1>2, GrownSlots
  <2> QED BY <2>1 DEF AddNode, NodeSlots
<1>4. NodeSlots \subseteq NodeSlots' /\ EdgeSlots' = EdgeSlots /\ n + 1 \in NodeSlots'
  BY <1>1, <1>3 DEF AddNode, EdgeSlots
<1>5. TypeOK'
  <2>1. \E k \in 0..MaxNodeSlots : nodePayload' \in [1..k -> Payload]
    BY <1>1, <1>3
  <2>2. \E e \in 0..MaxEdgeSlots : edgePayload' \in [1..e -> Payload]
    BY DEF Inv, TypeOK, AddNode
  <2>3. ends' \in [Direction -> [EdgeSlots' -> NodeSlots']]
    <3>1. ends' = ends /\ ends \in [Direction -> [EdgeSlots -> NodeSlots]]
      BY DEF Inv, TypeOK, AddNode
    <3>2. [EdgeSlots -> NodeSlots] \subseteq [EdgeSlots -> NodeSlots']
      BY <1>4
    <3> QED BY <3>1, <3>2, <1>4
  <2>4. liveNodes' \subseteq NodeSlots'
    BY <1>4 DEF Inv, TypeOK, AddNode
  <2>5. liveEdges' \subseteq EdgeSlots' /\ before' \in [Direction -> SUBSET (EdgeSlots' \X EdgeSlots')]
    BY <1>4 DEF Inv, TypeOK, AddNode
  <2> QED BY <2>1, <2>2, <2>3, <2>4, <2>5 DEF TypeOK
<1>6. LiveEndpoints'
  BY DEF Inv, LiveEndpoints, AddNode
<1>7. AdjacencyOrder'
  BY <1>4 DEF Inv, AdjacencyOrder, AddNode
<1> QED
  BY <1>5, <1>6, <1>7 DEF Inv

(* A pair of the order is a pair of live edges of one node.                *)
LEMMA PairsAreOrdered ==
    ASSUME Inv, NEW d \in Direction, NEW f, NEW g, <<f, g>> \in before[d]
    PROVE  /\ f \in liveEdges /\ g \in liveEdges /\ ends[d][f] = ends[d][g]
           /\ <<g, f>> \notin before[d]
<1>1. before[d] \in SUBSET (EdgeSlots \X EdgeSlots)
  BY DEF Inv, TypeOK
<1>2. f \in EdgeSlots /\ g \in EdgeSlots
  BY <1>1
<1> QED
  BY <1>2 DEF Inv, AdjacencyOrder

LEMMA AddEdgeInv ==
    ASSUME Inv, NEW s \in liveNodes, NEW t \in liveNodes, NEW p \in Payload,
           AddEdge(s, t, p)
    PROVE  Inv'
<1> DEFINE m == Cardinality(EdgeSlots)
           e == m + 1
           endpoint == [d \in Direction |-> IF d = "out" THEN s ELSE t]
<1>1. m \in Nat /\ EdgeSlots = 1..m /\ e \in 0..MaxEdgeSlots
  BY SlotSpaces, SlotAssumption DEF Inv, AddEdge
<1>2. edgePayload' \in [1..e -> Payload] /\ EdgeSlots' = 1..e
  <2>1. edgePayload \in [1..m -> Payload]
    BY <1>1 DEF Inv, TypeOK, EdgeSlots
  <2> HIDE DEF m
  <2>2. Grown(edgePayload, p) \in [1..e -> Payload]
    BY <1>1, <2>1, GrownSlots
  <2> QED BY <2>2 DEF AddEdge, EdgeSlots
<1>3. NodeSlots' = NodeSlots /\ liveNodes' = liveNodes
  BY DEF AddEdge, NodeSlots
<1>4. \A d \in Direction : endpoint[d] \in liveNodes /\ endpoint[d] \in NodeSlots
  BY DEF Inv, TypeOK
<1>5. ASSUME NEW d \in Direction
      PROVE  /\ ends'[d] \in [1..e -> NodeSlots]
             /\ ends'[d][e] = endpoint[d]
             /\ \A i \in 1..m : ends'[d][i] = ends[d][i]
  <2>1. ends[d] \in [1..m -> NodeSlots]
    BY <1>1 DEF Inv, TypeOK
  <2>2. ends'[d] = Grown(ends[d], endpoint[d])
    BY DEF AddEdge
  <2>3. endpoint[d] \in NodeSlots
    BY <1>4
  <2> DEFINE f == ends[d]
             v == endpoint[d]
  <2>f. f \in [1..m -> NodeSlots] /\ v \in NodeSlots /\ m \in Nat
    BY <1>1, <2>1, <2>3
  <2> HIDE DEF m, endpoint, f, v
  <2>g. /\ Grown(f, v) \in [1..(m+1) -> NodeSlots]
        /\ Grown(f, v)[m+1] = v
        /\ \A i \in 1..m : Grown(f, v)[i] = f[i]
    <3>1. DOMAIN f = 1..m /\ Cardinality(DOMAIN f) = m
      BY <2>f, FS_Interval
    <3>2. Grown(f, v) = [i \in 1..(m+1) |-> IF i = m+1 THEN v ELSE f[i]]
      BY <3>1 DEF Grown
    <3> QED BY <2>f, <3>2
  <2>4. /\ Grown(ends[d], endpoint[d]) \in [1..(m+1) -> NodeSlots]
        /\ Grown(ends[d], endpoint[d])[m+1] = endpoint[d]
        /\ \A i \in 1..m : Grown(ends[d], endpoint[d])[i] = ends[d][i]
    BY <2>g DEF f, v
  <2> QED BY <2>2, <2>4
<1>6. liveEdges' = liveEdges \cup {e}
  BY DEF AddEdge
<1>7. liveEdges \subseteq 1..m /\ e \notin 1..m /\ 1..m \subseteq 1..e /\ e \in 1..e
  BY <1>1 DEF Inv, TypeOK
<1>8. \A d \in Direction : before'[d] = before[d] \cup (At(d, endpoint[d]) \X {e})
  BY DEF AddEdge
<1> HIDE DEF m, e, endpoint
<1>9. \A d \in Direction : before[d] \subseteq (1..m) \X (1..m)
  BY <1>1 DEF Inv, TypeOK
<1>10. \A d \in Direction : At(d, endpoint[d]) \subseteq liveEdges
  BY DEF At
<1>11. TypeOK'
  <2>1. \E k \in 0..MaxEdgeSlots : edgePayload' \in [1..k -> Payload]
    BY <1>1, <1>2
  <2>2. \E k \in 0..MaxNodeSlots : nodePayload' \in [1..k -> Payload]
    BY DEF Inv, TypeOK, AddEdge
  <2>3. ends' \in [Direction -> [EdgeSlots' -> NodeSlots']]
    <3>1. ends' = [d \in Direction |-> ends'[d]]
      BY DEF AddEdge
    <3> QED BY <3>1, <1>2, <1>3, <1>5
  <2>4. liveNodes' \subseteq NodeSlots' /\ liveEdges' \subseteq EdgeSlots'
    BY <1>2, <1>3, <1>6, <1>7 DEF Inv, TypeOK
  <2>5. before' \in [Direction -> SUBSET (EdgeSlots' \X EdgeSlots')]
    <3>1. before' = [d \in Direction |-> before'[d]]
      BY DEF AddEdge
    <3>2. ASSUME NEW d \in Direction
          PROVE  before'[d] \subseteq (1..e) \X (1..e)
      <4>1. before[d] \subseteq (1..e) \X (1..e)
        BY <1>7, <1>9
      <4>2. At(d, endpoint[d]) \X {e} \subseteq (1..e) \X (1..e)
        BY <1>7, <1>10
      <4> QED BY <4>1, <4>2, <1>8
    <3> QED BY <3>1, <3>2, <1>2
  <2> QED BY <2>1, <2>2, <2>3, <2>4, <2>5 DEF TypeOK
<1>12. LiveEndpoints'
  BY <1>3, <1>4, <1>5, <1>6, <1>7 DEF Inv, LiveEndpoints
<1>13. AdjacencyOrder'
  <2> SUFFICES ASSUME NEW d \in Direction
      PROVE /\ \A f, g \in EdgeSlots' : <<f, g>> \in before'[d]
                  => /\ f \in liveEdges' /\ g \in liveEdges'
                     /\ ends'[d][f] = ends'[d][g]
                     /\ <<g, f>> \notin before'[d]
            /\ \A f, g \in liveEdges' : f # g /\ ends'[d][f] = ends'[d][g]
                  => <<f, g>> \in before'[d] \/ <<g, f>> \in before'[d]
            /\ \A f, g, h \in liveEdges' :
                  <<f, g>> \in before'[d] /\ <<g, h>> \in before'[d]
                    => <<f, h>> \in before'[d]
    BY DEF AdjacencyOrder
  <2>2. \A f, g : <<f, g>> \in before'[d] <=>
              \/ <<f, g>> \in before[d]
              \/ f \in liveEdges /\ ends[d][f] = endpoint[d] /\ g = e
    BY <1>8 DEF At
  <2>4. \A f \in liveEdges : ends'[d][f] = ends[d][f] /\ f # e
    BY <1>5, <1>7
  <2>5. ends'[d][e] = endpoint[d]
    BY <1>5
  <2>6. ASSUME NEW f, NEW g, <<f, g>> \in before[d]
        PROVE  /\ f \in liveEdges /\ g \in liveEdges /\ ends[d][f] = ends[d][g]
               /\ <<g, f>> \notin before[d]
    BY <2>6, PairsAreOrdered
  <2>7. ASSUME NEW f \in EdgeSlots', NEW g \in EdgeSlots', <<f, g>> \in before'[d]
        PROVE  /\ f \in liveEdges' /\ g \in liveEdges'
               /\ ends'[d][f] = ends'[d][g]
               /\ <<g, f>> \notin before'[d]
    BY <2>7, <2>2, <2>4, <2>5, <2>6, <1>6
  <2>8. ASSUME NEW f \in liveEdges', NEW g \in liveEdges',
               f # g, ends'[d][f] = ends'[d][g]
        PROVE  <<f, g>> \in before'[d] \/ <<g, f>> \in before'[d]
    BY <2>8, <2>2, <2>4, <2>5, <1>6 DEF Inv, AdjacencyOrder
  <2>9. ASSUME NEW f \in liveEdges', NEW g \in liveEdges', NEW h \in liveEdges',
               <<f, g>> \in before'[d], <<g, h>> \in before'[d]
        PROVE  <<f, h>> \in before'[d]
    <3>1. g # e
      BY <2>9, <2>2, <2>4, <2>6
    <3>2. <<f, g>> \in before[d]
      BY <2>9, <2>2, <3>1
    <3>3. f \in liveEdges /\ g \in liveEdges /\ ends[d][f] = ends[d][g]
      BY <3>2, <2>6
    <3>4. CASE <<g, h>> \in before[d]
      <4>1. h \in liveEdges
        BY <3>4, <2>6
      <4> QED BY <3>2, <3>3, <3>4, <4>1, <2>2 DEF Inv, AdjacencyOrder
    <3>5. CASE ends[d][g] = endpoint[d] /\ h = e
      BY <3>3, <3>5, <2>2
    <3> QED BY <3>4, <3>5, <2>2, <2>9
  <2> QED BY <2>7, <2>8, <2>9
<1> QED
  BY <1>11, <1>12, <1>13 DEF Inv

(* Unlisting a set of edges keeps the order of the others, whether or not  *)
(* nodes are removed with them, as long as no other edge loses its node.   *)
LEMMA RemoveEdgesInv ==
    ASSUME Inv, NEW S, RemoveEdges(S), liveNodes' \subseteq liveNodes,
           \A e \in liveEdges \ S, d \in Direction : ends[d][e] \in liveNodes'
    PROVE  Inv'
<1>1. NodeSlots' = NodeSlots /\ EdgeSlots' = EdgeSlots
  BY DEF RemoveEdges, NodeSlots, EdgeSlots
<1>2. \A d \in Direction : before'[d] = {q \in before[d] : q[1] \notin S /\ q[2] \notin S}
  BY DEF RemoveEdges, Unlisted
<1>3. before' = [d \in Direction |-> before'[d]]
  BY DEF RemoveEdges
<1>4. \A d \in Direction : before[d] \in SUBSET (EdgeSlots \X EdgeSlots)
  BY DEF Inv, TypeOK
<1>5. before' \in [Direction -> SUBSET (EdgeSlots' \X EdgeSlots')]
  BY <1>1, <1>2, <1>3, <1>4
<1>6. TypeOK'
  BY <1>1, <1>5 DEF Inv, TypeOK, RemoveEdges
<1>7. LiveEndpoints'
  BY DEF LiveEndpoints, RemoveEdges
<1>8. AdjacencyOrder'
  <2>1. \A d \in Direction : \A f, g : <<f, g>> \in before'[d] <=>
            <<f, g>> \in before[d] /\ f \notin S /\ g \notin S
    BY <1>2
  <2>3. liveEdges' = liveEdges \ S /\ ends' = ends
    BY DEF RemoveEdges
  <2> QED BY <1>1, <2>1, <2>3 DEF Inv, AdjacencyOrder
<1> QED
  BY <1>6, <1>7, <1>8 DEF Inv

LEMMA RemoveEdgeInv ==
    ASSUME Inv, NEW e \in liveEdges, RemoveEdge(e)
    PROVE  Inv'
<1>1. RemoveEdges({e}) /\ liveNodes' = liveNodes
  BY DEF RemoveEdge
<1> QED
  BY <1>1, RemoveEdgesInv DEF Inv, LiveEndpoints

LEMMA RemoveNodeInv ==
    ASSUME Inv, NEW n \in liveNodes, RemoveNode(n)
    PROVE  Inv'
<1> DEFINE S == At("out", n) \cup At("in", n)
<1>1. RemoveEdges(S) /\ liveNodes' = liveNodes \ {n}
  BY DEF RemoveNode
<1>2. \A e \in liveEdges \ S, d \in Direction : ends[d][e] # n
  BY DEF At, Direction
<1>3. \A e \in liveEdges \ S, d \in Direction : ends[d][e] \in liveNodes'
  BY <1>1, <1>2 DEF Inv, LiveEndpoints
<1> HIDE DEF S
<1> QED
  BY <1>1, <1>3, RemoveEdgesInv

(* Moving edges of one node to another: the moved block follows the edges  *)
(* already there.                                                          *)
LEMMA AttachInv ==
    ASSUME Inv, NEW d \in Direction, NEW n \in liveNodes, NEW old,
           NEW S, S \subseteq At(d, old), old # n, Attach(S, n, d)
    PROVE  Inv'
<1>1. NodeSlots' = NodeSlots /\ EdgeSlots' = EdgeSlots
      /\ liveEdges' = liveEdges /\ liveNodes' = liveNodes
  BY DEF Attach, NodeSlots, EdgeSlots
<1>2. n \in NodeSlots /\ \A c \in Direction : ends[c] \in [EdgeSlots -> NodeSlots]
  BY DEF Inv, TypeOK
<1>3. \A c \in Direction :
         ends'[c] = [e \in EdgeSlots |-> IF c = d /\ e \in S THEN n ELSE ends[c][e]]
  BY <1>2 DEF Attach, Inv, TypeOK
<1>4. ends' \in [Direction -> [EdgeSlots' -> NodeSlots']]
  <2>1. ends' = [c \in Direction |-> ends'[c]]
    BY DEF Attach, Inv, TypeOK
  <2>2. ASSUME NEW c \in Direction
        PROVE  ends'[c] \in [EdgeSlots -> NodeSlots]
    <3>1. \A e \in EdgeSlots : ends[c][e] \in NodeSlots
      BY <1>2
    <3>2. ends'[c] = [e \in EdgeSlots |-> IF c = d /\ e \in S THEN n ELSE ends[c][e]]
      BY <1>3
    <3> QED BY <3>1, <3>2, <1>2
  <2> QED BY <2>1, <2>2, <1>1
<1>5. liveEdges \subseteq EdgeSlots /\ S \subseteq liveEdges
      /\ \A e \in S : ends[d][e] = old
  BY DEF Inv, TypeOK, At
<1>6. \A c \in Direction \ {d} : before'[c] = before[c]
  BY DEF Attach, Inv, TypeOK
<1>7. before'[d] = {p \in before[d] : p[1] \in S <=> p[2] \in S}
                     \cup ((At(d, n) \ S) \X S)
  BY DEF Attach, Inv, TypeOK
<1>8. \A f, g : <<f, g>> \in before'[d] <=>
          \/ <<f, g>> \in before[d] /\ (f \in S <=> g \in S)
          \/ f \in liveEdges /\ ends[d][f] = n /\ f \notin S /\ g \in S
  BY <1>7 DEF At
<1>9. before' \in [Direction -> SUBSET (EdgeSlots' \X EdgeSlots')]
  <2>1. before' = [c \in Direction |-> before'[c]]
    BY DEF Attach, Inv, TypeOK
  <2>2. \A c \in Direction : before[c] \in SUBSET (EdgeSlots \X EdgeSlots)
    BY DEF Inv, TypeOK
  <2>3. (At(d, n) \ S) \X S \subseteq EdgeSlots \X EdgeSlots
    BY <1>5 DEF At
  <2>4. \A c \in Direction : before'[c] \in SUBSET (EdgeSlots \X EdgeSlots)
    BY <1>6, <1>7, <2>2, <2>3
  <2> QED BY <2>1, <2>4, <1>1
<1>10. TypeOK'
  BY <1>1, <1>4, <1>9 DEF Inv, TypeOK, Attach
<1>11. LiveEndpoints'
  <2> SUFFICES ASSUME NEW e \in liveEdges, NEW c \in Direction
               PROVE  ends'[c][e] \in liveNodes
    BY <1>1 DEF LiveEndpoints
  <2>1. e \in EdgeSlots /\ ends[c][e] \in liveNodes
    BY <1>5 DEF Inv, LiveEndpoints
  <2>2. ends'[c][e] = IF c = d /\ e \in S THEN n ELSE ends[c][e]
    BY ZenonT(40), <1>3, <2>1
  <2> QED BY <2>1, <2>2
<1>12. ASSUME NEW c \in Direction
       PROVE /\ \A f, g \in EdgeSlots : <<f, g>> \in before'[c]
                   => /\ f \in liveEdges /\ g \in liveEdges
                      /\ ends'[c][f] = ends'[c][g]
                      /\ <<g, f>> \notin before'[c]
             /\ \A f, g \in liveEdges : f # g /\ ends'[c][f] = ends'[c][g]
                   => <<f, g>> \in before'[c] \/ <<g, f>> \in before'[c]
             /\ \A f, g, h \in liveEdges :
                   <<f, g>> \in before'[c] /\ <<g, h>> \in before'[c]
                     => <<f, h>> \in before'[c]
  <2>1. CASE c # d
    <3>1. before'[c] = before[c] /\ ends'[c] = ends[c]
      BY <2>1, <1>2, <1>3, <1>6
    <3> QED BY <3>1 DEF Inv, AdjacencyOrder
  <2>2. CASE c = d
    <3>1. \A e \in liveEdges : ends'[d][e] = IF e \in S THEN n ELSE ends[d][e]
      BY <1>3, <1>5
    <3>2. ASSUME NEW f, NEW g, <<f, g>> \in before[d]
          PROVE  /\ f \in liveEdges /\ g \in liveEdges /\ ends[d][f] = ends[d][g]
                 /\ <<g, f>> \notin before[d]
      BY <3>2, PairsAreOrdered
    <3>3. ASSUME NEW f, NEW g, <<f, g>> \in before'[d]
          PROVE  /\ f \in liveEdges /\ g \in liveEdges
                 /\ ends'[d][f] = ends'[d][g] /\ <<g, f>> \notin before'[d]
      BY <3>1, <3>2, <3>3, <1>5, <1>8
    <3>4. ASSUME NEW f \in liveEdges, NEW g \in liveEdges,
                 f # g, ends'[d][f] = ends'[d][g]
          PROVE  <<f, g>> \in before'[d] \/ <<g, f>> \in before'[d]
      <4>1. CASE f \in S <=> g \in S
        <5>1. ends[d][f] = ends[d][g]
          BY <4>1, <3>1, <3>4, <1>5
        <5> QED BY <4>1, <5>1, <3>4, <1>8 DEF Inv, AdjacencyOrder
      <4>2. CASE f \in S /\ g \notin S
        BY <4>2, <3>1, <3>4, <1>8
      <4>3. CASE f \notin S /\ g \in S
        BY <4>3, <3>1, <3>4, <1>8
      <4> QED BY <4>1, <4>2, <4>3
    <3>5. ASSUME NEW f \in liveEdges, NEW g \in liveEdges, NEW h \in liveEdges,
                 <<f, g>> \in before'[d], <<g, h>> \in before'[d]
          PROVE  <<f, h>> \in before'[d]
      <4>1. CASE <<f, g>> \in before[d] /\ <<g, h>> \in before[d]
        <5>1. <<f, h>> \in before[d]
          BY <4>1, <3>5 DEF Inv, AdjacencyOrder
        <5>2. (f \in S <=> g \in S) /\ (g \in S <=> h \in S)
          <6>1. ends[d][f] = ends[d][g] /\ ends[d][g] = ends[d][h]
            BY <4>1, <3>2
          <6>2. f \in S <=> g \in S
            BY <6>1, <3>5, <1>5, <1>8
          <6>3. g \in S <=> h \in S
            BY <6>1, <3>5, <1>5, <1>8
          <6> QED BY <6>2, <6>3
        <5> QED BY <5>1, <5>2, <1>8
      <4>2. CASE <<f, g>> \notin before[d]
        <5>1. ends[d][f] = n /\ f \notin S /\ g \in S
          BY <4>2, <3>5, <1>8
        <5>2. h \in S
          BY <5>1, <3>5, <1>8
        <5> QED BY <5>1, <5>2, <1>8
      <4>3. CASE <<g, h>> \notin before[d]
        <5>1. ends[d][g] = n /\ g \notin S /\ h \in S
          BY <4>3, <3>5, <1>8
        <5>2. <<f, g>> \in before[d] /\ f \notin S
          BY <5>1, <3>5, <1>8
        <5>3. ends[d][f] = n
          BY <5>1, <5>2, <3>2
        <5> QED BY <5>1, <5>2, <5>3, <1>8
      <4> QED BY <4>1, <4>2, <4>3
    <3> QED BY <2>2, <3>3, <3>4, <3>5
  <2> QED BY <2>1, <2>2
<1>13. AdjacencyOrder'
  BY <1>1, <1>12 DEF AdjacencyOrder
<1> QED
  BY <1>10, <1>11, <1>13 DEF Inv

LEMMA RedirectInv ==
    ASSUME Inv, NEW e \in liveEdges, NEW n \in liveNodes, NEW d \in Direction,
           Redirect(e, n, d)
    PROVE  Inv'
<1>1. {e} \subseteq At(d, ends[d][e]) /\ ends[d][e] # n /\ Attach({e}, n, d)
  BY DEF Redirect, At
<1> QED
  BY <1>1, AttachInv

LEMMA MoveAdjacencyInv ==
    ASSUME Inv, NEW old \in liveNodes, NEW new \in liveNodes, NEW d \in Direction,
           MoveAdjacency(old, new, d)
    PROVE  Inv'
<1>1. old # new /\ Attach(At(d, old), new, d)
  BY DEF MoveAdjacency
<1> QED
  BY <1>1, AttachInv

LEMMA SetPayloadInv ==
    ASSUME Inv, NEW p \in Payload,
           \/ \E n \in NodeSlots : SetNodePayload(n, p)
           \/ \E e \in EdgeSlots : SetEdgePayload(e, p)
    PROVE  Inv'
<1>1. PICK i \in 0..MaxNodeSlots : nodePayload \in [1..i -> Payload]
  BY DEF Inv, TypeOK
<1>2. PICK j \in 0..MaxEdgeSlots : edgePayload \in [1..j -> Payload]
  BY DEF Inv, TypeOK
<1>3. nodePayload' \in [1..i -> Payload] /\ edgePayload' \in [1..j -> Payload]
  BY <1>1, <1>2 DEF SetNodePayload, SetEdgePayload
<1>4. NodeSlots' = NodeSlots /\ EdgeSlots' = EdgeSlots
  BY <1>1, <1>2, <1>3 DEF NodeSlots, EdgeSlots
<1>5. UNCHANGED <<ends, liveNodes, liveEdges, before>>
  BY DEF SetNodePayload, SetEdgePayload
<1>6. TypeOK'
  BY <1>3, <1>4, <1>5 DEF Inv, TypeOK
<1> QED
  BY <1>4, <1>5, <1>6 DEF Inv, LiveEndpoints, AdjacencyOrder

LEMMA CompactInv ==
    ASSUME Inv, Compact
    PROVE  Inv'
<1> DEFINE N == Cardinality(liveNodes)
           E == Cardinality(liveEdges)
           node(s) == Rank(liveNodes, s)
           old(k) == Slot(liveEdges, k)
<1>1. /\ N \in Nat
      /\ \A s \in liveNodes : node(s) \in 1..N
      /\ \A s, t \in liveNodes : node(s) = node(t) => s = t
      /\ \A k \in 1..N : Slot(liveNodes, k) \in liveNodes
  BY SlotSpaces, RankBijection DEF Inv
<1>2. /\ E \in Nat
      /\ \A k \in 1..E : old(k) \in liveEdges
      /\ \A j, k \in 1..E : old(j) = old(k) => j = k
  BY SlotSpaces, RankBijection DEF Inv
<1>3. N <= MaxNodeSlots /\ E <= MaxEdgeSlots
  <2>1. IsFiniteSet(NodeSlots) /\ Cardinality(NodeSlots) <= MaxNodeSlots
    BY SlotSpaces, SlotAssumption, FS_Interval DEF Inv
  <2>2. IsFiniteSet(EdgeSlots) /\ Cardinality(EdgeSlots) <= MaxEdgeSlots
    BY SlotSpaces, SlotAssumption, FS_Interval DEF Inv
  <2>3. N <= Cardinality(NodeSlots) /\ E <= Cardinality(EdgeSlots)
    BY <2>1, <2>2, FS_Subset DEF Inv, TypeOK
  <2>4. Cardinality(NodeSlots) \in Nat /\ Cardinality(EdgeSlots) \in Nat
    BY <2>1, <2>2, FS_CardinalityType
  <2> QED BY <1>1, <1>2, <2>1, <2>2, <2>3, <2>4, SlotAssumption
<1>4. /\ nodePayload' = [k \in 1..N |-> nodePayload[Slot(liveNodes, k)]]
      /\ edgePayload' = [k \in 1..E |-> edgePayload[old(k)]]
      /\ liveNodes' = 1..N /\ liveEdges' = 1..E
      /\ ends' = [d \in Direction |-> [k \in 1..E |-> node(ends[d][old(k)])]]
      /\ before' = [d \in Direction |->
              {p \in (1..E) \X (1..E) : <<old(p[1]), old(p[2])>> \in before[d]}]
  BY DEF Compact
<1> HIDE DEF N, E, node, old
<1>5. nodePayload' \in [1..N -> Payload] /\ edgePayload' \in [1..E -> Payload]
  <2>1. \A s \in liveNodes : nodePayload[s] \in Payload
    BY DEF Inv, TypeOK, NodeSlots
  <2>2. \A e \in liveEdges : edgePayload[e] \in Payload
    BY DEF Inv, TypeOK, EdgeSlots
  <2> QED BY <1>1, <1>2, <1>4, <2>1, <2>2
<1>6. NodeSlots' = 1..N /\ EdgeSlots' = 1..E
  BY <1>5 DEF NodeSlots, EdgeSlots
<1>7. \A d \in Direction, k \in 1..E :
         /\ ends[d][old(k)] \in liveNodes
         /\ ends'[d][k] = node(ends[d][old(k)])
         /\ ends'[d][k] \in 1..N
  BY <1>1, <1>2, <1>4 DEF Inv, LiveEndpoints
<1>8. \A d \in Direction : \A j, k \in 1..E :
         <<j, k>> \in before'[d] <=> <<old(j), old(k)>> \in before[d]
  BY <1>4
<1>9. TypeOK'
  <2>1. N \in 0..MaxNodeSlots /\ E \in 0..MaxEdgeSlots
    BY <1>1, <1>2, <1>3, SlotAssumption
  <2>2. ends' \in [Direction -> [1..E -> 1..N]]
    BY <1>4, <1>7
  <2>3. before' \in [Direction -> SUBSET ((1..E) \X (1..E))]
    BY <1>4
  <2> QED BY <1>4, <1>5, <1>6, <2>1, <2>2, <2>3 DEF TypeOK
<1>10. LiveEndpoints'
  BY <1>4, <1>7 DEF LiveEndpoints
<1>11. ASSUME NEW d \in Direction
       PROVE /\ \A f, g \in 1..E : <<f, g>> \in before'[d]
                   => ends'[d][f] = ends'[d][g] /\ <<g, f>> \notin before'[d]
             /\ \A f, g \in 1..E : f # g /\ ends'[d][f] = ends'[d][g]
                   => <<f, g>> \in before'[d] \/ <<g, f>> \in before'[d]
             /\ \A f, g, h \in 1..E :
                   <<f, g>> \in before'[d] /\ <<g, h>> \in before'[d]
                     => <<f, h>> \in before'[d]
  <2>1. ASSUME NEW f \in 1..E, NEW g \in 1..E, <<f, g>> \in before'[d]
        PROVE  ends'[d][f] = ends'[d][g] /\ <<g, f>> \notin before'[d]
    <3>1. <<old(f), old(g)>> \in before[d]
      BY <2>1, <1>8
    <3>2. ends[d][old(f)] = ends[d][old(g)] /\ <<old(g), old(f)>> \notin before[d]
      BY <3>1, PairsAreOrdered
    <3> QED BY <3>2, <1>7, <1>8
  <2>2. ASSUME NEW f \in 1..E, NEW g \in 1..E, f # g, ends'[d][f] = ends'[d][g]
        PROVE  <<f, g>> \in before'[d] \/ <<g, f>> \in before'[d]
    <3>1. old(f) # old(g) /\ old(f) \in liveEdges /\ old(g) \in liveEdges
      BY <2>2, <1>2
    <3>2. ends[d][old(f)] = ends[d][old(g)]
      BY <2>2, <1>1, <1>7
    <3> QED BY <3>1, <3>2, <1>8 DEF Inv, AdjacencyOrder
  <2>3. ASSUME NEW f \in 1..E, NEW g \in 1..E, NEW h \in 1..E,
               <<f, g>> \in before'[d], <<g, h>> \in before'[d]
        PROVE  <<f, h>> \in before'[d]
    BY ZenonT(40), <2>3, <1>2, <1>8 DEF Inv, AdjacencyOrder
  <2> QED BY <2>1, <2>2, <2>3
<1>12. AdjacencyOrder'
  <2>1. liveEdges' = 1..E
    BY <1>4
  <2> QED BY <2>1, <1>6, <1>11 DEF AdjacencyOrder
<1> QED
  BY <1>9, <1>10, <1>12 DEF Inv

LEMMA StepInv == Inv /\ [Next]_vars => Inv'
<1> SUFFICES ASSUME Inv, [Next]_vars PROVE Inv'
  OBVIOUS
<1>1. CASE \E p \in Payload : AddNode(p)
  BY <1>1, AddNodeInv
<1>2. CASE \E s, t \in liveNodes, p \in Payload : AddEdge(s, t, p)
  BY <1>2, AddEdgeInv
<1>3. CASE \E e \in liveEdges : RemoveEdge(e)
  BY <1>3, RemoveEdgeInv
<1>4. CASE \E n \in liveNodes : RemoveNode(n)
  BY <1>4, RemoveNodeInv
<1>5. CASE \E e \in liveEdges, n \in liveNodes, d \in Direction : Redirect(e, n, d)
  BY <1>5, RedirectInv
<1>6. CASE \E old, new \in liveNodes, d \in Direction : MoveAdjacency(old, new, d)
  BY <1>6, MoveAdjacencyInv
<1>7. CASE \E n \in NodeSlots, p \in Payload : SetNodePayload(n, p)
  BY <1>7, SetPayloadInv
<1>8. CASE \E e \in EdgeSlots, p \in Payload : SetEdgePayload(e, p)
  BY <1>8, SetPayloadInv
<1>9. CASE Compact
  BY <1>9, CompactInv
<1>10. CASE UNCHANGED vars
  BY <1>10 DEF vars, Inv, TypeOK, LiveEndpoints, AdjacencyOrder, NodeSlots, EdgeSlots
<1> QED
  BY <1>1, <1>2, <1>3, <1>4, <1>5, <1>6, <1>7, <1>8, <1>9, <1>10 DEF Next

(* Every reachable multigraph has the type its slot bounds promise.        *)
THEOREM TypeCorrect == Spec => []TypeOK
<1>1. Inv => TypeOK
  BY DEF Inv
<1> QED BY <1>1, InitInv, StepInv, PTL DEF Spec

(* Removing nodes, redirecting edges and compacting never leave a live     *)
(* edge attached to a removed node (the assertion in remap_endpoint), and  *)
(* along both directions the edges of every node stay strictly and totally *)
(* ordered, with the order relating nothing else.                          *)
THEOREM AdjacencyStaysSound == Spec => []AdjacencySound
<1>1. Inv => AdjacencySound
  BY DEF Inv, AdjacencySound
<1> QED BY <1>1, InitInv, StepInv, PTL DEF Spec

(* What OrderStable says of one step.                                      *)
KeepsOrder ==
    \A d \in Direction : \A e, f \in liveEdges :
       /\ <<e, f>> \in before[d]
       /\ e \in liveEdges' /\ f \in liveEdges'
       /\ ends'[d][e] = ends'[d][f]
       => <<e, f>> \in before'[d]

LEMMA AttachKeepsOrder ==
    ASSUME Inv, NEW d \in Direction, NEW n, NEW old,
           NEW S, S \subseteq At(d, old), old # n, Attach(S, n, d)
    PROVE  KeepsOrder
<1> SUFFICES ASSUME NEW c \in Direction, NEW e \in liveEdges, NEW f \in liveEdges,
                    <<e, f>> \in before[c], ends'[c][e] = ends'[c][f]
             PROVE  <<e, f>> \in before'[c]
  BY DEF KeepsOrder
<1>1. CASE c # d
  BY <1>1 DEF Attach, Inv, TypeOK
<1>2. CASE c = d
  <2>1. ends[d][e] = ends[d][f]
    BY ZenonT(40), <1>2, PairsAreOrdered
  <2>2. e \in EdgeSlots /\ f \in EdgeSlots
    BY DEF Inv, TypeOK
  <2>3. /\ ends'[d][e] = IF e \in S THEN n ELSE ends[d][e]
        /\ ends'[d][f] = IF f \in S THEN n ELSE ends[d][f]
    BY <2>2 DEF Attach, Inv, TypeOK
  <2>4. \A g \in S : ends[d][g] = old
    BY DEF At
  <2>5. e \in S <=> f \in S
    BY <1>2, <2>1, <2>3, <2>4
  <2>6. {p \in before[d] : p[1] \in S <=> p[2] \in S} \subseteq before'[d]
    BY DEF Attach, Inv, TypeOK
  <2> QED BY <1>2, <2>5, <2>6
<1> QED BY <1>1, <1>2

LEMMA StepKeepsOrder ==
    ASSUME Inv, Next
    PROVE  Compact \/ KeepsOrder
<1>1. CASE \E p \in Payload : AddNode(p)
  BY <1>1 DEF AddNode, KeepsOrder
<1>2. CASE \E s, t \in liveNodes, p \in Payload : AddEdge(s, t, p)
  BY <1>2 DEF AddEdge, KeepsOrder
<1>3. CASE \E S : RemoveEdges(S)
  BY <1>3 DEF RemoveEdges, Unlisted, KeepsOrder
<1>4. CASE \E e \in liveEdges, n \in liveNodes, d \in Direction : Redirect(e, n, d)
  <2>1. PICK e \in liveEdges, n \in liveNodes, d \in Direction : Redirect(e, n, d)
    BY <1>4
  <2>2. {e} \subseteq At(d, ends[d][e]) /\ ends[d][e] # n /\ Attach({e}, n, d)
    BY <2>1 DEF Redirect, At
  <2> QED BY <2>2, AttachKeepsOrder
<1>5. CASE \E old, new \in liveNodes, d \in Direction : MoveAdjacency(old, new, d)
  BY <1>5, AttachKeepsOrder DEF MoveAdjacency
<1>6. CASE UNCHANGED <<ends, liveNodes, liveEdges, before>>
  BY <1>6 DEF KeepsOrder
<1>7. (\E e \in liveEdges : RemoveEdge(e)) => \E S : RemoveEdges(S)
  BY DEF RemoveEdge
<1>8. (\E n \in liveNodes : RemoveNode(n)) => \E S : RemoveEdges(S)
  BY DEF RemoveNode
<1>9. (\E n \in NodeSlots, p \in Payload : SetNodePayload(n, p))
        => UNCHANGED <<ends, liveNodes, liveEdges, before>>
  BY DEF SetNodePayload
<1>10. (\E e \in EdgeSlots, p \in Payload : SetEdgePayload(e, p))
        => UNCHANGED <<ends, liveNodes, liveEdges, before>>
  BY DEF SetEdgePayload
<1> QED
  BY <1>1, <1>2, <1>3, <1>4, <1>5, <1>6, <1>7, <1>8, <1>9, <1>10 DEF Next

(* No operation but compaction, which renumbers, reorders two edges that   *)
(* stay together: the redirect and merge transforms rely on it.            *)
THEOREM OrderIsStable == Spec => OrderStable
<1>1. Inv /\ [Next]_vars => [Compact \/ KeepsOrder]_vars
  BY StepKeepsOrder
<1>2. [Compact \/ KeepsOrder]_vars => [\/ Compact
       \/ \A d \in Direction : \A e, f \in liveEdges :
             /\ <<e, f>> \in before[d]
             /\ e \in liveEdges' /\ f \in liveEdges'
             /\ ends'[d][e] = ends'[d][f]
             => <<e, f>> \in before'[d]]_vars
  BY DEF KeepsOrder
<1> QED BY <1>1, <1>2, InitInv, StepInv, PTL DEF Spec, OrderStable
=============================================================================

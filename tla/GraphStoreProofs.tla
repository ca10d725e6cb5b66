-------------------------- MODULE GraphStoreProofs --------------------------
(***************************************************************************)
(* Four results about the store, for every payload set and slot bound.     *)
(*                                                                         *)
(* The live counters count the liveness bits, so the shortcuts which       *)
(* answer a liveness question from a counter alone are exact.              *)
(*                                                                         *)
(* A node's run and chain together read each of its live edges once, the   *)
(* chain ascending and above the run, and what the store serializes is a   *)
(* document it accepts.  The invariant behind both is StoreInv: every      *)
(* column has its shape, every chain is a ring of its node's own delta     *)
(* edges that visits them in ascending order, and run and chain hold all   *)
(* of a node's live edges, with nothing twice.                             *)
(*                                                                         *)
(* Each operation does to the order the walks read what the operation of   *)
(* OrderedMultigraph does: the store implements the ordered multigraph.    *)
(***************************************************************************)
EXTENDS GraphStore, FiniteSetTheorems, FunctionTheorems, WellFoundedInduction, TLAPS

(* A function on 1..n is a sequence of length n.                           *)
LEMMA IntervalFunctionIsSeq ==
    ASSUME NEW n \in Nat, NEW T, NEW f \in [1..n -> T]
    PROVE  f \in Seq(T) /\ Len(f) = n
OBVIOUS

(* The four slot columns are vectors.                                      *)
Columns ==
    /\ \E T : base_nodes \in Seq(T)
    /\ \E T : delta_nodes \in Seq(T)
    /\ \E T : base_edges \in Seq(T)
    /\ \E T : delta_edges \in Seq(T)

(* The bits are bits of slots, and the counters count them.                *)
Counted ==
    /\ live_nodes \subseteq 1..node_bound
    /\ live_edges \subseteq 1..edge_bound
    /\ live_node_count = Cardinality(live_nodes)
    /\ live_edge_count = Cardinality(live_edges)

(* What the counters need.                                                 *)
LivenessInv == Columns /\ Counted

(* The slot spaces are numbered by naturals.                               *)
LEMMA Bounds ==
    ASSUME Columns
    PROVE  /\ Len(base_nodes) \in Nat /\ Len(delta_nodes) \in Nat
           /\ Len(base_edges) \in Nat /\ Len(delta_edges) \in Nat
           /\ node_bound \in Nat /\ edge_bound \in Nat
BY DEF Columns, node_bound, edge_bound

(* The bitsets are finite and no larger than their slot space.             *)
LEMMA FiniteBits ==
    ASSUME LivenessInv
    PROVE  /\ IsFiniteSet(live_nodes) /\ Cardinality(live_nodes) \in Nat
           /\ IsFiniteSet(live_edges) /\ Cardinality(live_edges) \in Nat
<1>1. IsFiniteSet(1..node_bound) /\ IsFiniteSet(1..edge_bound)
  BY Bounds, FS_Interval DEF LivenessInv
<1>2. IsFiniteSet(live_nodes) /\ IsFiniteSet(live_edges)
  BY <1>1, FS_Subset DEF LivenessInv, Counted
<1> QED BY <1>2, FS_CardinalityType

(* The shortcuts are exact: a counter equal to its bound leaves no room    *)
(* for a cleared bit.                                                      *)
LEMMA LivenessAnswers ==
    ASSUME LivenessInv
    PROVE  /\ \A n \in 1..node_bound : node_is_live(n) <=> n \in live_nodes
           /\ \A e \in 1..edge_bound : edge_is_live(e) <=> e \in live_edges
<1>0. node_bound \in Nat /\ edge_bound \in Nat
  BY Bounds DEF LivenessInv
<1>1. /\ IsFiniteSet(1..node_bound) /\ Cardinality(1..node_bound) = node_bound
      /\ IsFiniteSet(1..edge_bound) /\ Cardinality(1..edge_bound) = edge_bound
  BY <1>0, FS_Interval
<1>2. live_node_count = node_bound => live_nodes = 1..node_bound
  BY <1>1, FS_Subset DEF LivenessInv, Counted
<1>3. live_edge_count = edge_bound => live_edges = 1..edge_bound
  BY <1>1, FS_Subset DEF LivenessInv, Counted
<1> QED
  BY <1>2, <1>3 DEF node_is_live, edge_is_live, tombstoned_nodes, tombstoned_edges

(* The empty store counts right.                                           *)
LEMMA LivenessInit == Init => LivenessInv
<1> SUFFICES ASSUME Init PROVE LivenessInv
  OBVIOUS
<1>1. Columns
  <2>1. <<>> \in Seq({})
    OBVIOUS
  <2> QED BY <2>1 DEF Init, Columns
<1>2. Counted
  BY FS_EmptySet DEF Init, Counted, node_bound, edge_bound
<1> QED BY <1>1, <1>2 DEF LivenessInv

(* A step that keeps the slot columns' lengths and retires some edges.     *)
LEMMA RetireLiveness ==
    ASSUME LivenessInv, NEW S, retire_edges(S)
    PROVE  /\ live_edges' \subseteq 1..edge_bound
           /\ live_edge_count' = Cardinality(live_edges')
<1>1. Cardinality(live_edges \ S) = Cardinality(live_edges) - Cardinality(live_edges \cap S)
  BY FiniteBits, FS_Difference
<1>2. live_edges \cap S = S \cap live_edges
  OBVIOUS
<1> QED BY <1>1, <1>2 DEF retire_edges, LivenessInv, Counted

(* A node is added in a slot that had no bit.                              *)
LEMMA AddNodeLiveness ==
    ASSUME LivenessInv, NEW p \in Payload, add_node(p)
    PROVE  LivenessInv'
<1>1. PICK T : delta_nodes \in Seq(T)
  BY DEF LivenessInv, Columns
<1>2. delta_nodes' \in Seq(T \cup {p}) /\ Len(delta_nodes') = Len(delta_nodes) + 1
  BY <1>1 DEF add_node
<1>3. Columns'
  BY <1>2 DEF LivenessInv, Columns, add_node
<1>4. node_bound' = node_bound + 1 /\ edge_bound' = edge_bound /\ node_bound \in Nat
  BY <1>2, Bounds DEF node_bound, edge_bound, add_node, LivenessInv
<1>5. node_bound + 1 \notin live_nodes
  BY <1>4 DEF LivenessInv, Counted
<1>6. Cardinality(live_nodes \cup {node_bound + 1}) = Cardinality(live_nodes) + 1
  BY <1>5, FiniteBits, FS_AddElement
<1>7. Counted'
  BY <1>4, <1>6 DEF LivenessInv, Counted, add_node
<1> QED BY <1>3, <1>7 DEF LivenessInv

(* So is an edge.                                                          *)
LEMMA AddEdgeLiveness ==
    ASSUME LivenessInv, NEW s, NEW t, NEW p \in Payload, add_edge(s, t, p)
    PROVE  LivenessInv'
<1>1. PICK T : delta_edges \in Seq(T)
  BY DEF LivenessInv, Columns
<1>2. /\ delta_edges' \in Seq(T \cup {EdgeRecord(s, t, p)})
      /\ Len(delta_edges') = Len(delta_edges) + 1
  BY <1>1 DEF add_edge
<1>3. Columns'
  BY <1>2 DEF LivenessInv, Columns, add_edge
<1>4. edge_bound' = edge_bound + 1 /\ node_bound' = node_bound /\ edge_bound \in Nat
  BY <1>2, Bounds DEF node_bound, edge_bound, add_edge, LivenessInv
<1>5. edge_bound + 1 \notin live_edges
  BY <1>4 DEF LivenessInv, Counted
<1>6. Cardinality(live_edges \cup {edge_bound + 1}) = Cardinality(live_edges) + 1
  BY <1>5, FiniteBits, FS_AddElement
<1>7. Counted'
  BY <1>4, <1>6 DEF LivenessInv, Counted, add_edge
<1> QED BY <1>3, <1>7 DEF LivenessInv

(* A removed edge's bit is counted off once, if it was set.                *)
LEMMA RemoveEdgeLiveness ==
    ASSUME LivenessInv, NEW e, remove_edge(e)
    PROVE  LivenessInv'
<1>1. Columns' /\ node_bound' = node_bound /\ edge_bound' = edge_bound
  BY DEF LivenessInv, Columns, remove_edge, node_bound, edge_bound
<1>2. /\ live_edges' \subseteq 1..edge_bound
      /\ live_edge_count' = Cardinality(live_edges')
  BY RetireLiveness DEF remove_edge
<1> QED BY <1>1, <1>2 DEF LivenessInv, Counted, remove_edge

(* A removed node takes its edges' bits with it and its own.               *)
LEMMA RemoveNodeLiveness ==
    ASSUME LivenessInv, NEW n \in 1..node_bound, remove_node(n)
    PROVE  LivenessInv'
<1>1. Columns' /\ node_bound' = node_bound /\ edge_bound' = edge_bound
  BY DEF LivenessInv, Columns, remove_node, node_bound, edge_bound
<1>2. /\ live_edges' \subseteq 1..edge_bound
      /\ live_edge_count' = Cardinality(live_edges')
  BY RetireLiveness DEF remove_node
<1>3. n \in live_nodes
  BY LivenessAnswers DEF remove_node
<1>4. Cardinality(live_nodes \ {n}) = Cardinality(live_nodes) - 1
  BY <1>3, FiniteBits, FS_RemoveElement
<1> QED BY <1>1, <1>2, <1>4 DEF LivenessInv, Counted, remove_node

(* Rewriting records in place keeps the columns and their lengths.         *)
LEMMA UpdateRecordsLiveness ==
    ASSUME LivenessInv,
           DOMAIN base_edges' = DOMAIN base_edges,
           base_edges' = [e \in DOMAIN base_edges' |-> base_edges'[e]],
           DOMAIN delta_edges' = DOMAIN delta_edges,
           delta_edges' = [e \in DOMAIN delta_edges' |-> delta_edges'[e]],
           UNCHANGED <<base_nodes, delta_nodes, live_nodes, live_edges,
                       live_node_count, live_edge_count>>
    PROVE  LivenessInv'
<1>1. /\ DOMAIN base_edges = 1..Len(base_edges) /\ Len(base_edges) \in Nat
      /\ DOMAIN delta_edges = 1..Len(delta_edges) /\ Len(delta_edges) \in Nat
  BY DEF LivenessInv, Columns
<1> DEFINE B == {base_edges'[e] : e \in DOMAIN base_edges'}
           D == {delta_edges'[e] : e \in DOMAIN delta_edges'}
<1>2. base_edges' \in [1..Len(base_edges) -> B]
  BY <1>1
<1>3. delta_edges' \in [1..Len(delta_edges) -> D]
  BY <1>1
<1> HIDE DEF B, D
<1>4. /\ base_edges' \in Seq(B) /\ Len(base_edges') = Len(base_edges)
      /\ delta_edges' \in Seq(D) /\ Len(delta_edges') = Len(delta_edges)
  BY <1>1, <1>2, <1>3, IntervalFunctionIsSeq
<1>5. Columns'
  BY <1>4 DEF LivenessInv, Columns
<1>6. node_bound' = node_bound /\ edge_bound' = edge_bound
  BY <1>4 DEF node_bound, edge_bound
<1> QED BY <1>5, <1>6 DEF LivenessInv, Counted

(* Writing a node's payload touches no bit.                                *)
LEMMA NodeMutLiveness ==
    ASSUME LivenessInv, NEW n \in 1..node_bound, NEW p \in Payload, node_mut(n, p)
    PROVE  LivenessInv'
<1>1. PICK S, T : base_nodes \in Seq(S) /\ delta_nodes \in Seq(T)
  BY DEF LivenessInv, Columns
<1>2. /\ base_nodes' \in Seq(S \cup {p}) /\ Len(base_nodes') = Len(base_nodes)
      /\ delta_nodes' \in Seq(T \cup {p}) /\ Len(delta_nodes') = Len(delta_nodes)
  BY SMTT(30), <1>1 DEF node_mut
<1>3. Columns'
  BY <1>2 DEF LivenessInv, Columns, node_mut
<1>4. node_bound' = node_bound /\ edge_bound' = edge_bound
  BY <1>2 DEF node_bound, edge_bound, node_mut
<1> QED BY <1>3, <1>4 DEF LivenessInv, Counted, node_mut

(* Nor do the steps that write edge records.                               *)
LEMMA RecordEditLiveness ==
    ASSUME LivenessInv, NEW d \in Direction,
           \/ \E e, p : edge_mut(e, p)
           \/ \E e, n : redirect(e, n, d)
           \/ \E m, n : move_adjacency(m, n, d)
    PROVE  LivenessInv'
<1>1. /\ DOMAIN base_edges' = DOMAIN base_edges
      /\ base_edges' = [e \in DOMAIN base_edges' |-> base_edges'[e]]
  BY DEF edge_mut, redirect, move_adjacency, UpdateRecords
<1>2. /\ DOMAIN delta_edges' = DOMAIN delta_edges
      /\ delta_edges' = [e \in DOMAIN delta_edges' |-> delta_edges'[e]]
  BY DEF edge_mut, redirect, move_adjacency, UpdateRecords
<1>3. UNCHANGED <<base_nodes, delta_nodes, live_nodes, live_edges,
                  live_node_count, live_edge_count>>
  BY DEF edge_mut, redirect, move_adjacency
<1> QED BY <1>1, <1>2, <1>3, UpdateRecordsLiveness

(* Compaction leaves as many slots as bits, all of them set.               *)
LEMMA CompactLiveness ==
    ASSUME LivenessInv, compact
    PROVE  LivenessInv'
<1> DEFINE N == Cardinality(live_nodes)
           E == Cardinality(live_edges)
<1>1. N \in Nat /\ E \in Nat
  BY FiniteBits
<1>2. \E T : base_nodes' \in [1..N -> T]
  <2>1. PICK map : base_nodes' = take_live_nodes(map)
    BY DEF compact
  <2>2. base_nodes' = [k \in 1..N |-> nodes[CHOOSE s \in DOMAIN map : map[s] = k]]
    BY <2>1 DEF take_live_nodes, Surviving
  <2>3. base_nodes' \in [1..N -> {nodes[CHOOSE s \in DOMAIN map : map[s] = k] : k \in 1..N}]
    BY <2>2
  <2> QED BY <2>3
<1>3. \E T : base_edges' \in [1..E -> T]
  <2>1. PICK nmap, emap : base_edges' = take_live_edges(nmap, emap)
    BY DEF compact
  <2>2. base_edges' \in [1..E -> {base_edges'[k] : k \in 1..E}]
    BY <2>1 DEF take_live_edges
  <2> QED BY <2>2
<1>4. delta_nodes' = <<>> /\ delta_edges' = <<>>
      /\ live_nodes' = 1..N /\ live_edges' = 1..E
      /\ live_node_count' = N /\ live_edge_count' = E
  BY DEF compact
<1> HIDE DEF N, E
<1>5. /\ \E T : base_nodes' \in Seq(T) /\ Len(base_nodes') = N
      /\ \E T : base_edges' \in Seq(T) /\ Len(base_edges') = E
  BY <1>1, <1>2, <1>3, IntervalFunctionIsSeq
<1>6. Columns' /\ Len(delta_nodes') = 0 /\ Len(delta_edges') = 0
  <2>1. <<>> \in Seq({}) /\ Len(<<>>) = 0
    OBVIOUS
  <2> QED BY <2>1, <1>4, <1>5 DEF Columns
<1>7. node_bound' = N /\ edge_bound' = E
  BY <1>1, <1>5, <1>6 DEF node_bound, edge_bound
<1>8. Cardinality(1..N) = N /\ Cardinality(1..E) = E
  BY <1>1, FS_Interval
<1>9. Counted'
  BY <1>4, <1>7, <1>8 DEF Counted
<1> QED BY <1>6, <1>9 DEF LivenessInv

(* Every step keeps the counters right.                                    *)
LEMMA LivenessStep == LivenessInv /\ [Next]_vars => LivenessInv'
<1> SUFFICES ASSUME LivenessInv, [Next]_vars PROVE LivenessInv'
  OBVIOUS
<1> USE DEF Direction
<1>1. CASE \E p \in Payload : add_node(p)
  BY <1>1, AddNodeLiveness
<1>2. CASE \E s, t \in 1..node_bound, p \in Payload : add_edge(s, t, p)
  BY <1>2, AddEdgeLiveness
<1>3. CASE \E e \in 1..edge_bound : remove_edge(e)
  BY <1>3, RemoveEdgeLiveness
<1>4. CASE \E n \in 1..node_bound : remove_node(n)
  BY <1>4, RemoveNodeLiveness
<1>5. CASE \E n \in 1..node_bound, p \in Payload : node_mut(n, p)
  BY <1>5, NodeMutLiveness
<1>6. CASE \E e \in 1..edge_bound, p \in Payload : edge_mut(e, p)
  BY <1>6, RecordEditLiveness
<1>7. CASE \E e \in 1..edge_bound, n \in 1..node_bound, d \in Direction : redirect(e, n, d)
  BY <1>7, RecordEditLiveness
<1>8. CASE \E old, new \in 1..node_bound, d \in Direction : move_adjacency(old, new, d)
  BY <1>8, RecordEditLiveness
<1>9. CASE compact
  BY <1>9, CompactLiveness
<1>10. CASE UNCHANGED vars
  BY <1>10 DEF vars, LivenessInv, Columns, Counted, node_bound, edge_bound
<1> QED
  BY <1>1, <1>2, <1>3, <1>4, <1>5, <1>6, <1>7, <1>8, <1>9, <1>10 DEF Next

(* In every reachable store the counters are the population of the bitsets *)
(* and node_ids, edge_ids, contains_node and contains_edge, which skip the *)
(* bitset while a counter equals its bound, answer what the bits say.      *)
THEOREM LivenessIsExact == Spec => []LivenessExact
<1>1. LivenessInv => LivenessExact
  BY LivenessAnswers DEF LivenessExact, LivenessInv, Counted, node_ids, edge_ids
<1> QED BY <1>1, LivenessInit, LivenessStep, PTL DEF Spec

-----------------------------------------------------------------------------
(* Sequences: what they read, in which order, and how cutting, joining     *)
(* and filtering change that.                                              *)

(* Numbers are well ordered.                                               *)
LEMMA Least ==
    ASSUME NEW T \in SUBSET Nat, T # {}
    PROVE  \E m \in T : \A k \in T : m <= k
<1>1. IsWellFoundedOn(OpToRel(<, Nat), Nat)
  BY NatLessThanWellFounded
<1>2. PICK m \in T : \A k \in T : ~(<<k, m>> \in OpToRel(<, Nat))
  BY <1>1, WFMin
<1>3. \A k \in T : ~(k < m)
  BY <1>2 DEF OpToRel
<1> QED BY <1>3

(* A set that holds 0 and with every number the next holds all numbers.    *)
LEMMA Induct ==
    ASSUME NEW P, 0 \in P, \A n \in Nat : n \in P => n + 1 \in P
    PROVE  \A n \in Nat : n \in P
<1> DEFINE T == {n \in Nat : n \notin P}
<1> SUFFICES ASSUME T # {} PROVE FALSE
  OBVIOUS
<1>1. PICK m \in T : \A k \in T : m <= k
  BY Least
<1>2. m # 0 /\ m \in Nat
  OBVIOUS
<1>3. m - 1 \in Nat /\ m - 1 \notin T
  BY <1>1, <1>2
<1>4. (m - 1) + 1 \in P
  BY <1>3
<1> QED BY <1>2, <1>4

-----------------------------------------------------------------------------
(* What a walk along a sequence meets, and in which order.                 *)
Reads(s, x) == \E i \in DOMAIN s : s[i] = x
Precedes(s, x, y) == \E i, j \in DOMAIN s : i < j /\ s[i] = x /\ s[j] = y
Distinct(s) == \A i, j \in DOMAIN s : s[i] = s[j] => i = j

(* A sequence over S.                                                      *)
LEMMA SeqParts ==
    ASSUME NEW S, NEW s \in Seq(S)
    PROVE  /\ Len(s) \in Nat /\ DOMAIN s = 1..Len(s)
           /\ \A i \in DOMAIN s : s[i] \in S
OBVIOUS

(* A part of a sequence.                                                   *)
LEMMA SubSeqParts ==
    ASSUME NEW S, NEW s \in Seq(S), NEW a \in Nat, NEW b \in Nat, b <= Len(s), a <= b
    PROVE  /\ SubSeq(s, a + 1, b) \in Seq(S) /\ Len(SubSeq(s, a + 1, b)) = b - a
           /\ \A k \in 1..(b - a) : SubSeq(s, a + 1, b)[k] = s[a + k]
<1> DEFINE w == SubSeq(s, a + 1, b)
<1>1. \A i \in (a + 1)..b : s[i] \in S
  OBVIOUS
<1>2. Len(w) = b - a /\ DOMAIN w = 1..(b - a)
  OBVIOUS
<1>3. \A k \in 1..(b - a) : w[k] = s[a + k]
  OBVIOUS
<1>4. w \in Seq(S)
  BY <1>1
<1> QED BY <1>2, <1>3, <1>4

(* Two sequences together.                                                 *)
LEMMA ConcatParts ==
    ASSUME NEW S, NEW s \in Seq(S), NEW t \in Seq(S)
    PROVE  /\ s \o t \in Seq(S) /\ Len(s \o t) = Len(s) + Len(t)
           /\ DOMAIN (s \o t) = 1..(Len(s) + Len(t))
           /\ \A i \in 1..Len(s) : (s \o t)[i] = s[i]
           /\ \A j \in 1..Len(t) : (s \o t)[Len(s) + j] = t[j]
OBVIOUS

(* Nothing is read from an empty sequence.                                 *)
LEMMA EmptyRead ==
    ASSUME NEW x, NEW y
    PROVE  /\ ~Reads(<<>>, x) /\ ~Precedes(<<>>, x, y) /\ Distinct(<<>>)
BY DEF Reads, Precedes, Distinct

(* Two sequences one after the other.                                      *)
LEMMA ConcatRead ==
    ASSUME NEW S, NEW s \in Seq(S), NEW t \in Seq(S), NEW x, NEW y
    PROVE  /\ s \o t \in Seq(S)
           /\ Reads(s \o t, x) <=> Reads(s, x) \/ Reads(t, x)
           /\ Precedes(s \o t, x, y) <=> \/ Precedes(s, x, y) \/ Precedes(t, x, y)
                                         \/ Reads(s, x) /\ Reads(t, y)
<1> DEFINE w == s \o t
           m == Len(s)
           n == Len(t)
<1>1. /\ m \in Nat /\ n \in Nat /\ DOMAIN s = 1..m /\ DOMAIN t = 1..n
      /\ w \in Seq(S) /\ DOMAIN w = 1..(m + n)
      /\ \A i \in 1..m : w[i] = s[i]
      /\ \A j \in 1..n : w[m + j] = t[j]
  OBVIOUS
<1> HIDE DEF w, m, n
<1>2. \A i \in 1..m : i \in 1..(m + n)
  BY <1>1
<1>3. \A j \in 1..n : m + j \in 1..(m + n)
  BY <1>1
<1>4. \A k \in 1..(m + n) : k \in 1..m \/ \E j \in 1..n : k = m + j
  <2> SUFFICES ASSUME NEW k \in 1..(m + n), k \notin 1..m PROVE \E j \in 1..n : k = m + j
    OBVIOUS
  <2>1. k - m \in 1..n /\ k = m + (k - m)
    BY <1>1
  <2> QED BY <2>1
<1>5. Reads(w, x) <=> Reads(s, x) \/ Reads(t, x)
  <2>1. ASSUME Reads(w, x) PROVE Reads(s, x) \/ Reads(t, x)
    <3>1. PICK k \in 1..(m + n) : w[k] = x
      BY <1>1, <2>1 DEF Reads
    <3>2. CASE k \in 1..m
      BY <1>1, <3>1, <3>2 DEF Reads
    <3>3. CASE k \notin 1..m
      <4>1. PICK j \in 1..n : k = m + j
        BY <1>4, <3>3
      <4> QED BY <1>1, <3>1, <4>1 DEF Reads
    <3> QED BY <3>2, <3>3
  <2>2. ASSUME Reads(s, x) PROVE Reads(w, x)
    BY <1>1, <1>2, <2>2 DEF Reads
  <2>3. ASSUME Reads(t, x) PROVE Reads(w, x)
    BY <1>1, <1>3, <2>3 DEF Reads
  <2> QED BY <2>1, <2>2, <2>3
<1>6. ASSUME Precedes(w, x, y)
      PROVE  Precedes(s, x, y) \/ Precedes(t, x, y) \/ (Reads(s, x) /\ Reads(t, y))
  <2>1. PICK i, j \in 1..(m + n) : i < j /\ w[i] = x /\ w[j] = y
    BY <1>1, <1>6 DEF Precedes
  <2>2. CASE i \in 1..m /\ j \in 1..m
    BY <1>1, <2>1, <2>2 DEF Precedes
  <2>3. CASE i \in 1..m /\ j \notin 1..m
    BY <1>1, <1>4, <2>1, <2>3 DEF Reads
  <2>4. CASE i \notin 1..m
    <3>1. PICK k \in 1..n : i = m + k
      BY <1>4, <2>4
    <3>2. j \notin 1..m
      BY <1>1, <2>1, <3>1
    <3>3. PICK l \in 1..n : j = m + l
      BY <1>4, <3>2
    <3>4. t[k] = x /\ t[l] = y
      BY <1>1, <2>1, <3>1, <3>3
    <3>5. k < l
      BY <1>1, <2>1, <3>1, <3>3
    <3> QED BY <1>1, <3>4, <3>5 DEF Precedes
  <2> QED BY <2>2, <2>3, <2>4
<1>7. ASSUME Precedes(s, x, y) PROVE Precedes(w, x, y)
  BY <1>1, <1>2, <1>7 DEF Precedes
<1>8. ASSUME Precedes(t, x, y) PROVE Precedes(w, x, y)
  <2>1. PICK k, l \in 1..n : k < l /\ t[k] = x /\ t[l] = y
    BY <1>1, <1>8 DEF Precedes
  <2>2. m + k < m + l /\ w[m + k] = x /\ w[m + l] = y
    BY <1>1, <2>1
  <2> QED BY <1>1, <1>3, <2>2 DEF Precedes
<1>9. ASSUME Reads(s, x), Reads(t, y) PROVE Precedes(w, x, y)
  <2>1. PICK i \in 1..m : s[i] = x
    BY <1>1, <1>9 DEF Reads
  <2>2. PICK l \in 1..n : t[l] = y
    BY <1>1, <1>9 DEF Reads
  <2>3. i < m + l /\ w[i] = x /\ w[m + l] = y
    BY <1>1, <2>1, <2>2
  <2> QED BY <1>1, <1>2, <1>3, <2>3 DEF Precedes
<1> QED BY <1>1, <1>5, <1>6, <1>7, <1>8, <1>9 DEF w

(* Without an element in common they repeat none.                          *)
LEMMA ConcatDistinct ==
    ASSUME NEW S, NEW s \in Seq(S), NEW t \in Seq(S), Distinct(s), Distinct(t),
           \A x : ~(Reads(s, x) /\ Reads(t, x))
    PROVE  Distinct(s \o t)
<1> DEFINE w == s \o t
           m == Len(s)
           n == Len(t)
<1>1. /\ m \in Nat /\ n \in Nat /\ DOMAIN s = 1..m /\ DOMAIN t = 1..n
      /\ DOMAIN w = 1..(m + n)
      /\ \A i \in 1..m : w[i] = s[i]
      /\ \A j \in 1..n : w[m + j] = t[j]
  OBVIOUS
<1> HIDE DEF w, m, n
<1>2. \A k \in 1..(m + n) : k \in 1..m \/ (k - m \in 1..n /\ k = m + (k - m))
  BY <1>1
<1>3. \A i \in 1..m, j \in 1..n : s[i] # t[j]
  BY <1>1 DEF Reads
<1>4. ASSUME NEW i \in 1..(m + n), NEW j \in 1..(m + n), w[i] = w[j]
      PROVE  i = j
  <2>1. CASE i \in 1..m /\ j \in 1..m
    BY <1>1, <1>4, <2>1 DEF Distinct
  <2>2. CASE i \in 1..m /\ j \notin 1..m
    <3>1. j - m \in 1..n /\ w[m + (j - m)] = t[j - m] /\ j = m + (j - m)
      BY <1>1, <1>2, <2>2
    <3> QED BY <1>1, <1>3, <1>4, <2>2, <3>1
  <2>3. CASE i \notin 1..m /\ j \in 1..m
    <3>1. i - m \in 1..n /\ w[m + (i - m)] = t[i - m] /\ i = m + (i - m)
      BY <1>1, <1>2, <2>3
    <3> QED BY <1>1, <1>3, <1>4, <2>3, <3>1
  <2>4. CASE i \notin 1..m /\ j \notin 1..m
    <3>1. PICK k \in 1..n : i = m + k
      BY <1>2, <2>4
    <3>2. PICK l \in 1..n : j = m + l
      BY <1>2, <2>4
    <3>3. t[k] = t[l]
      BY <1>1, <1>4, <3>1, <3>2
    <3> QED BY <1>1, <3>1, <3>2, <3>3 DEF Distinct
  <2> QED BY <2>1, <2>2, <2>3, <2>4
<1> QED BY <1>1, <1>4 DEF Distinct, w

(* The elements of s that are in L, in their order.                        *)
Filtered(s, L, f) ==
    f = [i \in 0..Len(s) |-> IF i = 0 THEN <<>>
                             ELSE IF s[i] \in L THEN Append(f[i-1], s[i])
                             ELSE f[i-1]]

(* There is such a table, of every length.                                 *)
LEMMA FilterExists ==
    ASSUME NEW S, NEW s \in Seq(S), NEW L
    PROVE  \E f : Filtered(s, L, f)
<1> DEFINE Table(m, f) == f = [i \in 0..m |-> IF i = 0 THEN <<>>
                                              ELSE IF s[i] \in L THEN Append(f[i-1], s[i])
                                              ELSE f[i-1]]
           P == {m \in Nat : \E f : Table(m, f)}
<1>1. 0 \in P
  <2> DEFINE f == [i \in 0..0 |-> <<>>]
  <2>1. Table(0, f)
    OBVIOUS
  <2> QED BY <2>1
<1>2. ASSUME NEW m \in Nat, m \in P PROVE m + 1 \in P
  <2>1. PICK f : Table(m, f)
    BY <1>2
  <2> DEFINE v == IF s[m + 1] \in L THEN Append(f[m], s[m + 1]) ELSE f[m]
             g == [i \in 0..(m + 1) |-> IF i = m + 1 THEN v ELSE f[i]]
  <2>2. \A i \in 0..m : g[i] = f[i]
    OBVIOUS
  <2>3. g[m + 1] = v
    OBVIOUS
  <2>4. ASSUME NEW i \in 0..(m + 1)
        PROVE  g[i] = IF i = 0 THEN <<>>
                      ELSE IF s[i] \in L THEN Append(g[i-1], s[i]) ELSE g[i-1]
    <3> HIDE DEF g
    <3>1. CASE i = m + 1
      <4>1. g[i - 1] = f[m] /\ i # 0 /\ s[i] = s[m + 1]
        BY <2>2, <3>1
      <4> QED BY <2>3, <3>1, <4>1
    <3>2. CASE i \in 0..m
      <4>1. f[i] = IF i = 0 THEN <<>>
                   ELSE IF s[i] \in L THEN Append(f[i-1], s[i]) ELSE f[i-1]
        BY <2>1, <3>2
      <4>2. i # 0 => g[i - 1] = f[i - 1]
        BY <2>2, <3>2
      <4> QED BY <2>2, <3>2, <4>1, <4>2
    <3> QED BY <3>1, <3>2
  <2>5. Table(m + 1, g)
    <3>1. g = [i \in 0..(m + 1) |-> g[i]]
      OBVIOUS
    <3> HIDE DEF g
    <3> QED BY <2>4, <3>1
  <2> HIDE DEF g
  <2> QED BY SMTT(30), <2>5
<1> HIDE DEF P
<1>3. Len(s) \in P
  BY <1>1, <1>2, Induct
<1> QED BY <1>3 DEF P, Filtered

(* w holds the elements of s up to m that are in L, where g finds them.    *)
Embeds(w, s, m, L, g) ==
    /\ \A k \in DOMAIN w : g[k] \in 1..m /\ w[k] = s[g[k]] /\ w[k] \in L
    /\ \A k, l \in DOMAIN w : k < l => g[k] < g[l]
    /\ \A i \in 1..m : s[i] \in L => \E k \in DOMAIN w : g[k] = i

(* A filtered sequence is embedded in the one it came from.                *)
LEMMA FilterEmbeds ==
    ASSUME NEW S, NEW s \in Seq(S), NEW L, NEW f, Filtered(s, L, f)
    PROVE  f[Len(s)] \in Seq(S) /\ \E g : Embeds(f[Len(s)], s, Len(s), L, g)
<1> DEFINE P == {m \in Nat : m <= Len(s) => /\ f[m] \in Seq(S)
                                            /\ \E g : Embeds(f[m], s, m, L, g)}
<1>0. Len(s) \in Nat /\ \A i \in 1..Len(s) : s[i] \in S
  OBVIOUS
<1>1. 0 \in P
  <2>1. f[0] = <<>>
    BY <1>0 DEF Filtered
  <2>2. Embeds(<<>>, s, 0, L, <<>>)
    BY DEF Embeds
  <2>3. f[0] \in Seq(S) /\ \E g : Embeds(f[0], s, 0, L, g)
    BY <2>1, <2>2
  <2> QED BY <2>3
<1>2. ASSUME NEW m \in Nat, m \in P PROVE m + 1 \in P
  <2> SUFFICES ASSUME m + 1 <= Len(s)
               PROVE  f[m + 1] \in Seq(S) /\ \E g : Embeds(f[m + 1], s, m + 1, L, g)
    OBVIOUS
  <2> DEFINE w == f[m]
             n == Len(w)
             e == s[m + 1]
  <2>1. m + 1 \in 1..Len(s) /\ e \in S /\ m <= Len(s)
    BY <1>0
  <2>2. PICK g : w \in Seq(S) /\ Embeds(w, s, m, L, g)
    BY <1>2, <2>1
  <2>3. f[m + 1] = IF e \in L THEN Append(w, e) ELSE w
    <3>1. m + 1 \in 0..Len(s) /\ m + 1 # 0 /\ (m + 1) - 1 = m
      BY <2>1
    <3> QED BY <3>1 DEF Filtered
  <2>4. n \in Nat /\ DOMAIN w = 1..n
    BY <2>2
  <2> HIDE DEF w, n, e
  <2>5. CASE e \notin L
    <3>1. \A i \in 1..(m + 1) : i \in 1..m \/ i = m + 1
      OBVIOUS
    <3>2. \A i \in 1..m : i \in 1..(m + 1)
      OBVIOUS
    <3>3. Embeds(w, s, m + 1, L, g)
      BY <2>2, <2>5, <3>1, <3>2 DEF Embeds, e
    <3> QED BY <2>2, <2>3, <2>5, <3>3
  <2>6. CASE e \in L
    <3> DEFINE v == Append(w, e)
               h == [k \in 1..(n + 1) |-> IF k = n + 1 THEN m + 1 ELSE g[k]]
    <3>1. /\ v \in Seq(S) /\ DOMAIN v = 1..(n + 1)
          /\ \A k \in 1..n : v[k] = w[k]
          /\ v[n + 1] = e
      BY <2>1, <2>2, <2>4 DEF n
    <3>2. h[n + 1] = m + 1 /\ \A k \in 1..n : h[k] = g[k]
      BY <2>4
    <3> HIDE DEF v, h
    <3>3. \A k \in 1..(n + 1) : k \in 1..n \/ k = n + 1
      BY <2>4
    <3>4. ASSUME NEW k \in 1..(n + 1)
          PROVE  h[k] \in 1..(m + 1) /\ v[k] = s[h[k]] /\ v[k] \in L
      <4>1. CASE k = n + 1
        <5>1. m + 1 \in 1..(m + 1)
          OBVIOUS
        <5> QED BY <2>6, <3>1, <3>2, <4>1, <5>1 DEF e
      <4>2. CASE k \in 1..n
        <5>1. g[k] \in 1..m /\ w[k] = s[g[k]] /\ w[k] \in L
          BY <2>2, <2>4, <4>2 DEF Embeds
        <5>2. g[k] \in 1..(m + 1)
          BY <5>1
        <5> QED BY <3>1, <3>2, <4>2, <5>1, <5>2
      <4> QED BY <3>3, <4>1, <4>2
    <3>5. ASSUME NEW k \in 1..(n + 1), NEW l \in 1..(n + 1), k < l
          PROVE  h[k] < h[l]
      <4>1. k \in 1..n
        BY <2>4, <3>5
      <4>2. CASE l = n + 1
        <5>1. g[k] \in 1..m
          BY <2>2, <2>4, <4>1 DEF Embeds
        <5> QED BY <3>2, <4>1, <4>2, <5>1
      <4>3. CASE l \in 1..n
        BY <2>2, <2>4, <3>2, <3>5, <4>1, <4>3 DEF Embeds
      <4> QED BY <3>3, <4>2, <4>3
    <3>6. ASSUME NEW i \in 1..(m + 1), s[i] \in L
          PROVE  \E k \in 1..(n + 1) : h[k] = i
      <4>1. CASE i = m + 1
        <5>1. n + 1 \in 1..(n + 1)
          BY <2>4
        <5> QED BY <3>2, <4>1, <5>1
      <4>2. CASE i \in 1..m
        <5>1. PICK k \in 1..n : g[k] = i
          BY <2>2, <2>4, <3>6, <4>2 DEF Embeds
        <5>2. k \in 1..(n + 1)
          BY <2>4
        <5> QED BY <3>2, <5>1, <5>2
      <4> QED BY <4>1, <4>2
    <3>7. Embeds(v, s, m + 1, L, h)
      BY <3>1, <3>4, <3>5, <3>6 DEF Embeds
    <3> QED BY <2>3, <2>6, <3>1, <3>7 DEF v
  <2> QED BY <2>5, <2>6
<1> HIDE DEF P
<1>3. Len(s) \in P
  BY <1>0, <1>1, <1>2, Induct
<1> QED BY <1>0, <1>3 DEF P

(* So it reads the elements of L, in the old order.                        *)
LEMMA EmbeddedRead ==
    ASSUME NEW S, NEW s \in Seq(S), NEW w \in Seq(S), NEW L, NEW g,
           Embeds(w, s, Len(s), L, g), NEW x, NEW y
    PROVE  /\ Reads(w, x) <=> Reads(s, x) /\ x \in L
           /\ Precedes(w, x, y) <=> Precedes(s, x, y) /\ x \in L /\ y \in L
<1> DEFINE m == Len(s)
           n == Len(w)
<1>0. m \in Nat /\ n \in Nat /\ DOMAIN s = 1..m /\ DOMAIN w = 1..n
  OBVIOUS
<1>1. /\ \A k \in 1..n : g[k] \in 1..m /\ w[k] = s[g[k]] /\ w[k] \in L
      /\ \A k, l \in 1..n : k < l => g[k] < g[l]
      /\ \A i \in 1..m : s[i] \in L => \E k \in 1..n : g[k] = i
  BY <1>0 DEF Embeds
<1> HIDE DEF m, n
<1>2. Reads(w, x) <=> Reads(s, x) /\ x \in L
  <2>1. ASSUME Reads(w, x) PROVE Reads(s, x) /\ x \in L
    BY <1>0, <1>1, <2>1 DEF Reads
  <2>2. ASSUME Reads(s, x), x \in L PROVE Reads(w, x)
    BY SMTT(30), <1>0, <1>1, <2>2 DEF Reads
  <2> QED BY <2>1, <2>2
<1>3. ASSUME Precedes(w, x, y) PROVE Precedes(s, x, y) /\ x \in L /\ y \in L
  BY SMTT(30), <1>0, <1>1, <1>3 DEF Precedes
<1>4. ASSUME Precedes(s, x, y), x \in L, y \in L PROVE Precedes(w, x, y)
  <2>1. PICK i, j \in 1..m : i < j /\ s[i] = x /\ s[j] = y
    BY <1>0, <1>4 DEF Precedes
  <2>2. PICK k \in 1..n : g[k] = i
    BY <1>1, <1>4, <2>1
  <2>3. PICK l \in 1..n : g[l] = j
    BY <1>1, <1>4, <2>1
  <2>4. k < l
    <3>1. g[k] < g[l]
      BY <2>1, <2>2, <2>3
    <3>2. l < k => g[l] < g[k]
      BY <1>1
    <3>3. k # l
      BY <2>1, <2>2, <2>3
    <3>4. k \in Nat /\ l \in Nat /\ g[k] \in Nat /\ g[l] \in Nat
      BY <1>0, <2>1, <2>2, <2>3
    <3> QED BY <3>1, <3>2, <3>3, <3>4
  <2>5. w[k] = x /\ w[l] = y
    BY <1>1, <2>1, <2>2, <2>3
  <2> QED BY <1>0, <2>4, <2>5 DEF Precedes
<1> QED BY <1>2, <1>3, <1>4

(* And repeats nothing the old one did not.                                *)
LEMMA EmbeddedDistinct ==
    ASSUME NEW S, NEW s \in Seq(S), NEW w \in Seq(S), NEW L, NEW g,
           Embeds(w, s, Len(s), L, g), Distinct(s)
    PROVE  Distinct(w)
<1> DEFINE m == Len(s)
           n == Len(w)
<1>0. m \in Nat /\ n \in Nat /\ DOMAIN s = 1..m /\ DOMAIN w = 1..n
  OBVIOUS
<1>1. /\ \A k \in 1..n : g[k] \in 1..m /\ w[k] = s[g[k]]
      /\ \A k, l \in 1..n : k < l => g[k] < g[l]
  BY <1>0 DEF Embeds
<1> HIDE DEF m, n
<1>2. ASSUME NEW k \in 1..n, NEW l \in 1..n, w[k] = w[l]
      PROVE  k = l
  <2>1. g[k] = g[l] /\ g[k] \in Nat
    BY <1>0, <1>1, <1>2 DEF Distinct
  <2>2. ~(k < l) /\ ~(l < k)
    BY <1>1, <2>1
  <2> QED BY <1>0, <2>2
<1> QED BY <1>0, <1>2 DEF Distinct

-----------------------------------------------------------------------------
(* The sequences the store works with: of edge slots.                      *)
EdgeRuns == Seq(1..edge_bound)

(* The walk's filter: all of a run while nothing is removed, the edges     *)
(* whose bits are set otherwise.                                           *)
LEMMA LiveOfIsFilter ==
    ASSUME LivenessInv, NEW s \in EdgeRuns
    PROVE  LiveOf(s) \in EdgeRuns /\ \E g : Embeds(LiveOf(s), s, Len(s), live_edges, g)
<1>1. CASE tombstoned_edges
  <2> DEFINE f == CHOOSE f : Filtered(s, live_edges, f)
  <2>1. Filtered(s, live_edges, f)
    BY FilterExists DEF EdgeRuns
  <2>2. LiveOf(s) = f[Len(s)]
    BY <1>1 DEF LiveOf, Filtered
  <2> HIDE DEF f
  <2> QED BY <2>1, <2>2, FilterEmbeds DEF EdgeRuns
<1>2. CASE ~tombstoned_edges
  <2>1. LiveOf(s) = s
    BY <1>2 DEF LiveOf
  <2>2. live_edges = 1..edge_bound
    <3>1. \A e \in 1..edge_bound : edge_is_live(e) <=> e \in live_edges
      BY LivenessAnswers
    <3>2. \A e \in 1..edge_bound : edge_is_live(e)
      BY <1>2 DEF edge_is_live
    <3> QED BY <3>1, <3>2 DEF LivenessInv, Counted
  <2>3. Embeds(s, s, Len(s), live_edges, [k \in DOMAIN s |-> k])
    <3>1. DOMAIN s = 1..Len(s) /\ \A k \in DOMAIN s : s[k] \in 1..edge_bound
      BY SeqParts DEF EdgeRuns
    <3> QED BY <2>2, <3>1 DEF Embeds
  <2> QED BY <2>1, <2>3
<1> QED BY <1>1, <1>2

(* What it reads.                                                          *)
LEMMA LiveOfRead ==
    ASSUME LivenessInv, NEW s \in EdgeRuns, NEW x, NEW y
    PROVE  /\ LiveOf(s) \in EdgeRuns
           /\ Reads(LiveOf(s), x) <=> Reads(s, x) /\ x \in live_edges
           /\ Precedes(LiveOf(s), x, y)
                <=> Precedes(s, x, y) /\ x \in live_edges /\ y \in live_edges
           /\ Distinct(s) => Distinct(LiveOf(s))
<1>1. PICK g : LiveOf(s) \in EdgeRuns /\ Embeds(LiveOf(s), s, Len(s), live_edges, g)
  BY LiveOfIsFilter
<1> DEFINE w == LiveOf(s)
<1> HIDE DEF w
<1>2. w \in Seq(1..edge_bound) /\ s \in Seq(1..edge_bound)
  BY <1>1 DEF EdgeRuns, w
<1>3. Embeds(w, s, Len(s), live_edges, g)
  BY <1>1 DEF w
<1>4. /\ Reads(w, x) <=> Reads(s, x) /\ x \in live_edges
      /\ Precedes(w, x, y)
           <=> Precedes(s, x, y) /\ x \in live_edges /\ y \in live_edges
  BY <1>2, <1>3, EmbeddedRead
<1>5. Distinct(s) => Distinct(w)
  BY <1>2, <1>3, EmbeddedDistinct
<1> QED BY <1>1, <1>4, <1>5 DEF w

(* A swept run reads the live edges it did, and nothing else.              *)
LEMMA SweepRead ==
    ASSUME LivenessInv, NEW s \in EdgeRuns, NEW x, NEW y
    PROVE  /\ sweep(s) \in EdgeRuns
           /\ Reads(sweep(s), x) => Reads(s, x)
           /\ x \in live_edges => (Reads(sweep(s), x) <=> Reads(s, x))
           /\ x \in live_edges /\ y \in live_edges
                => (Precedes(sweep(s), x, y) <=> Precedes(s, x, y))
           /\ Distinct(s) => Distinct(sweep(s))
<1>1. sweep(s) = s \/ sweep(s) = LiveOf(s)
  BY DEF sweep
<1>2. CASE sweep(s) = s
  BY <1>2
<1>3. CASE sweep(s) = LiveOf(s)
  BY <1>3, LiveOfRead
<1> QED BY <1>1, <1>2, <1>3

(* One element more at the end.                                            *)
LEMMA AppendRead ==
    ASSUME NEW S, NEW s \in Seq(S), NEW e \in S, NEW x, NEW y
    PROVE  /\ Append(s, e) \in Seq(S)
           /\ Reads(Append(s, e), x) <=> Reads(s, x) \/ x = e
           /\ Precedes(Append(s, e), x, y) <=> Precedes(s, x, y) \/ (Reads(s, x) /\ y = e)
           /\ Distinct(s) /\ ~Reads(s, e) => Distinct(Append(s, e))
<1> DEFINE one == <<e>>
<1>1. one \in Seq(S) /\ Append(s, e) = s \o one
  OBVIOUS
<1>2. DOMAIN one = {1} /\ one[1] = e
  OBVIOUS
<1> HIDE DEF one
<1>3. \A z : Reads(one, z) <=> z = e
  BY <1>2 DEF Reads
<1>4. ~Precedes(one, x, y) /\ Distinct(one)
  BY <1>2 DEF Precedes, Distinct
<1>5. /\ s \o one \in Seq(S)
      /\ Reads(s \o one, x) <=> Reads(s, x) \/ Reads(one, x)
      /\ Precedes(s \o one, x, y) <=> \/ Precedes(s, x, y) \/ Precedes(one, x, y)
                                      \/ Reads(s, x) /\ Reads(one, y)
  BY <1>1, ConcatRead
<1>6. ASSUME Distinct(s), ~Reads(s, e) PROVE Distinct(s \o one)
  <2>1. \A z : ~(Reads(s, z) /\ Reads(one, z))
    BY <1>3, <1>6
  <2> QED BY <1>1, <1>4, <1>6, <2>1, ConcatDistinct
<1> QED BY <1>1, <1>3, <1>4, <1>5, <1>6

(* A run without one of its edges.                                         *)
LEMMA RemoveFromEmbeds ==
    ASSUME NEW S, NEW s \in Seq(S), Distinct(s), NEW e
    PROVE  /\ RemoveFrom(s, e) \in Seq(S)
           /\ \E g : Embeds(RemoveFrom(s, e), s, Len(s), S \ {e}, g)
<1> DEFINE m == Len(s)
<1>0. m \in Nat /\ DOMAIN s = 1..m /\ \A i \in 1..m : s[i] \in S
  BY SeqParts
<1>1. CASE e \notin Elements(s)
  <2>1. RemoveFrom(s, e) = s
    BY <1>1 DEF RemoveFrom
  <2>2. \A i \in 1..m : s[i] # e
    BY <1>0, <1>1 DEF Elements
  <2>3. Embeds(s, s, m, S \ {e}, [k \in DOMAIN s |-> k])
    <3> HIDE DEF m
    <3> QED BY <1>0, <2>2 DEF Embeds
  <2> QED BY <2>1, <2>3
<1>2. CASE e \in Elements(s)
  <2> DEFINE at == CHOOSE i \in DOMAIN s : s[i] = e /\ \A j \in 1..(i-1) : s[j] # e
             front == SubSeq(s, 1, at - 1)
             back == SubSeq(s, at + 1, m)
             w == front \o back
             g == [k \in 1..(m - 1) |-> IF k < at THEN k ELSE k + 1]
  <2>1. RemoveFrom(s, e) = w
    BY <1>2 DEF RemoveFrom
  <2>2. \E i \in DOMAIN s : s[i] = e /\ \A j \in 1..(i-1) : s[j] # e
    <3>1. PICK i \in DOMAIN s : s[i] = e
      BY <1>2 DEF Elements
    <3>2. \A j \in 1..(i-1) : j \in DOMAIN s /\ j # i
      BY <1>0
    <3>3. \A j \in 1..(i-1) : s[j] # e
      BY <3>1, <3>2 DEF Distinct
    <3> QED BY <3>1, <3>3
  <2>3. at \in 1..m /\ s[at] = e
    BY <1>0, <2>2
  <2> HIDE DEF at
  <2>4. \A i \in 1..m : i # at => s[i] # e
    BY <1>0, <2>3 DEF Distinct
  <2>5. /\ front \in Seq(S) /\ Len(front) = at - 1 /\ \A k \in 1..(at - 1) : front[k] = s[k]
        /\ back \in Seq(S) /\ Len(back) = m - at /\ \A k \in 1..(m - at) : back[k] = s[at + k]
    <3>1. /\ at - 1 \in Nat /\ at - 1 <= m /\ 0 <= at - 1 /\ 0 + 1 = 1 /\ (at - 1) - 0 = at - 1
          /\ at \in Nat /\ at <= m /\ m <= m
      BY <1>0, <2>3
    <3>2. /\ front \in Seq(S) /\ Len(front) = (at - 1) - 0
          /\ \A k \in 1..((at - 1) - 0) : front[k] = s[0 + k]
      <4> HIDE DEF m
      <4>1. /\ SubSeq(s, 0 + 1, at - 1) \in Seq(S) /\ Len(SubSeq(s, 0 + 1, at - 1)) = (at - 1) - 0
            /\ \A k \in 1..((at - 1) - 0) : SubSeq(s, 0 + 1, at - 1)[k] = s[0 + k]
        BY <1>0, <3>1, SubSeqParts DEF m
      <4> QED BY <3>1, <4>1
    <3>3. /\ back \in Seq(S) /\ Len(back) = m - at
          /\ \A k \in 1..(m - at) : back[k] = s[at + k]
      <4> HIDE DEF m
      <4>1. /\ SubSeq(s, at + 1, m) \in Seq(S) /\ Len(SubSeq(s, at + 1, m)) = m - at
            /\ \A k \in 1..(m - at) : SubSeq(s, at + 1, m)[k] = s[at + k]
        <5>1. m <= Len(s)
          BY <3>1 DEF m
        <5>2. at \in Nat /\ m \in Nat /\ at <= m
          BY <1>0, <3>1
        <5> QED BY <5>1, <5>2, SubSeqParts
      <4> QED BY <4>1
    <3>4. \A k \in 1..(at - 1) : 0 + k = k
      BY <3>1
    <3> QED BY <3>1, <3>2, <3>3, <3>4
  <2> HIDE DEF front, back
  <2>6. /\ w \in Seq(S) /\ DOMAIN w = 1..(m - 1)
        /\ \A k \in 1..(at - 1) : w[k] = front[k]
        /\ \A k \in 1..(m - at) : w[(at - 1) + k] = back[k]
    <3>0. front \in Seq(S) /\ back \in Seq(S)
      BY <2>5
    <3>1. /\ w \in Seq(S) /\ DOMAIN w = 1..(Len(front) + Len(back))
          /\ \A k \in 1..Len(front) : w[k] = front[k]
          /\ \A k \in 1..Len(back) : w[Len(front) + k] = back[k]
      BY <3>0
    <3>2. (at - 1) + (m - at) = m - 1
      BY <1>0, <2>3
    <3> QED BY <2>5, <3>1, <3>2
  <2> HIDE DEF w, m
  <2>7. ASSUME NEW k \in 1..(m - 1)
        PROVE  g[k] \in 1..m /\ g[k] # at /\ w[k] = s[g[k]] /\ w[k] \in S \ {e}
    <3>1. CASE k < at
      <4>1. k \in 1..(at - 1) /\ g[k] = k /\ k \in 1..m /\ k # at
        BY <1>0, <2>3, <3>1
      <4> QED BY <1>0, <2>4, <2>5, <2>6, <4>1
    <3>2. CASE ~(k < at)
      <4>1. g[k] = k + 1 /\ k + 1 \in 1..m /\ k + 1 # at
        BY <1>0, <2>3, <3>2
      <4>2. PICK l \in 1..(m - at) : k = (at - 1) + l /\ k + 1 = at + l
        <5>1. k - (at - 1) \in 1..(m - at)
          BY <1>0, <2>3, <3>2
        <5>2. k = (at - 1) + (k - (at - 1)) /\ k + 1 = at + (k - (at - 1))
          BY <1>0, <2>3
        <5> QED BY <5>1, <5>2
      <4>3. w[k] = s[k + 1]
        BY <2>5, <2>6, <4>2
      <4> QED BY <1>0, <2>4, <4>1, <4>3
    <3> QED BY <3>1, <3>2
  <2>8. ASSUME NEW k \in 1..(m - 1), NEW l \in 1..(m - 1), k < l
        PROVE  g[k] < g[l]
    BY <1>0, <2>3, <2>8
  <2>9. ASSUME NEW i \in 1..m, s[i] \in S \ {e}
        PROVE  \E k \in 1..(m - 1) : g[k] = i
    <3>1. i # at
      BY <2>3, <2>9
    <3>2. CASE i < at
      <4>1. i \in 1..(m - 1) /\ g[i] = i
        BY <1>0, <2>3, <3>2
      <4> QED BY <4>1
    <3>3. CASE i > at
      <4>1. i - 1 \in 1..(m - 1) /\ ~(i - 1 < at) /\ (i - 1) + 1 = i
        BY <1>0, <2>3, <3>3
      <4>2. g[i - 1] = i
        BY <4>1
      <4> QED BY <4>1, <4>2
    <3> QED BY <2>3, <3>1, <3>2, <3>3
  <2> HIDE DEF g
  <2>10. Embeds(w, s, m, S \ {e}, g)
    BY <2>6, <2>7, <2>8, <2>9 DEF Embeds
  <2> QED BY <2>1, <2>6, <2>10 DEF m
<1> QED BY <1>1, <1>2

(* What it reads.                                                          *)
LEMMA RemoveFromRead ==
    ASSUME NEW S, NEW s \in Seq(S), Distinct(s), NEW e, NEW x, NEW y
    PROVE  /\ RemoveFrom(s, e) \in Seq(S) /\ Distinct(RemoveFrom(s, e))
           /\ Reads(RemoveFrom(s, e), x) <=> Reads(s, x) /\ x # e
           /\ Precedes(RemoveFrom(s, e), x, y) <=> Precedes(s, x, y) /\ x # e /\ y # e
<1> DEFINE w == RemoveFrom(s, e)
           L == S \ {e}
<1>1. PICK g : w \in Seq(S) /\ Embeds(w, s, Len(s), L, g)
  BY RemoveFromEmbeds
<1> HIDE DEF w, L
<1>2. /\ Reads(w, x) <=> Reads(s, x) /\ x \in L
      /\ Precedes(w, x, y) <=> Precedes(s, x, y) /\ x \in L /\ y \in L
  BY <1>1, EmbeddedRead
<1>3. Distinct(w)
  BY <1>1, EmbeddedDistinct
<1>4. /\ Reads(s, x) => x \in S
      /\ Precedes(s, x, y) => x \in S /\ y \in S
  BY SeqParts DEF Reads, Precedes
<1> QED BY <1>1, <1>2, <1>3, <1>4 DEF w, L

-----------------------------------------------------------------------------
(* The number of a slot among those of S, and the slot of a number.        *)
Rank(S, s) == Cardinality({t \in S : t <= s})
Slot(S, k) == CHOOSE s \in S : Rank(S, s) = k

(* The rank numbers a finite set of slots from 1 without a gap, in order.  *)
LEMMA RankBijection ==
    ASSUME NEW S, S \subseteq Int, IsFiniteSet(S)
    PROVE  /\ Cardinality(S) \in Nat
           /\ \A s \in S : Rank(S, s) \in 1..Cardinality(S)
           /\ \A s, t \in S : s < t => Rank(S, s) < Rank(S, t)
           /\ \A s, t \in S : Rank(S, s) = Rank(S, t) => s = t
           /\ \A k \in 1..Cardinality(S) :
                 Slot(S, k) \in S /\ Rank(S, Slot(S, k)) = k
           /\ \A s \in S : Slot(S, Rank(S, s)) = s
<1> DEFINE below(s) == {t \in S : t <= s}
           rank == [s \in S |-> Rank(S, s)]
<1>1. Cardinality(S) \in Nat
  BY FS_CardinalityType
<1>2. \A s \in S : IsFiniteSet(below(s)) /\ Cardinality(below(s)) <= Cardinality(S)
  <2> TAKE s \in S
  <2>1. below(s) \in SUBSET S
    OBVIOUS
  <2> QED BY <2>1, FS_Subset
<1>3. \A s \in S : Cardinality(below(s)) \in Nat /\ Cardinality(below(s)) # 0
  <2> TAKE s \in S
  <2>1. IsFiniteSet(below(s)) /\ s \in below(s)
    BY <1>2
  <2>2. Cardinality(below(s)) \in Nat
    BY <2>1, FS_CardinalityType
  <2>3. Cardinality(below(s)) # 0
    BY <2>1, FS_EmptySet
  <2> QED BY <2>2, <2>3
<1>4. \A s \in S : Rank(S, s) \in 1..Cardinality(S)
  BY <1>1, <1>2, <1>3 DEF Rank
<1>5. ASSUME NEW s \in S, NEW t \in S, s < t
      PROVE  Rank(S, s) < Rank(S, t)
  <2>0. s \in Int /\ t \in Int /\ \A u \in S : u \in Int
    OBVIOUS
  <2>1. /\ \A u \in S : u <= s => u <= t
        /\ ~(t <= s) /\ t <= t
    BY <1>5, <2>0
  <2>a. below(s) \in SUBSET below(t) /\ t \in below(t) /\ t \notin below(s)
    BY <2>1
  <2>2. IsFiniteSet(below(s)) /\ IsFiniteSet(below(t))
    BY <1>2
  <2>3. Cardinality(below(s)) <= Cardinality(below(t))
    BY <2>a, <2>2, FS_Subset
  <2>4. Cardinality(below(s)) # Cardinality(below(t))
    BY <2>a, <2>2, FS_Subset
  <2>5. Cardinality(below(s)) \in Nat /\ Cardinality(below(t)) \in Nat
    BY <1>3
  <2> QED BY <2>3, <2>4, <2>5 DEF Rank
<1>6. ASSUME NEW s \in S, NEW t \in S, Rank(S, s) = Rank(S, t)
      PROVE  s = t
  <2>1. s \in Int /\ t \in Int
    OBVIOUS
  <2>2. Rank(S, s) \in Int /\ Rank(S, t) \in Int
    BY <1>1, <1>4
  <2>3. ~(s < t) /\ ~(t < s)
    BY <1>5, <1>6, <2>2
  <2> QED BY <2>1, <2>3
<1>7. rank \in Injection(S, 1..Cardinality(S))
  <2>1. rank \in [S -> 1..Cardinality(S)]
    BY <1>4
  <2>2. \A a, b \in S : rank[a] = rank[b] => a = b
    BY <1>6
  <2> QED BY <2>1, <2>2 DEF Injection, IsInjective
<1>8. rank \in Surjection(S, 1..Cardinality(S))
  <2>1. IsFiniteSet(1..Cardinality(S)) /\ Cardinality(1..Cardinality(S)) = Cardinality(S)
    BY <1>1, FS_Interval
  <2> HIDE DEF rank
  <2> QED BY <1>7, <2>1, FS_Injection
<1>9. \A k \in 1..Cardinality(S) : \E s \in S : Rank(S, s) = k
  <2>1. \A k \in 1..Cardinality(S) : \E s \in S : rank[s] = k
    <3> HIDE DEF rank
    <3> QED BY <1>8 DEF Surjection
  <2> QED BY <2>1
<1>10. \A k \in 1..Cardinality(S) : Slot(S, k) \in S /\ Rank(S, Slot(S, k)) = k
  BY <1>9 DEF Slot
<1>11. \A s \in S : Slot(S, Rank(S, s)) = s
  BY <1>4, <1>6, <1>10
<1> QED
  BY <1>1, <1>4, <1>5, <1>6, <1>10, <1>11

-----------------------------------------------------------------------------
(* Chains.  The elements of a ring: each leads to the next larger one, the *)
(* last and largest to the smallest.                                       *)
RingSet(next, last, d, C) ==
    /\ C \subseteq 1..Len(next) /\ last \in C
    /\ \A x \in C : x <= last /\ next[x][d] \in C /\ next[last][d] <= x
    /\ \A x \in C : x # last => /\ x < next[x][d]
                                /\ \A y \in C : x < y => next[x][d] <= y

(* The walk of a ring is a table.                                          *)
LEMMA RingTable ==
    ASSUME NEW next, Len(next) \in Nat, NEW last, NEW d
    PROVE  LET walk == ring(next, last, d)
           IN  walk = [i \in 1..Len(next) |-> next[IF i = 1 THEN last ELSE walk[i-1]][d]]
<1> DEFINE Table(m, f) == f = [i \in 1..m |-> next[IF i = 1 THEN last ELSE f[i-1]][d]]
           P == {m \in Nat : \E f : Table(m, f)}
<1>1. 0 \in P
  <2>1. Table(0, [i \in 1..0 |-> 0])
    OBVIOUS
  <2> QED BY <2>1
<1>2. ASSUME NEW m \in Nat, m \in P PROVE m + 1 \in P
  <2>1. PICK f : Table(m, f)
    BY <1>2
  <2> DEFINE v == next[IF m + 1 = 1 THEN last ELSE f[m]][d]
             g == [i \in 1..(m + 1) |-> IF i = m + 1 THEN v ELSE f[i]]
  <2>2. \A i \in 1..m : g[i] = f[i]
    OBVIOUS
  <2>3. g[m + 1] = v
    OBVIOUS
  <2>4. ASSUME NEW i \in 1..(m + 1)
        PROVE  g[i] = next[IF i = 1 THEN last ELSE g[i-1]][d]
    <3> HIDE DEF g
    <3>1. CASE i = m + 1
      <4>1. m + 1 # 1 => m \in 1..m
        OBVIOUS
      <4>2. i # 1 => g[i - 1] = f[m]
        BY <2>2, <3>1, <4>1
      <4> QED BY <2>3, <3>1, <4>2
    <3>2. CASE i \in 1..m
      <4>1. f[i] = next[IF i = 1 THEN last ELSE f[i-1]][d]
        BY <2>1, <3>2
      <4>2. i # 1 => g[i - 1] = f[i - 1]
        BY <2>2, <3>2
      <4> QED BY <2>2, <3>2, <4>1, <4>2
    <3> QED BY <3>1, <3>2
  <2>5. Table(m + 1, g)
    <3>1. g = [i \in 1..(m + 1) |-> g[i]]
      OBVIOUS
    <3> HIDE DEF g
    <3> QED BY <2>4, <3>1
  <2> HIDE DEF g
  <2> QED BY SMTT(30), <2>5
<1> HIDE DEF P
<1>3. Len(next) \in P
  BY <1>1, <1>2, Induct
<1>4. \E f : Table(Len(next), f)
  BY <1>3 DEF P
<1> DEFINE walk == CHOOSE f : Table(Len(next), f)
<1>5. Table(Len(next), walk)
  <2> HIDE DEF Table
  <2> QED BY <1>4, Zenon
<1>6. ring(next, last, d) = walk
  BY DEF ring
<1> HIDE DEF walk
<1> QED BY <1>5, <1>6

(* The slots up to a bound.                                                *)
LEMMA IntervalSize ==
    ASSUME NEW n \in Nat
    PROVE  IsFiniteSet(1..n) /\ Cardinality(1..n) = n
BY FS_Interval

(* It meets the elements of the ring from the smallest to the largest.     *)
LEMMA RingWalk ==
    ASSUME NEW next, Len(next) \in Nat, NEW last, NEW d, NEW C, RingSet(next, last, d, C)
    PROVE  LET walk == ring(next, last, d)
               K == Cardinality(C)
           IN  /\ IsFiniteSet(C) /\ K \in 1..Len(next)
               /\ \A i \in 1..K : walk[i] = Slot(C, i)
               /\ Slot(C, K) = last
<1> DEFINE walk == ring(next, last, d)
           L == Len(next)
           K == Cardinality(C)
<1>0. /\ IsFiniteSet(1..L) /\ Cardinality(1..L) = L
      /\ C \in SUBSET (1..L) /\ \A x \in C : x \in Int
  <2>0. L \in Nat
    OBVIOUS
  <2>1. /\ IsFiniteSet(1..L) /\ Cardinality(1..L) = L
    <3> HIDE DEF L
    <3> QED BY <2>0, IntervalSize
  <2> QED BY <2>1 DEF RingSet
<1>1. IsFiniteSet(C) /\ K <= L /\ C \subseteq Int
  BY <1>0, FS_Subset
<1>2. /\ K \in Nat
      /\ \A s \in C : Rank(C, s) \in 1..K
      /\ \A s, t \in C : s < t => Rank(C, s) < Rank(C, t)
      /\ \A s, t \in C : Rank(C, s) = Rank(C, t) => s = t
      /\ \A k \in 1..K : Slot(C, k) \in C /\ Rank(C, Slot(C, k)) = k
      /\ \A s \in C : Slot(C, Rank(C, s)) = s
  BY <1>1, RankBijection
<1> HIDE DEF L, K
<1>3. /\ last \in C
      /\ \A x \in C : x <= last /\ next[x][d] \in C /\ next[last][d] <= x
      /\ \A x \in C : x # last => /\ x < next[x][d]
                                  /\ \A y \in C : x < y => next[x][d] <= y
  BY DEF RingSet
<1>4. K \in 1..L
  BY <1>1, <1>2, <1>3 DEF L
<1>5. Slot(C, K) = last
  <2>1. Slot(C, K) \in C /\ Rank(C, Slot(C, K)) = K /\ Rank(C, last) \in 1..K
    BY <1>2, <1>3, <1>4
  <2>2. ~(Slot(C, K) < last)
    BY <1>2, <1>3, <2>1
  <2>3. Slot(C, K) <= last /\ Slot(C, K) \in Int /\ last \in Int
    BY <1>0, <1>3, <2>1
  <2> HIDE DEF Slot
  <2> QED BY <2>2, <2>3
<1>6. \A i \in 1..L : walk[i] = next[IF i = 1 THEN last ELSE walk[i-1]][d]
  <2>1. walk = [i \in 1..Len(next) |-> next[IF i = 1 THEN last ELSE walk[i-1]][d]]
    BY RingTable
  <2> HIDE DEF walk
  <2> QED BY <2>1 DEF L
<1> HIDE DEF walk
<1> DEFINE P == {i \in Nat : i + 1 \in 1..K => walk[i + 1] = Slot(C, i + 1)}
<1>7. 0 \in P
  <2> SUFFICES ASSUME 1 \in 1..K PROVE walk[1] = Slot(C, 1)
    OBVIOUS
  <2>1. walk[1] = next[last][d]
    <3>1. 1 \in 1..L
      BY <1>4 DEF L
    <3> QED BY <1>6, <3>1
  <2>2. next[last][d] \in C /\ Slot(C, 1) \in C /\ Rank(C, Slot(C, 1)) = 1
    BY <1>2, <1>3
  <2>3. next[last][d] <= Slot(C, 1)
    BY <1>3, <2>2
  <2>4. ~(next[last][d] < Slot(C, 1))
    BY <1>2, <2>2
  <2>5. next[last][d] \in Int /\ Slot(C, 1) \in Int
    BY <1>0, <2>2
  <2> QED BY <2>1, <2>3, <2>4, <2>5
<1>8. ASSUME NEW i \in Nat, i \in P PROVE i + 1 \in P
  <2> DEFINE k == i + 1
  <2> SUFFICES ASSUME k + 1 \in 1..K PROVE walk[k + 1] = Slot(C, k + 1)
    OBVIOUS
  <2>1. k \in 1..K /\ k # K /\ k \in Nat /\ k + 1 \in 1..L /\ k + 1 # 1 /\ (k + 1) - 1 = k
    <3>1. L \in Nat /\ K \in Nat /\ K <= L
      BY <1>1, <1>2 DEF L
    <3> QED BY <3>1
  <2>2. walk[k] = Slot(C, k)
    BY <1>8, <2>1
  <2> DEFINE x == Slot(C, k)
             y == Slot(C, k + 1)
             z == next[x][d]
  <2>3. walk[k + 1] = z
    BY <1>6, <2>1, <2>2
  <2> HIDE DEF k
  <2>4. x \in C /\ Rank(C, x) = k /\ y \in C /\ Rank(C, y) = k + 1
    BY <1>2, <2>1
  <2> HIDE DEF x, y
  <2>5. x # last
    BY <1>2, <1>4, <1>5, <2>1, <2>4
  <2>6. z \in C /\ x < z /\ \A t \in C : x < t => z <= t
    BY <1>3, <2>4, <2>5
  <2> HIDE DEF z
  <2>7. x \in Int /\ y \in Int /\ z \in Int
    BY <1>0, <2>4, <2>6
  <2>8. x < y
    <3>1. x # y
      BY <2>1, <2>4
    <3>2. y < x => Rank(C, y) < Rank(C, x)
      BY <1>2, <2>4
    <3> QED BY <2>1, <2>4, <2>7, <3>1, <3>2
  <2>9. z <= y
    BY <2>4, <2>6, <2>8
  <2>10. ~(z < y)
    <3>1. Rank(C, x) < Rank(C, z) /\ Rank(C, z) \in Int
      BY <1>2, <2>4, <2>6
    <3>2. z < y => Rank(C, z) < Rank(C, y)
      BY <1>2, <2>4, <2>6
    <3> QED BY <2>1, <2>4, <3>1, <3>2
  <2> QED BY <2>3, <2>7, <2>9, <2>10 DEF y
<1>9. \A i \in Nat : i \in P
  <2> HIDE DEF P
  <2> QED BY <1>7, <1>8, Induct
<1>10. ASSUME NEW i \in 1..K PROVE walk[i] = Slot(C, i)
  <2>1. i - 1 \in Nat /\ (i - 1) + 1 = i
    OBVIOUS
  <2> QED BY <1>9, <2>1
<1> QED BY <1>1, <1>4, <1>5, <1>10 DEF walk, K, L

(* Every element is above the ones before it.                              *)
Increasing(s) == \A i, j \in DOMAIN s : i < j => s[i] < s[j]

(* Such a sequence reads in the order of its numbers.                      *)
LEMMA IncreasingRead ==
    ASSUME NEW S, S \subseteq Int, NEW s \in Seq(S), Increasing(s), NEW x, NEW y
    PROVE  /\ Distinct(s) /\ IsSorted(s)
           /\ Precedes(s, x, y) <=> Reads(s, x) /\ Reads(s, y) /\ x < y
<1>0. Len(s) \in Nat /\ DOMAIN s = 1..Len(s) /\ \A i \in DOMAIN s : s[i] \in Int
  BY SeqParts
<1>1. \A i, j \in DOMAIN s : i < j => s[i] < s[j]
  BY DEF Increasing
<1>2. \A i, j \in DOMAIN s : s[i] < s[j] => i < j
  <2> SUFFICES ASSUME NEW i \in DOMAIN s, NEW j \in DOMAIN s, s[i] < s[j], ~(i < j)
               PROVE  FALSE
    OBVIOUS
  <2>1. i \in Nat /\ j \in Nat /\ s[i] \in Int /\ s[j] \in Int
    BY <1>0
  <2>2. i = j \/ j < i
    BY <2>1
  <2>3. i # j
    BY <2>1
  <2>4. s[j] < s[i]
    BY <1>1, <2>2, <2>3
  <2> QED BY <2>1, <2>4
<1>3. Distinct(s)
  <2> SUFFICES ASSUME NEW i \in DOMAIN s, NEW j \in DOMAIN s, s[i] = s[j]
               PROVE  i = j
    BY DEF Distinct
  <2>1. i \in Nat /\ j \in Nat /\ s[i] \in Int
    BY <1>0
  <2>2. ~(i < j) /\ ~(j < i)
    BY <1>1, <2>1
  <2> QED BY <2>1, <2>2
<1>4. IsSorted(s)
  <2> SUFFICES ASSUME NEW i \in 1..(Len(s) - 1) PROVE s[i] <= s[i + 1]
    BY DEF IsSorted
  <2>1. i \in DOMAIN s /\ i + 1 \in DOMAIN s /\ i < i + 1
    BY <1>0
  <2>2. s[i] < s[i + 1] /\ s[i] \in Int /\ s[i + 1] \in Int
    BY <1>0, <1>1, <2>1
  <2> QED BY <2>2
<1>5. ASSUME Precedes(s, x, y) PROVE Reads(s, x) /\ Reads(s, y) /\ x < y
  BY <1>1, <1>5 DEF Precedes, Reads
<1>6. ASSUME Reads(s, x), Reads(s, y), x < y PROVE Precedes(s, x, y)
  <2>1. PICK i \in DOMAIN s : s[i] = x
    BY <1>6 DEF Reads
  <2>2. PICK j \in DOMAIN s : s[j] = y
    BY <1>6 DEF Reads
  <2>3. i < j
    BY <1>2, <1>6, <2>1, <2>2
  <2> QED BY <2>1, <2>2, <2>3 DEF Precedes
<1> QED BY <1>3, <1>4, <1>5, <1>6

-----------------------------------------------------------------------------
(* Whether n's slot of the chain table is vacant, and the delta edges its  *)
(* chain threads.                                                          *)
Unchained(n, d) == n > Len(chains.last) \/ chains.last[n][d] = NONE

(* The delta edges in n's chain along d.                                   *)
ChainOf(n, d, C) ==
    \/ Unchained(n, d) /\ C = {}
    \/ ~Unchained(n, d) /\ RingSet(chains.next, chains.last[n][d], d, C)

(* A chain is read as the walk of its ring.                                *)
LEMMA ChainIsRanked ==
    ASSUME NEW n, NEW d, NEW C, ChainOf(n, d, C), Len(chains.next) \in Nat
    PROVE  /\ IsFiniteSet(C) /\ C \subseteq 1..Len(chains.next)
           /\ chain_run(n, d) = [i \in 1..Cardinality(C) |-> Len(base_edges) + Slot(C, i)]
<1>1. CASE Unchained(n, d)
  <2>1. C = {} /\ chain_run(n, d) = <<>>
    BY <1>1 DEF ChainOf, Unchained, chain_run
  <2>2. IsFiniteSet({}) /\ Cardinality({}) = 0
    BY FS_EmptySet
  <2>3. <<>> = [i \in 1..0 |-> Len(base_edges) + Slot({}, i)]
    OBVIOUS
  <2> QED BY <2>1, <2>2, <2>3
<1>2. CASE ~Unchained(n, d)
  <2> DEFINE last == chains.last[n][d]
             next == chains.next
             walk == ring(next, last, d)
             L == Len(next)
             K == Cardinality(C)
             Ends(i) == walk[i] = last /\ \A j \in 1..(i-1) : walk[j] # last
             length == CHOOSE i \in 1..L : Ends(i)
  <2>1. RingSet(next, last, d, C)
    BY <1>2 DEF ChainOf
  <2>2. chain_run(n, d) = [i \in 1..length |-> Len(base_edges) + walk[i]]
    BY <1>2 DEF Unchained, chain_run
  <2>3. L \in Nat
    OBVIOUS
  <2> HIDE DEF last, next
  <2>4. /\ IsFiniteSet(C) /\ K \in 1..L
        /\ \A i \in 1..K : walk[i] = Slot(C, i)
        /\ Slot(C, K) = last
    BY <2>1, <2>3, RingWalk
  <2>5. C \subseteq 1..L /\ C \subseteq Int
    BY <2>1 DEF RingSet
  <2>6. \A k \in 1..K : Slot(C, k) \in C /\ Rank(C, Slot(C, k)) = k
    BY <2>4, <2>5, RankBijection
  <2> HIDE DEF walk, K, L
  <2>7. \A j \in 1..K : walk[j] = last => j = K
    <3>1. K \in 1..K
      BY <2>3, <2>4
    <3> QED BY <2>4, <2>6, <3>1
  <2>8. Ends(K)
    <3>1. \A j \in 1..(K-1) : j \in 1..K /\ j # K
      BY <2>3, <2>4
    <3>2. K \in 1..K
      BY <2>3, <2>4
    <3> QED BY <2>4, <2>7, <3>1, <3>2
  <2>9. \A i \in 1..L : Ends(i) => i = K
    <3> SUFFICES ASSUME NEW i \in 1..L, Ends(i), i # K PROVE FALSE
      OBVIOUS
    <3>1. K \in Nat /\ i \in Nat /\ K >= 1 /\ i >= 1
      BY <2>3, <2>4
    <3>2. CASE i < K
      <4>1. i \in 1..K
        BY <3>1, <3>2
      <4> QED BY <2>7, <4>1
    <3>3. CASE K < i
      <4>1. K \in 1..(i-1)
        BY <3>1, <3>3
      <4> QED BY <2>8, <4>1
    <3> QED BY <3>1, <3>2, <3>3
  <2>10. length = K
    <3> HIDE DEF Ends
    <3> QED BY <2>4, <2>8, <2>9
  <2> HIDE DEF length
  <2>11. chain_run(n, d) = [i \in 1..K |-> Len(base_edges) + Slot(C, i)]
    BY <2>2, <2>4, <2>10
  <2> QED BY <2>4, <2>5, <2>11 DEF K, L, next
<1> QED BY <1>1, <1>2 DEF ChainOf

(* So it reads the delta edges it threads, in the order they were added.   *)
LEMMA ChainRead ==
    ASSUME NEW n, NEW d, NEW C, ChainOf(n, d, C), Len(chains.next) = Len(delta_edges),
           Len(delta_edges) \in Nat, Len(base_edges) \in Nat, NEW x, NEW y
    PROVE  /\ chain_run(n, d) \in EdgeRuns /\ Distinct(chain_run(n, d))
           /\ IsSorted(chain_run(n, d))
           /\ Reads(chain_run(n, d), x) <=> \E i \in C : x = Len(base_edges) + i
           /\ Precedes(chain_run(n, d), x, y)
                <=> Reads(chain_run(n, d), x) /\ Reads(chain_run(n, d), y) /\ x < y
<1> DEFINE w == chain_run(n, d)
           B == Len(base_edges)
           S == 1..edge_bound
           K == Cardinality(C)
<1>1. /\ IsFiniteSet(C) /\ C \subseteq 1..Len(delta_edges)
      /\ w = [i \in 1..K |-> B + Slot(C, i)]
  BY ChainIsRanked
<1>2. C \subseteq Int /\ B \in Int /\ S \subseteq Int
  BY <1>1
<1>3. \A c \in C : B + c \in S
  BY <1>1 DEF edge_bound
<1>4. /\ K \in Nat
      /\ \A s \in C : Rank(C, s) \in 1..K
      /\ \A s, t \in C : s < t => Rank(C, s) < Rank(C, t)
      /\ \A k \in 1..K : Slot(C, k) \in C /\ Rank(C, Slot(C, k)) = k
      /\ \A s \in C : Slot(C, Rank(C, s)) = s
  BY <1>1, <1>2, RankBijection
<1> HIDE DEF w, B, S, K
<1>5. w \in Seq(S) /\ DOMAIN w = 1..K
  <2>1. w \in [1..K -> S]
    BY <1>1, <1>3, <1>4
  <2> QED BY <1>4, <2>1, IntervalFunctionIsSeq
<1>6. \A i \in 1..K : w[i] = B + Slot(C, i)
  BY <1>1
<1>7. Increasing(w)
  <2> SUFFICES ASSUME NEW i \in 1..K, NEW j \in 1..K, i < j PROVE w[i] < w[j]
    BY <1>5 DEF Increasing
  <2> DEFINE a == Slot(C, i)
             b == Slot(C, j)
  <2>1. a \in C /\ b \in C /\ Rank(C, a) = i /\ Rank(C, b) = j
    BY <1>4
  <2>2. w[i] = B + a /\ w[j] = B + b
    BY <1>6
  <2> HIDE DEF a, b
  <2>3. ~(b < a) /\ a # b /\ a \in Int /\ b \in Int
    BY <1>2, <1>4, <2>1
  <2> QED BY <1>2, <2>2, <2>3
<1>8. ASSUME NEW z PROVE Reads(w, z) <=> \E c \in C : z = B + c
  <2>1. ASSUME Reads(w, z) PROVE \E c \in C : z = B + c
    BY <1>4, <1>5, <1>6, <2>1 DEF Reads
  <2>2. ASSUME NEW c \in C, z = B + c PROVE Reads(w, z)
    <3>1. Rank(C, c) \in 1..K /\ Slot(C, Rank(C, c)) = c
      BY <1>4
    <3> QED BY <1>5, <1>6, <2>2, <3>1 DEF Reads
  <2> QED BY <2>1, <2>2
<1>9. /\ Distinct(w) /\ IsSorted(w)
      /\ Precedes(w, x, y) <=> Reads(w, x) /\ Reads(w, y) /\ x < y
  BY <1>2, <1>5, <1>7, IncreasingRead
<1> QED BY <1>5, <1>8, <1>9 DEF w, B, S, EdgeRuns

-----------------------------------------------------------------------------
(* The store's inductive invariant, and what its walks read under it.      *)

(* The part of n's adjacency along d that does not sit in its chain.       *)
Run(n, d) == IF has_overlay(n, d) THEN relocations[d][n] ELSE base_run(n, d)

(* The records of edges between node slots.                                *)
EdgeRecords == [out : 1..node_bound, in : 1..node_bound, payload : Payload]

(* The shapes of the columns, the chain tables and the overlay tables.     *)
Shaped ==
    /\ base_nodes \in Seq(Payload) /\ delta_nodes \in Seq(Payload)
    /\ base_edges \in Seq(EdgeRecords) /\ delta_edges \in Seq(EdgeRecords)
    /\ node_bound <= MaxNodeSlots /\ edge_bound <= MaxEdgeSlots
    /\ chains \in [last : Seq([Direction -> Nat]), next : Seq([Direction -> Nat])]
    /\ Len(chains.last) <= node_bound /\ Len(chains.next) = Len(delta_edges)
    /\ DOMAIN relocations = Direction
    /\ relocations = [d \in Direction |-> relocations[d]]
    /\ \A d \in Direction : DOMAIN relocations[d] \subseteq 1..node_bound

(* The index of the base along d.                                          *)
Indexed(d) ==
    /\ index[d].offsets \in Seq(Nat)
    /\ index[d].edges \in Seq(1..Len(base_edges))
    /\ check_index(d)
    /\ \A i, j \in DOMAIN index[d].offsets :
          i <= j => index[d].offsets[i] <= index[d].offsets[j]

(* What n's adjacency along d consists of: a run and a chain of n's own    *)
(* delta edges, nothing twice, the run's identities below the chain's, and *)
(* together every live edge that ends at n and no other live edge.         *)
Adjacency(n, d) ==
    /\ Run(n, d) \in EdgeRuns /\ Distinct(Run(n, d))
    /\ \E C : ChainOf(n, d, C) /\ \A i \in C : delta_edges[i][d] = n
    /\ \A x, y : Reads(Run(n, d), x) /\ Reads(chain_run(n, d), y) => x < y
    /\ \A e \in live_edges :
          edges[e][d] = n <=> Reads(Run(n, d), e) \/ Reads(chain_run(n, d), e)

(* The inductive invariant of the whole store.                             *)
StoreInv ==
    /\ LivenessInv
    /\ Shaped
    /\ \A d \in Direction : Indexed(d)
    /\ \A n \in 1..node_bound, d \in Direction : Adjacency(n, d)
    /\ \A e \in live_edges, d \in Direction : edges[e][d] \in live_nodes

(* The order in which n's walk along d meets two edges.                    *)
Ordered(n, d, x, y) == Precedes(Run(n, d) \o chain_run(n, d), x, y)

(* The edge table is the base's records and then the delta's.              *)
LEMMA EdgeTable ==
    ASSUME Shaped
    PROVE  /\ Len(base_edges) \in Nat /\ Len(delta_edges) \in Nat
           /\ edge_bound = Len(base_edges) + Len(delta_edges) /\ edge_bound \in Nat
           /\ Len(base_nodes) \in Nat /\ Len(delta_nodes) \in Nat
           /\ node_bound = Len(base_nodes) + Len(delta_nodes) /\ node_bound \in Nat
           /\ edges \in Seq(EdgeRecords) /\ Len(edges) = edge_bound
           /\ DOMAIN edges = 1..edge_bound
           /\ \A e \in 1..Len(base_edges) : edges[e] = base_edges[e]
           /\ \A i \in 1..Len(delta_edges) : edges[Len(base_edges) + i] = delta_edges[i]
           /\ \A e \in 1..edge_bound : edges[e] \in EdgeRecords
           /\ DOMAIN base_edges = 1..Len(base_edges)
           /\ DOMAIN delta_edges = 1..Len(delta_edges)
<1>1. /\ Len(base_edges) \in Nat /\ Len(delta_edges) \in Nat
      /\ Len(base_nodes) \in Nat /\ Len(delta_nodes) \in Nat
      /\ DOMAIN base_edges = 1..Len(base_edges)
      /\ DOMAIN delta_edges = 1..Len(delta_edges)
  BY DEF Shaped
<1>2. base_edges \in Seq(EdgeRecords) /\ delta_edges \in Seq(EdgeRecords)
  BY DEF Shaped
<1>3. /\ edges \in Seq(EdgeRecords) /\ Len(edges) = Len(base_edges) + Len(delta_edges)
      /\ DOMAIN edges = 1..(Len(base_edges) + Len(delta_edges))
      /\ \A e \in 1..Len(base_edges) : edges[e] = base_edges[e]
      /\ \A i \in 1..Len(delta_edges) : edges[Len(base_edges) + i] = delta_edges[i]
  BY <1>2, ConcatParts DEF edges
<1>4. \A e \in 1..(Len(base_edges) + Len(delta_edges)) : edges[e] \in EdgeRecords
  BY <1>3, SeqParts
<1> QED BY <1>1, <1>3, <1>4 DEF edge_bound, node_bound

(* An edge's record names a node for each direction.                       *)
LEMMA EdgeEnds ==
    ASSUME Shaped, NEW e \in 1..edge_bound, NEW d \in Direction
    PROVE  edges[e][d] \in 1..node_bound
BY EdgeTable DEF EdgeRecords, Direction

(* n's chain, read.                                                        *)
LEMMA ChainFacts ==
    ASSUME StoreInv, NEW n \in 1..node_bound, NEW d \in Direction, NEW x, NEW y
    PROVE  /\ chain_run(n, d) \in EdgeRuns /\ Distinct(chain_run(n, d))
           /\ IsSorted(chain_run(n, d))
           /\ Reads(chain_run(n, d), x) => x \in (Len(base_edges) + 1)..edge_bound
                                           /\ edges[x][d] = n
           /\ Precedes(chain_run(n, d), x, y)
                <=> Reads(chain_run(n, d), x) /\ Reads(chain_run(n, d), y) /\ x < y
<1>1. Shaped /\ Adjacency(n, d)
  BY DEF StoreInv
<1>2. PICK C : ChainOf(n, d, C) /\ \A i \in C : delta_edges[i][d] = n
  BY <1>1 DEF Adjacency
<1>3. /\ Len(base_edges) \in Nat /\ Len(delta_edges) \in Nat
      /\ Len(chains.next) = Len(delta_edges)
      /\ edge_bound = Len(base_edges) + Len(delta_edges)
      /\ \A i \in 1..Len(delta_edges) : edges[Len(base_edges) + i] = delta_edges[i]
  BY <1>1, EdgeTable DEF Shaped
<1>4. /\ chain_run(n, d) \in EdgeRuns /\ Distinct(chain_run(n, d))
      /\ IsSorted(chain_run(n, d))
      /\ Reads(chain_run(n, d), x) <=> \E i \in C : x = Len(base_edges) + i
      /\ Precedes(chain_run(n, d), x, y)
           <=> Reads(chain_run(n, d), x) /\ Reads(chain_run(n, d), y) /\ x < y
  BY <1>2, <1>3, ChainRead
<1>5. C \subseteq 1..Len(delta_edges)
  BY <1>2, <1>3, ChainIsRanked
<1>6. ASSUME Reads(chain_run(n, d), x)
      PROVE  x \in (Len(base_edges) + 1)..edge_bound /\ edges[x][d] = n
  <2>1. PICK i \in C : x = Len(base_edges) + i
    BY <1>4, <1>6
  <2>2. i \in 1..Len(delta_edges)
    BY <1>5
  <2>3. x \in (Len(base_edges) + 1)..edge_bound
    BY <1>3, <2>1, <2>2
  <2>4. edges[x] = delta_edges[i] /\ delta_edges[i][d] = n
    BY <1>2, <1>3, <2>1, <2>2
  <2> QED BY <2>3, <2>4
<1> QED BY <1>4, <1>6

(* The run and the chain together.                                         *)
LEMMA WholeRead ==
    ASSUME StoreInv, NEW n \in 1..node_bound, NEW d \in Direction, NEW x, NEW y
    PROVE  LET whole == Run(n, d) \o chain_run(n, d)
           IN  /\ whole \in EdgeRuns /\ Distinct(whole)
               /\ Reads(whole, x) <=> Reads(Run(n, d), x) \/ Reads(chain_run(n, d), x)
               /\ x \in live_edges => (Reads(whole, x) <=> edges[x][d] = n)
               /\ Precedes(whole, x, y) => Reads(whole, x) /\ Reads(whole, y)
               /\ Precedes(whole, x, y)
                    <=> \/ Precedes(Run(n, d), x, y)
                        \/ Reads(Run(n, d), x) /\ Reads(chain_run(n, d), y)
                        \/ /\ Reads(chain_run(n, d), x) /\ Reads(chain_run(n, d), y)
                           /\ x < y
<1> DEFINE r == Run(n, d)
           c == chain_run(n, d)
           w == r \o c
<1>1. /\ r \in EdgeRuns /\ Distinct(r)
      /\ \A u, v : Reads(r, u) /\ Reads(c, v) => u < v
      /\ \A e \in live_edges : edges[e][d] = n <=> Reads(r, e) \/ Reads(c, e)
  BY DEF StoreInv, Adjacency
<1>2. /\ c \in EdgeRuns /\ Distinct(c)
      /\ \A u : Reads(c, u) => u \in (Len(base_edges) + 1)..edge_bound
      /\ Precedes(c, x, y) <=> Reads(c, x) /\ Reads(c, y) /\ x < y
  BY ChainFacts
<1> HIDE DEF r, c
<1>3. /\ w \in EdgeRuns
      /\ Reads(w, x) <=> Reads(r, x) \/ Reads(c, x)
      /\ Reads(w, y) <=> Reads(r, y) \/ Reads(c, y)
      /\ Precedes(w, x, y) <=> \/ Precedes(r, x, y) \/ Precedes(c, x, y)
                               \/ Reads(r, x) /\ Reads(c, y)
  <2>1. r \in Seq(1..edge_bound) /\ c \in Seq(1..edge_bound)
    BY <1>1, <1>2 DEF EdgeRuns
  <2> QED BY <2>1, ConcatRead DEF EdgeRuns
<1>4. \A u : ~(Reads(r, u) /\ Reads(c, u))
  <2> SUFFICES ASSUME NEW u, Reads(r, u), Reads(c, u) PROVE FALSE
    OBVIOUS
  <2>1. u < u
    BY <1>1
  <2>2. u \in Int
    <3>1. Len(base_edges) \in Nat /\ edge_bound \in Nat
      BY EdgeTable DEF StoreInv
    <3> QED BY <1>2, <3>1
  <2> QED BY <2>1, <2>2
<1>5. Distinct(w)
  <2>1. r \in Seq(1..edge_bound) /\ c \in Seq(1..edge_bound)
    BY <1>1, <1>2 DEF EdgeRuns
  <2> QED BY <1>1, <1>2, <1>4, <2>1, ConcatDistinct
<1>6. Precedes(r, x, y) => Reads(r, x) /\ Reads(r, y)
  BY DEF Precedes, Reads
<1> QED BY <1>1, <1>2, <1>3, <1>5, <1>6 DEF r, c

(* A removed node reads nothing of either.                                 *)
LEMMA RemovedReadsNothing ==
    ASSUME StoreInv, NEW n \in 1..node_bound, NEW d \in Direction, n \notin live_nodes,
           NEW e \in live_edges
    PROVE  ~Reads(Run(n, d), e) /\ ~Reads(chain_run(n, d), e)
<1>1. edges[e][d] \in live_nodes
  BY DEF StoreInv
<1>2. edges[e][d] # n
  BY <1>1
<1> QED BY <1>2 DEF StoreInv, Adjacency

(* The walk reads a node's live edges, each once, in that order.           *)
LEMMA AdjacentRead ==
    ASSUME StoreInv, NEW n \in 1..node_bound, NEW d \in Direction, NEW x, NEW y
    PROVE  /\ adjacent(n, d) \in EdgeRuns /\ Distinct(adjacent(n, d))
           /\ Reads(adjacent(n, d), x) <=> x \in live_edges /\ edges[x][d] = n
           /\ Precedes(adjacent(n, d), x, y)
                <=> x \in live_edges /\ y \in live_edges /\ Ordered(n, d, x, y)
<1> DEFINE r == Run(n, d)
           c == chain_run(n, d)
           gone == tombstoned_nodes /\ n \notin live_nodes
           run == IF has_overlay(n, d) THEN relocations[d][n]
                  ELSE IF gone THEN <<>> ELSE base_run(n, d)
           delta == IF gone THEN <<>> ELSE c
           walk == run \o delta
<1>0. LivenessInv
  BY DEF StoreInv
<1>1. adjacent(n, d) = LiveOf(walk)
  BY DEF adjacent
<1>2. r \in EdgeRuns /\ Distinct(r) /\ c \in EdgeRuns /\ Distinct(c)
  BY ChainFacts DEF StoreInv, Adjacency
<1>3. /\ r \o c \in EdgeRuns /\ Distinct(r \o c)
      /\ Reads(r \o c, x) <=> Reads(r, x) \/ Reads(c, x)
      /\ x \in live_edges => (Reads(r \o c, x) <=> edges[x][d] = n)
      /\ Precedes(r \o c, x, y) => Reads(r \o c, x) /\ Reads(r \o c, y)
  BY WholeRead
<1>4. CASE ~gone
  <2>1. walk = r \o c
    BY <1>4 DEF Run
  <2> HIDE DEF r, c, walk
  <2>2. /\ LiveOf(walk) \in EdgeRuns /\ Distinct(LiveOf(walk))
        /\ Reads(LiveOf(walk), x) <=> Reads(walk, x) /\ x \in live_edges
        /\ Precedes(LiveOf(walk), x, y)
             <=> Precedes(walk, x, y) /\ x \in live_edges /\ y \in live_edges
    BY <1>0, <1>3, <2>1, LiveOfRead
  <2>3. Precedes(walk, x, y) <=> Ordered(n, d, x, y)
    BY <2>1 DEF Ordered, r, c
  <2> QED BY <1>1, <1>3, <2>1, <2>2, <2>3
<1>5. CASE gone
  <2>1. walk \in EdgeRuns /\ Distinct(walk) /\ \A z : Reads(walk, z) => Reads(r, z)
    <3>1. delta = <<>> /\ <<>> \in Seq(1..edge_bound)
      BY <1>5
    <3>2. CASE has_overlay(n, d)
      <4>1. run = r
        BY <3>2 DEF Run
      <4> HIDE DEF run, delta, r
      <4>2. run \in Seq(1..edge_bound)
        BY <1>2, <4>1 DEF EdgeRuns
      <4>3. walk = run
        BY <3>1, <4>2
      <4> QED BY <1>2, <4>1, <4>3
    <3>3. CASE ~has_overlay(n, d)
      <4>1. run = <<>>
        BY <1>5, <3>3
      <4> HIDE DEF run, delta, r
      <4>2. walk = <<>>
        BY <3>1, <4>1
      <4> QED BY <3>1, <4>2, EmptyRead DEF EdgeRuns
    <3> QED BY <3>2, <3>3
  <2>2. \A z \in live_edges : ~Reads(r, z) /\ ~Reads(c, z)
    BY <1>5, RemovedReadsNothing
  <2> HIDE DEF r, c, walk
  <2>3. /\ LiveOf(walk) \in EdgeRuns /\ Distinct(LiveOf(walk))
        /\ Reads(LiveOf(walk), x) <=> Reads(walk, x) /\ x \in live_edges
        /\ Precedes(LiveOf(walk), x, y)
             <=> Precedes(walk, x, y) /\ x \in live_edges /\ y \in live_edges
    BY <1>0, <2>1, LiveOfRead
  <2>4. Precedes(walk, x, y) => Reads(walk, x)
    BY DEF Precedes, Reads
  <2>5. Ordered(n, d, x, y) <=> Precedes(r \o c, x, y)
    BY DEF Ordered, r, c
  <2> QED BY <1>1, <1>3, <2>1, <2>2, <2>3, <2>4, <2>5
<1> QED BY <1>4, <1>5

-----------------------------------------------------------------------------
(* What the invariant implies.                                             *)

(* A sequence without repetition is as long as it has elements.            *)
LEMMA DistinctCount ==
    ASSUME NEW S, NEW s \in Seq(S), Distinct(s)
    PROVE  IsFiniteSet(Elements(s)) /\ Cardinality(Elements(s)) = Len(s)
<1> DEFINE D == 1..Len(s)
           T == Elements(s)
<1>1. Len(s) \in Nat /\ DOMAIN s = D
  BY SeqParts
<1>2. IsFiniteSet(D) /\ Cardinality(D) = Len(s)
  BY <1>1, IntervalSize
<1>3. s \in Surjection(D, T) /\ s \in Injection(D, T)
  <2>1. s \in [D -> T] /\ \A t \in T : \E i \in D : s[i] = t
    BY <1>1 DEF Elements
  <2>2. \A i, j \in D : s[i] = s[j] => i = j
    BY <1>1 DEF Distinct
  <2> QED BY <2>1, <2>2 DEF Surjection, Injection, IsInjective
<1> HIDE DEF D, T
<1>4. IsFiniteSet(T) /\ Cardinality(T) = Cardinality(D)
  <2>1. ExistsBijection(D, T)
    BY <1>3 DEF ExistsBijection, Bijection
  <2> QED BY <1>2, <2>1, FS_Bijection
<1> QED BY <1>2, <1>4 DEF T

(* Membership in the elements is being read.                               *)
LEMMA ElementsRead ==
    ASSUME NEW s, NEW x
    PROVE  x \in Elements(s) <=> Reads(s, x)
BY DEF Elements, Reads

(* A live node's walk reads each of its live edges once, and no other.     *)
LEMMA MirroredHolds ==
    ASSUME StoreInv
    PROVE  MirroredAdjacency
<1> SUFFICES ASSUME NEW n \in 1..node_bound, NEW d \in Direction
             PROVE  /\ Elements(adjacent(n, d)) = {e \in edge_ids : edges[e][d] = n}
                    /\ Len(adjacent(n, d)) = Cardinality(Elements(adjacent(n, d)))
                    /\ n \notin node_ids => adjacent(n, d) = <<>>
  BY DEF MirroredAdjacency
<1> DEFINE walk == adjacent(n, d)
<1>1. walk \in EdgeRuns /\ Distinct(walk)
  BY AdjacentRead
<1>2. \A x : Reads(walk, x) <=> x \in live_edges /\ edges[x][d] = n
  BY AdjacentRead
<1>3. edge_ids = live_edges /\ node_ids = live_nodes
  BY LivenessAnswers DEF StoreInv, LivenessInv, Counted, node_ids, edge_ids
<1> HIDE DEF walk
<1>4. Elements(walk) = {e \in edge_ids : edges[e][d] = n}
  BY <1>2, <1>3, ElementsRead
<1>5. Len(walk) = Cardinality(Elements(walk))
  BY <1>1, DistinctCount DEF EdgeRuns
<1>6. ASSUME n \notin node_ids PROVE walk = <<>>
  <2>1. \A x : ~Reads(walk, x)
    BY <1>2, <1>3, <1>6 DEF StoreInv
  <2>2. DOMAIN walk = {} /\ DOMAIN walk = 1..Len(walk) /\ Len(walk) \in Nat
    BY <1>1, <2>1, SeqParts DEF EdgeRuns, Reads
  <2>3. Len(walk) = 0
    BY <2>2
  <2> QED BY <1>1, <2>3 DEF EdgeRuns
<1> QED BY <1>4, <1>5, <1>6 DEF walk

(* The base run is a slice of the index.                                   *)
LEMMA BaseRunParts ==
    ASSUME StoreInv, NEW n \in 1..node_bound, NEW d \in Direction
    PROVE  /\ base_run(n, d) \in Seq(1..Len(base_edges))
           /\ Len(base_run(n, d)) = IF n < Len(index[d].offsets)
                                    THEN index[d].offsets[n+1] - index[d].offsets[n] ELSE 0
<1> DEFINE offsets == index[d].offsets
           listed == index[d].edges
           N == Len(base_nodes)
           B == Len(base_edges)
<1>1. /\ offsets \in Seq(Nat) /\ listed \in Seq(1..B) /\ check_index(d)
      /\ \A i, j \in DOMAIN offsets : i <= j => offsets[i] <= offsets[j]
  BY DEF StoreInv, Indexed
<1>2. N \in Nat /\ B \in Nat /\ n \in Nat /\ n >= 1
  BY EdgeTable DEF StoreInv
<1>3. CASE offsets = <<>>
  <2>1. ~(n < Len(offsets))
    BY <1>2, <1>3
  <2> QED BY <2>1 DEF base_run
<1>4. CASE offsets # <<>>
  <2>1. /\ Len(offsets) = N + 1 /\ Len(listed) = B
        /\ offsets[Len(offsets)] = Len(listed)
        /\ \A i \in 1..N : offsets[i] <= offsets[i+1]
    BY <1>1, <1>4 DEF check_index
  <2>2. CASE n < Len(offsets)
    <3> DEFINE a == offsets[n]
               b == offsets[n + 1]
    <3>1. /\ n \in DOMAIN offsets /\ n + 1 \in DOMAIN offsets
          /\ Len(offsets) \in DOMAIN offsets /\ n <= n + 1 /\ n + 1 <= Len(offsets)
      <4>1. DOMAIN offsets = 1..Len(offsets)
        BY <1>1, SeqParts
      <4>2. Len(offsets) = N + 1
        BY <2>1
      <4> HIDE DEF offsets, N
      <4> QED BY <1>2, <2>2, <4>1, <4>2
    <3>2. a \in Nat /\ b \in Nat /\ a <= b /\ b <= Len(listed)
      <4>1. \A i \in DOMAIN offsets : offsets[i] \in Nat
        BY <1>1, SeqParts
      <4>2. a \in Nat /\ b \in Nat
        BY <3>1, <4>1
      <4>3. a <= b /\ b <= offsets[Len(offsets)]
        <5> HIDE DEF offsets
        <5> QED BY <1>1, <3>1
      <4> QED BY <2>1, <4>2, <4>3
    <3>3. base_run(n, d) = SubSeq(listed, a + 1, b)
      BY <2>2 DEF base_run
    <3> HIDE DEF a, b, listed, offsets, B
    <3>4. SubSeq(listed, a + 1, b) \in Seq(1..B) /\ Len(SubSeq(listed, a + 1, b)) = b - a
      BY <1>1, <3>2, SubSeqParts
    <3> QED BY <2>2, <3>3, <3>4 DEF a, b, B, offsets
  <2>3. CASE ~(n < Len(offsets))
    BY <2>3 DEF base_run
  <2> QED BY <2>2, <2>3
<1> QED BY <1>3, <1>4

(* The degree shortcut and the order of run and chain follow.              *)
LEMMA RunThenChainHolds ==
    ASSUME StoreInv
    PROVE  RunThenChain
<1> SUFFICES ASSUME NEW n \in 1..node_bound, NEW d \in Direction
             PROVE  /\ degree(n, d) = Len(adjacent(n, d))
                    /\ IsSorted(chain_run(n, d))
                    /\ \A i \in DOMAIN Run(n, d), j \in DOMAIN chain_run(n, d) :
                          Run(n, d)[i] < chain_run(n, d)[j]
  BY DEF RunThenChain, Run
<1>1. IsSorted(chain_run(n, d)) /\ chain_run(n, d) \in EdgeRuns
  BY ChainFacts
<1>2. \A i \in DOMAIN Run(n, d), j \in DOMAIN chain_run(n, d) :
          Run(n, d)[i] < chain_run(n, d)[j]
  BY DEF StoreInv, Adjacency, Reads
<1>3. degree(n, d) = Len(adjacent(n, d))
  <2>1. CASE tombstoned_edges
    BY <2>1 DEF degree
  <2>2. CASE ~tombstoned_edges
    <3> DEFINE gone == tombstoned_nodes /\ n \notin live_nodes
               run == IF has_overlay(n, d) THEN relocations[d][n]
                      ELSE IF gone THEN <<>> ELSE base_run(n, d)
               delta == IF gone THEN <<>> ELSE chain_run(n, d)
               size == IF has_overlay(n, d) THEN Len(relocations[d][n])
                       ELSE IF gone \/ n >= Len(index[d].offsets) THEN 0
                       ELSE index[d].offsets[n+1] - index[d].offsets[n]
    <3>1. adjacent(n, d) = run \o delta
      BY <2>2 DEF adjacent, LiveOf
    <3>2. degree(n, d) = size + (IF gone THEN 0 ELSE Len(chain_run(n, d)))
      BY <2>2 DEF degree
    <3>3. Run(n, d) \in EdgeRuns
      BY DEF StoreInv, Adjacency
    <3>4. /\ base_run(n, d) \in Seq(1..Len(base_edges))
          /\ Len(base_run(n, d)) = IF n < Len(index[d].offsets)
                                   THEN index[d].offsets[n+1] - index[d].offsets[n] ELSE 0
          /\ Len(index[d].offsets) \in Nat
      <4>1. index[d].offsets \in Seq(Nat)
        BY DEF StoreInv, Indexed
      <4>2. Len(index[d].offsets) \in Nat
        BY <4>1, SeqParts
      <4> QED BY <4>2, BaseRunParts
    <3>5. Len(run) = size
      <4>1. CASE has_overlay(n, d)
        BY <4>1
      <4>2. CASE ~has_overlay(n, d) /\ gone
        BY <4>2
      <4>3. CASE ~has_overlay(n, d) /\ ~gone
        <5>1. n \in Int /\ Len(index[d].offsets) \in Int
          BY <3>4
        <5>2. n >= Len(index[d].offsets) <=> ~(n < Len(index[d].offsets))
          BY <5>1
        <5>3. run = base_run(n, d)
          BY <4>3
        <5>4. size = IF n >= Len(index[d].offsets) THEN 0
                     ELSE index[d].offsets[n+1] - index[d].offsets[n]
          BY <4>3
        <5> HIDE DEF run, size
        <5> QED BY <3>4, <5>2, <5>3, <5>4
      <4> QED BY <4>1, <4>2, <4>3
    <3>6. Len(delta) = IF gone THEN 0 ELSE Len(chain_run(n, d))
      OBVIOUS
    <3>7. (\E S : run \in Seq(S)) /\ \E S : delta \in Seq(S)
      <4>1. has_overlay(n, d) => relocations[d][n] \in EdgeRuns
        BY <3>3 DEF Run
      <4>2. <<>> \in EdgeRuns
        BY DEF EdgeRuns
      <4>3. run \in EdgeRuns \/ run \in Seq(1..Len(base_edges))
        BY <3>4, <4>1, <4>2
      <4>4. delta \in EdgeRuns
        BY <1>1, <4>2
      <4> HIDE DEF run, delta
      <4> QED BY <4>3, <4>4 DEF EdgeRuns
    <3> HIDE DEF run, delta, size, gone
    <3>8. Len(run \o delta) = Len(run) + Len(delta)
      BY <3>7
    <3> QED BY <3>1, <3>2, <3>5, <3>6, <3>8
  <2> QED BY <2>1, <2>2
<1> QED BY <1>1, <1>2, <1>3

(* A chain passes the check of DeltaChains.                                *)
LEMMA ChainsChecked ==
    ASSUME StoreInv, NEW d \in Direction
    PROVE  check_chains(d)
<1>0. /\ Len(chains.last) <= node_bound /\ Len(chains.next) = Len(delta_edges)
      /\ Len(chains.last) \in Nat /\ DOMAIN chains.last = 1..Len(chains.last)
      /\ Len(delta_edges) \in Nat /\ DOMAIN delta_edges = 1..Len(delta_edges)
      /\ node_bound \in Nat
  BY EdgeTable DEF StoreInv, Shaped
<1> SUFFICES ASSUME NEW n \in DOMAIN chains.last, chains.last[n][d] # NONE
             PROVE  LET last == chains.last[n][d]
                        own == {i \in DOMAIN delta_edges : delta_edges[i][d] = n}
                        walk == ring(chains.next, last, d)
                    IN  \E k \in 1..Len(chains.next) :
                          /\ walk[k] = last
                          /\ \A i \in 1..k : walk[i] \in own
                          /\ \A i, j \in 1..k : walk[i] = walk[j] => i = j
  BY <1>0 DEF check_chains
<1> DEFINE last == chains.last[n][d]
           own == {i \in DOMAIN delta_edges : delta_edges[i][d] = n}
           next == chains.next
           walk == ring(next, last, d)
<1>1. n \in 1..node_bound
  BY <1>0
<1>2. PICK C : ChainOf(n, d, C) /\ \A i \in C : delta_edges[i][d] = n
  BY <1>1 DEF StoreInv, Adjacency
<1>3. RingSet(next, last, d, C)
  <2>1. ~Unchained(n, d)
    BY <1>0 DEF Unchained
  <2> QED BY <1>2, <2>1 DEF ChainOf
<1>4. C \subseteq own /\ C \subseteq Int
  BY <1>0, <1>2, <1>3 DEF RingSet
<1> DEFINE K == Cardinality(C)
<1>5. Len(next) \in Nat
  BY <1>0
<1> HIDE DEF last, next
<1>6. /\ IsFiniteSet(C) /\ K \in 1..Len(next)
      /\ \A i \in 1..K : walk[i] = Slot(C, i)
      /\ Slot(C, K) = last
  BY <1>3, <1>5, RingWalk
<1>7. \A k \in 1..K : Slot(C, k) \in C /\ Rank(C, Slot(C, k)) = k
  BY <1>4, <1>6, RankBijection
<1> HIDE DEF walk, K, own
<1>8. K \in 1..K
  BY <1>5, <1>6
<1>9. /\ walk[K] = last
      /\ \A i \in 1..K : walk[i] \in own
      /\ \A i, j \in 1..K : walk[i] = walk[j] => i = j
  <2>1. walk[K] = last
    BY <1>6, <1>8
  <2>2. \A i \in 1..K : walk[i] \in own
    BY <1>4, <1>6, <1>7
  <2>3. \A i, j \in 1..K : walk[i] = walk[j] => i = j
    BY <1>6, <1>7
  <2> QED BY <2>1, <2>2, <2>3
<1> QED BY <1>6, <1>9 DEF own, walk, last, next

(* So does everything Stored::try_from asks of a document.                 *)
LEMMA DocumentHolds ==
    ASSUME StoreInv
    PROVE  DocumentAccepted
<1>1. \A e \in 1..edge_bound, d \in Direction : edges[e][d] \in 1..node_bound
  BY EdgeEnds DEF StoreInv
<1>2. ASSUME NEW d \in Direction PROVE from_encoded(d)
  <2>1. DOMAIN relocations[d] \subseteq 1..node_bound
    BY DEF StoreInv, Shaped
  <2>2. ASSUME NEW n \in DOMAIN relocations[d]
        PROVE  Elements(relocations[d][n]) \subseteq 1..edge_bound
    <3>1. n \in 1..node_bound /\ Run(n, d) = relocations[d][n]
      BY <2>1 DEF Run, has_overlay
    <3>2. relocations[d][n] \in EdgeRuns
      BY <3>1 DEF StoreInv, Adjacency
    <3>3. \A i \in DOMAIN relocations[d][n] : relocations[d][n][i] \in 1..edge_bound
      BY <3>2, SeqParts DEF EdgeRuns
    <3> QED BY <3>3 DEF Elements
  <2> QED BY <2>1, <2>2 DEF from_encoded
<1>3. \A d \in Direction : check_index(d) /\ check_chains(d) /\ from_encoded(d)
  BY <1>2, ChainsChecked DEF StoreInv, Indexed
<1> QED
  BY <1>1, <1>3, MirroredHolds
  DEF StoreInv, Shaped, LivenessInv, Counted, DocumentAccepted

-----------------------------------------------------------------------------
(* The operations that move no edge.                                       *)

(* The readings above, of the state a step leads to.                       *)
LEMMA ChainIsRankedNext ==
    ASSUME NEW n, NEW d, NEW C
    PROVE  (ChainOf(n, d, C) /\ Len(chains.next) \in Nat =>
              /\ IsFiniteSet(C) /\ C \subseteq 1..Len(chains.next)
              /\ chain_run(n, d)
                   = [i \in 1..Cardinality(C) |-> Len(base_edges) + Slot(C, i)])'
<1>1. ChainOf(n, d, C) /\ Len(chains.next) \in Nat =>
        /\ IsFiniteSet(C) /\ C \subseteq 1..Len(chains.next)
        /\ chain_run(n, d)
             = [i \in 1..Cardinality(C) |-> Len(base_edges) + Slot(C, i)]
  BY ChainIsRanked
<1> QED BY <1>1, PTL

(* How a chain reads in the state a step leads to.                         *)
LEMMA ChainReadNext ==
    ASSUME NEW n, NEW d, NEW C
    PROVE  ((/\ ChainOf(n, d, C) /\ Len(chains.next) = Len(delta_edges)
             /\ Len(delta_edges) \in Nat /\ Len(base_edges) \in Nat) =>
              /\ chain_run(n, d) \in EdgeRuns /\ Distinct(chain_run(n, d))
              /\ \A x : Reads(chain_run(n, d), x) <=> \E i \in C : x = Len(base_edges) + i
              /\ \A x, y : Precedes(chain_run(n, d), x, y)
                   <=> Reads(chain_run(n, d), x) /\ Reads(chain_run(n, d), y) /\ x < y)'
<1>1. (/\ ChainOf(n, d, C) /\ Len(chains.next) = Len(delta_edges)
       /\ Len(delta_edges) \in Nat /\ Len(base_edges) \in Nat) =>
        /\ chain_run(n, d) \in EdgeRuns /\ Distinct(chain_run(n, d))
        /\ \A x : Reads(chain_run(n, d), x) <=> \E i \in C : x = Len(base_edges) + i
        /\ \A x, y : Precedes(chain_run(n, d), x, y)
             <=> Reads(chain_run(n, d), x) /\ Reads(chain_run(n, d), y) /\ x < y
  <2> SUFFICES ASSUME ChainOf(n, d, C), Len(chains.next) = Len(delta_edges),
                      Len(delta_edges) \in Nat, Len(base_edges) \in Nat
               PROVE  \A x, y :
                        /\ chain_run(n, d) \in EdgeRuns /\ Distinct(chain_run(n, d))
                        /\ Reads(chain_run(n, d), x) <=> \E i \in C : x = Len(base_edges) + i
                        /\ Precedes(chain_run(n, d), x, y)
                             <=> Reads(chain_run(n, d), x) /\ Reads(chain_run(n, d), y) /\ x < y
    BY Zenon
  <2> TAKE x, y
  <2> QED BY ChainRead
<1> QED BY <1>1, PTL

(* The edge table of the state a step leads to.                            *)
LEMMA EdgeTableNext ==
    (Shaped =>
       /\ Len(base_edges) \in Nat /\ Len(delta_edges) \in Nat
       /\ edge_bound = Len(base_edges) + Len(delta_edges) /\ edge_bound \in Nat
       /\ Len(base_nodes) \in Nat /\ Len(delta_nodes) \in Nat
       /\ node_bound = Len(base_nodes) + Len(delta_nodes) /\ node_bound \in Nat
       /\ DOMAIN edges = 1..edge_bound
       /\ \A e \in 1..Len(base_edges) : edges[e] = base_edges[e]
       /\ \A i \in 1..Len(delta_edges) : edges[Len(base_edges) + i] = delta_edges[i]
       /\ \A e \in 1..edge_bound : edges[e] \in EdgeRecords)'
<1>1. Shaped =>
       /\ Len(base_edges) \in Nat /\ Len(delta_edges) \in Nat
       /\ edge_bound = Len(base_edges) + Len(delta_edges) /\ edge_bound \in Nat
       /\ Len(base_nodes) \in Nat /\ Len(delta_nodes) \in Nat
       /\ node_bound = Len(base_nodes) + Len(delta_nodes) /\ node_bound \in Nat
       /\ DOMAIN edges = 1..edge_bound
       /\ \A e \in 1..Len(base_edges) : edges[e] = base_edges[e]
       /\ \A i \in 1..Len(delta_edges) : edges[Len(base_edges) + i] = delta_edges[i]
       /\ \A e \in 1..edge_bound : edges[e] \in EdgeRecords
  BY EdgeTable
<1> QED BY <1>1, PTL

(* An edge slot holds a base edge or a delta edge.                         *)
LEMMA SlotSplit ==
    ASSUME Shaped, NEW e \in 1..edge_bound
    PROVE  e \in 1..Len(base_edges) \/ \E i \in 1..Len(delta_edges) : e = Len(base_edges) + i
<1>1. /\ Len(base_edges) \in Nat /\ Len(delta_edges) \in Nat
      /\ edge_bound = Len(base_edges) + Len(delta_edges)
  BY EdgeTable
<1>2. CASE e \notin 1..Len(base_edges)
  <2>1. e - Len(base_edges) \in 1..Len(delta_edges)
    BY <1>1, <1>2
  <2>2. e = Len(base_edges) + (e - Len(base_edges))
    BY <1>1
  <2> QED BY <2>1, <2>2
<1> QED BY <1>2

(* A chain that threads the same edges is read the same.                   *)
LEMMA ChainKept ==
    ASSUME NEW n, NEW d, NEW C, ChainOf(n, d, C), ChainOf(n, d, C)',
           Len(chains.next) \in Nat, Len(chains.next)' \in Nat,
           Len(base_edges)' = Len(base_edges)
    PROVE  chain_run(n, d)' = chain_run(n, d)
<1>1. chain_run(n, d) = [i \in 1..Cardinality(C) |-> Len(base_edges) + Slot(C, i)]
  BY ChainIsRanked
<1>2. chain_run(n, d)' = [i \in 1..Cardinality(C) |-> Len(base_edges)' + Slot(C, i)]
  BY ChainIsRankedNext
<1> QED BY <1>1, <1>2

(* An adjacency a step does not touch.                                     *)
LEMMA AdjacencyKept ==
    ASSUME StoreInv, NEW n \in 1..node_bound, NEW d \in Direction,
           Run(n, d)' = Run(n, d), chain_run(n, d)' = chain_run(n, d),
           \A C : ChainOf(n, d, C) /\ (\A i \in C : delta_edges[i][d] = n)
                    => ChainOf(n, d, C)' /\ \A i \in C : delta_edges'[i][d] = n,
           edge_bound \in Nat, edge_bound' \in Nat, edge_bound <= edge_bound',
           \A e \in live_edges' : e \in live_edges \/ e \notin 1..edge_bound,
           \A e \in live_edges' : edges'[e][d] = n <=> e \in live_edges /\ edges[e][d] = n
    PROVE  Adjacency(n, d)'
<1> DEFINE r == Run(n, d)
           c == chain_run(n, d)
<1>1. /\ r \in EdgeRuns /\ Distinct(r)
      /\ \A x, y : Reads(r, x) /\ Reads(c, y) => x < y
      /\ \A e \in live_edges : edges[e][d] = n <=> Reads(r, e) \/ Reads(c, e)
      /\ \E C : ChainOf(n, d, C) /\ \A i \in C : delta_edges[i][d] = n
  BY DEF StoreInv, Adjacency
<1>2. c \in EdgeRuns
  BY ChainFacts
<1> HIDE DEF r, c
<1>3. \A i \in 1..edge_bound : i \in 1..edge_bound'
  OBVIOUS
<1>4. r \in EdgeRuns'
  BY <1>1, <1>3 DEF EdgeRuns
<1>5. \A e : Reads(r, e) \/ Reads(c, e) => e \in 1..edge_bound
  BY <1>1, <1>2, SeqParts DEF EdgeRuns, Reads
<1>6. \A e \in live_edges' : edges'[e][d] = n <=> Reads(r, e) \/ Reads(c, e)
  BY <1>1, <1>5
<1>7. \E C : ChainOf(n, d, C)' /\ \A i \in C : delta_edges'[i][d] = n
  BY <1>1
<1>8. Run(n, d)' = r /\ chain_run(n, d)' = c
  BY DEF r, c
<1> QED BY <1>1, <1>4, <1>6, <1>7, <1>8 DEF Adjacency

(* The chains of a step that leaves the chain tables alone.                *)
LEMMA ChainsUnchanged ==
    ASSUME chains' = chains, Len(base_edges)' = Len(base_edges), NEW n, NEW d
    PROVE  /\ chain_run(n, d)' = chain_run(n, d)
           /\ \A C : ChainOf(n, d, C)' <=> ChainOf(n, d, C)
BY DEF chain_run, ChainOf, Unchained

(* The runs of a step that leaves the index and the overlays alone.        *)
LEMMA RunsUnchanged ==
    ASSUME index' = index, relocations' = relocations, NEW n, NEW d
    PROVE  Run(n, d)' = Run(n, d)
BY DEF Run, base_run, has_overlay

(* The base's index where the base stays as long as it was.                *)
LEMMA IndexKept ==
    ASSUME NEW d, Indexed(d), index' = index, Len(base_edges)' = Len(base_edges),
           base_nodes \in Seq(Payload), base_nodes' \in Seq(Payload),
           base_edges \in Seq(EdgeRecords), \E T : base_edges' \in Seq(T),
           Len(base_nodes)' = Len(base_nodes)
    PROVE  Indexed(d)'
<1>1. (base_nodes = <<>> => base_nodes' = <<>>) /\ (base_edges = <<>> => base_edges' = <<>>)
  OBVIOUS
<1> QED BY <1>1 DEF Indexed, check_index

(* add_node: a new slot whose run and chain are empty.                     *)
LEMMA AddNodeStore ==
    ASSUME StoreInv, NEW p \in Payload, add_node(p)
    PROVE  StoreInv'
<1>0. LivenessInv /\ Shaped
  BY DEF StoreInv
<1>1. LivenessInv'
  BY <1>0, AddNodeLiveness
<1>2. delta_nodes' \in Seq(Payload) /\ Len(delta_nodes') = Len(delta_nodes) + 1
  BY <1>0 DEF add_node, Shaped
<1>3. /\ node_bound' = node_bound + 1 /\ edge_bound' = edge_bound /\ edges' = edges
      /\ node_bound \in Nat /\ edge_bound \in Nat
  BY <1>0, <1>2, EdgeTable DEF node_bound, edge_bound, edges, add_node
<1>4. \A n \in 1..node_bound : n \in 1..node_bound'
  BY <1>3
<1>5. EdgeRecords \subseteq EdgeRecords'
  BY <1>4 DEF EdgeRecords
<1>6. Shaped'
  <2>1. base_edges' \in Seq(EdgeRecords') /\ delta_edges' \in Seq(EdgeRecords')
    BY <1>0, <1>5 DEF Shaped, add_node
  <2>2. node_bound' <= MaxNodeSlots /\ edge_bound' <= MaxEdgeSlots
    <3>1. node_bound < MaxNodeSlots /\ edge_bound <= MaxEdgeSlots
      BY <1>0 DEF add_node, Shaped
    <3> QED BY <1>3, <3>1, SlotAssumption
  <2>3. Len(chains.last) \in Nat
    BY <1>0 DEF Shaped
  <2>4. Len(chains'.last) <= node_bound'
    BY <1>0, <1>3, <2>3 DEF Shaped, add_node
  <2> QED BY <1>0, <1>2, <1>4, <2>1, <2>2, <2>4 DEF Shaped, add_node
<1>7. \A d \in Direction : Indexed(d)'
  BY <1>0, IndexKept DEF StoreInv, Shaped, add_node
<1>8. ASSUME NEW n \in 1..node_bound', NEW d \in Direction PROVE Adjacency(n, d)'
  <2>1. Run(n, d)' = Run(n, d)
    BY RunsUnchanged DEF add_node
  <2>2. /\ chain_run(n, d)' = chain_run(n, d)
        /\ \A C : ChainOf(n, d, C)' <=> ChainOf(n, d, C)
    BY ChainsUnchanged DEF add_node
  <2>3. CASE n \in 1..node_bound
    BY <1>3, <2>1, <2>2, <2>3, AdjacencyKept DEF add_node
  <2>4. CASE n \notin 1..node_bound
    <3>1. n = node_bound + 1 /\ n \notin 1..node_bound
      BY <1>3, <2>4
    <3>2. Run(n, d) = <<>>
      <4>1. ~has_overlay(n, d)
        BY <1>0, <3>1 DEF Shaped, has_overlay
      <4>2. ~(n < Len(index[d].offsets))
        <5>1. /\ node_bound = Len(base_nodes) + Len(delta_nodes)
              /\ Len(base_nodes) \in Nat /\ Len(delta_nodes) \in Nat
          BY <1>0, EdgeTable
        <5>2. \/ index[d].offsets = <<>>
              \/ Len(index[d].offsets) = Len(base_nodes) + 1
          BY DEF StoreInv, Indexed, check_index
        <5> QED BY <3>1, <5>1, <5>2
      <4> QED BY <4>1, <4>2 DEF Run, base_run
    <3>3. Unchained(n, d)
      <4>1. Len(chains.last) \in Nat /\ Len(chains.last) <= node_bound
        BY <1>0 DEF Shaped
      <4> QED BY <1>3, <3>1, <4>1 DEF Unchained
    <3>4. chain_run(n, d) = <<>> /\ ChainOf(n, d, {})
      BY <3>3 DEF chain_run, ChainOf, Unchained
    <3>5. \A e \in live_edges' : edges'[e][d] # n
      <4> SUFFICES ASSUME NEW e \in live_edges' PROVE edges'[e][d] # n
        OBVIOUS
      <4>1. e \in 1..edge_bound
        BY <1>0 DEF add_node, LivenessInv, Counted
      <4>2. edges[e][d] \in 1..node_bound
        BY <1>0, <4>1, EdgeEnds
      <4> QED BY <1>3, <3>1, <4>2
    <3>6. <<>> \in EdgeRuns' /\ Distinct(<<>>) /\ \A x : ~Reads(<<>>, x)
      BY EmptyRead DEF EdgeRuns
    <3>7. ChainOf(n, d, {})'
      BY <2>2, <3>4
    <3> QED BY <2>1, <2>2, <3>2, <3>4, <3>5, <3>6, <3>7 DEF Adjacency
  <2> QED BY <2>3, <2>4
<1>9. \A e \in live_edges', d \in Direction : edges'[e][d] \in live_nodes'
  BY <1>3 DEF StoreInv, add_node
<1> QED BY <1>1, <1>6, <1>7, <1>8, <1>9 DEF StoreInv

(* A step that removes edges, and perhaps a node none of whose edges stay. *)
LEMMA RetireStore ==
    ASSUME StoreInv, LivenessInv', live_edges' \subseteq live_edges,
           UNCHANGED <<base_nodes, delta_nodes, base_edges, delta_edges, index,
                       chains, relocations>>,
           \A e \in live_edges', d \in Direction : edges[e][d] \in live_nodes'
    PROVE  StoreInv'
<1>0. Shaped
  BY DEF StoreInv
<1>1. node_bound' = node_bound /\ edge_bound' = edge_bound /\ edges' = edges
  BY DEF node_bound, edge_bound, edges
<1>2. Shaped'
  BY <1>0, <1>1 DEF Shaped, EdgeRecords
<1>3. \A d \in Direction : Indexed(d)'
  BY DEF StoreInv, Indexed, check_index
<1>4. ASSUME NEW n \in 1..node_bound, NEW d \in Direction PROVE Adjacency(n, d)'
  <2>1. Run(n, d)' = Run(n, d)
    BY RunsUnchanged
  <2>2. /\ chain_run(n, d)' = chain_run(n, d)
        /\ \A C : ChainOf(n, d, C)' <=> ChainOf(n, d, C)
    BY ChainsUnchanged
  <2>3. edge_bound \in Nat
    BY <1>0, EdgeTable
  <2> QED BY <1>1, <2>1, <2>2, <2>3, AdjacencyKept
<1> QED BY <1>1, <1>2, <1>3, <1>4 DEF StoreInv

(* remove_edge: the columns stay and a walk skips one edge more.           *)
LEMMA RemoveEdgeStore ==
    ASSUME StoreInv, NEW e \in 1..edge_bound, remove_edge(e)
    PROVE  StoreInv'
<1>1. LivenessInv'
  BY RemoveEdgeLiveness DEF StoreInv
<1>2. live_edges' \subseteq live_edges /\ live_nodes' = live_nodes
  BY DEF remove_edge, retire_edges
<1> QED BY <1>1, <1>2, RetireStore DEF StoreInv, remove_edge

(* What remove_node retires: the live edges that end at n either way.      *)
LEMMA RemovedEdges ==
    ASSUME StoreInv, NEW n \in 1..node_bound
    PROVE  Elements(adjacent(n, "out")) \cup Elements(adjacent(n, "in"))
             = {e \in live_edges : \E d \in Direction : edges[e][d] = n}
<1>1. ASSUME NEW d \in Direction
      PROVE  \A e : e \in Elements(adjacent(n, d)) <=> e \in live_edges /\ edges[e][d] = n
  BY AdjacentRead, ElementsRead
<1>2. /\ \A e : e \in Elements(adjacent(n, "out")) <=> e \in live_edges /\ edges[e]["out"] = n
      /\ \A e : e \in Elements(adjacent(n, "in")) <=> e \in live_edges /\ edges[e]["in"] = n
  BY <1>1 DEF Direction
<1> QED BY <1>2 DEF Direction

(* remove_node: no live edge is left on the removed node.                  *)
LEMMA RemoveNodeStore ==
    ASSUME StoreInv, NEW n \in 1..node_bound, remove_node(n)
    PROVE  StoreInv'
<1>1. LivenessInv'
  BY RemoveNodeLiveness DEF StoreInv
<1>2. /\ live_nodes' = live_nodes \ {n}
      /\ live_edges' = live_edges \ {e \in live_edges : \E d \in Direction : edges[e][d] = n}
  BY RemovedEdges DEF remove_node, retire_edges
<1>3. \A e \in live_edges', d \in Direction : edges[e][d] \in live_nodes'
  BY <1>2 DEF StoreInv
<1>4. live_edges' \subseteq live_edges
  BY <1>2
<1> QED BY <1>1, <1>3, <1>4, RetireStore DEF remove_node

(* node_mut: nothing but a payload is written.                             *)
LEMMA NodeMutStore ==
    ASSUME StoreInv, NEW n \in 1..node_bound, NEW p \in Payload, node_mut(n, p)
    PROVE  StoreInv'
<1>0. LivenessInv /\ Shaped
  BY DEF StoreInv
<1>1. LivenessInv'
  BY <1>0, NodeMutLiveness
<1>2. /\ base_nodes' \in Seq(Payload) /\ Len(base_nodes') = Len(base_nodes)
      /\ delta_nodes' \in Seq(Payload) /\ Len(delta_nodes') = Len(delta_nodes)
  <2>1. base_nodes \in Seq(Payload) /\ delta_nodes \in Seq(Payload)
    BY <1>0 DEF Shaped
  <2>2. CASE n <= Len(base_nodes)
    BY <2>1, <2>2 DEF node_mut
  <2>3. CASE ~(n <= Len(base_nodes))
    BY <2>1, <2>3 DEF node_mut
  <2> QED BY <2>2, <2>3
<1>3. /\ node_bound' = node_bound /\ edge_bound' = edge_bound /\ edges' = edges
      /\ edge_bound \in Nat
  BY <1>0, <1>2, EdgeTable DEF node_bound, edge_bound, edges, node_mut
<1>4. Shaped'
  BY <1>0, <1>2, <1>3 DEF Shaped, EdgeRecords, node_mut
<1>5. \A d \in Direction : Indexed(d)'
  BY <1>0, <1>2, IndexKept DEF StoreInv, Shaped, node_mut
<1>6. ASSUME NEW m \in 1..node_bound, NEW d \in Direction PROVE Adjacency(m, d)'
  <2>1. Run(m, d)' = Run(m, d)
    BY RunsUnchanged DEF node_mut
  <2>2. /\ chain_run(m, d)' = chain_run(m, d)
        /\ \A C : ChainOf(m, d, C)' <=> ChainOf(m, d, C)
    BY ChainsUnchanged DEF node_mut
  <2> QED BY <1>3, <2>1, <2>2, AdjacencyKept DEF node_mut
<1> QED BY <1>1, <1>3, <1>4, <1>5, <1>6 DEF StoreInv, node_mut

-----------------------------------------------------------------------------
(* The fields of a record.                                                 *)
Fields == {"out", "in", "payload"}

(* A record with one field written.                                        *)
Edited(r, field, v) == [r EXCEPT ![field] = v]

(* It is a record still.                                                   *)
LEMMA RecordEdit ==
    ASSUME NEW r \in EdgeRecords, NEW field \in Fields, NEW v,
           field = "payload" => v \in Payload, field # "payload" => v \in 1..node_bound
    PROVE  /\ Edited(r, field, v) \in EdgeRecords
           /\ \A f \in Fields : Edited(r, field, v)[f] = IF f = field THEN v ELSE r[f]
<1>1. CASE field = "out"
  BY <1>1 DEF EdgeRecords, Fields, Edited
<1>2. CASE field = "in"
  BY <1>2 DEF EdgeRecords, Fields, Edited
<1>3. CASE field = "payload"
  BY <1>3 DEF EdgeRecords, Fields, Edited
<1> QED BY <1>1, <1>2, <1>3 DEF Fields

(* What UpdateRecords leaves in the edge table: field is v in the edges of *)
(* S and nothing else has changed.                                         *)
Rewritten(S, field, v) ==
    /\ base_edges' \in Seq(EdgeRecords) /\ Len(base_edges') = Len(base_edges)
    /\ delta_edges' \in Seq(EdgeRecords) /\ Len(delta_edges') = Len(delta_edges)
    /\ edge_bound' = edge_bound
    /\ \A e \in 1..edge_bound, f \in Fields :
          edges'[e][f] = IF e \in S /\ f = field THEN v ELSE edges[e][f]
    /\ \A i \in 1..Len(delta_edges), f \in Fields :
          delta_edges'[i][f] = IF Len(base_edges) + i \in S /\ f = field THEN v
                               ELSE delta_edges[i][f]

(* UpdateRecords writes the field of the edges in S and nothing else.      *)
LEMMA UpdateRead ==
    ASSUME Shaped, NEW S, NEW field \in Fields, NEW v, UpdateRecords(S, field, v),
           field = "payload" => v \in Payload, field # "payload" => v \in 1..node_bound,
           base_nodes' \in Seq(Payload), delta_nodes' \in Seq(Payload),
           node_bound' = node_bound
    PROVE  Rewritten(S, field, v)
<1> DEFINE B == Len(base_edges)
           D == Len(delta_edges)
<1>1. /\ B \in Nat /\ D \in Nat /\ edge_bound = B + D /\ edge_bound \in Nat
      /\ DOMAIN base_edges = 1..B /\ DOMAIN delta_edges = 1..D
      /\ \A e \in 1..B : edges[e] = base_edges[e]
      /\ \A i \in 1..D : edges[B + i] = delta_edges[i]
  BY EdgeTable
<1>2. /\ \A e \in 1..B : base_edges[e] \in EdgeRecords
      /\ \A i \in 1..D : delta_edges[i] \in EdgeRecords
  BY <1>1, SeqParts DEF Shaped
<1>3. /\ base_edges' = [e \in 1..B |->
            IF e \in S THEN [base_edges[e] EXCEPT ![field] = v] ELSE base_edges[e]]
      /\ delta_edges' = [i \in 1..D |->
            IF B + i \in S THEN [delta_edges[i] EXCEPT ![field] = v] ELSE delta_edges[i]]
  BY <1>1 DEF UpdateRecords
<1> HIDE DEF B, D
<1>4. ASSUME NEW e \in 1..B
      PROVE  /\ base_edges'[e] \in EdgeRecords
             /\ \A f \in Fields :
                   base_edges'[e][f] = IF e \in S /\ f = field THEN v ELSE base_edges[e][f]
  <2>1. base_edges'[e] = IF e \in S THEN [base_edges[e] EXCEPT ![field] = v]
                                    ELSE base_edges[e]
    BY <1>3
  <2> DEFINE r == base_edges[e]
  <2>2. r \in EdgeRecords
    BY <1>2
  <2> HIDE DEF r
  <2>3. /\ Edited(r, field, v) \in EdgeRecords
        /\ \A f \in Fields : Edited(r, field, v)[f] = IF f = field THEN v ELSE r[f]
    BY <2>2, RecordEdit
  <2>4. base_edges'[e] = IF e \in S THEN Edited(r, field, v) ELSE r
    BY <2>1 DEF r, Edited
  <2>5. CASE e \in S
    BY <2>3, <2>4, <2>5 DEF r
  <2>6. CASE e \notin S
    BY <2>2, <2>4, <2>6 DEF r
  <2> QED BY <2>5, <2>6
<1>5. ASSUME NEW i \in 1..D
      PROVE  /\ delta_edges'[i] \in EdgeRecords
             /\ \A f \in Fields :
                   delta_edges'[i][f] = IF B + i \in S /\ f = field THEN v
                                        ELSE delta_edges[i][f]
  <2>1. delta_edges'[i] = IF B + i \in S THEN [delta_edges[i] EXCEPT ![field] = v]
                                         ELSE delta_edges[i]
    BY <1>3
  <2> DEFINE r == delta_edges[i]
  <2>2. r \in EdgeRecords
    BY <1>2
  <2> HIDE DEF r
  <2>3. /\ Edited(r, field, v) \in EdgeRecords
        /\ \A f \in Fields : Edited(r, field, v)[f] = IF f = field THEN v ELSE r[f]
    BY <2>2, RecordEdit
  <2>4. delta_edges'[i] = IF B + i \in S THEN Edited(r, field, v) ELSE r
    BY <2>1 DEF r, Edited
  <2>5. CASE B + i \in S
    BY <2>3, <2>4, <2>5 DEF r
  <2>6. CASE B + i \notin S
    BY <2>2, <2>4, <2>6 DEF r
  <2> QED BY <2>5, <2>6
<1>6. base_edges' \in Seq(EdgeRecords) /\ Len(base_edges') = B
  <2>1. base_edges' \in [1..B -> EdgeRecords]
    BY <1>3, <1>4
  <2> QED BY <1>1, <2>1, IntervalFunctionIsSeq
<1>7. delta_edges' \in Seq(EdgeRecords) /\ Len(delta_edges') = D
  <2>1. delta_edges' \in [1..D -> EdgeRecords]
    BY <1>3, <1>5
  <2> QED BY <1>1, <2>1, IntervalFunctionIsSeq
<1>8. edge_bound' = edge_bound
  BY <1>6, <1>7 DEF edge_bound, B, D
<1>9. /\ \A e \in 1..B : edges'[e] = base_edges'[e]
      /\ \A i \in 1..D : edges'[B + i] = delta_edges'[i]
  <2>1. edges' = base_edges' \o delta_edges'
    BY DEF edges
  <2> QED BY SMTT(30), <1>6, <1>7, <2>1, ConcatParts
<1>10. ASSUME NEW e \in 1..edge_bound, NEW f \in Fields
       PROVE  edges'[e][f] = IF e \in S /\ f = field THEN v ELSE edges[e][f]
  <2>1. CASE e \in 1..B
    BY <1>1, <1>4, <1>9, <2>1
  <2>2. CASE \E i \in 1..D : e = B + i
    <3>1. PICK i \in 1..D : e = B + i
      BY <2>2
    <3> QED BY ZenonT(40), <1>1, <1>5, <1>9, <3>1
  <2> QED BY <2>1, <2>2, SlotSplit DEF B, D
<1> QED BY <1>5, <1>6, <1>7, <1>8, <1>10 DEF B, D, Rewritten

(* edge_mut: the endpoints stay.                                           *)
LEMMA EdgeMutStore ==
    ASSUME StoreInv, NEW e \in 1..edge_bound, NEW p \in Payload, edge_mut(e, p)
    PROVE  StoreInv'
<1>0. LivenessInv /\ Shaped
  BY DEF StoreInv
<1>1. LivenessInv'
  BY <1>0, RecordEditLiveness DEF Direction
<1> DEFINE S == {e}
<1>2. UpdateRecords(S, "payload", p) /\ node_bound' = node_bound
  BY DEF edge_mut, node_bound
<1>3. Rewritten(S, "payload", p)
  <2>1. base_nodes' \in Seq(Payload) /\ delta_nodes' \in Seq(Payload)
    BY <1>0 DEF edge_mut, Shaped
  <2>2. "payload" \in Fields
    BY DEF Fields
  <2> HIDE DEF S
  <2> QED BY <1>0, <1>2, <2>1, <2>2, UpdateRead
<1>4. \A d \in Direction : d \in Fields /\ d # "payload"
  BY DEF Direction, Fields
<1>5. /\ \A x \in 1..edge_bound, d \in Direction : edges'[x][d] = edges[x][d]
      /\ \A i \in 1..Len(delta_edges), d \in Direction : delta_edges'[i][d] = delta_edges[i][d]
  BY <1>3, <1>4 DEF Rewritten
<1>6. /\ live_edges' = live_edges /\ live_edges \subseteq 1..edge_bound
      /\ live_nodes' = live_nodes /\ edge_bound \in Nat
  BY <1>0, EdgeTable DEF edge_mut, LivenessInv, Counted
<1>7. Shaped'
  BY <1>0, <1>2, <1>3 DEF Rewritten, Shaped, EdgeRecords, edge_mut
<1>8. \A d \in Direction : Indexed(d)'
  BY <1>0, <1>3, IndexKept DEF Rewritten, StoreInv, Shaped, edge_mut
<1>9. ASSUME NEW m \in 1..node_bound, NEW d \in Direction PROVE Adjacency(m, d)'
  <2>1. Run(m, d)' = Run(m, d)
    BY RunsUnchanged DEF edge_mut
  <2>2. /\ chain_run(m, d)' = chain_run(m, d)
        /\ \A C : ChainOf(m, d, C)' <=> ChainOf(m, d, C)
    BY <1>3, ChainsUnchanged DEF Rewritten, edge_mut
  <2>3. \A C : ChainOf(m, d, C) => C \subseteq 1..Len(delta_edges)
    <3>1. Len(chains.next) = Len(delta_edges) /\ Len(delta_edges) \in Nat
      BY <1>0, EdgeTable DEF Shaped
    <3> QED BY <3>1, ChainIsRanked
  <2>4. \A C : ChainOf(m, d, C) /\ (\A i \in C : delta_edges[i][d] = m)
                 => ChainOf(m, d, C)' /\ \A i \in C : delta_edges'[i][d] = m
    BY <1>5, <2>2, <2>3
  <2>5. edge_bound' = edge_bound
    BY <1>3 DEF Rewritten
  <2> QED BY <1>5, <1>6, <2>1, <2>2, <2>4, <2>5, AdjacencyKept
<1>10. \A x \in live_edges', d \in Direction : edges'[x][d] \in live_nodes'
  BY <1>5, <1>6 DEF StoreInv
<1> QED BY <1>1, <1>2, <1>7, <1>8, <1>9, <1>10 DEF StoreInv

-----------------------------------------------------------------------------
(* Redirection: edges taken off one node's run and put on another's.       *)

(* The overlay tables and chain tables with_runs leaves.                   *)
Installed(d, p, runP, n, runN) ==
    /\ DOMAIN relocations' = Direction
    /\ relocations' = [b \in Direction |-> relocations'[b]]
    /\ relocations'[d] = [m \in DOMAIN relocations[d] \cup {p, n} |->
                            IF m = p THEN runP ELSE IF m = n THEN runN
                            ELSE relocations[d][m]]
    /\ \A b \in Direction : b # d => relocations'[b] = relocations[b]
    /\ chains' \in [last : Seq([Direction -> Nat]), next : Seq([Direction -> Nat])]
    /\ chains'.next = chains.next /\ Len(chains'.last) = Len(chains.last)
    /\ \A m \in 1..Len(chains.last), b \in Direction :
          chains'.last[m][b] = IF m \in {p, n} /\ b = d THEN NONE
                               ELSE chains.last[m][b]

(* It leaves them.                                                         *)
LEMMA WithRunsTables ==
    ASSUME Shaped, NEW p, NEW n, NEW d \in Direction, NEW runP, NEW runN,
           with_runs(d, p, runP, n, runN)
    PROVE  Installed(d, p, runP, n, runN)
<1>1. /\ DOMAIN relocations = Direction
      /\ relocations' = [relocations EXCEPT ![d] =
                           [m \in DOMAIN relocations[d] \cup {p, n} |->
                              IF m = p THEN runP ELSE IF m = n THEN runN
                              ELSE relocations[d][m]]]
  BY DEF with_runs, Shaped
<1>2. /\ DOMAIN relocations' = Direction
      /\ relocations' = [b \in Direction |-> relocations'[b]]
      /\ relocations'[d] = [m \in DOMAIN relocations[d] \cup {p, n} |->
                              IF m = p THEN runP ELSE IF m = n THEN runN
                              ELSE relocations[d][m]]
      /\ \A b \in Direction : b # d => relocations'[b] = relocations[b]
  BY <1>1
<1> DEFINE old == chains.last
           cleared == [m \in DOMAIN old |->
                         IF m \in {p, n} THEN [old[m] EXCEPT ![d] = NONE] ELSE old[m]]
<1>3. chains' = [chains EXCEPT !.last = cleared]
  BY DEF with_runs
<1>4. /\ old \in Seq([Direction -> Nat]) /\ chains.next \in Seq([Direction -> Nat])
      /\ chains \in [last : {old}, next : {chains.next}]
  BY DEF Shaped
<1>5. Len(old) \in Nat /\ DOMAIN old = 1..Len(old)
      /\ \A m \in 1..Len(old) : old[m] \in [Direction -> Nat]
  BY <1>4, SeqParts
<1>6. chains'.last = cleared /\ chains'.next = chains.next
      /\ chains' \in [last : {cleared}, next : {chains.next}]
  <2> HIDE DEF cleared, old
  <2> QED BY <1>3, <1>4
<1> HIDE DEF old
<1>7. ASSUME NEW m \in 1..Len(old)
      PROVE  /\ cleared[m] \in [Direction -> Nat]
             /\ \A b \in Direction : cleared[m][b] = IF m \in {p, n} /\ b = d THEN NONE
                                                     ELSE old[m][b]
  <2>1. cleared[m] = IF m \in {p, n} THEN [old[m] EXCEPT ![d] = NONE] ELSE old[m]
    BY <1>5
  <2>2. old[m] \in [Direction -> Nat]
    BY <1>5
  <2> HIDE DEF cleared
  <2>3. CASE m \in {p, n}
    <3>1. cleared[m] = [old[m] EXCEPT ![d] = NONE]
      BY <2>1, <2>3
    <3> QED BY <2>2, <2>3, <3>1 DEF NONE
  <2>4. CASE m \notin {p, n}
    BY <2>1, <2>2, <2>4
  <2> QED BY <2>3, <2>4
<1>8. cleared \in Seq([Direction -> Nat]) /\ Len(cleared) = Len(old)
  <2>1. cleared = [m \in 1..Len(old) |-> cleared[m]]
    BY <1>5
  <2> HIDE DEF cleared
  <2>2. cleared \in [1..Len(old) -> [Direction -> Nat]]
    BY <1>7, <2>1
  <2> QED BY <1>5, <2>2, IntervalFunctionIsSeq
<1> HIDE DEF cleared
<1> QED BY SMTT(30), <1>2, <1>4, <1>6, <1>7, <1>8 DEF old, Installed

(* What the two nodes read afterwards, and every other adjacency.          *)
LEMMA WithRunsRead ==
    ASSUME Shaped, NEW p, NEW n, p # n, NEW d \in Direction, NEW runP, NEW runN,
           with_runs(d, p, runP, n, runN), index' = index,
           Len(base_edges)' = Len(base_edges), NEW m \in 1..node_bound, NEW b \in Direction
    PROVE  /\ b = d /\ m \in {p, n} =>
                 /\ Run(m, b)' = IF m = p THEN runP ELSE runN
                 /\ chain_run(m, b)' = <<>> /\ ChainOf(m, b, {})'
           /\ ~(b = d /\ m \in {p, n}) =>
                 /\ Run(m, b)' = Run(m, b) /\ chain_run(m, b)' = chain_run(m, b)
                 /\ \A C : ChainOf(m, b, C)' <=> ChainOf(m, b, C)
<1>1. /\ relocations'[d] = [u \in DOMAIN relocations[d] \cup {p, n} |->
                              IF u = p THEN runP ELSE IF u = n THEN runN
                              ELSE relocations[d][u]]
      /\ \A u \in Direction : u # d => relocations'[u] = relocations[u]
      /\ chains'.next = chains.next /\ Len(chains'.last) = Len(chains.last)
      /\ \A u \in 1..Len(chains.last), v \in Direction :
            chains'.last[u][v] = IF u \in {p, n} /\ v = d THEN NONE
                                 ELSE chains.last[u][v]
  <2>1. Installed(d, p, runP, n, runN)
    BY WithRunsTables
  <2> QED BY <2>1 DEF Installed
<1>2. base_run(m, b)' = base_run(m, b)
  BY DEF base_run
<1>3. Len(chains.last) \in Nat
  BY DEF Shaped
<1>4. CASE b = d /\ m \in {p, n}
  <2>1. m \in DOMAIN relocations'[d] /\ relocations'[d][m] = IF m = p THEN runP ELSE runN
    BY <1>1, <1>4
  <2>2. Run(m, b)' = IF m = p THEN runP ELSE runN
    BY <1>4, <2>1 DEF Run, has_overlay
  <2>3. Unchained(m, b)'
    <3>1. m > Len(chains.last) \/ m \in 1..Len(chains.last)
      BY <1>3
    <3>2. CASE m > Len(chains.last)
      BY <1>1, <3>2 DEF Unchained
    <3>3. CASE m \in 1..Len(chains.last)
      <4>1. chains'.last[m][b] = NONE
        BY <1>1, <1>4, <3>3
      <4> QED BY <4>1 DEF Unchained
    <3> QED BY <3>1, <3>2, <3>3
  <2>4. chain_run(m, b)' = <<>> /\ ChainOf(m, b, {})'
    BY <2>3 DEF chain_run, ChainOf, Unchained
  <2> QED BY <1>4, <2>2, <2>4
<1>5. CASE ~(b = d /\ m \in {p, n})
  <2>1. has_overlay(m, b)' <=> has_overlay(m, b)
    BY <1>1, <1>5 DEF has_overlay
  <2>2. has_overlay(m, b) => relocations'[b][m] = relocations[b][m]
    BY <1>1, <1>5 DEF has_overlay
  <2>3. Run(m, b)' = Run(m, b)
    BY <1>2, <2>1, <2>2 DEF Run
  <2>4. m \in 1..Len(chains.last) => chains'.last[m][b] = chains.last[m][b]
    BY <1>1, <1>5
  <2>5. m > Len(chains.last) \/ m \in 1..Len(chains.last)
    BY <1>3
  <2>6. CASE m > Len(chains.last)
    <3>1. Unchained(m, b) /\ Unchained(m, b)'
      BY <1>1, <2>6 DEF Unchained
    <3>2. chain_run(m, b)' = <<>> /\ chain_run(m, b) = <<>>
      BY <1>1, <2>6 DEF chain_run
    <3>3. \A C : ChainOf(m, b, C)' <=> ChainOf(m, b, C)
      BY <3>1 DEF ChainOf
    <3> QED BY <1>5, <2>3, <3>2, <3>3
  <2>7. CASE m \in 1..Len(chains.last)
    <3>1. chains'.last[m][b] = chains.last[m][b]
      BY <2>4, <2>7
    <3>2. chain_run(m, b)' = chain_run(m, b)
      BY <1>1, <3>1 DEF chain_run
    <3>3. \A C : ChainOf(m, b, C)' <=> ChainOf(m, b, C)
      BY <1>1, <3>1 DEF ChainOf, Unchained
    <3> QED BY <1>5, <2>3, <3>2, <3>3
  <2> QED BY <2>5, <2>6, <2>7
<1> QED BY <1>4, <1>5

(* The edges of S leave node p for node n along d: the runs of the two     *)
(* nodes afterwards.                                                       *)
Rehung(S, p, n, d, runP, runN) ==
    /\ runP \in EdgeRuns /\ Distinct(runP) /\ runN \in EdgeRuns /\ Distinct(runN)
    /\ \A e \in S : e \in live_edges /\ edges[e][d] = p
    /\ \A x \in live_edges : Reads(runP, x) <=> edges[x][d] = p /\ x \notin S
    /\ \A x \in live_edges : Reads(runN, x) <=> edges[x][d] = n \/ x \in S
    /\ UpdateRecords(S, d, n)
    /\ with_runs(d, p, runP, n, runN)
    /\ UNCHANGED <<base_nodes, delta_nodes, index, live_nodes, live_edges,
                   live_node_count, live_edge_count>>

(* The edge table afterwards.                                              *)
LEMMA RehungTable ==
    ASSUME StoreInv, NEW p, NEW n \in 1..node_bound, NEW d \in Direction,
           NEW S, NEW runP, NEW runN, Rehung(S, p, n, d, runP, runN)
    PROVE  node_bound' = node_bound /\ Rewritten(S, d, n)
<1>1. node_bound' = node_bound
  BY DEF Rehung, node_bound
<1>2. base_nodes' \in Seq(Payload) /\ delta_nodes' \in Seq(Payload) /\ Shaped
  BY DEF Rehung, StoreInv, Shaped
<1>3. d \in Fields /\ d # "payload"
  BY DEF Direction, Fields
<1>4. UpdateRecords(S, d, n)
  BY DEF Rehung
<1> QED BY <1>1, <1>2, <1>3, <1>4, UpdateRead

(* Moving edges between two nodes that way keeps the store in order.       *)
LEMMA RehungStore ==
    ASSUME StoreInv, NEW p \in 1..node_bound, NEW n \in 1..node_bound, p # n,
           n \in live_nodes, NEW d \in Direction, LivenessInv',
           NEW S, NEW runP, NEW runN, Rehung(S, p, n, d, runP, runN)
    PROVE  StoreInv'
<1>0. LivenessInv /\ Shaped
  BY DEF StoreInv
<1>1. node_bound' = node_bound /\ Rewritten(S, d, n)
  BY RehungTable
<1>2. /\ live_edges' = live_edges /\ live_edges \subseteq 1..edge_bound
      /\ live_nodes' = live_nodes /\ edge_bound \in Nat /\ edge_bound' = edge_bound
      /\ Len(base_edges)' = Len(base_edges) /\ index' = index
      /\ with_runs(d, p, runP, n, runN)
      /\ Len(base_edges) \in Nat /\ Len(delta_edges) \in Nat
      /\ edge_bound = Len(base_edges) + Len(delta_edges)
      /\ \A i \in 1..Len(delta_edges) : edges[Len(base_edges) + i] = delta_edges[i]
  BY <1>0, <1>1, EdgeTable DEF Rehung, Rewritten, LivenessInv, Counted
<1>3. \A b \in Direction : b \in Fields
  BY DEF Direction, Fields
<1>4. /\ \A x \in 1..edge_bound, b \in Direction :
            edges'[x][b] = IF x \in S /\ b = d THEN n ELSE edges[x][b]
      /\ \A i \in 1..Len(delta_edges), b \in Direction :
            delta_edges'[i][b] = IF Len(base_edges) + i \in S /\ b = d THEN n
                                 ELSE delta_edges[i][b]
  BY <1>1, <1>3 DEF Rewritten
<1>5. Shaped'
  <2>1. /\ DOMAIN relocations' = Direction
        /\ relocations' = [b \in Direction |-> relocations'[b]]
        /\ relocations'[d] = [m \in DOMAIN relocations[d] \cup {p, n} |->
                                IF m = p THEN runP ELSE IF m = n THEN runN
                                ELSE relocations[d][m]]
        /\ \A b \in Direction : b # d => relocations'[b] = relocations[b]
        /\ chains' \in [last : Seq([Direction -> Nat]), next : Seq([Direction -> Nat])]
        /\ chains'.next = chains.next /\ Len(chains'.last) = Len(chains.last)
    <3>1. Installed(d, p, runP, n, runN)
      BY <1>0, <1>2, WithRunsTables
    <3> QED BY <3>1 DEF Installed
  <2>2. \A b \in Direction : DOMAIN relocations'[b] \subseteq 1..node_bound
    <3>1. DOMAIN relocations'[d] = DOMAIN relocations[d] \cup {p, n}
      BY <2>1
    <3>2. \A b \in Direction : DOMAIN relocations[b] \subseteq 1..node_bound
      BY <1>0 DEF Shaped
    <3> QED BY ZenonT(40), <2>1, <3>1, <3>2
  <2>3. EdgeRecords' = EdgeRecords
    BY <1>1 DEF EdgeRecords
  <2>4. base_nodes' = base_nodes /\ delta_nodes' = delta_nodes
    BY DEF Rehung
  <2>5. /\ Len(chains'.last) <= node_bound' /\ Len(chains'.next) = Len(delta_edges')
    BY <1>0, <1>1, <2>1 DEF Shaped, Rewritten
  <2> QED BY <1>0, <1>1, <1>2, <2>1, <2>2, <2>3, <2>4, <2>5 DEF Shaped, Rewritten
<1>6. \A b \in Direction : Indexed(b)'
  <2>1. base_nodes' = base_nodes
    BY DEF Rehung
  <2> QED BY <1>0, <1>1, <1>2, <2>1, IndexKept DEF StoreInv, Shaped, Rewritten
<1>7. ASSUME NEW m \in 1..node_bound, NEW b \in Direction PROVE Adjacency(m, b)'
  <2>1. CASE b = d /\ m \in {p, n}
    <3>1. /\ Run(m, b)' = IF m = p THEN runP ELSE runN
          /\ chain_run(m, b)' = <<>> /\ ChainOf(m, b, {})'
      BY <1>0, <1>2, <2>1, WithRunsRead
    <3>2. Run(m, b)' \in EdgeRuns' /\ Distinct(Run(m, b)')
      BY <1>2, <3>1 DEF Rehung, EdgeRuns
    <3>3. ASSUME NEW e \in live_edges' PROVE edges'[e][b] = m <=> Reads(Run(m, b)', e)
      <4>1. e \in live_edges /\ e \in 1..edge_bound
        BY <1>2
      <4>2. edges'[e][d] = IF e \in S THEN n ELSE edges[e][d]
        BY <1>4, <4>1
      <4>3. /\ Reads(runP, e) <=> edges[e][d] = p /\ e \notin S
            /\ Reads(runN, e) <=> edges[e][d] = n \/ e \in S
        BY <4>1 DEF Rehung
      <4> QED BY <2>1, <3>1, <4>2, <4>3
    <3>4. \A x : ~Reads(<<>>, x)
      BY EmptyRead
    <3> QED BY <3>1, <3>2, <3>3, <3>4 DEF Adjacency
  <2>2. CASE ~(b = d /\ m \in {p, n})
    <3>1. /\ Run(m, b)' = Run(m, b) /\ chain_run(m, b)' = chain_run(m, b)
          /\ \A C : ChainOf(m, b, C)' <=> ChainOf(m, b, C)
      BY <1>0, <1>2, <2>2, WithRunsRead
    <3>2. \A e \in live_edges' : edges'[e][b] = m <=> e \in live_edges /\ edges[e][b] = m
      <4> SUFFICES ASSUME NEW e \in live_edges
                   PROVE  edges'[e][b] = m <=> edges[e][b] = m
        BY <1>2
      <4>1. edges'[e][b] = IF e \in S /\ b = d THEN n ELSE edges[e][b]
        BY <1>2, <1>4
      <4>2. e \in S => edges[e][d] = p
        BY DEF Rehung
      <4> QED BY <2>2, <4>1, <4>2
    <3>3. ASSUME NEW C, ChainOf(m, b, C), \A i \in C : delta_edges[i][b] = m
          PROVE  ChainOf(m, b, C)' /\ \A i \in C : delta_edges'[i][b] = m
      <4>1. C \subseteq 1..Len(delta_edges)
        <5>1. Len(chains.next) = Len(delta_edges) /\ Len(delta_edges) \in Nat
          BY <1>0, <1>2 DEF Shaped
        <5> QED BY <3>3, <5>1, ChainIsRanked
      <4>2. ASSUME NEW i \in C PROVE delta_edges'[i][b] = m
        <5>1. i \in 1..Len(delta_edges) /\ delta_edges[i][b] = m
          BY <3>3, <4>1
        <5>2. delta_edges'[i][b] = IF Len(base_edges) + i \in S /\ b = d THEN n
                                   ELSE delta_edges[i][b]
          BY <1>4, <5>1
        <5>3. Len(base_edges) + i \in S => delta_edges[i][d] = p
          BY <1>2, <5>1 DEF Rehung
        <5> QED BY <2>2, <5>1, <5>2, <5>3
      <4> QED BY <3>1, <3>3, <4>2
    <3> QED BY <1>2, <3>1, <3>2, <3>3, AdjacencyKept
  <2> QED BY <2>1, <2>2
<1>8. \A x \in live_edges', b \in Direction : edges'[x][b] \in live_nodes'
  BY <1>2, <1>4 DEF StoreInv
<1> QED BY <1>0, <1>1, <1>5, <1>6, <1>7, <1>8 DEF StoreInv

(* Nothing precedes itself where nothing is repeated.                      *)
LEMMA NotBeforeItself ==
    ASSUME NEW S, NEW s \in Seq(S), Distinct(s), NEW x
    PROVE  ~Precedes(s, x, x)
<1> SUFFICES ASSUME Precedes(s, x, x) PROVE FALSE
  OBVIOUS
<1>1. PICK i, j \in DOMAIN s : i < j /\ s[i] = x /\ s[j] = x
  BY DEF Precedes
<1>2. i = j /\ i \in Int
  BY <1>1, SeqParts DEF Distinct
<1> QED BY <1>1, <1>2

(* What an element more does to the order.                                 *)
LEMMA AppendOrder ==
    ASSUME NEW S, NEW s \in Seq(S), NEW e \in S
    PROVE  \A x, y : Precedes(Append(s, e), x, y) <=> Precedes(s, x, y) \/ (Reads(s, x) /\ y = e)
BY AppendRead

(* The run with_run hands over reads, of the live edges, what the walk     *)
(* reads.                                                                  *)
LEMMA TakenRead ==
    ASSUME StoreInv, NEW n \in 1..node_bound, NEW d \in Direction, NEW x, NEW y
    PROVE  /\ taken_run(n, d) \in EdgeRuns /\ Distinct(taken_run(n, d))
           /\ x \in live_edges => (Reads(taken_run(n, d), x) <=> edges[x][d] = n)
           /\ x \in live_edges /\ y \in live_edges
                => (Precedes(taken_run(n, d), x, y) <=> Ordered(n, d, x, y))
<1> DEFINE r == Run(n, d)
           c == chain_run(n, d)
           a == IF has_overlay(n, d) THEN relocations[d][n] ELSE LiveOf(base_run(n, d))
           b == LiveOf(c)
           w == r \o c
           t == a \o b
<1>0. LivenessInv
  BY DEF StoreInv
<1>1. taken_run(n, d) = t
  BY DEF taken_run
<1>2. r \in EdgeRuns /\ Distinct(r) /\ c \in EdgeRuns /\ Distinct(c)
  BY ChainFacts DEF StoreInv, Adjacency
<1>3. a = r \/ a = LiveOf(r)
  BY DEF Run
<1>4. /\ \A z : Reads(w, z) <=> Reads(r, z) \/ Reads(c, z)
      /\ Distinct(w)
      /\ x \in live_edges => (Reads(w, x) <=> edges[x][d] = n)
  BY WholeRead
<1>5. Ordered(n, d, x, y) <=> Precedes(w, x, y)
  BY DEF Ordered
<1>6. \A u, v : Reads(r, u) /\ Reads(c, v) => u < v
  BY DEF StoreInv, Adjacency
<1> HIDE DEF r, c, a
<1>7. /\ a \in EdgeRuns /\ Distinct(a)
      /\ \A z : Reads(a, z) => Reads(r, z)
      /\ \A z \in live_edges : Reads(a, z) <=> Reads(r, z)
      /\ \A u, v \in live_edges : Precedes(a, u, v) <=> Precedes(r, u, v)
  <2>1. CASE a = r
    BY <1>2, <2>1
  <2>2. CASE a = LiveOf(r)
    BY <1>0, <1>2, <2>2, LiveOfRead
  <2> QED BY <1>3, <2>1, <2>2
<1>8. /\ b \in EdgeRuns /\ Distinct(b)
      /\ \A z : Reads(b, z) <=> Reads(c, z) /\ z \in live_edges
      /\ \A u, v \in live_edges : Precedes(b, u, v) <=> Precedes(c, u, v)
  BY <1>0, <1>2, LiveOfRead
<1> HIDE DEF b
<1>9. /\ t \in EdgeRuns
      /\ Reads(t, x) <=> Reads(a, x) \/ Reads(b, x)
      /\ Precedes(t, x, y) <=> \/ Precedes(a, x, y) \/ Precedes(b, x, y)
                               \/ Reads(a, x) /\ Reads(b, y)
  <2>1. a \in Seq(1..edge_bound) /\ b \in Seq(1..edge_bound)
    BY <1>7, <1>8 DEF EdgeRuns
  <2> QED BY <2>1, ConcatRead DEF EdgeRuns
<1>10. Precedes(w, x, y) <=> \/ Precedes(r, x, y) \/ Precedes(c, x, y)
                             \/ Reads(r, x) /\ Reads(c, y)
  <2>1. r \in Seq(1..edge_bound) /\ c \in Seq(1..edge_bound)
    BY <1>2 DEF EdgeRuns
  <2> QED BY <2>1, ConcatRead
<1>11. Distinct(t)
  <2>1. \A z : ~(Reads(a, z) /\ Reads(b, z))
    <3> SUFFICES ASSUME NEW z, Reads(r, z), Reads(c, z) PROVE FALSE
      BY <1>7, <1>8
    <3>1. z < z
      BY <1>6
    <3>2. \A i \in DOMAIN r : r[i] \in 1..edge_bound
      BY <1>2, SeqParts DEF EdgeRuns
    <3>3. z \in 1..edge_bound
      BY <3>2 DEF Reads
    <3> QED BY <3>1, <3>3
  <2>2. a \in Seq(1..edge_bound) /\ b \in Seq(1..edge_bound)
    BY <1>7, <1>8 DEF EdgeRuns
  <2> QED BY <1>7, <1>8, <2>1, <2>2, ConcatDistinct
<1> HIDE DEF w, t
<1> QED BY <1>1, <1>4, <1>5, <1>7, <1>8, <1>9, <1>10, <1>11

(* Swept, it still does.                                                   *)
LEMMA SweptRead ==
    ASSUME StoreInv, NEW n \in 1..node_bound, NEW d \in Direction, NEW x, NEW y
    PROVE  LET s == sweep(taken_run(n, d))
           IN  /\ s \in EdgeRuns /\ Distinct(s)
               /\ x \in live_edges => (Reads(s, x) <=> edges[x][d] = n)
               /\ x \in live_edges /\ y \in live_edges
                    => (Precedes(s, x, y) <=> Ordered(n, d, x, y))
<1> DEFINE t == taken_run(n, d)
<1>0. LivenessInv
  BY DEF StoreInv
<1>1. /\ t \in EdgeRuns /\ Distinct(t)
      /\ x \in live_edges => (Reads(t, x) <=> edges[x][d] = n)
      /\ x \in live_edges /\ y \in live_edges => (Precedes(t, x, y) <=> Ordered(n, d, x, y))
  BY TakenRead
<1> HIDE DEF t
<1>2. /\ sweep(t) \in EdgeRuns /\ Distinct(sweep(t))
      /\ x \in live_edges => (Reads(sweep(t), x) <=> Reads(t, x))
      /\ x \in live_edges /\ y \in live_edges
           => (Precedes(sweep(t), x, y) <=> Precedes(t, x, y))
  BY <1>0, <1>1, SweepRead
<1> QED BY <1>1, <1>2 DEF t

(* The order in the two new runs: p's as it was without the edges of S,    *)
(* which follow n's in the order they had.                                 *)
RehungOrder(S, p, n, d, runP, runN) ==
    \A x, y \in live_edges :
       /\ Precedes(runP, x, y) <=> Ordered(p, d, x, y) /\ x \notin S /\ y \notin S
       /\ Precedes(runN, x, y) <=> \/ Ordered(n, d, x, y)
                                   \/ edges[x][d] = n /\ y \in S
                                   \/ x \in S /\ y \in S /\ Ordered(p, d, x, y)

(* redirect moves one edge that way.                                       *)
LEMMA RedirectRehangs ==
    ASSUME StoreInv, NEW e \in 1..edge_bound, NEW n \in 1..node_bound,
           NEW d \in Direction, redirect(e, n, d)
    PROVE  /\ e \in live_edges /\ n \in live_nodes
           /\ edges[e][d] \in 1..node_bound /\ edges[e][d] # n
           /\ \E runP, runN : /\ Rehung({e}, edges[e][d], n, d, runP, runN)
                              /\ RehungOrder({e}, edges[e][d], n, d, runP, runN)
<1> DEFINE p == edges[e][d]
           sp == sweep(taken_run(p, d))
           sn == sweep(taken_run(n, d))
           runP == RemoveFrom(sp, e)
           runN == Append(sn, e)
<1>0. LivenessInv /\ Shaped
  BY DEF StoreInv
<1>1. e \in live_edges /\ n \in live_nodes /\ p # n
  BY <1>0, LivenessAnswers DEF redirect
<1>2. p \in 1..node_bound
  BY <1>0, EdgeEnds
<1>3. /\ UpdateRecords({e}, d, n)
      /\ with_runs(d, p, runP, n, runN)
      /\ UNCHANGED <<base_nodes, delta_nodes, index, live_nodes, live_edges,
                     live_node_count, live_edge_count>>
  BY DEF redirect
<1> HIDE DEF p
<1>4. /\ sp \in EdgeRuns /\ Distinct(sp)
      /\ \A x \in live_edges : Reads(sp, x) <=> edges[x][d] = p
      /\ \A x, y \in live_edges : Precedes(sp, x, y) <=> Ordered(p, d, x, y)
  BY <1>2, SweptRead
<1>5. /\ sn \in EdgeRuns /\ Distinct(sn)
      /\ \A x \in live_edges : Reads(sn, x) <=> edges[x][d] = n
      /\ \A x, y \in live_edges : Precedes(sn, x, y) <=> Ordered(n, d, x, y)
  BY SweptRead
<1> HIDE DEF sp, sn
<1>6. /\ runP \in EdgeRuns /\ Distinct(runP)
      /\ \A x : Reads(runP, x) <=> Reads(sp, x) /\ x # e
      /\ \A x, y : Precedes(runP, x, y) <=> Precedes(sp, x, y) /\ x # e /\ y # e
  <2>1. sp \in Seq(1..edge_bound)
    BY <1>4 DEF EdgeRuns
  <2> QED BY <1>4, <2>1, RemoveFromRead DEF EdgeRuns
<1>7. ~Reads(sn, e)
  BY <1>1, <1>5 DEF p
<1>8. /\ runN \in EdgeRuns /\ Distinct(runN)
      /\ \A x : Reads(runN, x) <=> Reads(sn, x) \/ x = e
      /\ \A x, y : Precedes(runN, x, y) <=> Precedes(sn, x, y) \/ (Reads(sn, x) /\ y = e)
  <2>1. sn \in Seq(1..edge_bound)
    BY <1>5 DEF EdgeRuns
  <2>2. Append(sn, e) \in Seq(1..edge_bound) /\ Distinct(Append(sn, e))
    BY <1>5, <1>7, <2>1, AppendRead
  <2>3. \A x : Reads(Append(sn, e), x) <=> Reads(sn, x) \/ x = e
    BY <2>1, AppendRead
  <2>4. \A x, y : Precedes(Append(sn, e), x, y)
                    <=> Precedes(sn, x, y) \/ (Reads(sn, x) /\ y = e)
    BY <2>1, AppendOrder
  <2> QED BY <2>2, <2>3, <2>4 DEF EdgeRuns
<1>9. ~Ordered(p, d, e, e)
  <2>1. ~Precedes(sp, e, e)
    BY <1>4, NotBeforeItself DEF EdgeRuns
  <2> QED BY <1>1, <1>4, <2>1
<1> HIDE DEF runP, runN
<1>10. Rehung({e}, p, n, d, runP, runN)
  BY <1>1, <1>3, <1>4, <1>5, <1>6, <1>8 DEF Rehung, p
<1>11. RehungOrder({e}, p, n, d, runP, runN)
  BY <1>1, <1>4, <1>5, <1>6, <1>8, <1>9 DEF RehungOrder
<1> QED BY <1>1, <1>2, <1>10, <1>11 DEF p

(* redirect: the edge leaves one run and ends another.                     *)
LEMMA RedirectStore ==
    ASSUME StoreInv, NEW e \in 1..edge_bound, NEW n \in 1..node_bound,
           NEW d \in Direction, redirect(e, n, d)
    PROVE  StoreInv'
<1>1. LivenessInv'
  BY RecordEditLiveness DEF StoreInv
<1> QED BY ZenonT(40), <1>1, RedirectRehangs, RehungStore

(* move_adjacency moves all the live edges of a node that way.             *)
LEMMA MoveRehangs ==
    ASSUME StoreInv, NEW old \in 1..node_bound, NEW new \in 1..node_bound,
           NEW d \in Direction, move_adjacency(old, new, d)
    PROVE  LET S == {e \in live_edges : edges[e][d] = old}
           IN  /\ old \in live_nodes /\ new \in live_nodes /\ old # new /\ S # {}
               /\ \E runP, runN : /\ Rehung(S, old, new, d, runP, runN)
                                  /\ RehungOrder(S, old, new, d, runP, runN)
<1> DEFINE S == {e \in live_edges : edges[e][d] = old}
           taken == taken_run(old, d)
           moved == LiveOf(taken)
           sn == sweep(taken_run(new, d))
           runN == sn \o moved
<1>0. LivenessInv /\ Shaped
  BY DEF StoreInv
<1>1. new \in live_nodes /\ old # new
  BY <1>0, LivenessAnswers DEF move_adjacency
<1>2. S # {}
  <2>1. adjacent(old, d) # <<>> /\ adjacent(old, d) \in Seq(1..edge_bound)
    BY AdjacentRead DEF move_adjacency, EdgeRuns
  <2>2. PICK x : Reads(adjacent(old, d), x)
    <3>1. 1 \in DOMAIN adjacent(old, d)
      BY <2>1
    <3> QED BY <3>1 DEF Reads
  <2>3. x \in S
    BY <2>2, AdjacentRead
  <2> QED BY <2>3
<1>3. old \in live_nodes
  BY <1>2 DEF StoreInv
<1>4. /\ taken \in EdgeRuns /\ Distinct(taken)
      /\ \A x \in live_edges : Reads(taken, x) <=> edges[x][d] = old
      /\ \A x, y \in live_edges : Precedes(taken, x, y) <=> Ordered(old, d, x, y)
  BY TakenRead
<1>5. /\ sn \in EdgeRuns /\ Distinct(sn)
      /\ \A x \in live_edges : Reads(sn, x) <=> edges[x][d] = new
      /\ \A x, y \in live_edges : Precedes(sn, x, y) <=> Ordered(new, d, x, y)
  BY SweptRead
<1>6. /\ UpdateRecords(Elements(moved), d, new)
      /\ with_runs(d, old, <<>>, new, runN)
      /\ UNCHANGED <<base_nodes, delta_nodes, index, live_nodes, live_edges,
                     live_node_count, live_edge_count>>
  BY DEF move_adjacency
<1> HIDE DEF taken, sn
<1>7. /\ moved \in EdgeRuns /\ Distinct(moved)
      /\ \A x : Reads(moved, x) <=> Reads(taken, x) /\ x \in live_edges
      /\ \A x, y : Precedes(moved, x, y)
                     <=> Precedes(taken, x, y) /\ x \in live_edges /\ y \in live_edges
  BY <1>0, <1>4, LiveOfRead
<1> HIDE DEF moved
<1>8. \A x : Reads(moved, x) <=> x \in S
  BY <1>4, <1>7
<1>9. Elements(moved) = S
  BY <1>8, ElementsRead
<1> HIDE DEF S
<1>10. \A x : x \in S <=> x \in live_edges /\ edges[x][d] = old
  BY DEF S
<1>11. /\ runN \in EdgeRuns
       /\ \A x : Reads(runN, x) <=> Reads(sn, x) \/ Reads(moved, x)
       /\ \A x, y : Precedes(runN, x, y) <=> \/ Precedes(sn, x, y) \/ Precedes(moved, x, y)
                                             \/ Reads(sn, x) /\ Reads(moved, y)
  <2>1. sn \in Seq(1..edge_bound) /\ moved \in Seq(1..edge_bound)
    BY <1>5, <1>7 DEF EdgeRuns
  <2> QED BY <2>1, ConcatRead DEF EdgeRuns
<1>12. Distinct(runN)
  <2>1. sn \in Seq(1..edge_bound) /\ moved \in Seq(1..edge_bound)
    BY <1>5, <1>7 DEF EdgeRuns
  <2>2. \A x : ~(Reads(sn, x) /\ Reads(moved, x))
    BY <1>1, <1>5, <1>8, <1>10
  <2> QED BY <1>5, <1>7, <2>1, <2>2, ConcatDistinct
<1> HIDE DEF runN
<1>13. <<>> \in EdgeRuns /\ Distinct(<<>>) /\ \A x, y : ~Reads(<<>>, x) /\ ~Precedes(<<>>, x, y)
  BY EmptyRead DEF EdgeRuns
<1>14. Rehung(S, old, new, d, <<>>, runN)
  <2>1. \A x \in live_edges : Reads(<<>>, x) <=> edges[x][d] = old /\ x \notin S
    BY <1>10, <1>13
  <2>2. \A x \in live_edges : Reads(runN, x) <=> edges[x][d] = new \/ x \in S
    BY <1>5, <1>8, <1>11
  <2> QED BY <1>6, <1>9, <1>10, <1>11, <1>12, <1>13, <2>1, <2>2 DEF Rehung
<1>15. RehungOrder(S, old, new, d, <<>>, runN)
  <2> SUFFICES ASSUME NEW x \in live_edges, NEW y \in live_edges
      PROVE  /\ Precedes(<<>>, x, y) <=> Ordered(old, d, x, y) /\ x \notin S /\ y \notin S
             /\ Precedes(runN, x, y) <=> \/ Ordered(new, d, x, y)
                                         \/ edges[x][d] = new /\ y \in S
                                         \/ x \in S /\ y \in S /\ Ordered(old, d, x, y)
    BY DEF RehungOrder
  <2>1. Ordered(old, d, x, y) => x \in S
    <3>1. Precedes(taken, x, y) => Reads(taken, x)
      BY DEF Precedes, Reads
    <3> QED BY <1>4, <1>10, <3>1
  <2>2. Precedes(taken, x, y) => Reads(taken, x) /\ Reads(taken, y)
    BY DEF Precedes, Reads
  <2>3. Precedes(moved, x, y) <=> x \in S /\ y \in S /\ Ordered(old, d, x, y)
    BY <1>4, <1>7, <1>10, <2>2
  <2> QED BY <1>5, <1>8, <1>11, <1>13, <2>1, <2>3
<1> QED BY <1>1, <1>2, <1>3, <1>14, <1>15 DEF S

(* move_adjacency: the old node reads nothing, the new one reads both.     *)
LEMMA MoveStore ==
    ASSUME StoreInv, NEW old \in 1..node_bound, NEW new \in 1..node_bound,
           NEW d \in Direction, move_adjacency(old, new, d)
    PROVE  StoreInv'
<1>1. LivenessInv'
  BY RecordEditLiveness DEF StoreInv
<1> DEFINE S == {e \in live_edges : edges[e][d] = old}
<1>2. /\ new \in live_nodes /\ old # new
      /\ \E runP, runN : Rehung(S, old, new, d, runP, runN)
  BY MoveRehangs
<1> HIDE DEF S
<1> QED BY <1>1, <1>2, RehungStore

-----------------------------------------------------------------------------
(* Appending an edge.                                                      *)

(* A row of a chain table, and the tables.                                 *)
Links == [Direction -> Nat]
ChainTables == [last : Seq(Links), next : Seq(Links)]

(* A table of links with one of them written.                              *)
LEMMA LinkEdit ==
    ASSUME NEW T \in Seq(Links), NEW i \in 1..Len(T), NEW d \in Direction, NEW v \in Nat
    PROVE  LET R == [T EXCEPT ![i][d] = v]
           IN  /\ R \in Seq(Links) /\ Len(R) = Len(T)
               /\ \A j \in 1..Len(T), b \in Direction :
                     R[j][b] = IF j = i /\ b = d THEN v ELSE T[j][b]
<1> DEFINE row == [T[i] EXCEPT ![d] = v]
           R == [T EXCEPT ![i] = row]
<1>1. Len(T) \in Nat /\ DOMAIN T = 1..Len(T) /\ \A j \in 1..Len(T) : T[j] \in Links
  BY SeqParts
<1>2. row \in Links /\ \A b \in Direction : row[b] = IF b = d THEN v ELSE T[i][b]
  BY <1>1 DEF Links
<1>3. [T EXCEPT ![i][d] = v] = R
  BY <1>1
<1> HIDE DEF row
<1>4. R \in [1..Len(T) -> Links] /\ \A j \in 1..Len(T) : R[j] = IF j = i THEN row ELSE T[j]
  <2>1. T \in [1..Len(T) -> Links]
    BY <1>1
  <2> QED BY <1>1, <1>2, <2>1
<1> HIDE DEF R
<1>5. R \in Seq(Links) /\ Len(R) = Len(T)
  BY <1>1, <1>4, IntervalFunctionIsSeq
<1>6. ASSUME NEW j \in 1..Len(T), NEW b \in Direction
      PROVE  R[j][b] = IF j = i /\ b = d THEN v ELSE T[j][b]
  <2>1. CASE j = i
    BY <1>2, <1>4, <2>1
  <2>2. CASE j # i
    BY <1>4, <2>2
  <2> QED BY <2>1, <2>2
<1> QED BY <1>3, <1>5, <1>6

(* One splice.                                                             *)
Spliced(c, r, n, d, a) ==
    LET l == c.last[n][d]
    IN  /\ r \in ChainTables
        /\ Len(r.last) = Len(c.last) /\ Len(r.next) = Len(c.next)
        /\ \A m \in 1..Len(c.last), b \in Direction :
              r.last[m][b] = IF m = n /\ b = d THEN a ELSE c.last[m][b]
        /\ \A i \in 1..Len(c.next), b \in Direction :
              r.next[i][b] = IF b = d /\ i = a
                             THEN IF l = NONE THEN a ELSE c.next[l][d]
                             ELSE IF b = d /\ i = l THEN a ELSE c.next[i][b]

(* thread does that.                                                       *)
LEMMA ThreadSplices ==
    ASSUME NEW c \in ChainTables, NEW n \in 1..Len(c.last), NEW d \in Direction,
           NEW a \in 1..Len(c.next),
           c.last[n][d] = NONE \/ c.last[n][d] \in 1..Len(c.next), c.last[n][d] # a
    PROVE  Spliced(c, thread(c, n, d, a), n, d, a)
<1> DEFINE L == c.last
           X == c.next
           l == L[n][d]
           last == [L EXCEPT ![n][d] = a]
           one == [X EXCEPT ![a][d] = a]
           two == [X EXCEPT ![a][d] = X[l][d]]
           both == [two EXCEPT ![l][d] = a]
           next == IF l = NONE THEN one ELSE both
<1>1. L \in Seq(Links) /\ X \in Seq(Links) /\ n \in 1..Len(L) /\ a \in 1..Len(X)
      /\ (l = NONE \/ l \in 1..Len(X)) /\ l # a /\ a \in Nat
  BY DEF ChainTables
<1>2. thread(c, n, d, a) = [last |-> last, next |-> next]
  <2>1. [X EXCEPT ![a][d] = X[l][d], ![l][d] = a] = both
    OBVIOUS
  <2> QED BY <2>1 DEF thread
<1> HIDE DEF L, X
<1>3. /\ last \in Seq(Links) /\ Len(last) = Len(L)
      /\ \A m \in 1..Len(L), b \in Direction :
            last[m][b] = IF m = n /\ b = d THEN a ELSE L[m][b]
  BY <1>1, LinkEdit
<1>4. CASE l = NONE
  <2>1. /\ one \in Seq(Links) /\ Len(one) = Len(X)
        /\ \A i \in 1..Len(X), b \in Direction :
              one[i][b] = IF i = a /\ b = d THEN a ELSE X[i][b]
    BY <1>1, LinkEdit
  <2>2. next = one
    BY <1>4
  <2>3. \A i \in 1..Len(X) : i # l
    BY <1>4 DEF NONE
  <2> HIDE DEF one, next, last, l
  <2>4. /\ next \in Seq(Links) /\ Len(next) = Len(X)
        /\ \A i \in 1..Len(X), b \in Direction :
              next[i][b] = IF b = d /\ i = a THEN IF l = NONE THEN a ELSE X[l][d]
                           ELSE IF b = d /\ i = l THEN a ELSE X[i][b]
    BY <1>4, <2>1, <2>2, <2>3
  <2> QED BY <1>2, <1>3, <2>4 DEF Spliced, ChainTables, L, X, l
<1>5. CASE l # NONE
  <2>1. l \in 1..Len(X) /\ X[l][d] \in Nat
    BY <1>1, <1>5, SeqParts DEF Links
  <2> DEFINE v == X[l][d]
  <2>2. two = [X EXCEPT ![a][d] = v]
    OBVIOUS
  <2> HIDE DEF v, two, l
  <2>3. /\ two \in Seq(Links) /\ Len(two) = Len(X)
        /\ \A i \in 1..Len(X), b \in Direction :
              two[i][b] = IF i = a /\ b = d THEN v ELSE X[i][b]
    <3>1. v \in Nat
      BY <2>1 DEF v
    <3> QED BY <1>1, <2>2, <3>1, LinkEdit
  <2>4. /\ both \in Seq(Links) /\ Len(both) = Len(two)
        /\ \A i \in 1..Len(two), b \in Direction :
              both[i][b] = IF i = l /\ b = d THEN a ELSE two[i][b]
    <3>1. two \in Seq(Links) /\ l \in 1..Len(two) /\ a \in Nat
      BY <1>1, <2>1, <2>3
    <3> QED BY <3>1, LinkEdit
  <2>5. next = both
    BY <1>5
  <2> HIDE DEF both, next, last
  <2>6. l # a
    BY <1>1
  <2>7. /\ next \in Seq(Links) /\ Len(next) = Len(X)
        /\ \A i \in 1..Len(X), b \in Direction :
              next[i][b] = IF b = d /\ i = a THEN IF l = NONE THEN a ELSE v
                           ELSE IF b = d /\ i = l THEN a ELSE X[i][b]
    BY <1>5, <2>3, <2>4, <2>5, <2>6
  <2> QED BY <1>2, <1>3, <2>7 DEF Spliced, ChainTables, L, X, l, v
<1> QED BY <1>4, <1>5

(* The end of an added edge along d, and the last of a node's chain.       *)
Endpoint(s, t, d) == IF d = "out" THEN s ELSE t
LastOf(m, d) == IF m <= Len(chains.last) THEN chains.last[m][d] ELSE NONE

(* The last element of a chain is one of its delta edges.                  *)
LEMMA LastIsOwn ==
    ASSUME StoreInv, NEW m \in 1..node_bound, NEW d \in Direction
    PROVE  /\ Unchained(m, d) <=> LastOf(m, d) = NONE
           /\ LastOf(m, d) \in Nat
           /\ LastOf(m, d) # NONE => /\ LastOf(m, d) = chains.last[m][d]
                                     /\ LastOf(m, d) \in 1..Len(delta_edges)
                                     /\ delta_edges[LastOf(m, d)][d] = m
           /\ \A C : ChainOf(m, d, C)
                       <=> IF LastOf(m, d) = NONE THEN C = {}
                           ELSE RingSet(chains.next, LastOf(m, d), d, C)
<1>1. Len(chains.last) \in Nat /\ m \in Nat /\ Len(chains.next) = Len(delta_edges)
      /\ DOMAIN chains.last = 1..Len(chains.last)
      /\ \A i \in 1..Len(chains.last) : chains.last[i] \in [Direction -> Nat]
  <2>1. chains.last \in Seq([Direction -> Nat]) /\ Len(chains.next) = Len(delta_edges)
    BY DEF StoreInv, Shaped
  <2> QED BY <2>1, SeqParts
<1>2. m > Len(chains.last) <=> ~(m <= Len(chains.last))
  BY <1>1
<1>3. Unchained(m, d) <=> LastOf(m, d) = NONE
  BY <1>2 DEF Unchained, LastOf
<1>4. LastOf(m, d) # NONE => LastOf(m, d) = chains.last[m][d]
  BY DEF LastOf
<1>5. PICK C : ChainOf(m, d, C) /\ \A i \in C : delta_edges[i][d] = m
  BY DEF StoreInv, Adjacency
<1>6. ASSUME LastOf(m, d) # NONE
      PROVE  LastOf(m, d) \in 1..Len(delta_edges) /\ delta_edges[LastOf(m, d)][d] = m
  <2>1. RingSet(chains.next, chains.last[m][d], d, C)
    BY <1>3, <1>5, <1>6 DEF ChainOf
  <2>2. chains.last[m][d] \in C /\ C \subseteq 1..Len(delta_edges)
    BY <1>1, <2>1 DEF RingSet
  <2> QED BY <1>4, <1>5, <1>6, <2>2
<1>7. LastOf(m, d) \in Nat
  BY <1>6 DEF NONE
<1>8. \A D : ChainOf(m, d, D)
               <=> IF LastOf(m, d) = NONE THEN D = {}
                   ELSE RingSet(chains.next, LastOf(m, d), d, D)
  BY <1>3, <1>4 DEF ChainOf
<1> QED BY <1>3, <1>4, <1>6, <1>7, <1>8

(* The chain tables an added edge leaves: it is the last of both its ends' *)
(* chains.                                                                 *)
Threaded(s, t) ==
    LET a == Len(delta_edges) + 1
    IN  /\ chains' \in ChainTables
        /\ Len(chains'.last) = node_bound /\ Len(chains'.next) = a
        /\ \A m \in 1..node_bound, d \in Direction :
              chains'.last[m][d] = IF m = Endpoint(s, t, d) THEN a ELSE LastOf(m, d)
        /\ \A i \in 1..a, d \in Direction :
              LET l == LastOf(Endpoint(s, t, d), d)
              IN  chains'.next[i][d] = IF i = a THEN IF l = NONE THEN a ELSE chains.next[l][d]
                                       ELSE IF i = l THEN a ELSE chains.next[i][d]

(* append leaves them.                                                     *)
LEMMA AppendThreads ==
    ASSUME StoreInv, NEW s \in 1..node_bound, NEW t \in 1..node_bound,
           chains' = append(s, t)
    PROVE  Threaded(s, t)
<1> DEFINE a == Len(delta_edges) + 1
           grown == [last |-> IF Len(chains.last) < node_bound
                              THEN materialize(chains.last) ELSE chains.last,
                     next |-> Append(chains.next, UNLINKED)]
           half == thread(grown, s, "out", a)
<1>0. Shaped
  BY DEF StoreInv
<1>1. /\ Len(delta_edges) \in Nat /\ a \in Nat /\ node_bound \in Nat
      /\ Len(chains.next) = Len(delta_edges)
      /\ Len(chains.last) \in Nat /\ Len(chains.last) <= node_bound
      /\ chains.last \in Seq(Links) /\ chains.next \in Seq(Links)
  BY <1>0, EdgeTable DEF Shaped, Links
<1>2. chains' = thread(half, t, "in", a)
  BY <1>1 DEF append
<1>3. UNLINKED \in Links /\ \A d \in Direction : UNLINKED[d] = NONE
  BY DEF UNLINKED, Links, NONE
<1>4. /\ grown.last \in Seq(Links) /\ Len(grown.last) = node_bound
      /\ \A m \in 1..node_bound, d \in Direction : grown.last[m][d] = LastOf(m, d)
  <2>1. CASE Len(chains.last) < node_bound
    <3> DEFINE R == materialize(chains.last)
    <3>1. R = [n \in 1..node_bound |-> IF n <= Len(chains.last) THEN chains.last[n]
                                                                 ELSE UNLINKED]
      BY DEF materialize
    <3>2. \A n \in 1..node_bound : n <= Len(chains.last) => chains.last[n] \in Links
      BY <1>1, SeqParts
    <3> HIDE DEF R
    <3>3. R \in [1..node_bound -> Links]
      BY <1>3, <3>1, <3>2
    <3>4. R \in Seq(Links) /\ Len(R) = node_bound
      BY <1>1, <3>3, IntervalFunctionIsSeq
    <3>5. \A m \in 1..node_bound, d \in Direction : R[m][d] = LastOf(m, d)
      BY <1>3, <3>1 DEF LastOf
    <3>6. grown.last = R
      BY <2>1 DEF R
    <3> HIDE DEF grown
    <3> QED BY <3>4, <3>5, <3>6
  <2>2. CASE ~(Len(chains.last) < node_bound)
    <3>1. grown.last = chains.last
      BY <2>2
    <3>2. Len(chains.last) = node_bound
      BY <1>1, <2>2
    <3> HIDE DEF grown
    <3>3. \A m \in 1..node_bound, d \in Direction : chains.last[m][d] = LastOf(m, d)
      BY <1>1, <3>2 DEF LastOf
    <3> QED BY <1>1, <3>1, <3>2, <3>3
  <2> QED BY <2>1, <2>2
<1>5. /\ grown.next \in Seq(Links) /\ Len(grown.next) = a
      /\ \A i \in 1..Len(delta_edges) : grown.next[i] = chains.next[i]
  <2>1. grown.next = Append(chains.next, UNLINKED)
    OBVIOUS
  <2> HIDE DEF grown
  <2> QED BY <1>1, <1>3, <2>1
<1>6. grown \in ChainTables
  <2>1. grown \in [last : {grown.last}, next : {grown.next}]
    OBVIOUS
  <2> HIDE DEF grown
  <2> QED BY <1>4, <1>5, <2>1 DEF ChainTables
<1> HIDE DEF grown
<1> DEFINE lo == LastOf(s, "out")
           li == LastOf(t, "in")
<1>7. /\ lo \in Nat /\ (lo # NONE => lo \in 1..Len(delta_edges))
      /\ li \in Nat /\ (li # NONE => li \in 1..Len(delta_edges))
  BY LastIsOwn DEF Direction
<1> HIDE DEF lo, li
<1>8. "out" \in Direction /\ "in" \in Direction /\ a \in 1..a
  BY <1>1 DEF Direction
<1>9. grown.last[s]["out"] = lo /\ grown.last[t]["in"] = li
  BY <1>4, <1>8 DEF lo, li
<1>10. lo # a /\ li # a /\ \A i \in 1..Len(delta_edges) : i \in 1..a /\ i # a
  <2>1. lo \in 0..Len(delta_edges) /\ li \in 0..Len(delta_edges)
    BY <1>1, <1>7 DEF NONE
  <2> QED BY <1>1, <2>1
<1> HIDE DEF a
<1>11. Spliced(grown, half, s, "out", a)
  <2>1. grown \in ChainTables /\ s \in 1..Len(grown.last) /\ a \in 1..Len(grown.next)
    BY <1>4, <1>5, <1>6, <1>8
  <2>2. grown.last[s]["out"] = NONE \/ grown.last[s]["out"] \in 1..Len(grown.next)
    BY <1>5, <1>7, <1>9, <1>10
  <2>3. grown.last[s]["out"] # a
    BY <1>9, <1>10
  <2> QED BY <1>8, <2>1, <2>2, <2>3, ThreadSplices
<1> HIDE DEF half
<1>12. /\ half \in ChainTables /\ Len(half.last) = node_bound /\ Len(half.next) = a
       /\ \A m \in 1..node_bound, b \in Direction :
             half.last[m][b] = IF m = s /\ b = "out" THEN a ELSE grown.last[m][b]
       /\ \A i \in 1..a, b \in Direction :
             half.next[i][b] = IF b = "out" /\ i = a
                               THEN IF lo = NONE THEN a ELSE grown.next[lo]["out"]
                               ELSE IF b = "out" /\ i = lo THEN a ELSE grown.next[i][b]
  BY <1>4, <1>5, <1>9, <1>11 DEF Spliced
<1>13. half.last[t]["in"] = li
  BY <1>8, <1>9, <1>12
<1>14. Spliced(half, chains', t, "in", a)
  <2>1. half \in ChainTables /\ t \in 1..Len(half.last) /\ a \in 1..Len(half.next)
    BY <1>8, <1>12
  <2>2. half.last[t]["in"] = NONE \/ half.last[t]["in"] \in 1..Len(half.next)
    BY <1>7, <1>10, <1>12, <1>13
  <2>3. half.last[t]["in"] # a
    BY <1>10, <1>13
  <2> QED BY <1>2, <1>8, <2>1, <2>2, <2>3, ThreadSplices
<1>15. /\ chains' \in ChainTables /\ Len(chains'.last) = node_bound /\ Len(chains'.next) = a
       /\ \A m \in 1..node_bound, b \in Direction :
             chains'.last[m][b] = IF m = t /\ b = "in" THEN a ELSE half.last[m][b]
       /\ \A i \in 1..a, b \in Direction :
             chains'.next[i][b] = IF b = "in" /\ i = a
                                  THEN IF li = NONE THEN a ELSE half.next[li]["in"]
                                  ELSE IF b = "in" /\ i = li THEN a ELSE half.next[i][b]
  BY <1>12, <1>13, <1>14 DEF Spliced
<1>16. ASSUME NEW m \in 1..node_bound, NEW d \in Direction
       PROVE  chains'.last[m][d] = IF m = Endpoint(s, t, d) THEN a ELSE LastOf(m, d)
  <2>1. d = "out" \/ d = "in"
    BY DEF Direction
  <2> QED BY <1>4, <1>12, <1>15, <2>1 DEF Endpoint
<1>17. ASSUME NEW i \in 1..a, NEW d \in Direction
       PROVE  LET l == LastOf(Endpoint(s, t, d), d)
              IN  chains'.next[i][d] = IF i = a THEN IF l = NONE THEN a ELSE chains.next[l][d]
                                       ELSE IF i = l THEN a ELSE chains.next[i][d]
  <2>1. i = a \/ i \in 1..Len(delta_edges)
    BY <1>1 DEF a
  <2>2. i # a => grown.next[i] = chains.next[i]
    BY <1>5, <2>1
  <2>3. /\ lo # NONE => grown.next[lo] = chains.next[lo] /\ lo \in 1..a
        /\ li # NONE => grown.next[li] = chains.next[li] /\ li \in 1..a
    BY <1>5, <1>7, <1>10
  <2>4. CASE d = "out"
    <3>1. chains'.next[i][d] = half.next[i][d]
      BY <1>15, <2>4
    <3>2. half.next[i][d] = IF i = a THEN IF lo = NONE THEN a ELSE grown.next[lo]["out"]
                            ELSE IF i = lo THEN a ELSE grown.next[i][d]
      BY <1>12, <2>4
    <3>3. LastOf(Endpoint(s, t, d), d) = lo
      BY <2>4 DEF Endpoint, lo
    <3> QED BY <2>2, <2>3, <2>4, <3>1, <3>2, <3>3
  <2>5. CASE d = "in"
    <3>1. chains'.next[i][d] = IF i = a THEN IF li = NONE THEN a ELSE half.next[li]["in"]
                               ELSE IF i = li THEN a ELSE half.next[i][d]
      BY <1>15, <2>5
    <3>2. \A j \in 1..a : half.next[j]["in"] = grown.next[j]["in"]
      BY <1>8, <1>12
    <3>3. LastOf(Endpoint(s, t, d), d) = li
      BY <2>5 DEF Endpoint, li
    <3> QED BY <2>2, <2>3, <2>5, <3>1, <3>2, <3>3
  <2> QED BY <2>4, <2>5 DEF Direction
<1> QED BY <1>15, <1>16, <1>17 DEF Threaded, a

(* A run over a set is a run over a larger one.                            *)
LEMMA SeqMonotone ==
    ASSUME NEW S, NEW T, NEW w \in Seq(S), \A x \in S : x \in T
    PROVE  w \in Seq(T)
OBVIOUS

(* The chains after it.                                                    *)
LEMMA ThreadedChain ==
    ASSUME StoreInv, NEW s \in 1..node_bound, NEW t \in 1..node_bound, Threaded(s, t),
           NEW m \in 1..node_bound, NEW d \in Direction, NEW C, ChainOf(m, d, C),
           \A i \in C : delta_edges[i][d] = m, NEW a, a = Len(delta_edges) + 1
    PROVE  IF m = Endpoint(s, t, d) THEN ChainOf(m, d, C \cup {a})'
           ELSE ChainOf(m, d, C)'
<1> DEFINE n == Endpoint(s, t, d)
           l == LastOf(n, d)
           X == chains.next
           Y == chains'.next
<1>1. n \in 1..node_bound
  BY DEF Endpoint
<1>2. /\ Len(delta_edges) \in Nat /\ a \in Nat /\ node_bound \in Nat /\ Len(X) = Len(delta_edges)
  BY EdgeTable DEF StoreInv, Shaped
<1>3. /\ Len(chains'.last) = node_bound /\ Len(Y) = a
      /\ chains'.last[m][d] = IF m = n THEN a ELSE LastOf(m, d)
      /\ \A i \in 1..a : Y[i][d] = IF i = a THEN IF l = NONE THEN a ELSE X[l][d]
                                   ELSE IF i = l THEN a ELSE X[i][d]
  BY DEF Threaded
<1>4. C \subseteq 1..Len(delta_edges)
  BY <1>2, ChainIsRanked
<1>5. /\ LastOf(m, d) = NONE => C = {}
      /\ LastOf(m, d) # NONE => RingSet(X, LastOf(m, d), d, C)
  BY LastIsOwn
<1>6. l # NONE => l \in 1..Len(delta_edges) /\ delta_edges[l][d] = n
  BY <1>1, LastIsOwn
<1>7. ~(m > Len(chains'.last))
  BY <1>2, <1>3
<1>8. ASSUME NEW D
      PROVE  /\ (chains'.last[m][d] = NONE /\ D = {}) => ChainOf(m, d, D)'
             /\ (chains'.last[m][d] # NONE /\ RingSet(Y, chains'.last[m][d], d, D))
                  => ChainOf(m, d, D)'
  BY <1>7 DEF ChainOf, Unchained
<1>9. CASE m # n
  <2> DEFINE k == LastOf(m, d)
  <2>1. chains'.last[m][d] = k
    BY <1>3, <1>9
  <2>2. \A x \in C : x # a /\ x \in 1..a
    BY <1>2, <1>4
  <2>3. \A x \in C : x = l => FALSE
    <3> SUFFICES ASSUME NEW x \in C, x = l PROVE FALSE
      OBVIOUS
    <3>1. l # NONE
      BY <1>4 DEF NONE
    <3> QED BY <1>6, <1>9, <3>1
  <2>4. \A x \in C : Y[x][d] = X[x][d]
    BY <1>3, <2>2, <2>3
  <2> HIDE DEF k, X, Y, l
  <2>5. CASE k = NONE
    BY <1>5, <1>8, <1>9, <2>1, <2>5 DEF k, n
  <2>6. CASE k # NONE
    <3>1. RingSet(X, k, d, C)
      BY <1>5, <2>6 DEF k
    <3>2. k \in C
      BY <3>1 DEF RingSet
    <3>3. RingSet(Y, k, d, C)
      <4>1. C \subseteq 1..Len(Y)
        BY <1>3, <2>2
      <4> QED BY <2>4, <3>1, <3>2, <4>1 DEF RingSet
    <3> QED BY <1>8, <1>9, <2>1, <2>6, <3>3 DEF n
  <2> QED BY <2>5, <2>6
<1>10. CASE m = n
  <2> DEFINE D == C \cup {a}
  <2>1. chains'.last[m][d] = a /\ a # NONE
    BY <1>2, <1>3, <1>10 DEF NONE
  <2>2. D \subseteq 1..Len(Y) /\ a \in D /\ a \in 1..a
    <3>1. a \in 1..a /\ \A x \in 1..Len(delta_edges) : x \in 1..a
      BY <1>2
    <3> QED BY <1>3, <1>4, <3>1
  <2>3. \A x \in C : x \in 1..a /\ x < a /\ x \in Int
    BY <1>2, <1>4
  <2>4. CASE l = NONE
    <3>1. C = {}
      BY <1>5, <1>10, <2>4
    <3>2. Y[a][d] = a
      BY <1>3, <2>2, <2>4
    <3>3. RingSet(Y, a, d, D)
      <4> HIDE DEF X, Y, l
      <4>1. \A x \in D : x = a
        BY <3>1
      <4>2. a <= a
        BY <1>2
      <4> QED BY <2>2, <3>2, <4>1, <4>2 DEF RingSet
    <3> QED BY <1>8, <1>10, <2>1, <3>3
  <2>5. CASE l # NONE
    <3>1. RingSet(X, l, d, C)
      BY <1>5, <1>10, <2>5
    <3>2. /\ l \in C
          /\ \A x \in C : x <= l /\ X[x][d] \in C /\ X[l][d] <= x
          /\ \A x \in C : x # l => /\ x < X[x][d]
                                   /\ \A y \in C : x < y => X[x][d] <= y
      BY <3>1 DEF RingSet
    <3>3. Y[a][d] = X[l][d] /\ Y[l][d] = a /\ \A x \in C : x # l => Y[x][d] = X[x][d]
      <4>1. \A x \in C : x # a
        BY <2>3, <1>2
      <4> HIDE DEF X, Y, l
      <4> QED BY <1>3, <2>2, <2>3, <2>5, <3>2, <4>1
    <3> HIDE DEF X, Y, l
    <3>4. a \in Int /\ X[l][d] \in C
      BY <1>2, <3>2
    <3>5. ASSUME NEW x \in D PROVE x <= a /\ Y[x][d] \in D /\ Y[a][d] <= x
      <4>1. CASE x = a
        <5>1. X[l][d] < a /\ X[l][d] \in Int
          BY <2>3, <3>4
        <5> QED BY <3>3, <3>4, <4>1, <5>1
      <4>2. CASE x \in C
        <5>1. x < a /\ x \in Int /\ X[l][d] <= x
          BY <2>3, <3>2, <4>2
        <5>2. Y[x][d] \in D
          BY <3>2, <3>3, <4>2
        <5> QED BY <3>3, <3>4, <5>1, <5>2
      <4> QED BY <4>1, <4>2
    <3>6. ASSUME NEW x \in D, x # a
          PROVE  x < Y[x][d] /\ \A y \in D : x < y => Y[x][d] <= y
      <4>1. x \in C /\ x < a /\ x \in Int
        BY <2>3, <3>6
      <4>2. CASE x = l
        <5>1. \A y \in D : x < y => y = a
          <6> SUFFICES ASSUME NEW y \in C, x < y PROVE FALSE
            OBVIOUS
          <6>1. y <= l /\ y \in Int
            BY <2>3, <3>2
          <6> QED BY <4>1, <4>2, <6>1
        <5>2. a <= a
          BY <3>4
        <5> QED BY <3>3, <4>1, <4>2, <5>1, <5>2
      <4>3. CASE x # l
        <5>1. Y[x][d] = X[x][d] /\ X[x][d] \in C /\ x < X[x][d]
              /\ \A y \in C : x < y => X[x][d] <= y
          BY <3>2, <3>3, <4>1, <4>3
        <5>2. X[x][d] < a /\ X[x][d] \in Int
          BY <2>3, <5>1
        <5>3. X[x][d] <= a
          BY <3>4, <5>2
        <5> QED BY <5>1, <5>3
      <4> QED BY <4>2, <4>3
    <3>7. RingSet(Y, a, d, D)
      BY <2>2, <3>5, <3>6 DEF RingSet
    <3> QED BY <1>8, <1>10, <2>1, <3>7
  <2> QED BY <2>4, <2>5
<1> QED BY <1>9, <1>10

(* add_edge: both ends read the new edge last, every other walk is as it   *)
(* was.                                                                    *)
LEMMA AddEdgeStore ==
    ASSUME StoreInv, NEW s \in 1..node_bound, NEW t \in 1..node_bound, NEW q \in Payload,
           add_edge(s, t, q)
    PROVE  /\ StoreInv'
           /\ node_bound' = node_bound /\ edge_bound' = edge_bound + 1
           /\ \A e \in 1..edge_bound : edges'[e] = edges[e]
           /\ edges'[edge_bound + 1] = EdgeRecord(s, t, q)
           /\ \A m \in 1..node_bound, d \in Direction : \A x, y :
                 /\ m # Endpoint(s, t, d) => (Ordered(m, d, x, y)' <=> Ordered(m, d, x, y))
                 /\ m = Endpoint(s, t, d)
                      => (Ordered(m, d, x, y)' <=>
                            \/ Ordered(m, d, x, y)
                            \/ /\ Reads(Run(m, d) \o chain_run(m, d), x)
                               /\ y = edge_bound + 1)
<1>a. PICK a : a = Len(delta_edges) + 1
  OBVIOUS
<1> DEFINE e == edge_bound + 1
           B == Len(base_edges)
<1>0. LivenessInv /\ Shaped
  BY DEF StoreInv
<1>1. LivenessInv'
  BY <1>0, AddEdgeLiveness
<1>2. /\ B \in Nat /\ Len(delta_edges) \in Nat /\ edge_bound = B + Len(delta_edges)
      /\ edge_bound \in Nat /\ node_bound \in Nat /\ a \in Nat /\ e \in Nat
      /\ e = B + a /\ Len(chains.next) = Len(delta_edges)
      /\ DOMAIN edges = 1..edge_bound /\ DOMAIN delta_edges = 1..Len(delta_edges)
      /\ \A x \in 1..B : edges[x] = base_edges[x]
      /\ \A i \in 1..Len(delta_edges) : edges[B + i] = delta_edges[i]
      /\ edges \in Seq(EdgeRecords) /\ Len(edges) = edge_bound
  BY SMTT(30), <1>0, <1>a, EdgeTable DEF Shaped
<1>3. s \in live_nodes /\ t \in live_nodes
  BY <1>0, LivenessAnswers DEF add_edge
<1> DEFINE rec == EdgeRecord(s, t, q)
<1>4. /\ rec \in EdgeRecords /\ \A d \in Direction : rec[d] = Endpoint(s, t, d)
  BY DEF EdgeRecord, EdgeRecords, Direction, Endpoint
<1> HIDE DEF rec
<1>5. /\ delta_edges' \in Seq(EdgeRecords) /\ Len(delta_edges') = a
      /\ delta_edges'[a] = rec
      /\ \A i \in 1..Len(delta_edges) : delta_edges'[i] = delta_edges[i]
  <2>1. delta_edges' = Append(delta_edges, rec)
    BY DEF add_edge, rec
  <2>2. delta_edges \in Seq(EdgeRecords)
    BY <1>0 DEF Shaped
  <2> QED BY <1>2, <1>4, <1>a, <2>1, <2>2
<1>6. base_edges' = base_edges /\ node_bound' = node_bound /\ edge_bound' = e
  BY <1>2, <1>5 DEF add_edge, node_bound, edge_bound
<1>7. /\ \A x \in 1..edge_bound : edges'[x] = edges[x]
      /\ edges'[e] = rec
  <2>1. edges' = base_edges \o delta_edges' /\ base_edges \in Seq(EdgeRecords)
    BY <1>0, <1>6 DEF edges, Shaped
  <2>2. /\ \A x \in 1..B : edges'[x] = base_edges[x]
        /\ \A i \in 1..a : edges'[B + i] = delta_edges'[i]
    BY <1>5, <2>1, ConcatParts
  <2>3. \A x \in 1..edge_bound : edges'[x] = edges[x]
    <3> SUFFICES ASSUME NEW x \in 1..edge_bound PROVE edges'[x] = edges[x]
      OBVIOUS
    <3>1. CASE x \in 1..B
      BY <1>2, <2>2, <3>1
    <3>2. CASE \E i \in 1..Len(delta_edges) : x = B + i
      <4>1. PICK i \in 1..Len(delta_edges) : x = B + i
        BY <3>2
      <4>2. i \in 1..a
        BY <1>2
      <4> QED BY <1>2, <1>5, <2>2, <4>1, <4>2
    <3> QED BY <1>0, <3>1, <3>2, SlotSplit
  <2>4. edges'[e] = rec
    <3>1. a \in 1..a
      BY <1>2
    <3> QED BY <1>2, <1>5, <2>2, <3>1
  <2> QED BY <2>3, <2>4
<1>8. Threaded(s, t)
  BY AppendThreads DEF add_edge
<1>9. live_edges' = live_edges \cup {e} /\ live_nodes' = live_nodes
      /\ live_edges \subseteq 1..edge_bound /\ e \notin 1..edge_bound
  <2>1. e \notin 1..edge_bound
    BY <1>2
  <2>2. live_edges' = live_edges \cup {e} /\ live_nodes' = live_nodes
    BY DEF add_edge
  <2>3. live_edges \subseteq 1..edge_bound
    BY <1>0 DEF LivenessInv, Counted
  <2> QED BY <2>1, <2>2, <2>3
<1>10. Shaped'
  <2>1. EdgeRecords' = EdgeRecords
    BY <1>6 DEF EdgeRecords
  <2>2. edge_bound' <= MaxEdgeSlots /\ node_bound' <= MaxNodeSlots
    <3>1. edge_bound < MaxEdgeSlots /\ node_bound <= MaxNodeSlots
      BY <1>0 DEF add_edge, Shaped
    <3> QED BY <1>2, <1>6, <3>1, SlotAssumption
  <2>3. /\ chains' \in [last : Seq([Direction -> Nat]), next : Seq([Direction -> Nat])]
        /\ Len(chains'.last) <= node_bound' /\ Len(chains'.next) = Len(delta_edges')
    <3>1. /\ chains' \in ChainTables /\ Len(chains'.last) = node_bound
          /\ Len(chains'.next) = a
      BY <1>8, <1>a DEF Threaded
    <3> QED BY <1>2, <1>5, <1>6, <3>1 DEF ChainTables, Links
  <2> QED BY <1>0, <1>5, <1>6, <2>1, <2>2, <2>3 DEF Shaped, add_edge
<1>11. \A d \in Direction : Indexed(d)'
  BY <1>0, <1>6, IndexKept DEF StoreInv, Shaped, add_edge
<1>12. ASSUME NEW m \in 1..node_bound, NEW d \in Direction
       PROVE  /\ Adjacency(m, d)'
              /\ \A x, y : m # Endpoint(s, t, d) =>
                              (Ordered(m, d, x, y)' <=> Ordered(m, d, x, y))
              /\ \A x, y : m = Endpoint(s, t, d) =>
                    (Ordered(m, d, x, y)' <=>
                            \/ Ordered(m, d, x, y)
                            \/ Reads(Run(m, d) \o chain_run(m, d), x) /\ y = e)
  <2> DEFINE r == Run(m, d)
             c == chain_run(m, d)
             c2 == chain_run(m, d)'
  <2>1. Run(m, d)' = r
    BY RunsUnchanged DEF add_edge
  <2>2. PICK C : ChainOf(m, d, C) /\ \A i \in C : delta_edges[i][d] = m
    BY DEF StoreInv, Adjacency
  <2>3. C \subseteq 1..Len(delta_edges)
    BY <1>2, <2>2, ChainIsRanked
  <2>4. Len(chains.next) \in Nat /\ Len(chains.next)' \in Nat
        /\ Len(base_edges)' = Len(base_edges)
    BY <1>2, <1>6, <1>8 DEF Threaded
  <2>5. CASE m # Endpoint(s, t, d)
    <3>1. ASSUME NEW K, ChainOf(m, d, K), \A i \in K : delta_edges[i][d] = m
          PROVE  ChainOf(m, d, K)' /\ \A i \in K : delta_edges'[i][d] = m
      <4>1. ChainOf(m, d, K)'
        BY <1>8, <1>a, <2>5, <3>1, ThreadedChain
      <4>2. K \subseteq 1..Len(delta_edges)
        BY <1>2, <3>1, ChainIsRanked
      <4> QED BY <1>5, <3>1, <4>1, <4>2
    <3>2. c2 = c
      BY <2>2, <2>4, <3>1, ChainKept
    <3>3. \A x \in live_edges' : edges'[x][d] = m <=> x \in live_edges /\ edges[x][d] = m
      BY <1>4, <1>7, <1>9, <2>5
    <3>4. Adjacency(m, d)'
      <4>1. /\ edge_bound \in Nat /\ edge_bound' \in Nat /\ edge_bound <= edge_bound'
            /\ \A x \in live_edges' : x \in live_edges \/ x \notin 1..edge_bound
        BY <1>2, <1>6, <1>9
      <4> QED BY <2>1, <3>1, <3>2, <3>3, <4>1, AdjacencyKept
    <3>5. \A x, y : Ordered(m, d, x, y)' <=> Ordered(m, d, x, y)
      BY <2>1, <3>2 DEF Ordered
    <3> QED BY <2>5, <3>4, <3>5
  <2>6. CASE m = Endpoint(s, t, d)
    <3> DEFINE D == C \cup {a}
    <3>1. ChainOf(m, d, D)'
      BY <1>8, <1>a, <2>2, <2>6, ThreadedChain
    <3>2. \A i \in D : delta_edges'[i][d] = m
      BY <1>4, <1>5, <2>2, <2>3, <2>6
    <3> HIDE DEF D
    <3>3. /\ r \in EdgeRuns /\ Distinct(r)
          /\ \A x, y : Reads(r, x) /\ Reads(c, y) => x < y
          /\ \A x \in live_edges : edges[x][d] = m <=> Reads(r, x) \/ Reads(c, x)
      BY DEF StoreInv, Adjacency
    <3>4. /\ c \in EdgeRuns
          /\ \A x : Reads(c, x) <=> \E i \in C : x = B + i
          /\ \A x, y : Precedes(c, x, y) <=> Reads(c, x) /\ Reads(c, y) /\ x < y
      <4>1. ASSUME NEW x, NEW y
            PROVE  /\ c \in EdgeRuns
                   /\ Reads(c, x) <=> \E i \in C : x = B + i
                   /\ Precedes(c, x, y) <=> Reads(c, x) /\ Reads(c, y) /\ x < y
        <5>1. /\ ChainOf(m, d, C) /\ Len(chains.next) = Len(delta_edges)
              /\ Len(delta_edges) \in Nat /\ Len(base_edges) \in Nat
          BY <1>2, <2>2
        <5> QED BY <5>1, ChainRead
      <4> QED BY <4>1
    <3>5. /\ c2 \in EdgeRuns'
          /\ \A x : Reads(c2, x) <=> \E i \in D : x = B + i
          /\ \A x, y : Precedes(c2, x, y) <=> Reads(c2, x) /\ Reads(c2, y) /\ x < y
      <4>1. Len(chains.next)' = Len(delta_edges)' /\ Len(delta_edges)' \in Nat
            /\ Len(base_edges)' \in Nat /\ Len(base_edges)' = B
        BY <1>2, <1>5, <1>6, <1>8, <1>a DEF Threaded
      <4> QED BY <3>1, <4>1, ChainReadNext
    <3> HIDE DEF r, c, c2
    <3>6. \A x : Reads(c2, x) <=> Reads(c, x) \/ x = e
      BY <1>2, <3>4, <3>5 DEF D
    <3>7. (\A x : Reads(r, x) => x \in 1..edge_bound) /\ (\A x : Reads(c, x) => x \in 1..edge_bound)
      <4>1. (\A i \in DOMAIN r : r[i] \in 1..edge_bound) /\ \A i \in DOMAIN c : c[i] \in 1..edge_bound
        BY <3>3, <3>4, SeqParts DEF EdgeRuns
      <4> QED BY <4>1 DEF Reads
    <3>8. \A x \in 1..edge_bound : x < e
      BY <1>2
    <3>9. r \in EdgeRuns'
      <4>1. \A x \in 1..edge_bound : x \in 1..edge_bound'
        BY <1>2, <1>6
      <4>2. r \in Seq(1..edge_bound) /\ EdgeRuns' = Seq(1..edge_bound')
        BY <3>3 DEF EdgeRuns
      <4> QED BY <4>1, <4>2, SeqMonotone
    <3>10. \A x, y : Reads(r, x) /\ Reads(c2, y) => x < y
      BY <3>3, <3>6, <3>7, <3>8
    <3>11. \A x \in live_edges' : edges'[x][d] = m <=> Reads(r, x) \/ Reads(c2, x)
      <4> SUFFICES ASSUME NEW x \in live_edges'
                   PROVE  edges'[x][d] = m <=> Reads(r, x) \/ Reads(c2, x)
        OBVIOUS
      <4>1. CASE x = e
        BY <1>4, <1>7, <2>6, <3>6, <4>1
      <4>2. CASE x # e
        BY <1>7, <1>9, <3>3, <3>6, <4>2
      <4> QED BY <4>1, <4>2
    <3>12. Adjacency(m, d)'
      <4>1. \E K : ChainOf(m, d, K)' /\ \A i \in K : delta_edges'[i][d] = m
        <5> WITNESS D
        <5> QED BY <3>1, <3>2
      <4> QED BY <2>1, <3>3, <3>9, <3>10, <3>11, <4>1 DEF Adjacency, c2
    <3>13. ASSUME NEW x, NEW y
           PROVE  Ordered(m, d, x, y)' <=> \/ Ordered(m, d, x, y)
                                           \/ Reads(r \o c, x) /\ y = e
      <4>1. /\ Reads(r \o c, x) <=> Reads(r, x) \/ Reads(c, x)
            /\ Precedes(r \o c, x, y) <=> \/ Precedes(r, x, y) \/ Precedes(c, x, y)
                                          \/ Reads(r, x) /\ Reads(c, y)
        BY <3>3, <3>4, ConcatRead DEF EdgeRuns
      <4>2. Precedes(r \o c2, x, y) <=> \/ Precedes(r, x, y) \/ Precedes(c2, x, y)
                                        \/ Reads(r, x) /\ Reads(c2, y)
        <5>1. r \in Seq((1..edge_bound)') /\ c2 \in Seq((1..edge_bound)')
          BY <3>5, <3>9 DEF EdgeRuns
        <5> QED BY <5>1, ConcatRead
      <4>3. Ordered(m, d, x, y)' <=> Precedes(r \o c2, x, y)
        BY <2>1 DEF Ordered, c2
      <4>4. Ordered(m, d, x, y) <=> Precedes(r \o c, x, y)
        BY DEF Ordered, r, c
      <4>5. ~(e < e) /\ \A z \in 1..edge_bound : ~(e < z)
        <5>1. edge_bound \in Nat
          BY <1>2
        <5> QED BY <5>1
      <4>6. Precedes(c2, x, y) <=> Precedes(c, x, y) \/ (Reads(c, x) /\ y = e)
        BY <3>4, <3>5, <3>6, <3>7, <3>8, <4>5
      <4> QED BY <3>6, <4>1, <4>2, <4>3, <4>4, <4>6
    <3> QED BY <2>6, <3>12, <3>13 DEF r, c
  <2> QED BY <2>5, <2>6
<1>13. \A x \in live_edges', d \in Direction : edges'[x][d] \in live_nodes'
  <2>1. \A d \in Direction : rec[d] \in live_nodes
    BY <1>3, <1>4 DEF Endpoint
  <2> QED BY <1>7, <1>9, <2>1 DEF StoreInv
<1>14. StoreInv'
  BY <1>1, <1>6, <1>10, <1>11, <1>12, <1>13 DEF StoreInv
<1> QED BY <1>6, <1>7, <1>12, <1>14 DEF rec

-----------------------------------------------------------------------------
(* Counting placement.  The slots of 1..K by a key and then by number, the *)
(* place of a slot in that order, and how many slots have a smaller key.   *)
Sooner(key, e, f) == key[e] < key[f] \/ (key[e] = key[f] /\ e < f)
Place(key, e) == Cardinality({f \in DOMAIN key : Sooner(key, f, e)}) + 1
Offset(key, n) == Cardinality({e \in DOMAIN key : key[e] < n})

(* Every slot has a place of its own, and every place has a slot.          *)
LEMMA Placement ==
    ASSUME NEW K \in Nat, NEW key \in [1..K -> Nat]
    PROVE  /\ \A e \in 1..K : Place(key, e) \in 1..K
           /\ \A e, f \in 1..K : Sooner(key, e, f) => Place(key, e) < Place(key, f)
           /\ \A e, f \in 1..K : Place(key, e) = Place(key, f) => e = f
           /\ \A k \in 1..K : \E e \in 1..K : Place(key, e) = k
<1> DEFINE S == 1..K
           below(e) == {f \in S : Sooner(key, f, e)}
           place == [e \in S |-> Place(key, e)]
<1>0. /\ DOMAIN key = S /\ IsFiniteSet(S) /\ Cardinality(S) = K
  BY IntervalSize
<1>1. ASSUME NEW e \in S, NEW f \in S, NEW g \in S
      PROVE  /\ ~Sooner(key, e, e)
             /\ e # f => Sooner(key, e, f) \/ Sooner(key, f, e)
             /\ Sooner(key, e, f) /\ Sooner(key, f, g) => Sooner(key, e, g)
  <2>1. /\ e \in Int /\ f \in Int /\ g \in Int
        /\ key[e] \in Int /\ key[f] \in Int /\ key[g] \in Int
    OBVIOUS
  <2> QED BY <2>1 DEF Sooner
<1> HIDE DEF S
<1>2. \A e \in S : /\ IsFiniteSet(below(e)) /\ Cardinality(below(e)) \in Nat
                   /\ Cardinality(below(e)) < K
  <2> TAKE e \in S
  <2>1. below(e) \in SUBSET S /\ e \notin below(e)
    BY <1>1
  <2>2. IsFiniteSet(below(e)) /\ Cardinality(below(e)) <= Cardinality(S)
        /\ Cardinality(below(e)) # Cardinality(S)
    BY <1>0, <2>1, FS_Subset
  <2>3. Cardinality(below(e)) \in Nat
    BY <2>2, FS_CardinalityType
  <2> QED BY <1>0, <2>2, <2>3
<1>3. \A e \in S : Place(key, e) = Cardinality(below(e)) + 1
  BY <1>0 DEF Place
<1>4. \A e \in S : Place(key, e) \in 1..K
  <2> TAKE e \in S
  <2>1. Cardinality(below(e)) \in Nat /\ Cardinality(below(e)) < K
    BY <1>2
  <2>2. Place(key, e) = Cardinality(below(e)) + 1
    BY <1>3
  <2> HIDE DEF below
  <2> QED BY <2>1, <2>2
<1>5. ASSUME NEW e \in S, NEW f \in S, Sooner(key, e, f)
      PROVE  Place(key, e) < Place(key, f)
  <2>1. below(e) \in SUBSET below(f) /\ e \in below(f) /\ e \notin below(e)
    BY <1>1, <1>5
  <2>2. IsFiniteSet(below(e)) /\ IsFiniteSet(below(f))
    BY <1>2
  <2>3. Cardinality(below(e)) <= Cardinality(below(f))
    BY <2>1, <2>2, FS_Subset
  <2>4. Cardinality(below(e)) # Cardinality(below(f))
    BY <2>1, <2>2, FS_Subset
  <2>5. Cardinality(below(e)) \in Nat /\ Cardinality(below(f)) \in Nat
    BY <1>2
  <2> QED BY <1>3, <2>3, <2>4, <2>5
<1>6. ASSUME NEW e \in S, NEW f \in S, Place(key, e) = Place(key, f)
      PROVE  e = f
  <2>1. Place(key, e) \in Int /\ Place(key, f) \in Int
    BY <1>4
  <2>2. ~Sooner(key, e, f) /\ ~Sooner(key, f, e)
    BY <1>5, <1>6, <2>1
  <2> QED BY <1>1, <2>2
<1>7. place \in Injection(S, 1..K)
  <2>1. place \in [S -> 1..K]
    BY <1>4
  <2>2. \A a, b \in S : place[a] = place[b] => a = b
    BY <1>6
  <2> QED BY <2>1, <2>2 DEF Injection, IsInjective
<1>8. place \in Surjection(S, 1..K)
  <2>1. IsFiniteSet(1..K) /\ Cardinality(1..K) = Cardinality(S)
    BY <1>0 DEF S
  <2> HIDE DEF place
  <2> QED BY <1>0, <1>7, <2>1, FS_Injection
<1>9. \A k \in 1..K : \E e \in S : Place(key, e) = k
  <2>1. \A k \in 1..K : \E e \in S : place[e] = k
    <3> HIDE DEF place
    <3> QED BY <1>8 DEF Surjection
  <2> QED BY <2>1
<1> QED BY <1>4, <1>5, <1>6, <1>9 DEF S

(* The places of the slots of one key lie between its offset and the next, *)
(* and there are as many of them.                                          *)
LEMMA Offsets ==
    ASSUME NEW K \in Nat, NEW M \in Nat, NEW key \in [1..K -> 1..M]
    PROVE  /\ \A n \in Nat : Offset(key, n) \in 0..K
           /\ \A m, n \in Nat : m <= n => Offset(key, m) <= Offset(key, n)
           /\ Offset(key, 1) = 0 /\ Offset(key, M + 1) = K
           /\ \A e \in 1..K : /\ Offset(key, key[e]) < Place(key, e)
                              /\ Place(key, e) <= Offset(key, key[e] + 1)
           /\ \A n \in Nat : Offset(key, n + 1) - Offset(key, n)
                               = Cardinality({e \in 1..K : key[e] = n})
<1> DEFINE S == 1..K
           less(n) == {e \in S : key[e] < n}
           same(n) == {e \in S : key[e] = n}
<1>0. /\ DOMAIN key = S /\ IsFiniteSet(S) /\ Cardinality(S) = K
      /\ \A e \in S : e \in Int /\ key[e] \in Nat /\ key[e] >= 1 /\ key[e] <= M
  BY IntervalSize
<1> HIDE DEF S
<1>1. \A n \in Nat : /\ IsFiniteSet(less(n)) /\ Cardinality(less(n)) \in Nat
                     /\ Cardinality(less(n)) <= K
                     /\ Offset(key, n) = Cardinality(less(n))
  <2> TAKE n \in Nat
  <2>1. less(n) \in SUBSET S
    OBVIOUS
  <2>2. IsFiniteSet(less(n)) /\ Cardinality(less(n)) <= Cardinality(S)
    BY <1>0, <2>1, FS_Subset
  <2>3. Cardinality(less(n)) \in Nat
    BY <2>2, FS_CardinalityType
  <2> QED BY <1>0, <2>2, <2>3 DEF Offset
<1>2. ASSUME NEW m \in Nat, NEW n \in Nat, m <= n
      PROVE  Offset(key, m) <= Offset(key, n)
  <2>1. \A e \in S : key[e] < m => key[e] < n
    BY <1>0, <1>2
  <2>2. less(m) \in SUBSET less(n) /\ IsFiniteSet(less(n))
    BY <1>1, <2>1
  <2>3. Cardinality(less(m)) <= Cardinality(less(n))
    BY <2>2, FS_Subset
  <2> QED BY <1>1, <2>3
<1>3. Offset(key, 1) = 0
  <2>1. less(1) = {}
    BY <1>0
  <2> QED BY <1>1, <2>1, FS_EmptySet
<1>4. Offset(key, M + 1) = K
  <2>1. less(M + 1) = S
    BY <1>0
  <2> QED BY <1>0, <1>1, <2>1
<1>5. ASSUME NEW e \in S
      PROVE  /\ Offset(key, key[e]) < Place(key, e)
             /\ Place(key, e) <= Offset(key, key[e] + 1)
  <2> DEFINE T == {f \in S : Sooner(key, f, e)}
             n == key[e]
  <2>1. Place(key, e) = Cardinality(T) + 1
    BY <1>0 DEF Place
  <2>2. n \in Nat /\ n + 1 \in Nat
    BY <1>0
  <2>3. less(n) \in SUBSET T
    BY DEF Sooner
  <2>4. T \in SUBSET less(n + 1) /\ e \in less(n + 1) /\ e \notin T
    <3>1. \A f \in S : Sooner(key, f, e) => key[f] < n + 1
      <4> TAKE f \in S
      <4>1. key[f] \in Nat /\ key[e] \in Nat
        BY <1>0
      <4> QED BY <4>1 DEF Sooner
    <3>2. key[e] < n + 1 /\ ~Sooner(key, e, e)
      BY <1>0 DEF Sooner
    <3> QED BY <3>1, <3>2
  <2>5. IsFiniteSet(less(n + 1)) /\ Cardinality(less(n + 1)) \in Nat
        /\ Offset(key, n + 1) = Cardinality(less(n + 1))
        /\ Offset(key, n) = Cardinality(less(n)) /\ Cardinality(less(n)) \in Nat
    BY <1>1, <2>2
  <2> HIDE DEF T, n
  <2>6. IsFiniteSet(T) /\ Cardinality(T) <= Cardinality(less(n + 1))
        /\ Cardinality(T) # Cardinality(less(n + 1))
    BY <2>4, <2>5, FS_Subset
  <2>7. Cardinality(T) \in Nat
    BY <2>6, FS_CardinalityType
  <2>8. Cardinality(less(n)) <= Cardinality(T)
    BY <2>3, <2>6, FS_Subset
  <2>9. Offset(key, n) < Place(key, e) /\ Place(key, e) <= Offset(key, n + 1)
    BY <2>1, <2>5, <2>6, <2>7, <2>8
  <2> QED BY <2>9 DEF n
<1>6. ASSUME NEW n \in Nat
      PROVE  Offset(key, n + 1) - Offset(key, n) = Cardinality(same(n))
  <2>0. \A e \in S : /\ key[e] < n + 1 <=> (key[e] < n \/ key[e] = n)
                      /\ ~(key[e] < n /\ key[e] = n)
    BY <1>0
  <2>1. less(n + 1) = less(n) \cup same(n) /\ less(n) \cap same(n) = {}
    BY <2>0
  <2>2. /\ IsFiniteSet(less(n)) /\ n + 1 \in Nat
        /\ Offset(key, n) = Cardinality(less(n)) /\ Cardinality(less(n)) \in Nat
        /\ Offset(key, n + 1) = Cardinality(less(n + 1))
        /\ Offset(key, n) \in Int /\ Offset(key, n + 1) \in Int
    <3>1. n + 1 \in Nat
      OBVIOUS
    <3>2. /\ IsFiniteSet(less(n)) /\ Cardinality(less(n)) \in Nat
          /\ Offset(key, n) = Cardinality(less(n))
      BY <1>1
    <3>3. /\ Cardinality(less(n + 1)) \in Nat
          /\ Offset(key, n + 1) = Cardinality(less(n + 1))
      BY <1>1, <3>1
    <3> HIDE DEF less
    <3> QED BY <3>1, <3>2, <3>3
  <2>3. same(n) \in SUBSET S
    OBVIOUS
  <2>4. IsFiniteSet(same(n))
    BY <1>0, <2>3, FS_Subset
  <2>5. Cardinality(same(n)) \in Nat
    BY <2>4, FS_CardinalityType
  <2> HIDE DEF less, same
  <2>6. Cardinality(less(n + 1))
          = Cardinality(less(n)) + Cardinality(same(n)) - Cardinality(less(n) \cap same(n))
    BY <2>1, <2>2, <2>4, FS_Union
  <2>7. Cardinality(less(n) \cap same(n)) = 0
    BY <2>1, FS_EmptySet
  <2> QED BY <2>2, <2>5, <2>6, <2>7
<1>7. \A n \in Nat : Offset(key, n) \in 0..K
  <2> TAKE n \in Nat
  <2>1. Cardinality(less(n)) \in Nat /\ Cardinality(less(n)) <= K
        /\ Offset(key, n) = Cardinality(less(n))
    BY <1>1
  <2> HIDE DEF less
  <2> QED BY <2>1
<1> QED BY <1>2, <1>3, <1>4, <1>5, <1>6, <1>7 DEF S

(* The node every record ends at along d.                                  *)
KeyOf(records, d) == [e \in DOMAIN records |-> records[e][d]]

(* Offsets and a flat edge array that list, run by run, the slots of every *)
(* key from 1 to M, each run in slot order.                                *)
Placed(O, L, K, M, key) ==
    /\ O \in Seq(Nat) /\ Len(O) = M + 1 /\ O[1] = 0 /\ O[M + 1] = K
    /\ \A m, n \in 1..(M + 1) : m <= n => O[m] <= O[n]
    /\ \A n \in 1..M : O[n + 1] - O[n] = Cardinality({e \in 1..K : key[e] = n})
    /\ L \in Seq(1..K) /\ Len(L) = K
    /\ \A i \in 1..K, n \in 1..M : key[L[i]] = n <=> (O[n] < i /\ i <= O[n + 1])
    /\ \A e \in 1..K : \E i \in 1..K : L[i] = e
    /\ \A i, j \in 1..K : L[i] = L[j] => i = j
    /\ \A i, j \in 1..K : i < j /\ key[L[i]] = key[L[j]] => L[i] < L[j]

(* What compress builds.                                                   *)
LEMMA CompressIs ==
    ASSUME NEW K \in Nat, NEW M \in Nat, NEW records, NEW d, DOMAIN records = 1..K,
           \A e \in 1..K : records[e][d] \in 1..M
    PROVE  \E O, L : /\ compress(records, M, d) = [offsets |-> O, edges |-> L]
                     /\ Placed(O, L, K, M, KeyOf(records, d))
<1> DEFINE key == KeyOf(records, d)
           Before(e, f) == \/ records[e][d] < records[f][d]
                           \/ records[e][d] = records[f][d] /\ e < f
           all == DOMAIN records
           Position(e) == Cardinality({f \in all : Before(f, e)}) + 1
           O == [n \in 1..(M + 1) |-> Cardinality({e \in all : records[e][d] < n})]
           L == [i \in all |-> CHOOSE e \in all : Position(e) = i]
<1>1. compress(records, M, d) = [offsets |-> O, edges |-> L]
  BY DEF compress
<1>2. key \in [1..K -> 1..M] /\ DOMAIN key = 1..K /\ all = 1..K
      /\ \A e \in 1..K : key[e] = records[e][d]
  BY DEF KeyOf
<1>3. \A n : {e \in all : records[e][d] < n} = {e \in DOMAIN key : key[e] < n}
  BY <1>2
<1>4. O = [n \in 1..(M + 1) |-> Offset(key, n)]
  BY <1>3 DEF Offset
<1>5. \A e \in 1..K : Position(e) = Place(key, e)
  <2> TAKE e \in 1..K
  <2>1. {f \in all : Before(f, e)} = {f \in DOMAIN key : Sooner(key, f, e)}
    BY <1>2 DEF Sooner
  <2> QED BY <2>1 DEF Place
<1> HIDE DEF Position, key
<1>6. /\ \A e \in 1..K : Place(key, e) \in 1..K
      /\ \A e, f \in 1..K : Sooner(key, e, f) => Place(key, e) < Place(key, f)
      /\ \A e, f \in 1..K : Place(key, e) = Place(key, f) => e = f
      /\ \A k \in 1..K : \E e \in 1..K : Place(key, e) = k
  <2>1. key \in [1..K -> Nat]
    BY <1>2
  <2> QED BY <2>1, Placement
<1>7. /\ \A n \in Nat : Offset(key, n) \in 0..K
      /\ \A m, n \in Nat : m <= n => Offset(key, m) <= Offset(key, n)
      /\ Offset(key, 1) = 0 /\ Offset(key, M + 1) = K
      /\ \A e \in 1..K : /\ Offset(key, key[e]) < Place(key, e)
                         /\ Place(key, e) <= Offset(key, key[e] + 1)
      /\ \A n \in Nat : Offset(key, n + 1) - Offset(key, n)
                           = Cardinality({e \in 1..K : key[e] = n})
  BY <1>2, Offsets
<1>8. L \in [1..K -> 1..K] /\ \A i \in 1..K : Place(key, L[i]) = i
  <2>1. \A i \in 1..K : \E e \in all : Position(e) = i
    BY <1>2, <1>5, <1>6
  <2>2. \A i \in 1..K : L[i] \in 1..K /\ Position(L[i]) = i
    BY <1>2, <2>1
  <2>3. L = [i \in 1..K |-> L[i]]
    BY <1>2
  <2> HIDE DEF L
  <2> QED BY <1>5, <2>2, <2>3
<1>9. O \in [1..(M + 1) -> Nat] /\ \A n \in 1..(M + 1) : O[n] = Offset(key, n)
  <2>1. \A n \in 1..(M + 1) : n \in Nat
    OBVIOUS
  <2>2. \A n \in 1..(M + 1) : Offset(key, n) \in Nat
    BY <1>7, <2>1
  <2> QED BY <1>4, <2>2
<1> HIDE DEF O, L, all
<1>10. O \in Seq(Nat) /\ Len(O) = M + 1 /\ L \in Seq(1..K) /\ Len(L) = K
  BY <1>8, <1>9, IntervalFunctionIsSeq
<1>11. /\ O[1] = 0 /\ O[M + 1] = K
       /\ \A m, n \in 1..(M + 1) : m <= n => O[m] <= O[n]
       /\ \A n \in 1..M : O[n + 1] - O[n] = Cardinality({e \in 1..K : key[e] = n})
  <2>1. /\ 1 \in 1..(M + 1) /\ M + 1 \in 1..(M + 1)
        /\ \A n \in 1..(M + 1) : n \in Nat
        /\ \A n \in 1..M : n \in 1..(M + 1) /\ n + 1 \in 1..(M + 1) /\ n \in Nat
    OBVIOUS
  <2>2. O[1] = 0 /\ O[M + 1] = K
    BY <1>7, <1>9, <2>1
  <2>3. \A l, n \in 1..(M + 1) : l <= n => O[l] <= O[n]
    BY <1>7, <1>9, <2>1
  <2>4. \A n \in 1..M : O[n + 1] - O[n] = Cardinality({e \in 1..K : key[e] = n})
    BY <1>7, <1>9, <2>1
  <2> QED BY <2>2, <2>3, <2>4
<1>12. ASSUME NEW i \in 1..K, NEW n \in 1..M
       PROVE  key[L[i]] = n <=> (O[n] < i /\ i <= O[n + 1])
  <2> DEFINE k == key[L[i]]
  <2>1. L[i] \in 1..K /\ k \in 1..M /\ Place(key, L[i]) = i
    BY <1>2, <1>8
  <2> HIDE DEF k
  <2>2. Offset(key, k) < i /\ i <= Offset(key, k + 1)
    BY <1>7, <2>1 DEF k
  <2>3. /\ k \in Nat /\ n \in Nat /\ k + 1 \in Nat /\ n + 1 \in Nat
        /\ n \in 1..(M + 1) /\ n + 1 \in 1..(M + 1) /\ i \in Nat
    BY <2>1
  <2>4. O[n] = Offset(key, n) /\ O[n + 1] = Offset(key, n + 1)
    BY <1>9, <2>3
  <2>5. /\ Offset(key, k) \in Nat /\ Offset(key, k + 1) \in Nat
        /\ Offset(key, n) \in Nat /\ Offset(key, n + 1) \in Nat
    BY <1>7, <2>3
  <2>6. k < n => Offset(key, k + 1) <= Offset(key, n)
    BY <1>7, <2>3
  <2>7. n < k => Offset(key, n + 1) <= Offset(key, k)
    BY <1>7, <2>3
  <2>8. k = n <=> (Offset(key, n) < i /\ i <= Offset(key, n + 1))
    <3>1. CASE k < n
      BY <2>2, <2>3, <2>5, <2>6, <3>1
    <3>2. CASE n < k
      BY <2>2, <2>3, <2>5, <2>7, <3>2
    <3>3. CASE k = n
      BY <2>2, <3>3
    <3>4. k < n \/ n < k \/ k = n
      BY <2>3
    <3> QED BY <3>1, <3>2, <3>3, <3>4
  <2> QED BY <2>4, <2>8 DEF k
<1>13. \A e \in 1..K : \E i \in 1..K : L[i] = e
  <2> TAKE e \in 1..K
  <2>1. Place(key, e) \in 1..K
    BY <1>6
  <2> WITNESS Place(key, e) \in 1..K
  <2> QED BY <1>6, <1>8
<1>14. \A i, j \in 1..K : L[i] = L[j] => i = j
  BY <1>8
<1>15. ASSUME NEW i \in 1..K, NEW j \in 1..K, i < j, key[L[i]] = key[L[j]]
       PROVE  L[i] < L[j]
  <2>1. L[i] \in 1..K /\ L[j] \in 1..K /\ Place(key, L[i]) = i /\ Place(key, L[j]) = j
    BY <1>8
  <2>2. L[i] # L[j] /\ ~(Place(key, L[j]) < Place(key, L[i]))
    BY <1>15, <2>1
  <2>3. ~Sooner(key, L[j], L[i])
    BY <1>6, <2>1, <2>2
  <2>4. ~(L[j] < L[i])
    BY <1>15, <2>3 DEF Sooner
  <2> QED BY <2>1, <2>2, <2>4
<1>16. Placed(O, L, K, M, key)
  BY <1>10, <1>11, <1>12, <1>13, <1>14, <1>15 DEF Placed
<1> QED BY <1>1, <1>16 DEF key

(* Runs given for some of the keys, each of the slots of its key.          *)
Settled(runs, K, M, key) ==
    /\ DOMAIN runs \subseteq 1..M
    /\ \A m \in DOMAIN runs :
          /\ runs[m] \in Seq(1..K) /\ Distinct(runs[m])
          /\ \A x : Reads(runs[m], x) <=> (x \in 1..K /\ key[x] = m)

(* The array in which the slices of those keys are replaced.               *)
Restored(O, L, K, M, runs, R) ==
    /\ R \in Seq(1..K) /\ Len(R) = K
    /\ \A m \in 1..M, k \in Nat :
          1 <= k /\ k <= O[m + 1] - O[m] =>
            R[O[m] + k] = IF m \in DOMAIN runs THEN runs[m][k] ELSE L[O[m] + k]

(* A run fits the slice it replaces.                                       *)
LEMMA RunFits ==
    ASSUME NEW K \in Nat, NEW M \in Nat, NEW key, NEW O, NEW L, Placed(O, L, K, M, key),
           NEW runs, Settled(runs, K, M, key), NEW m \in DOMAIN runs
    PROVE  Len(runs[m]) = O[m + 1] - O[m]
<1>1. m \in 1..M /\ runs[m] \in Seq(1..K) /\ Distinct(runs[m])
  BY DEF Settled
<1>2. Elements(runs[m]) = {e \in 1..K : key[e] = m}
  <2>1. \A x : x \in Elements(runs[m]) <=> x \in {e \in 1..K : key[e] = m}
    BY ElementsRead DEF Settled
  <2> QED BY <2>1
<1>3. Cardinality(Elements(runs[m])) = Len(runs[m])
  BY <1>1, DistinctCount
<1>4. O[m + 1] - O[m] = Cardinality({e \in 1..K : key[e] = m})
  BY <1>1 DEF Placed
<1> QED BY <1>2, <1>3, <1>4

(* What restore_runs builds.                                               *)
LEMMA RestoreIs ==
    ASSUME NEW K \in Nat, NEW M \in Nat, NEW key, NEW O, NEW L, Placed(O, L, K, M, key),
           NEW runs, Settled(runs, K, M, key)
    PROVE  \E R : /\ restore_runs([offsets |-> O, edges |-> L], runs)
                       = [offsets |-> O, edges |-> R]
                  /\ Restored(O, L, K, M, runs, R)
<1> DEFINE Covers(m, i) == i > O[m] /\ i <= O[m] + Len(runs[m])
           R == [i \in DOMAIN L |->
                   IF \E m \in DOMAIN runs : Covers(m, i)
                   THEN LET m == CHOOSE m \in DOMAIN runs : Covers(m, i)
                        IN  runs[m][i - O[m]]
                   ELSE L[i]]
<1>1. restore_runs([offsets |-> O, edges |-> L], runs) = [offsets |-> O, edges |-> R]
  <2> DEFINE idx == [offsets |-> O, edges |-> L]
             C(m, i) == /\ i > idx.offsets[m]
                        /\ i <= idx.offsets[m] + Len(runs[m])
             X == [i \in DOMAIN idx.edges |->
                     IF \E m \in DOMAIN runs : C(m, i)
                     THEN LET m == CHOOSE m \in DOMAIN runs : C(m, i)
                          IN  runs[m][i - idx.offsets[m]]
                     ELSE idx.edges[i]]
  <2>1. idx.offsets = O /\ idx.edges = L
    OBVIOUS
  <2>2. \A Y : [idx EXCEPT !.edges = Y] = [offsets |-> O, edges |-> Y]
    OBVIOUS
  <2>3. X = R
    <3> HIDE DEF idx
    <3> QED BY <2>1, Zenon
  <2> HIDE DEF idx
  <2>4. restore_runs(idx, runs) = [idx EXCEPT !.edges = X]
    BY Zenon DEF restore_runs
  <2> HIDE DEF X, R
  <2>5. restore_runs(idx, runs) = [offsets |-> O, edges |-> R]
    BY <2>2, <2>3, <2>4
  <2> QED BY <2>5 DEF idx
<1>2. /\ DOMAIN runs \subseteq 1..M /\ DOMAIN L = 1..K /\ L \in Seq(1..K)
      /\ \A m \in DOMAIN runs : runs[m] \in Seq(1..K)
      /\ \A m \in 1..(M + 1) : O[m] \in Nat /\ O[m] <= K
      /\ \A m, n \in 1..(M + 1) : m <= n => O[m] <= O[n]
  <2>1. O \in Seq(Nat) /\ Len(O) = M + 1 /\ O[M + 1] = K
        /\ \A m, n \in 1..(M + 1) : m <= n => O[m] <= O[n]
    BY DEF Placed
  <2>2. \A m \in 1..(M + 1) : O[m] \in Nat /\ O[m] <= K
    <3> TAKE m \in 1..(M + 1)
    <3>1. M + 1 \in 1..(M + 1) /\ m <= M + 1
      OBVIOUS
    <3> QED BY <2>1, <3>1
  <2>3. L \in Seq(1..K) /\ DOMAIN L = 1..K
    <3>1. L \in Seq(1..K) /\ Len(L) = K
      BY DEF Placed
    <3> QED BY <3>1
  <2> QED BY <2>1, <2>2, <2>3 DEF Settled
<1>3. \A m \in DOMAIN runs : Len(runs[m]) = O[m + 1] - O[m]
  BY RunFits
<1>4. ASSUME NEW m \in 1..M, NEW n \in 1..M, NEW i \in 1..K,
             O[m] < i, i <= O[m + 1], O[n] < i, i <= O[n + 1]
      PROVE  m = n
  <2>1. /\ m \in 1..(M + 1) /\ m + 1 \in 1..(M + 1) /\ n \in 1..(M + 1) /\ n + 1 \in 1..(M + 1)
        /\ m \in Nat /\ n \in Nat /\ i \in Nat
    OBVIOUS
  <2>2. O[m] \in Nat /\ O[m + 1] \in Nat /\ O[n] \in Nat /\ O[n + 1] \in Nat
    BY <1>2, <2>1
  <2>3. m + 1 <= n => O[m + 1] <= O[n]
    BY <1>2, <2>1
  <2>4. n + 1 <= m => O[n + 1] <= O[m]
    BY <1>2, <2>1
  <2>5. ~(m + 1 <= n) /\ ~(n + 1 <= m)
    BY <1>4, <2>1, <2>2, <2>3, <2>4
  <2> QED BY <2>1, <2>5
<1>5. ASSUME NEW m \in DOMAIN runs, NEW i \in 1..K
      PROVE  Covers(m, i) <=> (O[m] < i /\ i <= O[m + 1])
  <2>1. m \in 1..M
    BY <1>2
  <2>2. m \in 1..(M + 1) /\ m + 1 \in 1..(M + 1)
    BY <2>1
  <2>3. O[m] \in Nat /\ O[m + 1] \in Nat
    BY <1>2, <2>2
  <2> QED BY <1>3, <2>3
<1>6. ASSUME NEW m \in 1..M, NEW k \in Nat, 1 <= k, k <= O[m + 1] - O[m]
      PROVE  /\ O[m] + k \in 1..K
             /\ R[O[m] + k] = IF m \in DOMAIN runs THEN runs[m][k] ELSE L[O[m] + k]
  <2> DEFINE i == O[m] + k
  <2>1. m \in 1..(M + 1) /\ m + 1 \in 1..(M + 1)
    OBVIOUS
  <2>2. O[m] \in Nat /\ O[m + 1] \in Nat /\ O[m + 1] <= K
    BY <1>2, <2>1
  <2>3. i \in 1..K /\ O[m] < i /\ i <= O[m + 1] /\ i - O[m] = k
    BY <1>6, <2>2
  <2> HIDE DEF i
  <2>4. \A n \in DOMAIN runs : Covers(n, i) => n = m
    <3> TAKE n \in DOMAIN runs
    <3> HAVE Covers(n, i)
    <3>1. n \in 1..M /\ O[n] < i /\ i <= O[n + 1]
      BY <1>2, <1>5, <2>3
    <3> QED BY <1>4, <2>3, <3>1
  <2>5. CASE m \in DOMAIN runs
    <3>1. Covers(m, i)
      BY <1>5, <2>3, <2>5
    <3> HIDE DEF Covers
    <3>2. (CHOOSE n \in DOMAIN runs : Covers(n, i)) = m
      BY <2>4, <2>5, <3>1
    <3>3. R[i] = runs[m][i - O[m]]
      BY <1>2, <2>3, <2>5, <3>1, <3>2
    <3> QED BY <2>3, <2>5, <3>3 DEF i
  <2>6. CASE m \notin DOMAIN runs
    <3>1. ~\E n \in DOMAIN runs : Covers(n, i)
      BY <2>4, <2>6
    <3>2. R[i] = L[i]
      BY <1>2, <2>3, <3>1
    <3> QED BY <2>3, <2>6, <3>2 DEF i
  <2> QED BY <2>5, <2>6
<1>7. R \in [1..K -> 1..K]
  <2>1. ASSUME NEW i \in 1..K PROVE R[i] \in 1..K
    <3>1. CASE \E m \in DOMAIN runs : Covers(m, i)
      <4> DEFINE m == CHOOSE m \in DOMAIN runs : Covers(m, i)
      <4>1. m \in DOMAIN runs /\ Covers(m, i)
        BY <3>1
      <4>2. R[i] = runs[m][i - O[m]]
        BY <1>2, <3>1
      <4> HIDE DEF m, R
      <4>3. runs[m] \in Seq(1..K) /\ m \in 1..M
        BY <1>2, <4>1
      <4>4. O[m] \in Nat
        <5>1. m \in 1..(M + 1)
          BY <4>3
        <5> QED BY <1>2, <5>1
      <4>5. Len(runs[m]) \in Nat
        BY <4>3
      <4>6. i - O[m] \in 1..Len(runs[m])
        BY SMTT(30), <4>1, <4>4, <4>5
      <4>7. runs[m][i - O[m]] \in 1..K
        BY SMTT(30), <4>3, <4>6, SeqParts
      <4> QED BY <4>2, <4>7
    <3>2. CASE ~\E m \in DOMAIN runs : Covers(m, i)
      <4>1. R[i] = L[i]
        BY <1>2, <3>2
      <4>2. L[i] \in 1..K
        BY <1>2
      <4> QED BY <4>1, <4>2
    <3> QED BY <3>1, <3>2
  <2>2. R = [i \in 1..K |-> R[i]]
    BY <1>2
  <2> HIDE DEF R
  <2> QED BY <2>1, <2>2
<1> HIDE DEF R
<1>8. R \in Seq(1..K) /\ Len(R) = K
  BY <1>7, IntervalFunctionIsSeq
<1>9. Restored(O, L, K, M, runs, R)
  BY <1>6, <1>8 DEF Restored
<1> QED BY <1>1, <1>9

(* The slice of a key in that array: the run given for it, or its slots in *)
(* order.                                                                  *)
LEMMA RestoredSlice ==
    ASSUME NEW K \in Nat, NEW M \in Nat, NEW key, NEW O, NEW L, Placed(O, L, K, M, key),
           NEW runs, Settled(runs, K, M, key), NEW R, Restored(O, L, K, M, runs, R),
           NEW m \in 1..M
    PROVE  LET w == SubSeq(R, O[m] + 1, O[m + 1])
           IN  /\ w \in Seq(1..K) /\ Distinct(w)
               /\ \A x : Reads(w, x) <=> (x \in 1..K /\ key[x] = m)
               /\ m \in DOMAIN runs => w = runs[m]
               /\ m \notin DOMAIN runs =>
                    \A x, y : Precedes(w, x, y) <=> (Reads(w, x) /\ Reads(w, y) /\ x < y)
<1> DEFINE a == O[m]
           b == O[m + 1]
           w == SubSeq(R, a + 1, b)
<1>1. a \in Nat /\ b \in Nat /\ a <= b /\ b <= K
  <2>1. O \in Seq(Nat) /\ Len(O) = M + 1 /\ O[M + 1] = K
        /\ \A i, j \in 1..(M + 1) : i <= j => O[i] <= O[j]
    BY DEF Placed
  <2>2. m \in 1..(M + 1) /\ m + 1 \in 1..(M + 1) /\ M + 1 \in 1..(M + 1)
        /\ m <= m + 1 /\ m + 1 <= M + 1
    OBVIOUS
  <2>3. O[m] \in Nat /\ O[m + 1] \in Nat
    <3>1. \A i \in 1..(M + 1) : O[i] \in Nat
      BY <2>1, SeqParts
    <3> QED BY <2>2, <3>1
  <2> QED BY <2>1, <2>2, <2>3
<1>2. /\ R \in Seq(1..K) /\ Len(R) = K
      /\ \A k \in Nat : 1 <= k /\ k <= b - a =>
            R[a + k] = IF m \in DOMAIN runs THEN runs[m][k] ELSE L[a + k]
  BY DEF Restored
<1> HIDE DEF a, b
<1>3. /\ w \in Seq(1..K) /\ Len(w) = b - a
      /\ \A k \in 1..(b - a) : w[k] = R[a + k]
  BY <1>1, <1>2, SubSeqParts
<1> HIDE DEF w
<1>4. DOMAIN w = 1..(b - a)
  BY <1>1, <1>3
<1>5. \A k \in 1..(b - a) : w[k] = IF m \in DOMAIN runs THEN runs[m][k] ELSE L[a + k]
  <2> TAKE k \in 1..(b - a)
  <2>1. k \in Nat /\ 1 <= k /\ k <= b - a
    BY <1>1
  <2> QED BY <1>2, <1>3, <2>1
<1>6. CASE m \in DOMAIN runs
  <2>1. /\ runs[m] \in Seq(1..K) /\ Distinct(runs[m])
        /\ \A x : Reads(runs[m], x) <=> (x \in 1..K /\ key[x] = m)
    BY <1>6 DEF Settled
  <2>2. Len(runs[m]) = b - a
    BY <1>6, RunFits DEF a, b
  <2>3. w = runs[m]
    <3>1. \A k \in 1..(b - a) : w[k] = runs[m][k]
      BY <1>5, <1>6
    <3> QED BY <1>3, <2>1, <2>2, <3>1
  <2> QED BY <1>3, <1>6, <2>1, <2>3 DEF w, a, b
<1>7. CASE m \notin DOMAIN runs
  <2>1. \A k \in 1..(b - a) : w[k] = L[a + k]
    BY <1>5, <1>7
  <2>2. /\ L \in Seq(1..K) /\ Len(L) = K
        /\ \A i \in 1..K : key[L[i]] = m <=> (a < i /\ i <= b)
        /\ \A e \in 1..K : \E i \in 1..K : L[i] = e
        /\ \A i, j \in 1..K : L[i] = L[j] => i = j
        /\ \A i, j \in 1..K : i < j /\ key[L[i]] = key[L[j]] => L[i] < L[j]
    BY DEF Placed, a, b
  <2>3. \A k \in 1..(b - a) : a + k \in 1..K /\ a < a + k /\ a + k <= b /\ k \in Int
    BY <1>1
  <2>4. \A k \in 1..(b - a) : w[k] \in 1..K /\ key[w[k]] = m
    <3> TAKE k \in 1..(b - a)
    <3>1. \A i \in 1..K : L[i] \in 1..K
      BY ZenonT(40), <2>2, SeqParts
    <3> DEFINE i == a + k
    <3>2. i \in 1..K /\ a < i /\ i <= b /\ w[k] = L[i]
      BY <2>1, <2>3
    <3> HIDE DEF i
    <3> QED BY <2>2, <3>1, <3>2
  <2>5. Increasing(w)
    <3> SUFFICES ASSUME NEW i \in 1..(b - a), NEW j \in 1..(b - a), i < j PROVE w[i] < w[j]
      BY <1>4 DEF Increasing
    <3>1. a + i < a + j /\ a + i \in 1..K /\ a + j \in 1..K
      BY <1>1, <2>3
    <3>2. key[L[a + i]] = key[L[a + j]]
      BY <2>1, <2>4
    <3> DEFINE u == a + i
               v == a + j
    <3>3. u \in 1..K /\ v \in 1..K /\ u < v /\ key[L[u]] = key[L[v]]
      BY <3>1, <3>2
    <3>4. w[i] = L[u] /\ w[j] = L[v]
      BY <2>1
    <3> HIDE DEF u, v
    <3> QED BY <2>2, <3>3, <3>4
  <2>6. ASSUME NEW x PROVE Reads(w, x) <=> (x \in 1..K /\ key[x] = m)
    <3>1. ASSUME Reads(w, x) PROVE x \in 1..K /\ key[x] = m
      BY <1>4, <2>4, <3>1 DEF Reads
    <3>2. ASSUME x \in 1..K, key[x] = m PROVE Reads(w, x)
      <4>1. PICK i \in 1..K : L[i] = x
        BY <2>2, <3>2
      <4>2. a < i /\ i <= b
        BY <2>2, <3>2, <4>1
      <4>3. i - a \in 1..(b - a) /\ a + (i - a) = i
        BY <1>1, <4>2
      <4>4. w[i - a] = x
        BY <2>1, <4>1, <4>3
      <4> QED BY <1>4, <4>3, <4>4 DEF Reads
    <3> QED BY <3>1, <3>2
  <2>7. ASSUME NEW x, NEW y
        PROVE  Distinct(w) /\ (Precedes(w, x, y) <=> (Reads(w, x) /\ Reads(w, y) /\ x < y))
    <3>1. 1..K \subseteq Int
      OBVIOUS
    <3> QED BY <1>3, <2>5, <3>1, IncreasingRead
  <2> QED BY <1>3, <1>7, <2>6, <2>7 DEF w, a, b
<1> QED BY <1>6, <1>7

-----------------------------------------------------------------------------
(* The numbers of the survivors: ranks for the live slots, the sentinel    *)
(* for the others.                                                         *)
LEMMA SurvivingRanks ==
    ASSUME NEW slots \in Nat, NEW live \in SUBSET (1..slots)
    PROVE  LET map == surviving_slots(live, slots)
           IN  /\ IsFiniteSet(live) /\ live \subseteq Int /\ Cardinality(live) \in Nat
               /\ DOMAIN map = 1..slots
               /\ \A s \in live : map[s] = Rank(live, s)
               /\ \A s \in 1..slots : s \in live <=> map[s] # NONE
               /\ \A k \in 1..Cardinality(live) :
                     (CHOOSE s \in DOMAIN map : map[s] = k) = Slot(live, k)
<1> DEFINE map == surviving_slots(live, slots)
<1>1. IsFiniteSet(live) /\ live \subseteq Int
  <2>1. IsFiniteSet(1..slots)
    BY IntervalSize
  <2>2. IsFiniteSet(live)
    BY <2>1, FS_Subset
  <2>3. 1..slots \subseteq Int
    OBVIOUS
  <2> QED BY <2>2, <2>3
<1>2. /\ Cardinality(live) \in Nat
      /\ \A s \in live : Rank(live, s) \in 1..Cardinality(live)
      /\ \A s, t \in live : Rank(live, s) = Rank(live, t) => s = t
      /\ \A k \in 1..Cardinality(live) :
            Slot(live, k) \in live /\ Rank(live, Slot(live, k)) = k
  BY <1>1, RankBijection
<1>3. /\ DOMAIN map = 1..slots
      /\ \A s \in 1..slots : map[s] = IF s \in live THEN Rank(live, s) ELSE NONE
  BY DEF surviving_slots, Rank
<1> HIDE DEF map
<1>4. \A s \in live : s \in 1..slots /\ map[s] = Rank(live, s)
  BY <1>3
<1>5. \A s \in live : Rank(live, s) # NONE
  BY <1>2 DEF NONE
<1>6. \A s \in 1..slots : s \in live <=> map[s] # NONE
  BY <1>3, <1>5
<1>7. ASSUME NEW k \in 1..Cardinality(live)
      PROVE  (CHOOSE s \in DOMAIN map : map[s] = k) = Slot(live, k)
  <2>1. Slot(live, k) \in DOMAIN map /\ map[Slot(live, k)] = k /\ Slot(live, k) \in live
    BY <1>2, <1>3, <1>4
  <2>2. k # NONE
    BY DEF NONE
  <2>3. \A s \in DOMAIN map : map[s] = k => s = Slot(live, k)
    BY <1>2, <1>3, <1>4, <1>6, <2>1, <2>2
  <2> QED BY <2>1, <2>3
<1> QED BY <1>1, <1>2, <1>3, <1>4, <1>6, <1>7 DEF map

(* A run of live slots in their new numbers.                               *)
LEMMA RankedRead ==
    ASSUME NEW S, S \subseteq Int, IsFiniteSet(S), NEW T, NEW w \in Seq(T), Distinct(w),
           \A x : Reads(w, x) => x \in S
    PROVE  LET r == [i \in DOMAIN w |-> Rank(S, w[i])]
           IN  /\ r \in Seq(1..Cardinality(S)) /\ Distinct(r)
               /\ \A x : Reads(r, x) <=> (x \in 1..Cardinality(S) /\ Reads(w, Slot(S, x)))
               /\ \A x, y : Precedes(r, x, y)
                     <=> (/\ x \in 1..Cardinality(S) /\ y \in 1..Cardinality(S)
                          /\ Precedes(w, Slot(S, x), Slot(S, y)))
<1> DEFINE r == [i \in DOMAIN w |-> Rank(S, w[i])]
           D == DOMAIN w
<1>1. /\ Cardinality(S) \in Nat
      /\ \A s \in S : Rank(S, s) \in 1..Cardinality(S)
      /\ \A s, t \in S : Rank(S, s) = Rank(S, t) => s = t
      /\ \A k \in 1..Cardinality(S) : Slot(S, k) \in S /\ Rank(S, Slot(S, k)) = k
      /\ \A s \in S : Slot(S, Rank(S, s)) = s
  BY RankBijection
<1>2. Len(w) \in Nat /\ D = 1..Len(w)
  BY SeqParts
<1>3. \A i \in D : w[i] \in S
  BY DEF Reads
<1>4. DOMAIN r = D /\ \A i \in D : r[i] = Rank(S, w[i])
  OBVIOUS
<1>5. r \in [1..Len(w) -> 1..Cardinality(S)]
  BY <1>1, <1>2, <1>3
<1> HIDE DEF r
<1>6. r \in Seq(1..Cardinality(S))
  BY <1>2, <1>5, IntervalFunctionIsSeq
<1>7. Distinct(r)
  BY <1>1, <1>3, <1>4 DEF Distinct
<1>8. \A i \in D : \A x : r[i] = x <=> (x \in 1..Cardinality(S) /\ w[i] = Slot(S, x))
  <2> TAKE i \in D
  <2> TAKE x
  <2>1. w[i] \in S /\ r[i] = Rank(S, w[i])
    BY <1>3, <1>4
  <2>2. ASSUME r[i] = x PROVE x \in 1..Cardinality(S) /\ w[i] = Slot(S, x)
    BY <1>1, <2>1, <2>2
  <2>3. ASSUME x \in 1..Cardinality(S), w[i] = Slot(S, x) PROVE r[i] = x
    BY <1>1, <2>1, <2>3
  <2> HIDE DEF D
  <2> QED BY <2>2, <2>3
<1>9. \A x : Reads(r, x) <=> (x \in 1..Cardinality(S) /\ Reads(w, Slot(S, x)))
  BY <1>4, <1>8 DEF Reads
<1>10. \A x, y : Precedes(r, x, y)
                     <=> (/\ x \in 1..Cardinality(S) /\ y \in 1..Cardinality(S)
                          /\ Precedes(w, Slot(S, x), Slot(S, y)))
  BY <1>4, <1>8 DEF Precedes
<1> QED BY <1>6, <1>7, <1>9, <1>10 DEF r

(* A sorted run without repetition is increasing: what is_sorted says of   *)
(* neighbours holds of any two.                                            *)
LEMMA SortedIncreasing ==
    ASSUME NEW S, S \subseteq Int, NEW w \in Seq(S), IsSorted(w), Distinct(w)
    PROVE  Increasing(w)
<1> DEFINE P == {k \in Nat : \A i \in DOMAIN w : i + k \in DOMAIN w => w[i] <= w[i + k]}
<1>1. Len(w) \in Nat /\ DOMAIN w = 1..Len(w) /\ \A i \in 1..Len(w) : w[i] \in Int
  BY SeqParts
<1>2. 0 \in P
  <2> SUFFICES ASSUME NEW i \in DOMAIN w PROVE w[i] <= w[i + 0]
    OBVIOUS
  <2>1. i + 0 = i /\ w[i] \in Int
    BY <1>1
  <2> QED BY <2>1
<1>3. ASSUME NEW k \in Nat, k \in P PROVE k + 1 \in P
  <2> SUFFICES ASSUME NEW i \in DOMAIN w, i + (k + 1) \in DOMAIN w
               PROVE  w[i] <= w[i + (k + 1)]
    OBVIOUS
  <2>1. i + k \in DOMAIN w /\ i + k \in 1..(Len(w) - 1) /\ i + (k + 1) = (i + k) + 1
    <3>1. i \in 1..Len(w) /\ i + (k + 1) \in 1..Len(w)
      BY <1>1
    <3>2. i + k \in 1..Len(w) /\ i + k \in 1..(Len(w) - 1) /\ i + (k + 1) = (i + k) + 1
      <4>1. Len(w) \in Nat
        BY <1>1
      <4> HIDE DEF P
      <4> QED BY <3>1, <4>1
    <3> QED BY <1>1, <3>2
  <2>2. w[i] <= w[i + k]
    BY <1>3, <2>1
  <2>3. w[i + k] <= w[(i + k) + 1]
    BY <2>1 DEF IsSorted
  <2>4. w[i] \in Int /\ w[i + k] \in Int /\ w[i + (k + 1)] \in Int
    BY <1>1, <2>1
  <2> QED BY <2>1, <2>2, <2>3, <2>4
<1>4. \A k \in Nat : k \in P
  <2> HIDE DEF P
  <2> QED BY <1>2, <1>3, Induct
<1>5. ASSUME NEW i \in DOMAIN w, NEW j \in DOMAIN w, i < j PROVE w[i] < w[j]
  <2>1. j - i \in Nat /\ i + (j - i) = j
    BY <1>1, <1>5
  <2>2. w[i] <= w[j]
    BY <1>4, <2>1
  <2>3. w[i] # w[j] /\ w[i] \in Int /\ w[j] \in Int
    BY <1>1, <1>5 DEF Distinct
  <2> QED BY <2>2, <2>3
<1> QED BY <1>5 DEF Increasing

-----------------------------------------------------------------------------
(* The survivors' records and the runs that keep their order, as compact   *)
(* computes them.                                                          *)
Kept == take_live_edges(surviving_slots(live_nodes, node_bound),
                        surviving_slots(live_edges, edge_bound))
Reordered(d) == reordered_adjacency(d, surviving_slots(live_nodes, node_bound),
                                       surviving_slots(live_edges, edge_bound))
NodeCount == Cardinality(live_nodes)
EdgeCount == Cardinality(live_edges)
KeptRecords == [out : 1..NodeCount, in : 1..NodeCount, payload : Payload]

(* Live slots and their numbers.                                           *)
LEMMA LiveRanks ==
    ASSUME StoreInv
    PROVE  /\ NodeCount \in Nat /\ EdgeCount \in Nat
           /\ live_nodes \subseteq 1..node_bound /\ live_edges \subseteq 1..edge_bound
           /\ node_bound \in Nat /\ edge_bound \in Nat
           /\ IsFiniteSet(live_nodes) /\ live_nodes \subseteq Int
           /\ IsFiniteSet(live_edges) /\ live_edges \subseteq Int
           /\ \A n \in live_nodes : /\ Rank(live_nodes, n) \in 1..NodeCount
                                    /\ Slot(live_nodes, Rank(live_nodes, n)) = n
           /\ \A m \in 1..NodeCount : /\ Slot(live_nodes, m) \in live_nodes
                                      /\ Rank(live_nodes, Slot(live_nodes, m)) = m
           /\ \A e \in live_edges : /\ Rank(live_edges, e) \in 1..EdgeCount
                                    /\ Slot(live_edges, Rank(live_edges, e)) = e
           /\ \A k \in 1..EdgeCount : /\ Slot(live_edges, k) \in live_edges
                                      /\ Rank(live_edges, Slot(live_edges, k)) = k
           /\ \A e, f \in live_edges : e < f => Rank(live_edges, e) < Rank(live_edges, f)
<1>1. LivenessInv /\ Shaped
  BY DEF StoreInv
<1>2. /\ live_nodes \subseteq 1..node_bound /\ live_edges \subseteq 1..edge_bound
      /\ node_bound \in Nat /\ edge_bound \in Nat
  BY <1>1, EdgeTable DEF LivenessInv, Counted
<1>3. /\ IsFiniteSet(live_nodes) /\ live_nodes \subseteq Int
      /\ IsFiniteSet(live_edges) /\ live_edges \subseteq Int
  <2>1. 1..node_bound \subseteq Int /\ 1..edge_bound \subseteq Int
    OBVIOUS
  <2> QED BY <1>1, <1>2, <2>1, FiniteBits
<1> QED BY <1>2, <1>3, RankBijection DEF NodeCount, EdgeCount

(* A survivor keeps its payload, and its endpoints in the new numbers.     *)
LEMMA KeptRead ==
    ASSUME StoreInv
    PROVE  /\ Kept \in Seq(KeptRecords) /\ Len(Kept) = EdgeCount /\ DOMAIN Kept = 1..EdgeCount
           /\ \A k \in 1..EdgeCount :
                 /\ Kept[k].payload = edges[Slot(live_edges, k)].payload
                 /\ \A d \in Direction :
                      /\ Kept[k][d] = Rank(live_nodes, edges[Slot(live_edges, k)][d])
                      /\ edges[Slot(live_edges, k)][d] \in live_nodes
                      /\ Kept[k][d] \in 1..NodeCount
<1> DEFINE nm == surviving_slots(live_nodes, node_bound)
           em == surviving_slots(live_edges, edge_bound)
<1>1. /\ NodeCount \in Nat /\ EdgeCount \in Nat
      /\ live_nodes \subseteq 1..node_bound /\ live_edges \subseteq 1..edge_bound
      /\ node_bound \in Nat /\ edge_bound \in Nat
      /\ \A n \in live_nodes : Rank(live_nodes, n) \in 1..NodeCount
      /\ \A k \in 1..EdgeCount : Slot(live_edges, k) \in live_edges
  BY LiveRanks
<1>2. \A n \in live_nodes : nm[n] = Rank(live_nodes, n)
  BY <1>1, SurvivingRanks
<1>3. \A k \in 1..EdgeCount : (CHOOSE s \in DOMAIN em : em[s] = k) = Slot(live_edges, k)
  BY <1>1, SurvivingRanks DEF EdgeCount
<1> HIDE DEF nm, em
<1>4. \A e \in live_edges : /\ edges[e] \in EdgeRecords
                            /\ \A d \in Direction : edges[e][d] \in live_nodes
  BY <1>1, EdgeTable DEF StoreInv
<1>5. Kept = [k \in 1..EdgeCount |->
                EdgeRecord(nm[edges[Slot(live_edges, k)].out],
                           nm[edges[Slot(live_edges, k)].in],
                           edges[Slot(live_edges, k)].payload)]
  <2>1. \A k \in 1..EdgeCount :
           Surviving(edges, em, Cardinality(live_edges))[k] = edges[Slot(live_edges, k)]
    BY <1>3 DEF Surviving, EdgeCount
  <2>2. Kept = [k \in 1..EdgeCount |->
                  LET record == Surviving(edges, em, Cardinality(live_edges))[k]
                  IN  EdgeRecord(nm[record.out], nm[record.in], record.payload)]
    BY DEF Kept, take_live_edges, nm, em, EdgeCount
  <2> QED BY <2>1, <2>2
<1>6. ASSUME NEW k \in 1..EdgeCount
      PROVE  /\ Kept[k] \in KeptRecords
             /\ Kept[k].payload = edges[Slot(live_edges, k)].payload
             /\ \A d \in Direction :
                   /\ Kept[k][d] = Rank(live_nodes, edges[Slot(live_edges, k)][d])
                   /\ edges[Slot(live_edges, k)][d] \in live_nodes
                   /\ Kept[k][d] \in 1..NodeCount
  <2> DEFINE e == Slot(live_edges, k)
             u == edges[e].out
             v == edges[e].in
  <2>1. e \in live_edges /\ edges[e] \in EdgeRecords /\ u \in live_nodes /\ v \in live_nodes
    BY <1>1, <1>4 DEF Direction
  <2>2. edges[e].payload \in Payload
    BY <2>1 DEF EdgeRecords
  <2>3. Kept[k] = EdgeRecord(Rank(live_nodes, u), Rank(live_nodes, v), edges[e].payload)
    BY <1>2, <1>5, <2>1
  <2>4. Rank(live_nodes, u) \in 1..NodeCount /\ Rank(live_nodes, v) \in 1..NodeCount
    BY <1>1, <2>1
  <2>5. Kept[k] \in KeptRecords
    BY <2>2, <2>3, <2>4 DEF EdgeRecord, KeptRecords
  <2>6. /\ Kept[k].payload = edges[e].payload
        /\ Kept[k].out = Rank(live_nodes, u) /\ Kept[k].in = Rank(live_nodes, v)
    BY <2>3 DEF EdgeRecord
  <2> QED BY <2>1, <2>4, <2>5, <2>6 DEF Direction
<1>7. Kept \in [1..EdgeCount -> KeptRecords]
  BY <1>5, <1>6
<1>8. Kept \in Seq(KeptRecords) /\ Len(Kept) = EdgeCount
  BY <1>1, <1>7, IntervalFunctionIsSeq
<1> QED BY <1>6, <1>7, <1>8

(* The edges that end at a survivor are the ones that end at its number.   *)
LEMMA KeptAt ==
    ASSUME StoreInv, NEW n \in live_nodes, NEW d \in Direction, NEW k \in 1..EdgeCount
    PROVE  /\ KeyOf(Kept, d)[k] = Rank(live_nodes, n) <=> edges[Slot(live_edges, k)][d] = n
           /\ KeyOf(Kept, d)[k] = Kept[k][d]
<1> DEFINE m == edges[Slot(live_edges, k)][d]
<1>1. Kept[k][d] = Rank(live_nodes, m) /\ m \in live_nodes /\ DOMAIN Kept = 1..EdgeCount
  BY KeptRead
<1>2. KeyOf(Kept, d)[k] = Kept[k][d]
  BY <1>1 DEF KeyOf
<1> HIDE DEF m
<1>3. Slot(live_nodes, Rank(live_nodes, m)) = m /\ Slot(live_nodes, Rank(live_nodes, n)) = n
  BY <1>1, LiveRanks
<1> QED BY <1>1, <1>2, <1>3 DEF m

(* The walk of a survivor in the new numbers.                              *)
Renumbered(n, d) == [i \in DOMAIN adjacent(n, d) |-> Rank(live_edges, adjacent(n, d)[i])]

(* What it reads: the survivors that end there, in the old order.          *)
LEMMA RenumberedRead ==
    ASSUME StoreInv, NEW n \in live_nodes, NEW d \in Direction
    PROVE  /\ Renumbered(n, d) \in Seq(1..EdgeCount) /\ Distinct(Renumbered(n, d))
           /\ \A k : Reads(Renumbered(n, d), k)
                <=> (k \in 1..EdgeCount /\ edges[Slot(live_edges, k)][d] = n)
           /\ \A k, l : Precedes(Renumbered(n, d), k, l)
                <=> (/\ k \in 1..EdgeCount /\ l \in 1..EdgeCount
                     /\ Ordered(n, d, Slot(live_edges, k), Slot(live_edges, l)))
<1> DEFINE w == adjacent(n, d)
           r == Renumbered(n, d)
<1>1. /\ n \in 1..node_bound /\ IsFiniteSet(live_edges) /\ live_edges \subseteq Int
      /\ \A k \in 1..EdgeCount : Slot(live_edges, k) \in live_edges
  BY LiveRanks
<1>2. ASSUME NEW x, NEW y
      PROVE  /\ w \in EdgeRuns /\ Distinct(w)
             /\ Reads(w, x) <=> x \in live_edges /\ edges[x][d] = n
             /\ Precedes(w, x, y) <=> x \in live_edges /\ y \in live_edges /\ Ordered(n, d, x, y)
  BY <1>1, AdjacentRead
<1>3. r = [i \in DOMAIN w |-> Rank(live_edges, w[i])]
  BY DEF Renumbered
<1> HIDE DEF w, r
<1>4. /\ w \in Seq(1..edge_bound) /\ Distinct(w) /\ \A x : Reads(w, x) => x \in live_edges
  BY <1>2 DEF EdgeRuns
<1>5. /\ r \in Seq(1..EdgeCount) /\ Distinct(r)
      /\ \A x : Reads(r, x) <=> (x \in 1..EdgeCount /\ Reads(w, Slot(live_edges, x)))
      /\ \A x, y : Precedes(r, x, y)
            <=> (/\ x \in 1..EdgeCount /\ y \in 1..EdgeCount
                 /\ Precedes(w, Slot(live_edges, x), Slot(live_edges, y)))
  BY <1>1, <1>3, <1>4, RankedRead DEF EdgeCount
<1>6. \A k : Reads(r, k) <=> (k \in 1..EdgeCount /\ edges[Slot(live_edges, k)][d] = n)
  BY <1>1, <1>2, <1>5
<1>7. \A k, l : Precedes(r, k, l)
                <=> (/\ k \in 1..EdgeCount /\ l \in 1..EdgeCount
                     /\ Ordered(n, d, Slot(live_edges, k), Slot(live_edges, l)))
  BY <1>1, <1>2, <1>5
<1> QED BY <1>5, <1>6, <1>7 DEF r

(* The runs compaction restores: the walks of the survivors whose own run  *)
(* is not in identity order.                                               *)
LEMMA ReorderedRuns ==
    ASSUME StoreInv, NEW d \in Direction
    PROVE  /\ DOMAIN Reordered(d) \subseteq 1..NodeCount
           /\ \A n \in live_nodes :
                 /\ Rank(live_nodes, n) \in DOMAIN Reordered(d) <=> ~IsSorted(Run(n, d))
                 /\ Rank(live_nodes, n) \in DOMAIN Reordered(d)
                      => Reordered(d)[Rank(live_nodes, n)] = Renumbered(n, d)
<1> DEFINE nm == surviving_slots(live_nodes, node_bound)
           em == surviving_slots(live_edges, edge_bound)
           T == {n \in 1..node_bound : nm[n] # NONE /\ ~IsSorted(Run(n, d))}
           Walk(m) == adjacent(CHOOSE n \in T : nm[n] = m, d)
           F(m) == [i \in DOMAIN Walk(m) |-> em[Walk(m)[i]]]
<1>1. Reordered(d) = [m \in {nm[n] : n \in T} |-> F(m)]
  BY DEF Reordered, reordered_adjacency, Run
<1>2. /\ NodeCount \in Nat /\ EdgeCount \in Nat
      /\ live_nodes \subseteq 1..node_bound /\ live_edges \subseteq 1..edge_bound
      /\ node_bound \in Nat /\ edge_bound \in Nat
      /\ \A n \in live_nodes : /\ Rank(live_nodes, n) \in 1..NodeCount
                               /\ Slot(live_nodes, Rank(live_nodes, n)) = n
  BY LiveRanks
<1>3. /\ \A n \in live_nodes : nm[n] = Rank(live_nodes, n)
      /\ \A n \in 1..node_bound : n \in live_nodes <=> nm[n] # NONE
  BY <1>2, SurvivingRanks
<1>4. \A e \in live_edges : em[e] = Rank(live_edges, e)
  BY <1>2, SurvivingRanks
<1> HIDE DEF nm, em
<1>5. \A n : n \in T <=> n \in live_nodes /\ ~IsSorted(Run(n, d))
  BY <1>2, <1>3
<1> HIDE DEF T
<1>6. DOMAIN Reordered(d) = {nm[n] : n \in T} /\ \A n \in T : nm[n] = Rank(live_nodes, n)
  BY <1>1, <1>3, <1>5
<1>7. DOMAIN Reordered(d) \subseteq 1..NodeCount
  BY <1>2, <1>5, <1>6
<1>8. ASSUME NEW n \in live_nodes
      PROVE  Rank(live_nodes, n) \in DOMAIN Reordered(d) <=> ~IsSorted(Run(n, d))
  <2>1. ASSUME NEW k \in T, nm[k] = Rank(live_nodes, n) PROVE k = n
    <3>1. k \in live_nodes /\ Rank(live_nodes, k) = Rank(live_nodes, n)
      BY <1>5, <1>6, <2>1
    <3> QED BY <1>2, <3>1
  <2>2. n \in T => Rank(live_nodes, n) \in {nm[k] : k \in T}
    BY <1>6
  <2> QED BY <1>5, <1>6, <2>1, <2>2
<1>9. ASSUME NEW n \in live_nodes, Rank(live_nodes, n) \in DOMAIN Reordered(d)
      PROVE  Reordered(d)[Rank(live_nodes, n)] = Renumbered(n, d)
  <2> DEFINE m == Rank(live_nodes, n)
             k == CHOOSE j \in T : nm[j] = m
  <2>1. n \in T /\ nm[n] = m
    BY <1>3, <1>5, <1>8, <1>9
  <2>2. k \in T /\ nm[k] = m
    BY <2>1
  <2> HIDE DEF k
  <2>3. k = n
    <3>1. k \in live_nodes /\ Rank(live_nodes, k) = Rank(live_nodes, n)
      BY <1>5, <1>6, <2>2
    <3> QED BY <1>2, <3>1
  <2>4. Reordered(d)[m] = F(m)
    BY <1>1, <1>6, <1>9
  <2>5. Walk(m) = adjacent(n, d)
    BY <2>3 DEF k
  <2>6. \A i \in DOMAIN adjacent(n, d) : adjacent(n, d)[i] \in live_edges
    <3> TAKE i \in DOMAIN adjacent(n, d)
    <3>1. Reads(adjacent(n, d), adjacent(n, d)[i])
      BY DEF Reads
    <3>2. n \in 1..node_bound
      BY <1>2
    <3> QED BY <3>1, <3>2, AdjacentRead
  <2> HIDE DEF Walk, m
  <2>7. F(m) = Renumbered(n, d)
    BY <1>4, <2>5, <2>6 DEF Renumbered
  <2> QED BY <2>4, <2>7 DEF m
<1> QED BY <1>7, <1>8, <1>9

(* They are runs of the numbers they are for.                              *)
LEMMA ReorderedSettled ==
    ASSUME StoreInv, NEW d \in Direction
    PROVE  Settled(Reordered(d), EdgeCount, NodeCount, KeyOf(Kept, d))
<1>1. DOMAIN Reordered(d) \subseteq 1..NodeCount
  BY ReorderedRuns
<1>2. ASSUME NEW m \in DOMAIN Reordered(d)
      PROVE  /\ Reordered(d)[m] \in Seq(1..EdgeCount) /\ Distinct(Reordered(d)[m])
             /\ \A x : Reads(Reordered(d)[m], x) <=> (x \in 1..EdgeCount /\ KeyOf(Kept, d)[x] = m)
  <2> DEFINE n == Slot(live_nodes, m)
  <2>1. n \in live_nodes /\ Rank(live_nodes, n) = m
    BY <1>1, <1>2, LiveRanks
  <2> HIDE DEF n
  <2>2. Reordered(d)[m] = Renumbered(n, d)
    BY <1>2, <2>1, ReorderedRuns
  <2>3. /\ Renumbered(n, d) \in Seq(1..EdgeCount) /\ Distinct(Renumbered(n, d))
        /\ \A k : Reads(Renumbered(n, d), k)
              <=> (k \in 1..EdgeCount /\ edges[Slot(live_edges, k)][d] = n)
    BY <2>1, RenumberedRead
  <2>4. \A k \in 1..EdgeCount :
           KeyOf(Kept, d)[k] = m <=> edges[Slot(live_edges, k)][d] = n
    BY <2>1, KeptAt
  <2> QED BY <2>2, <2>3, <2>4
<1> QED BY <1>1, <1>2 DEF Settled

(* A survivor whose own run is in identity order reads its edges in that   *)
(* order: the chain continues it.                                          *)
LEMMA SortedOrder ==
    ASSUME StoreInv, NEW n \in 1..node_bound, NEW d \in Direction, IsSorted(Run(n, d)),
           NEW x \in live_edges, NEW y \in live_edges
    PROVE  Ordered(n, d, x, y) <=> (edges[x][d] = n /\ edges[y][d] = n /\ x < y)
<1> DEFINE r == Run(n, d)
           c == chain_run(n, d)
<1>1. /\ r \in EdgeRuns /\ Distinct(r)
      /\ \A u, v : Reads(r, u) /\ Reads(c, v) => u < v
      /\ edges[x][d] = n <=> Reads(r, x) \/ Reads(c, x)
      /\ edges[y][d] = n <=> Reads(r, y) \/ Reads(c, y)
  BY DEF StoreInv, Adjacency
<1>2. Ordered(n, d, x, y)
        <=> \/ Precedes(r, x, y)
            \/ Reads(r, x) /\ Reads(c, y)
            \/ Reads(c, x) /\ Reads(c, y) /\ x < y
  BY WholeRead DEF Ordered
<1>3. Precedes(r, x, y) <=> Reads(r, x) /\ Reads(r, y) /\ x < y
  <2>1. edge_bound \in Nat
    BY LiveRanks
  <2>2. 1..edge_bound \subseteq Int
    BY <2>1
  <2>3. r \in Seq(1..edge_bound) /\ IsSorted(r)
    BY <1>1 DEF EdgeRuns
  <2> HIDE DEF r
  <2>4. Increasing(r)
    BY <1>1, <2>2, <2>3, SortedIncreasing
  <2> QED BY <2>2, <2>3, <2>4, IncreasingRead
<1> HIDE DEF r, c
<1>4. x \in Int /\ y \in Int
  BY LiveRanks
<1>5. Reads(c, x) /\ Reads(r, y) => ~(x < y)
  BY <1>1, <1>4
<1> QED BY <1>1, <1>2, <1>3, <1>5

(* The index compaction builds along d: every survivor's run holds the     *)
(* survivors that end there in the order its walk read them.               *)
Rebuilt(d, O, R) ==
    /\ O \in Seq(Nat) /\ Len(O) = NodeCount + 1
    /\ O[1] = 0 /\ O[NodeCount + 1] = EdgeCount
    /\ \A i, j \in 1..(NodeCount + 1) : i <= j => O[i] <= O[j]
    /\ R \in Seq(1..EdgeCount) /\ Len(R) = EdgeCount
    /\ \A n \in live_nodes :
          LET m == Rank(live_nodes, n)
              w == SubSeq(R, O[m] + 1, O[m + 1])
          IN  /\ w \in Seq(1..EdgeCount) /\ Distinct(w)
              /\ \A k : Reads(w, k)
                    <=> (k \in 1..EdgeCount /\ edges[Slot(live_edges, k)][d] = n)
              /\ \A k, l : Precedes(w, k, l)
                    <=> (/\ k \in 1..EdgeCount /\ l \in 1..EdgeCount
                         /\ Ordered(n, d, Slot(live_edges, k), Slot(live_edges, l)))

(* compress and restore_runs build such an index.                          *)
LEMMA RebuiltIndex ==
    ASSUME StoreInv, NEW d \in Direction
    PROVE  \E O, R : /\ restore_runs(compress(Kept, NodeCount, d), Reordered(d))
                          = [offsets |-> O, edges |-> R]
                     /\ Rebuilt(d, O, R)
<1> DEFINE key == KeyOf(Kept, d)
           runs == Reordered(d)
<1>1. /\ NodeCount \in Nat /\ EdgeCount \in Nat /\ DOMAIN Kept = 1..EdgeCount
      /\ \A k \in 1..EdgeCount : Kept[k][d] \in 1..NodeCount
  BY LiveRanks, KeptRead
<1>2. PICK O, L : /\ compress(Kept, NodeCount, d) = [offsets |-> O, edges |-> L]
                  /\ Placed(O, L, EdgeCount, NodeCount, key)
  BY <1>1, CompressIs
<1>3. Settled(runs, EdgeCount, NodeCount, key)
  BY ReorderedSettled
<1> HIDE DEF key, runs
<1>4. PICK R : /\ restore_runs([offsets |-> O, edges |-> L], runs) = [offsets |-> O, edges |-> R]
               /\ Restored(O, L, EdgeCount, NodeCount, runs, R)
  BY <1>1, <1>2, <1>3, RestoreIs
<1>5. /\ O \in Seq(Nat) /\ Len(O) = NodeCount + 1
      /\ O[1] = 0 /\ O[NodeCount + 1] = EdgeCount
      /\ \A i, j \in 1..(NodeCount + 1) : i <= j => O[i] <= O[j]
      /\ R \in Seq(1..EdgeCount) /\ Len(R) = EdgeCount
  BY <1>2, <1>4 DEF Placed, Restored
<1>6. ASSUME NEW n \in live_nodes
      PROVE  LET m == Rank(live_nodes, n)
                 w == SubSeq(R, O[m] + 1, O[m + 1])
             IN  /\ w \in Seq(1..EdgeCount) /\ Distinct(w)
                 /\ \A k : Reads(w, k)
                       <=> (k \in 1..EdgeCount /\ edges[Slot(live_edges, k)][d] = n)
                 /\ \A k, l : Precedes(w, k, l)
                       <=> (/\ k \in 1..EdgeCount /\ l \in 1..EdgeCount
                            /\ Ordered(n, d, Slot(live_edges, k), Slot(live_edges, l)))
  <2> DEFINE m == Rank(live_nodes, n)
             w == SubSeq(R, O[m] + 1, O[m + 1])
  <2>1. m \in 1..NodeCount
    BY LiveRanks
  <2>2. /\ w \in Seq(1..EdgeCount) /\ Distinct(w)
        /\ \A x : Reads(w, x) <=> (x \in 1..EdgeCount /\ key[x] = m)
        /\ m \in DOMAIN runs => w = runs[m]
        /\ m \notin DOMAIN runs =>
             \A x, y : Precedes(w, x, y) <=> (Reads(w, x) /\ Reads(w, y) /\ x < y)
    <3> HIDE DEF m
    <3>1. /\ Placed(O, L, EdgeCount, NodeCount, key)
          /\ Settled(runs, EdgeCount, NodeCount, key)
          /\ Restored(O, L, EdgeCount, NodeCount, runs, R)
          /\ EdgeCount \in Nat /\ NodeCount \in Nat
      BY <1>1, <1>2, <1>3, <1>4
    <3> HIDE DEF Placed, Settled, Restored
    <3> QED BY <2>1, <3>1, RestoredSlice
  <2> HIDE DEF w
  <2>3. \A k \in 1..EdgeCount : key[k] = m <=> edges[Slot(live_edges, k)][d] = n
    BY KeptAt DEF key
  <2>4. \A k : Reads(w, k) <=> (k \in 1..EdgeCount /\ edges[Slot(live_edges, k)][d] = n)
    BY <2>2, <2>3
  <2>5. \A k, l : Precedes(w, k, l)
           <=> (/\ k \in 1..EdgeCount /\ l \in 1..EdgeCount
                /\ Ordered(n, d, Slot(live_edges, k), Slot(live_edges, l)))
    <3>1. CASE m \in DOMAIN runs
      <4>1. runs[m] = Renumbered(n, d)
        BY <3>1, ReorderedRuns DEF runs
      <4>2. w = Renumbered(n, d)
        BY <2>2, <3>1, <4>1
      <4> QED BY <4>2, RenumberedRead
    <3>2. CASE m \notin DOMAIN runs
      <4>1. IsSorted(Run(n, d))
        BY <3>2, ReorderedRuns DEF runs
      <4> TAKE k, l
      <4>2. Precedes(w, k, l) <=> (Reads(w, k) /\ Reads(w, l) /\ k < l)
        BY <2>2, <3>2
      <4>3. ASSUME k \in 1..EdgeCount, l \in 1..EdgeCount
            PROVE  Precedes(w, k, l) <=> Ordered(n, d, Slot(live_edges, k), Slot(live_edges, l))
        <5> DEFINE x == Slot(live_edges, k)
                   y == Slot(live_edges, l)
        <5>1. /\ n \in 1..node_bound /\ x \in live_edges /\ y \in live_edges
              /\ x \in Int /\ y \in Int
              /\ Rank(live_edges, x) = k /\ Rank(live_edges, y) = l
              /\ x < y => Rank(live_edges, x) < Rank(live_edges, y)
              /\ y < x => Rank(live_edges, y) < Rank(live_edges, x)
          BY <4>3, LiveRanks
        <5>2. Reads(w, k) <=> edges[x][d] = n
          BY <2>4, <4>3
        <5>3. Reads(w, l) <=> edges[y][d] = n
          BY <2>4, <4>3
        <5> HIDE DEF x, y
        <5>4. x < y <=> k < l
          <6>1. k \in Int /\ l \in Int
            BY <4>3
          <6>2. (x < y => k < l) /\ (y < x => l < k)
            BY <5>1
          <6>3. x = y => k = l
            BY <5>1
          <6> QED BY <5>1, <6>1, <6>2, <6>3
        <5>5. Ordered(n, d, x, y) <=> (edges[x][d] = n /\ edges[y][d] = n /\ x < y)
          BY <4>1, <5>1, SortedOrder
        <5>6. Precedes(w, k, l) <=> Ordered(n, d, x, y)
          BY <4>2, <5>2, <5>3, <5>4, <5>5
        <5> QED BY <5>6 DEF x, y
      <4>4. Precedes(w, k, l) => k \in 1..EdgeCount /\ l \in 1..EdgeCount
        BY <2>4, <4>2
      <4> QED BY <4>3, <4>4
    <3> QED BY <3>1, <3>2
  <2> QED BY <2>2, <2>4, <2>5 DEF w
<1>7. Rebuilt(d, O, R)
  BY <1>5, <1>6 DEF Rebuilt
<1>8. restore_runs(compress(Kept, NodeCount, d), Reordered(d)) = [offsets |-> O, edges |-> R]
  BY <1>2, <1>4 DEF runs
<1> QED BY <1>7, <1>8

(* After compaction no node has a chain or an overlay.                     *)
LEMMA NothingChained ==
    ASSUME compact, NEW m \in Nat, m >= 1, NEW d \in Direction
    PROVE  /\ chain_run(m, d)' = <<>> /\ ChainOf(m, d, {})'
           /\ Run(m, d)' = base_run(m, d)'
<1>1. chains' = NoChains /\ relocations' = [c \in Direction |-> <<>>]
  BY DEF compact
<1>2. Len(chains'.last) = 0
  BY <1>1 DEF NoChains
<1>3. m > Len(chains'.last)
  BY <1>2
<1>4. m \notin DOMAIN relocations'[d]
  BY <1>1
<1>5. chain_run(m, d)' = <<>>
  BY <1>3 DEF chain_run
<1>6. ChainOf(m, d, {})'
  BY <1>3 DEF ChainOf, Unchained
<1>7. Run(m, d)' = base_run(m, d)'
  BY <1>4 DEF Run, has_overlay
<1> QED BY <1>5, <1>6, <1>7

(* Compaction: the survivors under their new numbers, in the old orders.   *)
LEMMA CompactStore ==
    ASSUME StoreInv, compact
    PROVE  /\ StoreInv'
           /\ node_bound' = NodeCount /\ edge_bound' = EdgeCount
           /\ nodes' = [m \in 1..NodeCount |-> nodes[Slot(live_nodes, m)]]
           /\ edges' = Kept
           /\ \A m \in 1..NodeCount, d \in Direction : \A k, l :
                 Ordered(m, d, k, l)'
                   <=> (/\ k \in 1..EdgeCount /\ l \in 1..EdgeCount
                        /\ Ordered(Slot(live_nodes, m), d, Slot(live_edges, k),
                                                           Slot(live_edges, l)))
<1>0. LivenessInv /\ Shaped
  BY DEF StoreInv
<1>1. LivenessInv'
  BY <1>0, CompactLiveness
<1>2. /\ NodeCount \in Nat /\ EdgeCount \in Nat
      /\ live_nodes \subseteq 1..node_bound /\ live_edges \subseteq 1..edge_bound
      /\ node_bound \in Nat /\ edge_bound \in Nat
      /\ \A n \in live_nodes : Rank(live_nodes, n) \in 1..NodeCount
      /\ \A m \in 1..NodeCount : /\ Slot(live_nodes, m) \in live_nodes
                                 /\ Rank(live_nodes, Slot(live_nodes, m)) = m
      /\ \A k \in 1..EdgeCount : Slot(live_edges, k) \in live_edges
  BY LiveRanks
<1>3. /\ Kept \in Seq(KeptRecords) /\ Len(Kept) = EdgeCount /\ DOMAIN Kept = 1..EdgeCount
      /\ \A k \in 1..EdgeCount, d \in Direction :
            /\ Kept[k][d] = Rank(live_nodes, edges[Slot(live_edges, k)][d])
            /\ edges[Slot(live_edges, k)][d] \in live_nodes
            /\ Kept[k][d] \in 1..NodeCount
  BY KeptRead
<1>4. /\ base_edges' = Kept /\ delta_edges' = <<>> /\ delta_nodes' = <<>>
      /\ live_nodes' = 1..NodeCount /\ live_edges' = 1..EdgeCount
      /\ chains' = NoChains /\ relocations' = [d \in Direction |-> <<>>]
  BY DEF compact, Kept, NodeCount, EdgeCount
<1>5. /\ base_nodes' \in Seq(Payload) /\ Len(base_nodes') = NodeCount
      /\ base_nodes' = [m \in 1..NodeCount |-> nodes[Slot(live_nodes, m)]]
  <2> DEFINE nm == surviving_slots(live_nodes, node_bound)
  <2>1. \A m \in 1..NodeCount : (CHOOSE s \in DOMAIN nm : nm[s] = m) = Slot(live_nodes, m)
    BY <1>2, SurvivingRanks DEF NodeCount
  <2>2. base_nodes' = Surviving(nodes, nm, NodeCount)
    BY DEF compact, take_live_nodes, NodeCount
  <2> HIDE DEF nm
  <2>3. base_nodes' = [m \in 1..NodeCount |-> nodes[Slot(live_nodes, m)]]
    <3>1. base_nodes' = [m \in 1..NodeCount |-> nodes[CHOOSE s \in DOMAIN nm : nm[s] = m]]
      BY <2>2, Zenon DEF Surviving
    <3> DEFINE At(m) == CHOOSE s \in DOMAIN nm : nm[s] = m
    <3>2. /\ base_nodes' = [m \in 1..NodeCount |-> base_nodes'[m]]
          /\ \A m \in 1..NodeCount : base_nodes'[m] = nodes[At(m)]
      BY <3>1
    <3>3. \A m \in 1..NodeCount : At(m) = Slot(live_nodes, m)
      BY <2>1
    <3> HIDE DEF At
    <3>4. \A m \in 1..NodeCount : base_nodes'[m] = nodes[Slot(live_nodes, m)]
      BY <3>2, <3>3
    <3> QED BY <3>2, <3>4
  <2>4. nodes \in Seq(Payload) /\ DOMAIN nodes = 1..node_bound
    <3>1. base_nodes \in Seq(Payload) /\ delta_nodes \in Seq(Payload)
      BY <1>0 DEF Shaped
    <3> QED BY <3>1, ConcatParts DEF nodes, node_bound
  <2>5. \A n \in 1..node_bound : nodes[n] \in Payload
    BY <2>4, SeqParts
  <2>6. base_nodes' \in [1..NodeCount -> Payload]
    BY <1>2, <2>3, <2>5
  <2> QED BY <1>2, <2>3, <2>6, IntervalFunctionIsSeq
<1>6. node_bound' = NodeCount /\ edge_bound' = EdgeCount
  <2>1. Len(base_edges') = EdgeCount /\ Len(delta_edges') = 0 /\ Len(delta_nodes') = 0
    BY <1>3, <1>4
  <2> QED BY <1>2, <1>5, <2>1 DEF node_bound, edge_bound
<1>7. edges' = Kept /\ nodes' = base_nodes'
  BY <1>3, <1>4, <1>5 DEF edges, nodes
<1>8. EdgeRecords' = KeptRecords
  BY <1>6 DEF EdgeRecords, KeptRecords
<1>9. Shaped'
  <2>1. NodeCount <= MaxNodeSlots /\ EdgeCount <= MaxEdgeSlots
    <3>1. Cardinality(1..node_bound) = node_bound /\ Cardinality(1..edge_bound) = edge_bound
          /\ IsFiniteSet(1..node_bound) /\ IsFiniteSet(1..edge_bound)
      BY <1>2, IntervalSize
    <3>2. NodeCount <= node_bound /\ EdgeCount <= edge_bound
      BY <1>2, <3>1, FS_Subset DEF NodeCount, EdgeCount
    <3>3. node_bound <= MaxNodeSlots /\ edge_bound <= MaxEdgeSlots
      BY <1>0 DEF Shaped
    <3> QED BY <1>2, <3>2, <3>3, SlotAssumption
  <2>2. /\ chains' \in [last : Seq([Direction -> Nat]), next : Seq([Direction -> Nat])]
        /\ Len(chains'.last) = 0 /\ Len(chains'.next) = 0
    BY <1>4 DEF NoChains
  <2>3. /\ DOMAIN relocations' = Direction
        /\ relocations' = [d \in Direction |-> relocations'[d]]
        /\ \A d \in Direction : DOMAIN relocations'[d] = {}
    BY <1>4
  <2>4. delta_edges' \in Seq(EdgeRecords') /\ Len(delta_edges') = 0 /\ delta_nodes' \in Seq(Payload)
    BY <1>4
  <2> QED BY <1>2, <1>3, <1>4, <1>5, <1>6, <1>8, <2>1, <2>2, <2>3, <2>4 DEF Shaped
<1>10. ASSUME NEW d \in Direction
       PROVE  /\ Indexed(d)'
              /\ \A m \in 1..NodeCount :
                   LET n == Slot(live_nodes, m)
                       w == base_run(m, d)'
                   IN  /\ w \in Seq(1..EdgeCount) /\ Distinct(w)
                       /\ \A k : Reads(w, k)
                            <=> (k \in 1..EdgeCount /\ edges[Slot(live_edges, k)][d] = n)
                       /\ \A k, l : Precedes(w, k, l)
                            <=> (/\ k \in 1..EdgeCount /\ l \in 1..EdgeCount
                                 /\ Ordered(n, d, Slot(live_edges, k), Slot(live_edges, l)))
  <2>1. PICK O, R : /\ restore_runs(compress(Kept, NodeCount, d), Reordered(d))
                         = [offsets |-> O, edges |-> R]
                    /\ Rebuilt(d, O, R)
    BY RebuiltIndex
  <2>2. index'[d] = restore_runs(compress(Kept, NodeCount, d), Reordered(d))
    BY DEF compact, Kept, NodeCount, Reordered
  <2>3. index'[d].offsets = O /\ index'[d].edges = R
    BY <2>1, <2>2
  <2>4. /\ O \in Seq(Nat) /\ Len(O) = NodeCount + 1
        /\ O[1] = 0 /\ O[NodeCount + 1] = EdgeCount
        /\ \A i, j \in 1..(NodeCount + 1) : i <= j => O[i] <= O[j]
        /\ R \in Seq(1..EdgeCount) /\ Len(R) = EdgeCount
    BY <2>1 DEF Rebuilt
  <2>5. DOMAIN O = 1..(NodeCount + 1) /\ DOMAIN R = 1..EdgeCount
        /\ \A i \in DOMAIN R : R[i] \in 1..EdgeCount
    BY <1>2, <2>4, SeqParts
  <2>6. Indexed(d)'
    <3>1. Len(base_nodes') = NodeCount /\ Len(base_edges') = EdgeCount
      BY <1>3, <1>4, <1>5
    <3>2. \A i \in 1..NodeCount : O[i] <= O[i + 1]
      <4> TAKE i \in 1..NodeCount
      <4>1. i \in 1..(NodeCount + 1) /\ i + 1 \in 1..(NodeCount + 1) /\ i <= i + 1
        BY <1>2
      <4> QED BY <2>4, <4>1
    <3>3. check_index(d)'
      BY <2>3, <2>4, <2>5, <3>1, <3>2 DEF check_index
    <3> QED BY <2>3, <2>4, <2>5, <3>1, <3>3 DEF Indexed
  <2>7. ASSUME NEW m \in 1..NodeCount
        PROVE  LET n == Slot(live_nodes, m)
                   w == base_run(m, d)'
               IN  /\ w \in Seq(1..EdgeCount) /\ Distinct(w)
                   /\ \A k : Reads(w, k)
                        <=> (k \in 1..EdgeCount /\ edges[Slot(live_edges, k)][d] = n)
                   /\ \A k, l : Precedes(w, k, l)
                        <=> (/\ k \in 1..EdgeCount /\ l \in 1..EdgeCount
                             /\ Ordered(n, d, Slot(live_edges, k), Slot(live_edges, l)))
    <3>1. m < Len(O)
      BY <1>2, <2>4
    <3>2. base_run(m, d)' = SubSeq(R, O[m] + 1, O[m + 1])
      BY <2>3, <3>1 DEF base_run
    <3> DEFINE n == Slot(live_nodes, m)
    <3>3. n \in live_nodes /\ Rank(live_nodes, n) = m
      BY <1>2
    <3> HIDE DEF n
    <3> DEFINE w == SubSeq(R, O[m] + 1, O[m + 1])
    <3>4. /\ w \in Seq(1..EdgeCount) /\ Distinct(w)
          /\ \A k : Reads(w, k)
                <=> (k \in 1..EdgeCount /\ edges[Slot(live_edges, k)][d] = n)
          /\ \A k, l : Precedes(w, k, l)
                <=> (/\ k \in 1..EdgeCount /\ l \in 1..EdgeCount
                     /\ Ordered(n, d, Slot(live_edges, k), Slot(live_edges, l)))
      BY <2>1, <3>3 DEF Rebuilt
    <3> HIDE DEF w
    <3>5. base_run(m, d)' = w
      BY <3>2 DEF w
    <3> QED BY <3>4, <3>5 DEF n
  <2> QED BY <2>6, <2>7
<1>11. ASSUME NEW m \in 1..NodeCount, NEW d \in Direction
       PROVE  /\ Adjacency(m, d)'
              /\ \A k, l : Ordered(m, d, k, l)'
                   <=> (/\ k \in 1..EdgeCount /\ l \in 1..EdgeCount
                        /\ Ordered(Slot(live_nodes, m), d, Slot(live_edges, k),
                                                           Slot(live_edges, l)))
  <2> DEFINE n == Slot(live_nodes, m)
             w == base_run(m, d)'
  <2>1. chain_run(m, d)' = <<>> /\ ChainOf(m, d, {})' /\ Run(m, d)' = w
    <3>1. m \in Nat /\ m >= 1
      BY <1>2
    <3> QED BY <3>1, NothingChained
  <2>2. /\ w \in Seq(1..EdgeCount) /\ Distinct(w)
        /\ \A k : Reads(w, k) <=> (k \in 1..EdgeCount /\ edges[Slot(live_edges, k)][d] = n)
        /\ \A k, l : Precedes(w, k, l)
              <=> (/\ k \in 1..EdgeCount /\ l \in 1..EdgeCount
                   /\ Ordered(n, d, Slot(live_edges, k), Slot(live_edges, l)))
    BY <1>10
  <2> HIDE DEF w
  <2>3. w \in EdgeRuns'
    BY <1>6, <2>2 DEF EdgeRuns
  <2>4. \A k \in 1..EdgeCount : Kept[k][d] = m <=> edges[Slot(live_edges, k)][d] = n
    <3> TAKE k \in 1..EdgeCount
    <3>1. n \in live_nodes /\ Rank(live_nodes, n) = m
      BY <1>2
    <3> QED BY <3>1, KeptAt
  <2>5. \A e \in live_edges' : edges'[e][d] = m <=> Reads(w, e)
    BY <1>4, <1>7, <2>2, <2>4
  <2>6. \A x, y : ~Reads(<<>>, x) /\ ~Precedes(<<>>, x, y)
    BY EmptyRead
  <2>7. Adjacency(m, d)'
    <3>1. \E C : ChainOf(m, d, C)' /\ \A i \in C : delta_edges'[i][d] = m
      BY <2>1
    <3> QED BY <2>1, <2>2, <2>3, <2>5, <2>6, <3>1 DEF Adjacency
  <2>8. w \o <<>> = w
    BY <2>2
  <2>9. \A k, l : Ordered(m, d, k, l)' <=> Precedes(w, k, l)
    BY <2>1, <2>8 DEF Ordered
  <2> QED BY <2>2, <2>7, <2>9
<1>12. \A e \in live_edges', d \in Direction : edges'[e][d] \in live_nodes'
  BY <1>3, <1>4, <1>7
<1>13. StoreInv'
  BY <1>1, <1>6, <1>9, <1>10, <1>11, <1>12 DEF StoreInv
<1> QED BY <1>5, <1>6, <1>7, <1>11, <1>13

-----------------------------------------------------------------------------
(* The invariant holds in every reachable store.                           *)

(* The empty store is in order.                                            *)
LEMMA StoreInit == Init => StoreInv
<1> SUFFICES ASSUME Init PROVE StoreInv
  OBVIOUS
<1>1. LivenessInv
  BY LivenessInit
<1>2. /\ base_nodes = <<>> /\ delta_nodes = <<>> /\ base_edges = <<>> /\ delta_edges = <<>>
      /\ index = [d \in Direction |-> [offsets |-> <<>>, edges |-> <<>>]]
      /\ chains = NoChains /\ live_edges = {} /\ relocations = [d \in Direction |-> <<>>]
  BY DEF Init
<1>3. node_bound = 0 /\ edge_bound = 0
  BY <1>2 DEF node_bound, edge_bound
<1>4. Shaped
  <2>1. \A T : <<>> \in Seq(T) /\ Len(<<>>) = 0
    OBVIOUS
  <2>2. /\ chains \in [last : Seq([Direction -> Nat]), next : Seq([Direction -> Nat])]
        /\ Len(chains.last) = 0 /\ Len(chains.next) = 0
    BY <1>2 DEF NoChains
  <2>3. /\ DOMAIN relocations = Direction /\ relocations = [d \in Direction |-> relocations[d]]
        /\ \A d \in Direction : DOMAIN relocations[d] = {}
    BY <1>2
  <2>4. node_bound <= MaxNodeSlots /\ edge_bound <= MaxEdgeSlots
    BY <1>3, SlotAssumption
  <2> QED BY <1>2, <1>3, <2>1, <2>2, <2>3, <2>4 DEF Shaped
<1>5. \A d \in Direction : Indexed(d)
  <2> TAKE d \in Direction
  <2>1. index[d].offsets = <<>> /\ index[d].edges = <<>>
    BY <1>2
  <2>2. check_index(d)
    BY <1>2, <2>1 DEF check_index
  <2>3. \A T : <<>> \in Seq(T)
    OBVIOUS
  <2>4. DOMAIN index[d].offsets = {}
    BY <2>1
  <2> QED BY <2>1, <2>2, <2>3, <2>4 DEF Indexed
<1>6. 1..node_bound = {}
  BY <1>3
<1> QED BY <1>1, <1>2, <1>4, <1>5, <1>6 DEF StoreInv

(* Every operation keeps it so.                                            *)
LEMMA StoreStep == StoreInv /\ [Next]_vars => StoreInv'
<1> SUFFICES ASSUME StoreInv, [Next]_vars PROVE StoreInv'
  OBVIOUS
<1>1. CASE \E p \in Payload : add_node(p)
  BY <1>1, AddNodeStore
<1>2. CASE \E s, t \in 1..node_bound, p \in Payload : add_edge(s, t, p)
  BY <1>2, AddEdgeStore
<1>3. CASE \E e \in 1..edge_bound : remove_edge(e)
  BY <1>3, RemoveEdgeStore
<1>4. CASE \E n \in 1..node_bound : remove_node(n)
  BY <1>4, RemoveNodeStore
<1>5. CASE \E n \in 1..node_bound, p \in Payload : node_mut(n, p)
  BY <1>5, NodeMutStore
<1>6. CASE \E e \in 1..edge_bound, p \in Payload : edge_mut(e, p)
  BY <1>6, EdgeMutStore
<1>7. CASE \E e \in 1..edge_bound, n \in 1..node_bound, d \in Direction : redirect(e, n, d)
  BY <1>7, RedirectStore
<1>8. CASE \E old, new \in 1..node_bound, d \in Direction : move_adjacency(old, new, d)
  BY <1>8, MoveStore
<1>9. CASE compact
  BY <1>9, CompactStore
<1>10. CASE UNCHANGED vars
  <2> USE <1>10 DEF vars
  <2>1. LivenessInv' /\ live_edges' \subseteq live_edges
    BY LivenessStep DEF StoreInv
  <2>2. \A e \in live_edges', d \in Direction : edges[e][d] \in live_nodes'
    BY DEF StoreInv
  <2> QED BY <2>1, <2>2, RetireStore
<1> QED
  BY <1>1, <1>2, <1>3, <1>4, <1>5, <1>6, <1>7, <1>8, <1>9, <1>10 DEF Next

(* It is in order in every reachable state.                                *)
LEMMA StoreAlways == Spec => []StoreInv
BY StoreInit, StoreStep, PTL DEF Spec

(* However edges are added, redirected, moved, removed and compacted, the  *)
(* degree shortcut counts what the walk reads, and every node's chain is   *)
(* ascending and above the run it follows: the premise on which            *)
(* reordered_adjacency decides from the run alone whether a node's order has*)
(* to be restored.                                                         *)
THEOREM RunThenChainHoldsAlways == Spec => []RunThenChain
BY StoreAlways, RunThenChainHolds, PTL

(* Every document a store serializes passes every check of Stored::try_from:*)
(* index, chains, overlays, counters and the mirrored adjacency.           *)
THEOREM DocumentAlwaysAccepted == Spec => []DocumentAccepted
BY StoreAlways, DocumentHolds, PTL

-----------------------------------------------------------------------------
(* The store implements the ordered multigraph.                            *)

(* The order the walks read the edges in, pair by pair.                    *)
LEMMA ReadBeforeIs ==
    ASSUME StoreInv, NEW d \in Direction
    PROVE  /\ ReadBefore(d) \subseteq live_edges \X live_edges
           /\ \A x, y : <<x, y>> \in ReadBefore(d)
                <=> (x \in live_edges /\ y \in live_edges /\ Ordered(edges[x][d], d, x, y))
<1> DEFINE Pairs(n) == UNION {{<<adjacent(n, d)[i], adjacent(n, d)[j]>> : i \in 1..(j-1)}
                                  : j \in DOMAIN adjacent(n, d)}
<1>1. ReadBefore(d) = UNION {Pairs(n) : n \in node_ids}
  BY DEF ReadBefore
<1>0. LivenessInv /\ live_nodes \subseteq 1..node_bound /\ live_edges \subseteq 1..edge_bound
  BY DEF StoreInv, LivenessInv, Counted
<1>2. ASSUME NEW n \in live_nodes, NEW x, NEW y
      PROVE  <<x, y>> \in Pairs(n) <=> Precedes(adjacent(n, d), x, y)
  <2> DEFINE w == adjacent(n, d)
             D == DOMAIN w
  <2>0. w \in EdgeRuns
    BY <1>0, AdjacentRead
  <2> HIDE DEF w
  <2>a. D = 1..Len(w) /\ Len(w) \in Nat
    BY <2>0, SeqParts DEF EdgeRuns
  <2> HIDE DEF D
  <2>1. Pairs(n) = UNION {{<<w[i], w[j]>> : i \in 1..(j-1)} : j \in D}
    BY DEF w, D
  <2>2. ASSUME <<x, y>> \in Pairs(n) PROVE Precedes(w, x, y)
    <3> HIDE DEF Pairs
    <3>1. PICK j \in D : <<x, y>> \in {<<w[i], w[j]>> : i \in 1..(j-1)}
      BY <2>1, <2>2
    <3>2. PICK i \in 1..(j-1) : x = w[i] /\ y = w[j]
      BY <3>1
    <3>3. i \in D /\ i < j
      BY <2>a, <3>1, <3>2
    <3> QED BY <3>1, <3>2, <3>3 DEF Precedes, D
  <2>3. ASSUME Precedes(w, x, y) PROVE <<x, y>> \in Pairs(n)
    <3>1. PICK i \in D, j \in D : i < j /\ w[i] = x /\ w[j] = y
      BY <2>3 DEF Precedes, D
    <3>2. i \in 1..(j-1)
      BY <2>a, <3>1
    <3>3. <<x, y>> \in {<<w[k], w[j]>> : k \in 1..(j-1)}
      BY <3>1, <3>2
    <3> HIDE DEF Pairs
    <3> QED BY <2>1, <3>1, <3>3
  <2> QED BY <2>2, <2>3 DEF w
<1>3. \A n : \A z \in Pairs(n) : \E x, y : z = <<x, y>>
  OBVIOUS
<1> HIDE DEF Pairs
<1>5. \A n : n \in node_ids <=> n \in live_nodes
  BY <1>0, LivenessAnswers DEF node_ids
<1>6. ASSUME NEW x, NEW y
      PROVE  <<x, y>> \in ReadBefore(d)
               <=> (x \in live_edges /\ y \in live_edges /\ Ordered(edges[x][d], d, x, y))
  <2>1. <<x, y>> \in ReadBefore(d) <=> \E n \in live_nodes : Precedes(adjacent(n, d), x, y)
    BY <1>1, <1>2, <1>5
  <2>2. \A n \in live_nodes :
           Precedes(adjacent(n, d), x, y)
             <=> (x \in live_edges /\ y \in live_edges /\ Ordered(n, d, x, y))
    BY <1>0, AdjacentRead
  <2>3. \A n \in live_nodes :
           x \in live_edges /\ Ordered(n, d, x, y) => edges[x][d] = n
    BY <1>0, WholeRead DEF Ordered
  <2>4. x \in live_edges => edges[x][d] \in live_nodes
    BY DEF StoreInv
  <2> QED BY <2>1, <2>2, <2>3, <2>4
<1>7. ReadBefore(d) \subseteq live_edges \X live_edges
  <2> SUFFICES ASSUME NEW z \in ReadBefore(d) PROVE z \in live_edges \X live_edges
    OBVIOUS
  <2>1. PICK x, y : z = <<x, y>>
    BY <1>1, <1>3
  <2> QED BY <1>6, <2>1
<1> QED BY <1>6, <1>7

(* The same of the state a step leads to.                                  *)
LEMMA ReadBeforeNext ==
    ASSUME NEW d \in Direction
    PROVE  (StoreInv =>
              /\ ReadBefore(d) \subseteq live_edges \X live_edges
              /\ \A x, y : <<x, y>> \in ReadBefore(d)
                   <=> (x \in live_edges /\ y \in live_edges /\ Ordered(edges[x][d], d, x, y)))'
<1>1. StoreInv =>
        /\ ReadBefore(d) \subseteq live_edges \X live_edges
        /\ \A x, y : <<x, y>> \in ReadBefore(d)
             <=> (x \in live_edges /\ y \in live_edges /\ Ordered(edges[x][d], d, x, y))
  BY ReadBeforeIs
<1> QED BY <1>1, PTL

(* Two sets of pairs with the same pairs are one set.                      *)
LEMMA SamePairs ==
    ASSUME NEW A, NEW S, S \subseteq A \X A, NEW B, NEW T, T \subseteq B \X B,
           \A x, y : <<x, y>> \in S <=> <<x, y>> \in T
    PROVE  S = T
<1>1. \A z \in S : z \in T
  OBVIOUS
<1>2. \A z \in T : z \in S
  OBVIOUS
<1> QED BY <1>1, <1>2

-----------------------------------------------------------------------------
(* The slots and the live slots of what the store is mapped to.            *)
LEMMA MappedSlots ==
    ASSUME StoreInv
    PROVE  /\ node_ids = live_nodes /\ edge_ids = live_edges
           /\ DOMAIN nodes = 1..node_bound /\ nodes \in Seq(Payload)
           /\ Abstract!Cardinality(1..node_bound) = node_bound
           /\ Abstract!Cardinality(1..edge_bound) = edge_bound
           /\ node_bound \in Nat /\ edge_bound \in Nat
           /\ live_nodes \subseteq 1..node_bound /\ live_edges \subseteq 1..edge_bound
<1>1. LivenessInv /\ Shaped
  BY DEF StoreInv
<1>2. node_bound \in Nat /\ edge_bound \in Nat
  BY <1>1, EdgeTable
<1>3. live_nodes \subseteq 1..node_bound /\ live_edges \subseteq 1..edge_bound
  BY <1>1 DEF LivenessInv, Counted
<1>4. node_ids = live_nodes /\ edge_ids = live_edges
  BY <1>1, <1>3, LivenessAnswers DEF node_ids, edge_ids
<1>5. DOMAIN nodes = 1..node_bound /\ nodes \in Seq(Payload)
  <2>1. base_nodes \in Seq(Payload) /\ delta_nodes \in Seq(Payload)
    BY <1>1 DEF Shaped
  <2> QED BY <2>1, ConcatParts DEF nodes, node_bound
<1>6. \A S : Abstract!Cardinality(S) = Cardinality(S)
  BY DEF Abstract!Cardinality, Cardinality
<1>7. Cardinality(1..node_bound) = node_bound /\ Cardinality(1..edge_bound) = edge_bound
  BY <1>2, IntervalSize
<1> QED BY <1>2, <1>3, <1>4, <1>5, <1>6, <1>7

(* The same of the state a step leads to.                                  *)
LEMMA MappedSlotsNext ==
    (StoreInv =>
       /\ node_ids = live_nodes /\ edge_ids = live_edges
       /\ DOMAIN nodes = 1..node_bound /\ nodes \in Seq(Payload)
       /\ node_bound \in Nat /\ edge_bound \in Nat
       /\ live_nodes \subseteq 1..node_bound /\ live_edges \subseteq 1..edge_bound)'
<1>1. StoreInv =>
       /\ node_ids = live_nodes /\ edge_ids = live_edges
       /\ DOMAIN nodes = 1..node_bound /\ nodes \in Seq(Payload)
       /\ node_bound \in Nat /\ edge_bound \in Nat
       /\ live_nodes \subseteq 1..node_bound /\ live_edges \subseteq 1..edge_bound
  BY MappedSlots
<1> QED BY <1>1, PTL

(* The order of a step that touches no run and no chain.                   *)
LEMMA OrderUnchanged ==
    ASSUME chains' = chains, index' = index, relocations' = relocations,
           Len(base_edges)' = Len(base_edges), NEW n, NEW d
    PROVE  \A x, y : Ordered(n, d, x, y)' <=> Ordered(n, d, x, y)
<1>1. Run(n, d)' = Run(n, d) /\ chain_run(n, d)' = chain_run(n, d)
  BY RunsUnchanged, ChainsUnchanged
<1> QED BY <1>1 DEF Ordered

(* What such a step does to the mapped order, when it moves no edge.       *)
LEMMA BeforeFiltered ==
    ASSUME StoreInv, StoreInv', chains' = chains, index' = index, relocations' = relocations,
           Len(base_edges)' = Len(base_edges), live_edges' \subseteq live_edges,
           NEW d \in Direction, \A e \in live_edges : edges'[e][d] = edges[e][d],
           NEW x, NEW y
    PROVE  <<x, y>> \in ReadBefore(d)'
             <=> (x \in live_edges' /\ y \in live_edges' /\ <<x, y>> \in ReadBefore(d))
<1>1. <<x, y>> \in ReadBefore(d)
        <=> (x \in live_edges /\ y \in live_edges /\ Ordered(edges[x][d], d, x, y))
  BY ReadBeforeIs
<1>2. <<x, y>> \in ReadBefore(d)'
        <=> (x \in live_edges' /\ y \in live_edges' /\ Ordered(edges[x][d], d, x, y)')
  BY ReadBeforeNext
<1>3. PICK n : n = edges[x][d]
  OBVIOUS
<1>4. x \in live_edges' => n = edges'[x][d]
  BY <1>3
<1>5. Ordered(n, d, x, y)' <=> Ordered(n, d, x, y)
  BY OrderUnchanged
<1>6. x \in live_edges' => (Ordered(edges[x][d], d, x, y)' <=> Ordered(n, d, x, y)')
  BY <1>4 DEF Ordered
<1> QED BY <1>1, <1>2, <1>3, <1>5, <1>6

(* A step that moves no edge and touches no run: the order is filtered.    *)
LEMMA BeforeSet ==
    ASSUME StoreInv, StoreInv', chains' = chains, index' = index, relocations' = relocations,
           Len(base_edges)' = Len(base_edges), NEW S, live_edges' = live_edges \ S,
           \A e \in live_edges, d \in Direction : edges'[e][d] = edges[e][d],
           NEW d \in Direction
    PROVE  ReadBefore(d)' = {p \in ReadBefore(d) : p[1] \notin S /\ p[2] \notin S}
<1> DEFINE T == {p \in ReadBefore(d) : p[1] \notin S /\ p[2] \notin S}
           R == ReadBefore(d)'
           Q == ReadBefore(d)
<1>1. Q \subseteq live_edges \X live_edges
  BY ReadBeforeIs
<1>2. R \subseteq live_edges' \X live_edges'
  BY ReadBeforeNext
<1>3. ASSUME NEW x, NEW y PROVE <<x, y>> \in R <=> <<x, y>> \in T
  <2>1. <<x, y>> \in R <=> (x \in live_edges' /\ y \in live_edges' /\ <<x, y>> \in Q)
    BY BeforeFiltered
  <2> HIDE DEF R, Q
  <2>2. <<x, y>> \in Q => x \in live_edges /\ y \in live_edges
    BY <1>1
  <2>3. <<x, y>> \in T <=> <<x, y>> \in Q /\ x \notin S /\ y \notin S
    BY DEF Q
  <2> QED BY <2>1, <2>2, <2>3
<1>4. T \subseteq live_edges \X live_edges
  BY <1>1
<1> HIDE DEF R, Q, T
<1>5. R = T
  BY <1>2, <1>3, <1>4, SamePairs
<1> QED BY <1>5 DEF R, T

(* A step that only edits payloads leaves it alone.                        *)
LEMMA BeforeKept ==
    ASSUME StoreInv, StoreInv', chains' = chains, index' = index, relocations' = relocations,
           Len(base_edges)' = Len(base_edges), live_edges' = live_edges,
           \A e \in live_edges, d \in Direction : edges'[e][d] = edges[e][d]
    PROVE  [d \in Direction |-> ReadBefore(d)]' = [d \in Direction |-> ReadBefore(d)]
<1>1. ASSUME NEW d \in Direction PROVE ReadBefore(d)' = ReadBefore(d)
  <2> DEFINE R == ReadBefore(d)'
             Q == ReadBefore(d)
  <2>1. Q \subseteq live_edges \X live_edges
    BY ReadBeforeIs
  <2>2. R \subseteq live_edges' \X live_edges'
    BY ReadBeforeNext
  <2>3. ASSUME NEW x, NEW y PROVE <<x, y>> \in R <=> <<x, y>> \in Q
    <3>1. live_edges' \subseteq live_edges /\ \A e \in live_edges : edges'[e][d] = edges[e][d]
      OBVIOUS
    <3>2. <<x, y>> \in R <=> (x \in live_edges' /\ y \in live_edges' /\ <<x, y>> \in Q)
      BY <3>1, BeforeFiltered
    <3> HIDE DEF R, Q
    <3> QED BY <2>1, <3>2
  <2> HIDE DEF R, Q
  <2>4. R = Q
    BY <2>1, <2>2, <2>3, SamePairs
  <2> QED BY <2>4 DEF R, Q
<1> QED BY <1>1

(* Append, as a function.                                                  *)
LEMMA AppendIs ==
    ASSUME NEW T, NEW s \in Seq(T), NEW v, NEW n, n = Len(s)
    PROVE  Append(s, v) = [i \in 1..(n + 1) |-> IF i = n + 1 THEN v ELSE s[i]]
<1> DEFINE w == Append(s, v)
           f == [i \in 1..(n + 1) |-> IF i = n + 1 THEN v ELSE s[i]]
<1>1. n \in Nat /\ s \in Seq(T \cup {v})
  BY SeqMonotone
<1>2. w \in Seq(T \cup {v}) /\ Len(w) = n + 1 /\ w[n + 1] = v
      /\ \A i \in 1..n : w[i] = s[i]
  BY <1>1
<1> HIDE DEF w
<1>3. w = [i \in 1..(n + 1) |-> w[i]]
  BY <1>2
<1>4. \A i \in 1..(n + 1) : i # n + 1 => i \in 1..n
  BY <1>1
<1>5. \A i \in 1..(n + 1) : w[i] = f[i]
  BY <1>2, <1>4
<1>6. f = [i \in 1..(n + 1) |-> f[i]]
  OBVIOUS
<1> HIDE DEF f
<1>7. w = f
  BY <1>3, <1>5, <1>6
<1> QED BY <1>7 DEF w, f

(* add_node is AddNode.                                                    *)
LEMMA AddNodeMaps ==
    ASSUME StoreInv, NEW p \in Payload, add_node(p)
    PROVE  Abstract!AddNode(p)
<1>1. StoreInv'
  BY AddNodeStore
<1>2. /\ node_ids = live_nodes /\ edge_ids = live_edges
      /\ DOMAIN nodes = 1..node_bound /\ nodes \in Seq(Payload)
      /\ Abstract!Cardinality(1..node_bound) = node_bound
      /\ node_bound \in Nat
  BY MappedSlots
<1>3. node_ids' = live_nodes' /\ edge_ids' = live_edges'
  BY <1>1, MappedSlotsNext
<1>4. UNCHANGED <<chains, index, relocations, base_edges, delta_edges, live_edges, base_nodes>>
      /\ live_nodes' = live_nodes \cup {node_bound + 1} /\ node_bound < MaxNodeSlots
      /\ delta_nodes' = Append(delta_nodes, p)
  BY DEF add_node
<1>5. UNCHANGED <<edges, edge_bound>>
  BY <1>4 DEF edges, edge_bound
<1>6. nodes' = Append(nodes, p) /\ Len(nodes) = node_bound
  <2>1. base_nodes \in Seq(Payload) /\ delta_nodes \in Seq(Payload)
    BY DEF StoreInv, Shaped
  <2> QED BY <1>4, <2>1 DEF nodes, node_bound
<1>7. nodes' = [i \in 1..(node_bound + 1) |-> IF i = node_bound + 1 THEN p ELSE nodes[i]]
  <2>1. nodes \in Seq(Payload) /\ node_bound = Len(nodes)
    BY <1>2, <1>6
  <2>2. Append(nodes, p)
          = [i \in 1..(node_bound + 1) |-> IF i = node_bound + 1 THEN p ELSE nodes[i]]
    BY <2>1, AppendIs
  <2> QED BY <1>6, <2>2
<1> HIDE DEF Abstract!Cardinality
<1>9. Abstract!Grown(nodes, p)
        = [i \in 1..(node_bound + 1) |-> IF i = node_bound + 1 THEN p ELSE nodes[i]]
  BY <1>2 DEF Abstract!Grown
<1>10. [d \in Direction |-> ReadBefore(d)]' = [d \in Direction |-> ReadBefore(d)]
  BY <1>1, <1>4, <1>5, BeforeKept
<1> QED BY <1>2, <1>3, <1>4, <1>5, <1>7, <1>9, <1>10
        DEF Abstract!AddNode, Abstract!NodeSlots

(* Clearing bits, which leaves every column alone, is removing edges.      *)
LEMMA RetireMaps ==
    ASSUME StoreInv, StoreInv', NEW S, live_edges' = live_edges \ S,
           UNCHANGED <<base_nodes, delta_nodes, base_edges, delta_edges, index,
                       chains, relocations>>
    PROVE  Abstract!RemoveEdges(S)
<1>1. edge_ids = live_edges /\ edge_ids' = live_edges'
  BY MappedSlots, MappedSlotsNext
<1>2. UNCHANGED <<edges, edge_bound, nodes>>
  BY DEF edges, edge_bound, nodes
<1>3. \A d \in Direction :
         ReadBefore(d)' = {p \in ReadBefore(d) : p[1] \notin S /\ p[2] \notin S}
  <2> SUFFICES ASSUME NEW d \in Direction
               PROVE  ReadBefore(d)' = {p \in ReadBefore(d) : p[1] \notin S /\ p[2] \notin S}
    OBVIOUS
  <2> QED BY <1>2, BeforeSet
<1>4. Abstract!Direction = Direction
  BY DEF Abstract!Direction, Direction
<1>5. [d \in Direction |-> ReadBefore(d)]'
        = [d \in Abstract!Direction |->
             {p \in [b \in Direction |-> ReadBefore(b)][d] : p[1] \notin S /\ p[2] \notin S}]
  BY <1>3, <1>4
<1> QED BY <1>1, <1>2, <1>5 DEF Abstract!RemoveEdges, Abstract!Unlisted

(* remove_edge is RemoveEdge, or nothing for an edge already removed.      *)
LEMMA RemoveEdgeMaps ==
    ASSUME StoreInv, NEW e \in 1..edge_bound, remove_edge(e)
    PROVE  \/ e \in edge_ids /\ Abstract!RemoveEdge(e)
           \/ UNCHANGED Abstract!vars
<1>1. StoreInv'
  BY RemoveEdgeStore
<1>2. live_edges' = live_edges \ {e} /\ live_nodes' = live_nodes
      /\ UNCHANGED <<base_nodes, delta_nodes, base_edges, delta_edges, index, chains, relocations>>
  BY DEF remove_edge, retire_edges
<1>3. Abstract!RemoveEdges({e})
  BY <1>1, <1>2, RetireMaps
<1>4. /\ node_ids = live_nodes /\ edge_ids = live_edges
      /\ node_ids' = live_nodes' /\ edge_ids' = live_edges'
  BY <1>1, MappedSlots, MappedSlotsNext
<1>5. CASE e \in live_edges
  BY <1>2, <1>3, <1>4, <1>5 DEF Abstract!RemoveEdge
<1>6. CASE e \notin live_edges
  <2>1. live_edges' = live_edges \ {} /\ live_edges' = live_edges
    BY <1>2, <1>6
  <2>2. UNCHANGED <<edges, edge_bound, nodes>>
    BY <1>2 DEF edges, edge_bound, nodes
  <2>4. [d \in Direction |-> ReadBefore(d)]' = [d \in Direction |-> ReadBefore(d)]
    BY <1>1, <1>2, <2>1, <2>2, BeforeKept
  <2> QED BY <1>2, <1>4, <2>1, <2>2, <2>4 DEF Abstract!vars
<1> QED BY <1>5, <1>6

(* remove_node is RemoveNode.                                              *)
LEMMA RemoveNodeMaps ==
    ASSUME StoreInv, NEW n \in 1..node_bound, remove_node(n)
    PROVE  n \in node_ids /\ Abstract!RemoveNode(n)
<1> DEFINE S == Elements(adjacent(n, "out")) \cup Elements(adjacent(n, "in"))
<1>1. StoreInv'
  BY RemoveNodeStore
<1>2. live_edges' = live_edges \ S /\ live_nodes' = live_nodes \ {n} /\ node_is_live(n)
      /\ UNCHANGED <<base_nodes, delta_nodes, base_edges, delta_edges, index, chains, relocations>>
  BY DEF remove_node, retire_edges
<1>3. S = {e \in live_edges : \E d \in Direction : edges[e][d] = n}
  BY RemovedEdges
<1> HIDE DEF S
<1>4. /\ node_ids = live_nodes /\ edge_ids = live_edges
      /\ node_ids' = live_nodes' /\ edge_ids' = live_edges'
      /\ live_edges \subseteq 1..edge_bound
  BY <1>1, MappedSlots, MappedSlotsNext
<1>5. S = Abstract!At("out", n) \cup Abstract!At("in", n)
  <2>1. \A d \in Direction, e \in live_edges :
           [b \in Direction |-> [f \in 1..edge_bound |-> edges[f][b]]][d][e] = edges[e][d]
    BY <1>4
  <2>2. \A d \in Direction : Abstract!At(d, n) = {e \in live_edges : edges[e][d] = n}
    BY <1>4, <2>1 DEF Abstract!At
  <2> QED BY <1>3, <2>2 DEF Direction
<1>6. Abstract!RemoveEdges(S)
  BY <1>1, <1>2, RetireMaps
<1>7. n \in node_ids
  BY <1>2 DEF node_ids
<1> QED BY <1>2, <1>4, <1>5, <1>6, <1>7 DEF Abstract!RemoveNode

(* A sequence that differs in one element.                                 *)
LEMMA EditIs ==
    ASSUME NEW T, NEW s \in Seq(T), NEW w \in Seq(T), DOMAIN w = DOMAIN s, NEW n, NEW v,
           \A i \in DOMAIN s : w[i] = IF i = n THEN v ELSE s[i]
    PROVE  w = [s EXCEPT ![n] = v]
<1>1. w = [i \in DOMAIN w |-> w[i]]
  OBVIOUS
<1> QED BY <1>1

(* node_mut is SetNodePayload.                                             *)
LEMMA NodeMutMaps ==
    ASSUME StoreInv, NEW n \in 1..node_bound, NEW p \in Payload, node_mut(n, p)
    PROVE  Abstract!SetNodePayload(n, p)
<1>1. StoreInv'
  BY NodeMutStore
<1>2. UNCHANGED <<base_edges, delta_edges, index, chains, live_nodes, live_edges, relocations>>
  BY DEF node_mut
<1>3. UNCHANGED <<edges, edge_bound>>
  BY <1>2 DEF edges, edge_bound
<1>4. /\ node_ids = live_nodes /\ edge_ids = live_edges
      /\ node_ids' = live_nodes' /\ edge_ids' = live_edges'
      /\ nodes \in Seq(Payload) /\ DOMAIN nodes = 1..node_bound
      /\ nodes' \in Seq(Payload) /\ DOMAIN nodes' = 1..node_bound'
  BY <1>1, MappedSlots, MappedSlotsNext
<1>6. [d \in Direction |-> ReadBefore(d)]' = [d \in Direction |-> ReadBefore(d)]
  BY <1>1, <1>2, <1>3, BeforeKept
<1>7. nodes' = [nodes EXCEPT ![n] = p]
  <2> DEFINE B == Len(base_nodes)
             D == Len(delta_nodes)
  <2>1. /\ base_nodes \in Seq(Payload) /\ delta_nodes \in Seq(Payload)
        /\ base_nodes' \in Seq(Payload) /\ delta_nodes' \in Seq(Payload)
    BY <1>1 DEF StoreInv, Shaped
  <2>2. /\ B \in Nat /\ D \in Nat /\ node_bound = B + D
        /\ DOMAIN nodes = 1..(B + D)
        /\ \A i \in 1..B : nodes[i] = base_nodes[i]
        /\ \A j \in 1..D : nodes[B + j] = delta_nodes[j]
    BY <2>1, ConcatParts DEF nodes, node_bound
  <2>3. CASE n <= B
    <3>1. base_nodes' = [base_nodes EXCEPT ![n] = p] /\ delta_nodes' = delta_nodes
      BY <2>3 DEF node_mut
    <3>2. Len(base_nodes') = B /\ \A i \in 1..B : base_nodes'[i] = IF i = n THEN p ELSE base_nodes[i]
      BY <2>1, <2>2, <3>1
    <3>3. /\ DOMAIN nodes' = 1..(B + D)
          /\ \A i \in 1..B : nodes'[i] = base_nodes'[i]
          /\ \A j \in 1..D : nodes'[B + j] = delta_nodes[j]
      BY <2>1, <3>1, <3>2, ConcatParts DEF nodes
    <3>4. \A i \in 1..(B + D) : nodes'[i] = IF i = n THEN p ELSE nodes[i]
      <4> SUFFICES ASSUME NEW i \in 1..(B + D) PROVE nodes'[i] = IF i = n THEN p ELSE nodes[i]
        OBVIOUS
      <4>1. CASE i <= B
        <5>1. i \in 1..B
          BY <2>2, <4>1
        <5> QED BY <2>2, <3>2, <3>3, <5>1
      <4>2. CASE ~(i <= B)
        <5>1. i - B \in 1..D /\ B + (i - B) = i /\ i # n
          BY <2>2, <2>3, <4>2
        <5> QED BY <2>2, <3>3, <5>1
      <4> QED BY <4>1, <4>2
    <3>5. DOMAIN nodes' = DOMAIN nodes /\ \A i \in DOMAIN nodes : nodes'[i] = IF i = n THEN p ELSE nodes[i]
      BY <2>2, <3>3, <3>4
    <3>6. nodes \in Seq(Payload) /\ nodes' \in Seq(Payload)
      BY <1>4
    <3> HIDE DEF B, D
    <3>7. nodes' = [nodes EXCEPT ![n] = p]
      BY ONLY <3>5, <3>6, EditIs
    <3> QED BY <3>7
  <2>4. CASE ~(n <= B)
    <3>1. delta_nodes' = [delta_nodes EXCEPT ![n - B] = p] /\ base_nodes' = base_nodes
      BY <2>4 DEF node_mut
    <3>2. Len(delta_nodes') = D
          /\ \A j \in 1..D : delta_nodes'[j] = IF j = n - B THEN p ELSE delta_nodes[j]
      BY <2>1, <2>2, <3>1
    <3>3. /\ DOMAIN nodes' = 1..(B + D)
          /\ \A i \in 1..B : nodes'[i] = base_nodes[i]
          /\ \A j \in 1..D : nodes'[B + j] = delta_nodes'[j]
      BY <2>1, <3>1, <3>2, ConcatParts DEF nodes
    <3>4. \A i \in 1..(B + D) : nodes'[i] = IF i = n THEN p ELSE nodes[i]
      <4> SUFFICES ASSUME NEW i \in 1..(B + D) PROVE nodes'[i] = IF i = n THEN p ELSE nodes[i]
        OBVIOUS
      <4>1. CASE i <= B
        <5>1. i \in 1..B /\ i # n
          BY <2>2, <2>4, <4>1
        <5> QED BY <2>2, <3>3, <5>1
      <4>2. CASE ~(i <= B)
        <5>1. i - B \in 1..D /\ B + (i - B) = i /\ (i = n <=> i - B = n - B)
          BY <2>2, <4>2
        <5> DEFINE j == i - B
        <5>2. j \in 1..D /\ B + j = i /\ (i = n <=> j = n - B)
          BY <5>1
        <5> HIDE DEF j
        <5>3. nodes'[i] = delta_nodes'[j] /\ nodes[i] = delta_nodes[j]
          BY <2>2, <3>3, <5>2
        <5> QED BY <3>2, <5>2, <5>3
      <4> QED BY <4>1, <4>2
    <3>5. DOMAIN nodes' = DOMAIN nodes /\ \A i \in DOMAIN nodes : nodes'[i] = IF i = n THEN p ELSE nodes[i]
      BY <2>2, <3>3, <3>4
    <3>6. nodes \in Seq(Payload) /\ nodes' \in Seq(Payload)
      BY <1>4
    <3> HIDE DEF B, D
    <3>7. nodes' = [nodes EXCEPT ![n] = p]
      BY ONLY <3>5, <3>6, EditIs
    <3> QED BY <3>7
  <2> QED BY <2>3, <2>4
<1> QED BY <1>2, <1>3, <1>4, <1>6, <1>7 DEF Abstract!SetNodePayload

(* edge_mut is SetEdgePayload.                                             *)
LEMMA EdgeMutMaps ==
    ASSUME StoreInv, NEW e \in 1..edge_bound, NEW p \in Payload, edge_mut(e, p)
    PROVE  Abstract!SetEdgePayload(e, p)
<1>1. StoreInv'
  BY EdgeMutStore
<1>2. UNCHANGED <<base_nodes, delta_nodes, index, chains, live_nodes, live_edges, relocations>>
      /\ UpdateRecords({e}, "payload", p)
  BY DEF edge_mut
<1>3. UNCHANGED <<nodes, node_bound>>
  BY <1>2 DEF nodes, node_bound
<1>4. /\ node_ids = live_nodes /\ edge_ids = live_edges
      /\ node_ids' = live_nodes' /\ edge_ids' = live_edges'
      /\ live_edges \subseteq 1..edge_bound
  BY <1>1, MappedSlots, MappedSlotsNext
<1>5. Rewritten({e}, "payload", p)
  <2>1. Shaped /\ "payload" \in Fields /\ base_nodes' \in Seq(Payload) /\ delta_nodes' \in Seq(Payload)
    BY <1>2 DEF StoreInv, Shaped, Fields
  <2> QED BY <1>2, <1>3, <2>1, UpdateRead
<1>6. /\ Len(base_edges') = Len(base_edges) /\ edge_bound' = edge_bound
      /\ \A i \in 1..edge_bound : edges'[i].payload = IF i = e THEN p ELSE edges[i].payload
      /\ \A i \in 1..edge_bound, d \in Direction : edges'[i][d] = edges[i][d]
  BY <1>5 DEF Rewritten, Fields, Direction
<1>8. [d \in Direction |-> ReadBefore(d)]' = [d \in Direction |-> ReadBefore(d)]
  <2>1. \A x \in live_edges, d \in Direction : edges'[x][d] = edges[x][d]
    BY <1>4, <1>6
  <2> QED BY <1>1, <1>2, <1>6, <2>1, BeforeKept
<1>9. [d \in Direction |-> [i \in 1..edge_bound |-> edges[i][d]]]'
        = [d \in Direction |-> [i \in 1..edge_bound |-> edges[i][d]]]
  BY <1>6
<1>10. [i \in 1..edge_bound |-> edges[i].payload]'
         = [[i \in 1..edge_bound |-> edges[i].payload] EXCEPT ![e] = p]
  BY <1>6
<1> QED BY <1>2, <1>3, <1>4, <1>8, <1>9, <1>10 DEF Abstract!SetEdgePayload

(* The order after a step, of an edge whose node is known.                 *)
LEMMA ReadAtNext ==
    ASSUME StoreInv', NEW d \in Direction, NEW x, NEW y, NEW n,
           x \in live_edges' => edges'[x][d] = n
    PROVE  <<x, y>> \in ReadBefore(d)'
             <=> (x \in live_edges' /\ y \in live_edges' /\ Ordered(n, d, x, y)')
<1>1. <<x, y>> \in ReadBefore(d)'
        <=> (x \in live_edges' /\ y \in live_edges' /\ Ordered(edges[x][d], d, x, y)')
  BY ReadBeforeNext
<1>2. x \in live_edges' => (Ordered(edges[x][d], d, x, y)' <=> Ordered(n, d, x, y)')
  BY DEF Ordered
<1> QED BY <1>1, <1>2

(* What a walk meets is an edge, and of the live ones it meets its own.    *)
LEMMA OrderedParts ==
    ASSUME StoreInv, NEW n \in 1..node_bound, NEW d \in Direction
    PROVE  /\ \A x : Reads(Run(n, d) \o chain_run(n, d), x) => x \in 1..edge_bound
           /\ \A x \in live_edges :
                 Reads(Run(n, d) \o chain_run(n, d), x) <=> edges[x][d] = n
           /\ \A x, y : Ordered(n, d, x, y) =>
                 /\ Reads(Run(n, d) \o chain_run(n, d), x)
                 /\ Reads(Run(n, d) \o chain_run(n, d), y)
<1> DEFINE w == Run(n, d) \o chain_run(n, d)
<1>1. w \in EdgeRuns
  BY WholeRead
<1>2. \A x \in live_edges : Reads(w, x) <=> edges[x][d] = n
  BY WholeRead
<1>3. \A x, y : Ordered(n, d, x, y) => Reads(w, x) /\ Reads(w, y)
  BY WholeRead DEF Ordered
<1> HIDE DEF w
<1>4. \A x : Reads(w, x) => x \in 1..edge_bound
  <2>1. \A i \in DOMAIN w : w[i] \in 1..edge_bound
    BY <1>1, SeqParts DEF EdgeRuns
  <2> QED BY <2>1 DEF Reads
<1> QED BY <1>2, <1>3, <1>4 DEF w

(* The order along d once the new edge is in.                              *)
LEMMA AddEdgeBefore ==
    ASSUME StoreInv, NEW s \in 1..node_bound, NEW t \in 1..node_bound, NEW q \in Payload,
           add_edge(s, t, q), NEW d \in Direction, NEW z, z = edge_bound + 1,
           NEW m, m = Endpoint(s, t, d)
    PROVE  ReadBefore(d)'
             = ReadBefore(d) \cup ({x \in live_edges : edges[x][d] = m} \X {z})
<1> DEFINE own == {x \in live_edges : edges[x][d] = m}
           R == ReadBefore(d)'
           Q == ReadBefore(d)
           T == Q \cup (own \X {z})
<1>1. /\ StoreInv'
      /\ node_bound' = node_bound /\ edge_bound' = z
      /\ \A e \in 1..edge_bound : edges'[e] = edges[e]
      /\ edges'[z] = EdgeRecord(s, t, q)
      /\ \A n \in 1..node_bound : \A x, y :
            /\ n # m => (Ordered(n, d, x, y)' <=> Ordered(n, d, x, y))
            /\ n = m => (Ordered(n, d, x, y)' <=>
                            \/ Ordered(n, d, x, y)
                            \/ Reads(Run(n, d) \o chain_run(n, d), x) /\ y = z)
  BY AddEdgeStore
<1>2. live_edges' = live_edges \cup {z} /\ m \in 1..node_bound
  BY DEF add_edge, Endpoint
<1>3. EdgeRecord(s, t, q)[d] = m
  BY DEF EdgeRecord, Direction, Endpoint
<1>4. /\ edge_bound \in Nat /\ live_edges \subseteq 1..edge_bound /\ z \notin 1..edge_bound
      /\ \A x \in live_edges : edges[x][d] \in 1..node_bound
  <2>1. edge_bound \in Nat /\ live_edges \subseteq 1..edge_bound
    BY MappedSlots
  <2> QED BY <2>1, EdgeEnds DEF StoreInv
<1>5. Q \subseteq live_edges \X live_edges
  BY ReadBeforeIs
<1>6. R \subseteq live_edges' \X live_edges'
  BY <1>1, ReadBeforeNext
<1>7. ASSUME NEW x, NEW y PROVE <<x, y>> \in R <=> <<x, y>> \in T
  <2>1. <<x, y>> \in Q
          <=> (x \in live_edges /\ y \in live_edges /\ Ordered(edges[x][d], d, x, y))
    BY ReadBeforeIs
  <2>2. CASE x \in live_edges
    <3>1. PICK n : n = edges[x][d]
      OBVIOUS
    <3>2. n \in 1..node_bound /\ edges'[x][d] = n
      BY <1>1, <1>4, <2>2, <3>1
    <3>3. <<x, y>> \in R <=> (x \in live_edges' /\ y \in live_edges' /\ Ordered(n, d, x, y)')
      BY <1>1, <3>2, ReadAtNext
    <3> HIDE DEF R, Q, T
    <3>4. /\ \A v : Reads(Run(n, d) \o chain_run(n, d), v) => v \in 1..edge_bound
          /\ Reads(Run(n, d) \o chain_run(n, d), x)
          /\ Ordered(n, d, x, y) => Reads(Run(n, d) \o chain_run(n, d), y)
      BY <2>2, <3>1, <3>2, OrderedParts
    <3>5. Ordered(n, d, x, y) => y # z
      BY <1>4, <3>4
    <3>6. <<x, y>> \in R <=> \/ y \in live_edges /\ Ordered(n, d, x, y)
                             \/ n = m /\ y = z
      BY <1>1, <1>2, <2>2, <3>2, <3>3, <3>4, <3>5
    <3>7. <<x, y>> \in T <=> <<x, y>> \in Q \/ (n = m /\ y = z)
      BY <2>2, <3>1 DEF T
    <3> QED BY <2>1, <2>2, <3>1, <3>6, <3>7
  <2>3. CASE x = z
    <3>1. edges'[x][d] = m
      BY <1>1, <1>3, <2>3
    <3>2. <<x, y>> \in R <=> (x \in live_edges' /\ y \in live_edges' /\ Ordered(m, d, x, y)')
      BY <1>1, <3>1, ReadAtNext
    <3> HIDE DEF R, Q, T
    <3>3. ~Reads(Run(m, d) \o chain_run(m, d), x) /\ ~Ordered(m, d, x, y)
      BY <1>2, <1>4, <2>3, OrderedParts
    <3>4. <<x, y>> \notin R
      BY <1>1, <1>2, <3>2, <3>3
    <3>5. x \notin live_edges
      BY <1>4, <2>3
    <3>6. <<x, y>> \notin T
      BY <2>1, <3>5 DEF T
    <3> QED BY <3>4, <3>6
  <2>4. CASE x \notin live_edges /\ x # z
    <3> HIDE DEF R, Q
    <3>1. <<x, y>> \notin R
      BY <1>2, <1>6, <2>4
    <3>2. <<x, y>> \notin T
      BY <1>5, <2>4
    <3> QED BY <3>1, <3>2
  <2> QED BY <2>2, <2>3, <2>4
<1>8. T \subseteq live_edges' \X live_edges'
  BY <1>2, <1>5
<1> HIDE DEF R, Q, T
<1>9. R = T
  BY <1>6, <1>7, <1>8, SamePairs
<1> QED BY <1>9 DEF R, Q, T

(* add_edge is AddEdge.                                                    *)
LEMMA AddEdgeMaps ==
    ASSUME StoreInv, NEW s \in 1..node_bound, NEW t \in 1..node_bound, NEW q \in Payload,
           add_edge(s, t, q)
    PROVE  s \in node_ids /\ t \in node_ids /\ Abstract!AddEdge(s, t, q)
<1>z. PICK z : z = edge_bound + 1
  OBVIOUS
<1>1. /\ StoreInv'
      /\ edge_bound' = z
      /\ \A e \in 1..edge_bound : edges'[e] = edges[e]
      /\ edges'[z] = EdgeRecord(s, t, q)
  BY <1>z, AddEdgeStore
<1>2. /\ node_ids = live_nodes /\ edge_ids = live_edges
      /\ edge_bound \in Nat /\ live_edges \subseteq 1..edge_bound
      /\ Abstract!Cardinality(1..edge_bound) = edge_bound
  BY MappedSlots
<1>3. node_ids' = live_nodes' /\ edge_ids' = live_edges'
  BY <1>1, MappedSlotsNext
<1>4. /\ live_edges' = live_edges \cup {z} /\ live_nodes' = live_nodes
      /\ z <= MaxEdgeSlots /\ s \in node_ids /\ t \in node_ids
      /\ nodes' = nodes
  <2>1. edge_bound < MaxEdgeSlots /\ node_is_live(s) /\ node_is_live(t)
        /\ live_edges' = live_edges \cup {edge_bound + 1} /\ live_nodes' = live_nodes
        /\ base_nodes' = base_nodes /\ delta_nodes' = delta_nodes
    BY DEF add_edge
  <2>2. z <= MaxEdgeSlots
    BY <1>2, <1>z, <2>1, SlotAssumption
  <2> QED BY <1>z, <2>1, <2>2 DEF nodes, node_ids
<1>5. \A i \in 1..z : i # z => i \in 1..edge_bound
  BY <1>2, <1>z
<1> HIDE DEF Abstract!Cardinality
<1> DEFINE P == [i \in 1..edge_bound |-> edges[i].payload]
           N == [d \in Direction |-> [i \in 1..edge_bound |-> edges[i][d]]]
<1>6. /\ DOMAIN P = 1..edge_bound /\ \A d \in Direction : DOMAIN N[d] = 1..edge_bound
      /\ \A i \in 1..edge_bound : P[i] = edges[i].payload
      /\ \A d \in Direction, i \in 1..edge_bound : N[d][i] = edges[i][d]
  OBVIOUS
<1>7. P' = Abstract!Grown(P, q)
  <2>1. P' = [i \in 1..z |-> edges'[i].payload]
    BY <1>1
  <2> HIDE DEF P
  <2>2. Abstract!Grown(P, q) = [i \in 1..z |-> IF i = z THEN q ELSE P[i]]
    BY <1>2, <1>6, <1>z DEF Abstract!Grown
  <2>3. \A i \in 1..z : edges'[i].payload = IF i = z THEN q ELSE P[i]
    BY <1>1, <1>5, <1>6 DEF EdgeRecord
  <2> QED BY <2>1, <2>2, <2>3
<1>8. \A d \in Direction :
         [i \in 1..z |-> edges'[i][d]] = Abstract!Grown(N[d], Endpoint(s, t, d))
  <2> SUFFICES ASSUME NEW d \in Direction
               PROVE  [i \in 1..z |-> edges'[i][d]] = Abstract!Grown(N[d], Endpoint(s, t, d))
    OBVIOUS
  <2> HIDE DEF N
  <2>2. Abstract!Grown(N[d], Endpoint(s, t, d))
          = [i \in 1..z |-> IF i = z THEN Endpoint(s, t, d) ELSE N[d][i]]
    BY <1>2, <1>6, <1>z DEF Abstract!Grown
  <2>3. EdgeRecord(s, t, q)[d] = Endpoint(s, t, d)
    BY DEF EdgeRecord, Direction, Endpoint
  <2>4. \A i \in 1..z : edges'[i][d] = IF i = z THEN Endpoint(s, t, d) ELSE N[d][i]
    BY <1>1, <1>5, <1>6, <2>3
  <2> QED BY <2>2, <2>4
<1>9. N' = [d \in Direction |-> Abstract!Grown(N[d], Endpoint(s, t, d))]
  <2>1. N' = [d \in Direction |-> [i \in 1..z |-> edges'[i][d]]]
    BY <1>1
  <2> HIDE DEF N
  <2> QED BY <1>8, <2>1
<1>10. \A d \in Direction :
         ReadBefore(d)' = ReadBefore(d) \cup
            ({x \in live_edges : edges[x][d] = Endpoint(s, t, d)} \X {z})
  BY <1>z, AddEdgeBefore
<1>11. \A d \in Direction :
         Abstract!At(d, Endpoint(s, t, d)) = {x \in live_edges : edges[x][d] = Endpoint(s, t, d)}
  <2>1. \A d \in Direction, e \in live_edges :
           [b \in Direction |-> [f \in 1..edge_bound |-> edges[f][b]]][d][e] = edges[e][d]
    BY <1>2
  <2> QED BY <1>2, <2>1 DEF Abstract!At
<1>12. Abstract!Direction = Direction
  BY DEF Abstract!Direction, Direction
<1> DEFINE F == [d \in Direction |-> ReadBefore(d)]
<1>13. F' = [d \in Direction |-> F[d] \cup (Abstract!At(d, Endpoint(s, t, d)) \X {z})]
  BY <1>10, <1>11
<1>14. \A d \in Direction :
          [b \in Abstract!Direction |-> IF b = "out" THEN s ELSE t][d] = Endpoint(s, t, d)
  BY <1>12 DEF Endpoint
<1>15. Abstract!Cardinality(Abstract!EdgeSlots) + 1 = z
  BY <1>2, <1>6, <1>z DEF Abstract!EdgeSlots
<1> HIDE DEF Abstract!At, Abstract!Grown
<1>16. [d \in Abstract!Direction |->
           Abstract!Grown(N[d], [b \in Abstract!Direction |-> IF b = "out" THEN s ELSE t][d])] = N'
  BY <1>9, <1>12, <1>14
<1>17. [d \in Abstract!Direction |-> F[d] \cup
           (Abstract!At(d, [b \in Abstract!Direction |-> IF b = "out" THEN s ELSE t][d]) \X {z})] = F'
  BY <1>12, <1>13, <1>14
<1>18. Abstract!AddEdge(s, t, q)
  BY <1>2, <1>3, <1>4, <1>7, <1>15, <1>16, <1>17 DEF Abstract!AddEdge
<1> QED BY <1>4, <1>18

(* What the nodes read after edges were hung on another node.              *)
LEMMA RehungReads ==
    ASSUME StoreInv, NEW p, NEW n \in 1..node_bound, p # n,
           NEW d \in Direction, NEW S, NEW runP, NEW runN, Rehung(S, p, n, d, runP, runN),
           NEW m \in 1..node_bound, NEW b \in Direction
    PROVE  \A x, y :
             /\ b = d /\ m = p => (Ordered(m, b, x, y)' <=> Precedes(runP, x, y))
             /\ b = d /\ m = n => (Ordered(m, b, x, y)' <=> Precedes(runN, x, y))
             /\ (b # d \/ (m # p /\ m # n)) => (Ordered(m, b, x, y)' <=> Ordered(m, b, x, y))
<1>1. Shaped /\ with_runs(d, p, runP, n, runN) /\ index' = index
      /\ runP \in EdgeRuns /\ runN \in EdgeRuns
  BY DEF StoreInv, Rehung
<1>2. Len(base_edges)' = Len(base_edges)
  BY RehungTable DEF Rewritten
<1>4. runP \o <<>> = runP /\ runN \o <<>> = runN
  BY <1>1 DEF EdgeRuns
<1>5. CASE b = d /\ m \in {p, n}
  <2>1. /\ Run(m, b)' = IF m = p THEN runP ELSE runN
        /\ chain_run(m, b)' = <<>> /\ ChainOf(m, b, {})'
    <3>1. /\ Shaped /\ with_runs(d, p, runP, n, runN) /\ index' = index /\ p # n
          /\ Len(base_edges)' = Len(base_edges) /\ b = d /\ m \in {p, n}
      BY <1>1, <1>2, <1>5
    <3> QED BY ONLY <3>1, m \in 1..node_bound, b \in Direction, d \in Direction, WithRunsRead
  <2> QED BY <1>4, <1>5, <2>1 DEF Ordered
<1>6. CASE ~(b = d /\ m \in {p, n})
  <2>1. /\ Run(m, b)' = Run(m, b) /\ chain_run(m, b)' = chain_run(m, b)
        /\ \A C : ChainOf(m, b, C)' <=> ChainOf(m, b, C)
    BY <1>1, <1>2, <1>6, WithRunsRead
  <2> QED BY <1>6, <2>1 DEF Ordered
<1> QED BY <1>5, <1>6

(* The fields of the records afterwards.                                   *)
LEMMA RehungEnds ==
    ASSUME StoreInv, NEW p, NEW n \in 1..node_bound, NEW d \in Direction,
           NEW S, NEW runP, NEW runN, Rehung(S, p, n, d, runP, runN)
    PROVE  /\ edge_bound' = edge_bound
           /\ \A e \in 1..edge_bound : edges'[e].payload = edges[e].payload
           /\ \A e \in 1..edge_bound, b \in Direction :
                 edges'[e][b] = IF e \in S /\ b = d THEN n ELSE edges[e][b]
<1>1. Rewritten(S, d, n)
  BY RehungTable
<1> QED BY <1>1 DEF Rewritten, Fields, Direction

(* Two sets of pairs of one set that have the same pairs.                  *)
LEMMA SamePairsOf ==
    ASSUME NEW A, NEW S, S \subseteq A \X A, NEW T, T \subseteq A \X A,
           \A x, y \in A : <<x, y>> \in S <=> <<x, y>> \in T
    PROVE  S = T
<1>1. \A z \in S : z \in T
  OBVIOUS
<1>2. \A z \in T : z \in S
  OBVIOUS
<1> QED BY <1>1, <1>2

(* The order along the direction they were moved in.                       *)
LEMMA RehungBefore ==
    ASSUME StoreInv, StoreInv', NEW p \in 1..node_bound, NEW n \in 1..node_bound, p # n,
           NEW d \in Direction, NEW S, NEW runP, NEW runN, Rehung(S, p, n, d, runP, runN),
           RehungOrder(S, p, n, d, runP, runN)
    PROVE  ReadBefore(d)'
             = {r \in ReadBefore(d) : r[1] \in S <=> r[2] \in S}
                 \cup (({x \in live_edges : edges[x][d] = n} \ S) \X S)
<1> DEFINE R == ReadBefore(d)'
           Q == ReadBefore(d)
           own == {x \in live_edges : edges[x][d] = n} \ S
           T == {r \in Q : r[1] \in S <=> r[2] \in S} \cup (own \X S)
<1>1. /\ live_edges' = live_edges
      /\ \A e \in S : e \in live_edges /\ edges[e][d] = p
  BY DEF Rehung
<1>2. \A e \in 1..edge_bound : edges'[e][d] = IF e \in S THEN n ELSE edges[e][d]
  BY RehungEnds
<1>3. /\ live_edges \subseteq 1..edge_bound
      /\ \A x \in live_edges : edges[x][d] \in 1..node_bound
  <2>1. live_edges \subseteq 1..edge_bound
    BY MappedSlots
  <2> QED BY <2>1, EdgeEnds DEF StoreInv
<1>4. Q \subseteq live_edges \X live_edges
  BY ReadBeforeIs
<1>5. R \subseteq live_edges \X live_edges
  BY <1>1, ReadBeforeNext
<1>6. \A m \in 1..node_bound : \A x, y :
             /\ m = p => (Ordered(m, d, x, y)' <=> Precedes(runP, x, y))
             /\ m = n => (Ordered(m, d, x, y)' <=> Precedes(runN, x, y))
             /\ (m # p /\ m # n) => (Ordered(m, d, x, y)' <=> Ordered(m, d, x, y))
  BY RehungReads
<1>7. \A m \in 1..node_bound : \A x, y \in live_edges :
             Ordered(m, d, x, y) => edges[x][d] = m /\ edges[y][d] = m
  BY OrderedParts
<1>8. ASSUME NEW x \in live_edges, NEW y \in live_edges
      PROVE  <<x, y>> \in R <=> <<x, y>> \in T
  <2>1. PICK k : k = edges[x][d]
    OBVIOUS
  <2>2. PICK m : m = IF x \in S THEN n ELSE k
    OBVIOUS
  <2>3. edges'[x][d] = m
    BY <1>2, <1>3, <2>1, <2>2
  <2>4. <<x, y>> \in R <=> Ordered(m, d, x, y)'
    BY <1>1, <2>3, ReadAtNext
  <2>5. <<x, y>> \in Q <=> Ordered(k, d, x, y)
    BY <2>1, ReadBeforeIs
  <2> HIDE DEF R, Q
  <2>6. <<x, y>> \in T <=> \/ <<x, y>> \in Q /\ (x \in S <=> y \in S)
                           \/ k = n /\ x \notin S /\ y \in S
    BY <2>1
  <2> HIDE DEF T
  <2>7. /\ Precedes(runP, x, y) <=> (Ordered(p, d, x, y) /\ x \notin S /\ y \notin S)
        /\ Precedes(runN, x, y) <=> (\/ Ordered(n, d, x, y)
                                     \/ edges[x][d] = n /\ y \in S
                                     \/ x \in S /\ y \in S /\ Ordered(p, d, x, y))
    BY DEF RehungOrder
  <2>8. k \in 1..node_bound
    BY <1>3, <2>1
  <2>9. CASE x \in S
    <3>1. k = p /\ m = n
      BY <1>1, <2>1, <2>2, <2>9
    <3>2. ~Ordered(n, d, x, y)
      BY <1>7, <2>1, <3>1
    <3> QED BY <1>6, <2>1, <2>4, <2>5, <2>6, <2>7, <2>9, <3>1, <3>2
  <2>10. CASE x \notin S /\ k = p
    BY <1>6, <2>2, <2>4, <2>5, <2>6, <2>7, <2>10
  <2>11. CASE x \notin S /\ k = n
    BY <1>6, <2>1, <2>2, <2>4, <2>5, <2>6, <2>7, <2>11
  <2>12. CASE x \notin S /\ k # p /\ k # n
    <3>1. Ordered(k, d, x, y) => y \notin S
      BY <1>1, <1>7, <2>8, <2>12
    <3> QED BY <1>6, <2>2, <2>4, <2>5, <2>6, <2>8, <2>12, <3>1
  <2> QED BY <2>9, <2>10, <2>11, <2>12
<1>9. T \subseteq live_edges \X live_edges
  BY <1>1, <1>4
<1> HIDE DEF R, T
<1>10. R = T
  BY <1>5, <1>8, <1>9, SamePairsOf
<1> QED BY <1>10 DEF R, T

(* The other direction's is as it was.                                     *)
LEMMA RehungElsewhere ==
    ASSUME StoreInv, StoreInv', NEW p, NEW n \in 1..node_bound, p # n,
           NEW d \in Direction, NEW S, NEW runP, NEW runN, Rehung(S, p, n, d, runP, runN),
           NEW b \in Direction, b # d
    PROVE  ReadBefore(b)' = ReadBefore(b)
<1> DEFINE R == ReadBefore(b)'
           Q == ReadBefore(b)
<1>1. live_edges' = live_edges
  BY DEF Rehung
<1>2. \A e \in 1..edge_bound : edges'[e][b] = edges[e][b]
  BY SMTT(30), RehungEnds
<1>3. /\ live_edges \subseteq 1..edge_bound
      /\ \A x \in live_edges : edges[x][b] \in 1..node_bound
  <2>1. live_edges \subseteq 1..edge_bound
    BY MappedSlots
  <2> QED BY <2>1, EdgeEnds DEF StoreInv
<1>4. Q \subseteq live_edges \X live_edges
  BY ReadBeforeIs
<1>5. R \subseteq live_edges \X live_edges
  BY <1>1, ReadBeforeNext
<1>6. ASSUME NEW x \in live_edges, NEW y \in live_edges
      PROVE  <<x, y>> \in R <=> <<x, y>> \in Q
  <2>1. PICK m : m = edges[x][b]
    OBVIOUS
  <2>2. edges'[x][b] = m /\ m \in 1..node_bound
    BY <1>2, <1>3, <2>1
  <2>3. <<x, y>> \in R <=> Ordered(m, b, x, y)'
    BY <1>1, <2>2, ReadAtNext
  <2>4. <<x, y>> \in Q <=> Ordered(m, b, x, y)
    BY <2>1, ReadBeforeIs
  <2>5. Ordered(m, b, x, y)' <=> Ordered(m, b, x, y)
    BY <2>2, RehungReads
  <2> QED BY <2>3, <2>4, <2>5
<1> HIDE DEF R, Q
<1>7. R = Q
  BY <1>4, <1>5, <1>6, SamePairsOf
<1> QED BY <1>7 DEF R, Q

(* Both together: the multigraph's edges are attached to the other node.   *)
LEMMA RehungMaps ==
    ASSUME StoreInv, StoreInv', NEW p \in 1..node_bound, NEW n \in 1..node_bound, p # n,
           NEW d \in Direction, NEW S, NEW runP, NEW runN, Rehung(S, p, n, d, runP, runN),
           RehungOrder(S, p, n, d, runP, runN)
    PROVE  Abstract!Attach(S, n, d)
<1>1. /\ live_edges' = live_edges /\ live_nodes' = live_nodes
      /\ base_nodes' = base_nodes /\ delta_nodes' = delta_nodes
  BY DEF Rehung
<1>2. /\ node_ids = live_nodes /\ edge_ids = live_edges
      /\ node_ids' = live_nodes' /\ edge_ids' = live_edges'
      /\ live_edges \subseteq 1..edge_bound
  BY MappedSlots, MappedSlotsNext
<1>3. nodes' = nodes
  BY <1>1 DEF nodes
<1>4. /\ edge_bound' = edge_bound
      /\ \A e \in 1..edge_bound : edges'[e].payload = edges[e].payload
      /\ \A e \in 1..edge_bound, b \in Direction :
            edges'[e][b] = IF e \in S /\ b = d THEN n ELSE edges[e][b]
  <2>1. Rewritten(S, d, n)
    BY RehungTable
  <2> QED BY <2>1 DEF Rewritten, Fields, Direction
<1> DEFINE P == [i \in 1..edge_bound |-> edges[i].payload]
           N == [b \in Direction |-> [i \in 1..edge_bound |-> edges[i][b]]]
           F == [b \in Direction |-> ReadBefore(b)]
<1>5. P' = P
  BY <1>4
<1>6. N' = [N EXCEPT ![d] = [i \in 1..edge_bound |-> IF i \in S THEN n ELSE N[d][i]]]
  <2>1. N' = [b \in Direction |-> [i \in 1..edge_bound |-> edges'[i][b]]]
    BY <1>4
  <2>2. \A b \in Direction : [i \in 1..edge_bound |-> edges'[i][b]]
           = IF b = d THEN [i \in 1..edge_bound |-> IF i \in S THEN n ELSE N[d][i]] ELSE N[b]
    <3> SUFFICES ASSUME NEW b \in Direction
                 PROVE  [i \in 1..edge_bound |-> edges'[i][b]]
           = IF b = d THEN [i \in 1..edge_bound |-> IF i \in S THEN n ELSE N[d][i]] ELSE N[b]
      OBVIOUS
    <3>1. \A i \in 1..edge_bound : N[b][i] = edges[i][b]
      OBVIOUS
    <3>2. N[b] = [i \in 1..edge_bound |-> edges[i][b]]
      OBVIOUS
    <3>3. CASE b = d
      <4>1. \A i \in 1..edge_bound : edges'[i][b] = IF i \in S THEN n ELSE N[d][i]
        BY <1>4, <3>1, <3>3
      <4> QED BY <3>3, <4>1
    <3>4. CASE b # d
      <4>1. \A i \in 1..edge_bound : edges'[i][b] = edges[i][b]
        BY <1>4, <3>4
      <4> QED BY <3>2, <3>4, <4>1
    <3> QED BY <3>3, <3>4
  <2> QED BY <2>1, <2>2
<1>7. Abstract!At(d, n) = {x \in live_edges : edges[x][d] = n}
  <2>1. \A e \in live_edges :
           [b \in Direction |-> [f \in 1..edge_bound |-> edges[f][b]]][d][e] = edges[e][d]
    BY <1>2
  <2> QED BY <1>2, <2>1 DEF Abstract!At
<1>8. F' = [F EXCEPT ![d] = {r \in F[d] : r[1] \in S <=> r[2] \in S}
                              \cup ((Abstract!At(d, n) \ S) \X S)]
  <2>1. \A b \in Direction : b # d => ReadBefore(b)' = ReadBefore(b)
    BY RehungElsewhere
  <2>2. ReadBefore(d)' = {r \in ReadBefore(d) : r[1] \in S <=> r[2] \in S}
                 \cup ((Abstract!At(d, n) \ S) \X S)
    BY <1>7, RehungBefore
  <2>3. F' = [b \in Direction |-> ReadBefore(b)']
    OBVIOUS
  <2> HIDE DEF Abstract!At
  <2> QED BY <2>1, <2>2, <2>3
<1>9. Abstract!EdgeSlots = 1..edge_bound
  BY DEF Abstract!EdgeSlots
<1> HIDE DEF Abstract!At, Abstract!EdgeSlots
<1> QED BY <1>1, <1>2, <1>3, <1>5, <1>6, <1>8, <1>9 DEF Abstract!Attach

(* The mapped endpoints of a live edge.                                    *)
LEMMA MappedAt ==
    ASSUME StoreInv, NEW d \in Direction
    PROVE  /\ \A e \in live_edges :
                 [b \in Direction |-> [f \in 1..edge_bound |-> edges[f][b]]][d][e] = edges[e][d]
           /\ \A n : Abstract!At(d, n) = {e \in live_edges : edges[e][d] = n}
<1>1. edge_ids = live_edges /\ live_edges \subseteq 1..edge_bound
  BY MappedSlots
<1>2. \A e \in live_edges :
           [b \in Direction |-> [f \in 1..edge_bound |-> edges[f][b]]][d][e] = edges[e][d]
  BY <1>1
<1> QED BY <1>1, <1>2 DEF Abstract!At

(* redirect is Redirect.                                                   *)
LEMMA RedirectMaps ==
    ASSUME StoreInv, NEW e \in 1..edge_bound, NEW n \in 1..node_bound,
           NEW d \in Direction, redirect(e, n, d)
    PROVE  e \in edge_ids /\ n \in node_ids /\ Abstract!Redirect(e, n, d)
<1>1. StoreInv'
  BY RedirectStore
<1>2. PICK p : p = edges[e][d]
  OBVIOUS
<1>3. /\ e \in live_edges /\ n \in live_nodes /\ p \in 1..node_bound /\ p # n
      /\ \E runP, runN : /\ Rehung({e}, p, n, d, runP, runN)
                         /\ RehungOrder({e}, p, n, d, runP, runN)
  BY <1>2, RedirectRehangs
<1>4. PICK runP, runN : /\ Rehung({e}, p, n, d, runP, runN)
                        /\ RehungOrder({e}, p, n, d, runP, runN)
  BY <1>3
<1>5. Abstract!Attach({e}, n, d)
  BY <1>1, <1>3, <1>4, RehungMaps
<1>6. edge_ids = live_edges /\ node_ids = live_nodes
  BY MappedSlots
<1>7. [b \in Direction |-> [f \in 1..edge_bound |-> edges[f][b]]][d][e] # n
  BY <1>2, <1>3, MappedAt
<1> HIDE DEF Abstract!Attach
<1> QED BY <1>3, <1>5, <1>6, <1>7 DEF Abstract!Redirect

(* move_adjacency is MoveAdjacency.                                        *)
LEMMA MoveMaps ==
    ASSUME StoreInv, NEW old \in 1..node_bound, NEW new \in 1..node_bound,
           NEW d \in Direction, move_adjacency(old, new, d)
    PROVE  old \in node_ids /\ new \in node_ids /\ Abstract!MoveAdjacency(old, new, d)
<1>1. StoreInv'
  BY MoveStore
<1>2. PICK S : S = {e \in live_edges : edges[e][d] = old}
  OBVIOUS
<1>3. /\ old \in live_nodes /\ new \in live_nodes /\ old # new /\ S # {}
      /\ \E runP, runN : /\ Rehung(S, old, new, d, runP, runN)
                         /\ RehungOrder(S, old, new, d, runP, runN)
  BY <1>2, MoveRehangs
<1>4. PICK runP, runN : /\ Rehung(S, old, new, d, runP, runN)
                        /\ RehungOrder(S, old, new, d, runP, runN)
  BY <1>3
<1>5. Abstract!Attach(S, new, d)
  BY <1>1, <1>3, <1>4, RehungMaps
<1>6. edge_ids = live_edges /\ node_ids = live_nodes
  BY MappedSlots
<1>7. Abstract!At(d, old) = S
  BY <1>2, MappedAt
<1> HIDE DEF Abstract!Attach, Abstract!At
<1> QED BY <1>3, <1>5, <1>6, <1>7 DEF Abstract!MoveAdjacency

(* The abstract numbering is the one compaction uses.                      *)
LEMMA SameNumbering ==
    /\ \A S, s : Abstract!Rank(S, s) = Rank(S, s)
    /\ \A S, k : Abstract!Slot(S, k) = Slot(S, k)
    /\ \A S : Abstract!Cardinality(S) = Cardinality(S)
<1>1. \A S : Abstract!Cardinality(S) = Cardinality(S)
  BY DEF Abstract!Cardinality, Cardinality
<1>2. \A S, s : Abstract!Rank(S, s) = Rank(S, s)
  BY <1>1 DEF Abstract!Rank, Rank
<1>3. \A S, k : Abstract!Slot(S, k) = Slot(S, k)
  BY <1>2 DEF Abstract!Slot, Slot
<1> QED BY <1>1, <1>2, <1>3

(* The order compaction leaves.                                            *)
LEMMA CompactBefore ==
    ASSUME StoreInv, compact, NEW d \in Direction, NEW c, c = EdgeCount
    PROVE  ReadBefore(d)'
             = {r \in (1..c) \X (1..c) :
                  <<Slot(live_edges, r[1]), Slot(live_edges, r[2])>> \in ReadBefore(d)}
<1> DEFINE R == ReadBefore(d)'
           Q == ReadBefore(d)
           T == {r \in (1..c) \X (1..c) :
                  <<Slot(live_edges, r[1]), Slot(live_edges, r[2])>> \in Q}
<1>1. /\ StoreInv' /\ edges' = Kept
      /\ \A m \in 1..NodeCount, b \in Direction : \A k, l :
            Ordered(m, b, k, l)'
                   <=> (/\ k \in 1..EdgeCount /\ l \in 1..EdgeCount
                        /\ Ordered(Slot(live_nodes, m), b, Slot(live_edges, k),
                                                           Slot(live_edges, l)))
  BY CompactStore
<1>2. live_edges' = 1..c
  BY DEF compact, EdgeCount
<1>3. R \subseteq (1..c) \X (1..c)
  BY <1>1, <1>2, ReadBeforeNext
<1>4. T \subseteq (1..c) \X (1..c)
  OBVIOUS
<1>5. ASSUME NEW k \in 1..c, NEW l \in 1..c
      PROVE  <<k, l>> \in R <=> <<k, l>> \in T
  <2>1. PICK x : x = Slot(live_edges, k)
    OBVIOUS
  <2>2. PICK y : y = Slot(live_edges, l)
    OBVIOUS
  <2>3. PICK n : n = edges[x][d]
    OBVIOUS
  <2>4. PICK m : m = Rank(live_nodes, n)
    OBVIOUS
  <2>5. x \in live_edges /\ y \in live_edges
    BY <2>1, <2>2, LiveRanks
  <2>6. n \in live_nodes /\ m = edges'[k][d] /\ m \in 1..NodeCount
    BY <1>1, <2>1, <2>3, <2>4, KeptRead
  <2>7. Slot(live_nodes, m) = n
    BY <2>4, <2>6, LiveRanks
  <2>8. <<k, l>> \in R <=> Ordered(m, d, k, l)'
    BY <1>1, <1>2, <2>6, ReadAtNext
  <2>9. Ordered(m, d, k, l)' <=> Ordered(n, d, x, y)
    BY <1>1, <2>1, <2>2, <2>6, <2>7
  <2>10. <<x, y>> \in Q <=> Ordered(n, d, x, y)
    BY <2>3, <2>5, ReadBeforeIs
  <2> HIDE DEF R, Q
  <2>11. <<k, l>> \in T <=> <<x, y>> \in Q
    BY <2>1, <2>2
  <2> QED BY <2>8, <2>9, <2>10, <2>11
<1> HIDE DEF R, T
<1>6. R = T
  BY <1>3, <1>4, <1>5, SamePairsOf
<1> QED BY <1>6 DEF R, T

(* compact is Compact.                                                     *)
LEMMA CompactMaps ==
    ASSUME StoreInv, compact
    PROVE  Abstract!Compact
<1>c. PICK c : c = EdgeCount
  OBVIOUS
<1>h. PICK h : h = NodeCount
  OBVIOUS
<1>1. /\ StoreInv' /\ edges' = Kept /\ edge_bound' = c
      /\ nodes' = [k \in 1..h |-> nodes[Slot(live_nodes, k)]]
  BY <1>c, <1>h, CompactStore
<1>2. /\ node_ids = live_nodes /\ edge_ids = live_edges
      /\ node_ids' = live_nodes' /\ edge_ids' = live_edges'
      /\ live_edges \subseteq 1..edge_bound
  BY <1>1, MappedSlots, MappedSlotsNext
<1>3. live_edges' = 1..c /\ live_nodes' = 1..h
  BY <1>c, <1>h DEF compact, EdgeCount, NodeCount
<1>4. Abstract!Cardinality(node_ids) = h /\ Abstract!Cardinality(edge_ids) = c
  BY <1>2, <1>c, <1>h, SameNumbering DEF EdgeCount, NodeCount
<1>5. \A k \in 1..c :
         /\ Slot(live_edges, k) \in live_edges /\ Slot(live_edges, k) \in 1..edge_bound
         /\ edges'[k].payload = edges[Slot(live_edges, k)].payload
         /\ \A d \in Direction :
               edges'[k][d] = Rank(live_nodes, edges[Slot(live_edges, k)][d])
  BY <1>1, <1>2, <1>c, LiveRanks, KeptRead
<1> DEFINE P == [i \in 1..edge_bound |-> edges[i].payload]
           N == [d \in Direction |-> [i \in 1..edge_bound |-> edges[i][d]]]
           F == [d \in Direction |-> ReadBefore(d)]
<1>6. Abstract!Direction = Direction
  BY DEF Abstract!Direction, Direction
<1>7. \A k : Abstract!Slot(node_ids, k) = Slot(live_nodes, k)
  BY <1>2, SameNumbering
<1>8. \A k : Abstract!Slot(edge_ids, k) = Slot(live_edges, k)
  BY <1>2, SameNumbering
<1>9. \A s : Abstract!Rank(node_ids, s) = Rank(live_nodes, s)
  BY <1>2, SameNumbering
<1> HIDE DEF Abstract!Slot, Abstract!Rank, Abstract!Cardinality
<1>10. nodes' = [k \in 1..h |-> nodes[Abstract!Slot(node_ids, k)]]
  BY <1>1, <1>7
<1>11. P' = [k \in 1..c |-> P[Abstract!Slot(edge_ids, k)]]
  <2>1. P' = [k \in 1..c |-> edges'[k].payload]
    BY <1>1
  <2>2. \A k \in 1..c : edges'[k].payload = P[Slot(live_edges, k)]
    BY <1>5
  <2> HIDE DEF P
  <2> QED BY <1>8, <2>1, <2>2
<1>12. N' = [d \in Abstract!Direction |-> [k \in 1..c |->
               Abstract!Rank(node_ids, N[d][Abstract!Slot(edge_ids, k)])]]
  <2>1. N' = [d \in Direction |-> [k \in 1..c |-> edges'[k][d]]]
    BY <1>1
  <2>2. \A d \in Direction, k \in 1..c :
           edges'[k][d] = Abstract!Rank(node_ids, N[d][Abstract!Slot(edge_ids, k)])
    BY <1>5, <1>8, <1>9
  <2> HIDE DEF N
  <2> QED BY <1>6, <2>1, <2>2
<1>13. F' = [d \in Abstract!Direction |->
               {r \in (1..c) \X (1..c) :
                  <<Abstract!Slot(edge_ids, r[1]), Abstract!Slot(edge_ids, r[2])>> \in F[d]}]
  <2>1. \A d \in Direction : ReadBefore(d)'
           = {r \in (1..c) \X (1..c) :
                <<Slot(live_edges, r[1]), Slot(live_edges, r[2])>> \in ReadBefore(d)}
    BY <1>c, CompactBefore
  <2>2. \A d \in Direction : ReadBefore(d)'
           = {r \in (1..c) \X (1..c) :
                <<Abstract!Slot(edge_ids, r[1]), Abstract!Slot(edge_ids, r[2])>> \in F[d]}
    BY <1>8, <2>1
  <2>3. F' = [d \in Direction |-> ReadBefore(d)']
    OBVIOUS
  <2> HIDE DEF F
  <2> QED BY <1>6, <2>2, <2>3
<1> QED BY <1>2, <1>3, <1>4, <1>10, <1>11, <1>12, <1>13 DEF Abstract!Compact

(* The empty store is the empty multigraph.                                *)
LEMMA InitMaps ==
    ASSUME Init
    PROVE  Abstract!Init
<1>1. StoreInv
  BY StoreInit
<1>2. /\ node_ids = live_nodes /\ edge_ids = live_edges
      /\ DOMAIN nodes = 1..node_bound /\ nodes \in Seq(Payload)
  BY <1>1, MappedSlots
<1>3. /\ live_nodes = {} /\ live_edges = {} /\ node_bound = 0 /\ edge_bound = 0
  BY DEF Init, node_bound, edge_bound
<1>4. 1..0 = {}
  OBVIOUS
<1>5. nodes = [n \in 1..0 |-> CHOOSE p \in Payload : TRUE]
  <2>1. nodes = [n \in DOMAIN nodes |-> nodes[n]]
    BY <1>2
  <2> QED BY <1>2, <1>3, <1>4, <2>1
<1>6. [i \in 1..edge_bound |-> edges[i].payload] = [e \in 1..0 |-> CHOOSE p \in Payload : TRUE]
  BY <1>3, <1>4
<1>7. [d \in Direction |-> [i \in 1..edge_bound |-> edges[i][d]]]
        = [d \in Direction |-> [e \in 1..0 |-> 1]]
  BY <1>3, <1>4
<1>8. [d \in Direction |-> ReadBefore(d)] = [d \in Direction |-> {}]
  <2>1. \A d \in Direction : ReadBefore(d) \subseteq live_edges \X live_edges
    BY <1>1, ReadBeforeIs
  <2>2. \A d \in Direction : ReadBefore(d) = {}
    BY <1>3, <2>1
  <2> QED BY <2>2
<1>9. Abstract!Direction = Direction
  BY DEF Abstract!Direction, Direction
<1> QED BY <1>2, <1>3, <1>5, <1>6, <1>7, <1>8, <1>9 DEF Abstract!Init

(* Every step of the store is a step of the multigraph or none.            *)
LEMMA StepMaps ==
    ASSUME StoreInv, [Next]_vars
    PROVE  [Abstract!Next]_(Abstract!vars)
<1>0. /\ Abstract!NodeSlots = 1..node_bound /\ Abstract!EdgeSlots = 1..edge_bound
      /\ Abstract!Direction = Direction
  BY MappedSlots DEF Abstract!NodeSlots, Abstract!EdgeSlots, Abstract!Direction, Direction
<1>1. CASE \E p \in Payload : add_node(p)
  BY <1>1, AddNodeMaps DEF Abstract!Next
<1>2. CASE \E s, t \in 1..node_bound, p \in Payload : add_edge(s, t, p)
  BY <1>2, AddEdgeMaps DEF Abstract!Next
<1>3. CASE \E e \in 1..edge_bound : remove_edge(e)
  <2>1. \/ \E e \in edge_ids : Abstract!RemoveEdge(e)
        \/ UNCHANGED Abstract!vars
    BY <1>3, RemoveEdgeMaps
  <2> QED BY <2>1 DEF Abstract!Next
<1>4. CASE \E n \in 1..node_bound : remove_node(n)
  BY <1>4, RemoveNodeMaps DEF Abstract!Next
<1>5. CASE \E n \in 1..node_bound, p \in Payload : node_mut(n, p)
  BY <1>0, <1>5, NodeMutMaps DEF Abstract!Next
<1>6. CASE \E e \in 1..edge_bound, p \in Payload : edge_mut(e, p)
  BY <1>0, <1>6, EdgeMutMaps DEF Abstract!Next
<1>7. CASE \E e \in 1..edge_bound, n \in 1..node_bound, d \in Direction : redirect(e, n, d)
  BY <1>0, <1>7, RedirectMaps DEF Abstract!Next
<1>8. CASE \E old, new \in 1..node_bound, d \in Direction : move_adjacency(old, new, d)
  BY <1>0, <1>8, MoveMaps DEF Abstract!Next
<1>9. CASE compact
  BY <1>9, CompactMaps DEF Abstract!Next
<1>10. CASE UNCHANGED vars
  <2>1. /\ UNCHANGED <<base_nodes, delta_nodes, base_edges, delta_edges, index, chains,
                       live_nodes, live_edges, live_node_count, live_edge_count, relocations>>
        /\ StoreInv'
    BY <1>10, StoreStep DEF vars
  <2>2. UNCHANGED <<edges, edge_bound, nodes>>
    BY <2>1 DEF edges, edge_bound, nodes
  <2>3. /\ node_ids = live_nodes /\ edge_ids = live_edges
        /\ node_ids' = live_nodes' /\ edge_ids' = live_edges'
    BY <2>1, MappedSlots, MappedSlotsNext
  <2>4. [d \in Direction |-> ReadBefore(d)]' = [d \in Direction |-> ReadBefore(d)]
    BY <2>1, <2>2, BeforeKept
  <2> QED BY <2>1, <2>2, <2>3, <2>4 DEF Abstract!vars
<1> QED BY <1>1, <1>2, <1>3, <1>4, <1>5, <1>6, <1>7, <1>8, <1>9, <1>10 DEF Next

(* The store implements the ordered multigraph: whatever is in its base, its*)
(* delta, its chains and its overlays, each operation does to what the walks*)
(* read exactly what OrderedMultigraph says, compaction included.          *)
THEOREM StoreImplementsMultigraph == Spec => ImplementsOrderedMultigraph
<1>1. Init => Abstract!Init
  BY InitMaps
<1>2. StoreInv /\ [Next]_vars => [Abstract!Next]_(Abstract!vars)
  BY StepMaps
<1> QED BY <1>1, <1>2, StoreAlways, PTL DEF Spec, ImplementsOrderedMultigraph, Abstract!Spec
=============================================================================

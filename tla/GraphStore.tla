----------------------------- MODULE GraphStore -----------------------------
(***************************************************************************)
(* `Graph`, the store of src/crates/cfglib/src/graph/store: a compressed   *)
(* base, an appendable delta threaded by circular chains, liveness bits,   *)
(* and overlay runs for the nodes whose edges were redirected.             *)
(*                                                                         *)
(* Slots are numbered from 1 (the code: from 0), so NONE is 0 (the code:   *)
(* u32::MAX).  Offsets into the flat edge array count from 0 as they do in *)
(* the code.  A liveness bitset is the set of its live slots; how they are *)
(* packed into words is left out.                                          *)
(***************************************************************************)
EXTENDS Slots, Sequences

VARIABLES
    base_nodes, delta_nodes,   \* payloads, in slot order
    base_edges, delta_edges,   \* edge records, in slot order
    index,                     \* index[d]: CSR offsets and edges of the base
    chains,                    \* last: per node, next: per delta edge
    live_nodes, live_edges,
    live_node_count, live_edge_count,
    relocations                \* relocations[d]: overlay runs, by node

vars == <<base_nodes, delta_nodes, base_edges, delta_edges, index, chains,
          live_nodes, live_edges, live_node_count, live_edge_count,
          relocations>>

Direction == {"out", "in"}
NONE == 0
UNLINKED == [d \in Direction |-> NONE]
NoChains == [last |-> <<>>, next |-> <<>>]

EdgeRecord(s, t, p) == [out |-> s, in |-> t, payload |-> p]
-----------------------------------------------------------------------------
(* Slot spaces and liveness.  A store without tombstones answers from its  *)
(* counters alone.                                                         *)
node_bound == Len(base_nodes) + Len(delta_nodes)
edge_bound == Len(base_edges) + Len(delta_edges)

nodes == base_nodes \o delta_nodes
edges == base_edges \o delta_edges

tombstoned_nodes == live_node_count # node_bound
tombstoned_edges == live_edge_count # edge_bound

node_is_live(n) == n \in 1..node_bound /\ (tombstoned_nodes => n \in live_nodes)
edge_is_live(e) == e \in 1..edge_bound /\ (tombstoned_edges => e \in live_edges)

node_ids == {n \in 1..node_bound : node_is_live(n)}
edge_ids == {e \in 1..edge_bound : edge_is_live(e)}
-----------------------------------------------------------------------------
(* The new number of every live slot, NONE for the removed ones.           *)
surviving_slots(live, slots) ==
    [s \in 1..slots |->
        IF s \in live THEN Cardinality({t \in live : t <= s}) ELSE NONE]

(* The elements of a slot sequence that survive, in slot order.            *)
Surviving(seq, map, count) ==
    [k \in 1..count |-> seq[CHOOSE s \in DOMAIN map : map[s] = k]]
-----------------------------------------------------------------------------
(* Reading adjacency.                                                      *)

(* The elements of a run that the walk does not skip.                      *)
LiveOf(run) ==
    LET read[i \in 0..Len(run)] ==
            IF i = 0 THEN <<>>
            ELSE IF run[i] \in live_edges THEN Append(read[i-1], run[i])
            ELSE read[i-1]
    IN  IF tombstoned_edges THEN read[Len(run)] ELSE run

base_run(n, d) ==
    IF n < Len(index[d].offsets)
    THEN SubSeq(index[d].edges, index[d].offsets[n] + 1, index[d].offsets[n+1])
    ELSE <<>>

(* The delta edges along d after `last`, as many as there are of them.     *)
ring(next, last, d) ==
    LET walk[i \in 1..Len(next)] == next[IF i = 1 THEN last ELSE walk[i-1]][d]
    IN  walk

(* The ring of n's chain along d from its first delta edge to its last, as *)
(* edge identities.  `last` names the last element, next[last] the first.  *)
chain_run(n, d) ==
    IF n > Len(chains.last) \/ chains.last[n][d] = NONE THEN <<>>
    ELSE LET last == chains.last[n][d]
             walk == ring(chains.next, last, d)
             length == CHOOSE i \in 1..Len(chains.next) :
                          walk[i] = last /\ \A j \in 1..(i-1) : walk[j] # last
         IN  [i \in 1..length |-> Len(base_edges) + walk[i]]

has_overlay(n, d) == n \in DOMAIN relocations[d]

(* The walk of n's live edges along d.  A removed node starts exhausted,   *)
(* but an overlay, when it has one, is installed after that decision.      *)
adjacent(n, d) ==
    LET exhausted == tombstoned_nodes /\ n \notin live_nodes
        run == IF has_overlay(n, d) THEN relocations[d][n]
               ELSE IF exhausted THEN <<>> ELSE base_run(n, d)
        delta == IF exhausted THEN <<>> ELSE chain_run(n, d)
    IN  LiveOf(run \o delta)

degree(n, d) ==
    LET exhausted == tombstoned_nodes /\ n \notin live_nodes
        run == IF has_overlay(n, d) THEN Len(relocations[d][n])
               ELSE IF exhausted \/ n >= Len(index[d].offsets) THEN 0
               ELSE index[d].offsets[n+1] - index[d].offsets[n]
    IN  IF tombstoned_edges THEN Len(adjacent(n, d))
        ELSE run + (IF exhausted THEN 0 ELSE Len(chain_run(n, d)))
-----------------------------------------------------------------------------
Init ==
    /\ base_nodes = <<>> /\ delta_nodes = <<>>
    /\ base_edges = <<>> /\ delta_edges = <<>>
    /\ index = [d \in Direction |-> [offsets |-> <<>>, edges |-> <<>>]]
    /\ chains = NoChains
    /\ live_nodes = {} /\ live_edges = {}
    /\ live_node_count = 0 /\ live_edge_count = 0
    /\ relocations = [d \in Direction |-> <<>>]

(* Mutant of add_node: the last slot number is the sentinel's.             *)
add_node_past_limit(p) ==
    /\ node_bound <= MaxNodeSlots
    /\ delta_nodes' = Append(delta_nodes, p)
    /\ live_nodes' = live_nodes \cup {node_bound + 1}
    /\ live_node_count' = live_node_count + 1
    /\ UNCHANGED <<base_nodes, base_edges, delta_edges, index, chains,
                   live_edges, live_edge_count, relocations>>

add_node(p) ==
    /\ node_bound < MaxNodeSlots
    /\ delta_nodes' = Append(delta_nodes, p)
    /\ live_nodes' = live_nodes \cup {node_bound + 1}
    /\ live_node_count' = live_node_count + 1
    /\ UNCHANGED <<base_nodes, base_edges, delta_edges, index, chains,
                   live_edges, live_edge_count, relocations>>

(* One slot pair for every node, materialized by the first append.         *)
materialize(last) ==
    [n \in 1..node_bound |-> IF n <= Len(last) THEN last[n] ELSE UNLINKED]

(* Splice `appended` in as the last element of n's ring along d.           *)
thread(c, n, d, appended) ==
    LET last == c.last[n][d]
    IN  [last |-> [c.last EXCEPT ![n][d] = appended],
         next |-> IF last = NONE
                  THEN [c.next EXCEPT ![appended][d] = appended]
                  ELSE [c.next EXCEPT ![appended][d] = c.next[last][d],
                                      ![last][d] = appended]]

append(s, t) ==
    LET appended == Len(chains.next) + 1
        grown == [last |-> IF Len(chains.last) < node_bound
                           THEN materialize(chains.last) ELSE chains.last,
                  next |-> Append(chains.next, UNLINKED)]
    IN  thread(thread(grown, s, "out", appended), t, "in", appended)

add_edge(s, t, p) ==
    /\ node_is_live(s) /\ node_is_live(t)
    /\ edge_bound < MaxEdgeSlots
    /\ delta_edges' = Append(delta_edges, EdgeRecord(s, t, p))
    /\ chains' = append(s, t)
    /\ live_edges' = live_edges \cup {edge_bound + 1}
    /\ live_edge_count' = live_edge_count + 1
    /\ UNCHANGED <<base_nodes, delta_nodes, base_edges, index, live_nodes,
                   live_node_count, relocations>>

(* Mutant of retire_edges: counts a bit that was already clear.            *)
retire_edges_unconditionally(S) ==
    /\ live_edges' = live_edges \ S
    /\ live_edge_count' = live_edge_count - Cardinality(S)

(* Clear the liveness bits of the edges of S, counting the ones that had   *)
(* been live.                                                              *)
retire_edges(S) ==
    /\ live_edges' = live_edges \ S
    /\ live_edge_count' = live_edge_count - Cardinality(S \cap live_edges)

remove_edge(e) ==
    /\ retire_edges({e})
    /\ UNCHANGED <<base_nodes, delta_nodes, base_edges, delta_edges, index,
                   chains, live_nodes, live_node_count, relocations>>

Elements(run) == {run[i] : i \in DOMAIN run}

(* Both axes are walked; a self edge is retired by the first walk.         *)
remove_node(n) ==
    /\ node_is_live(n)
    /\ retire_edges(Elements(adjacent(n, "out")) \cup Elements(adjacent(n, "in")))
    /\ live_nodes' = live_nodes \ {n}
    /\ live_node_count' = live_node_count - 1
    /\ UNCHANGED <<base_nodes, delta_nodes, base_edges, delta_edges, index,
                   chains, relocations>>

node_mut(n, p) ==
    /\ IF n <= Len(base_nodes)
       THEN /\ base_nodes' = [base_nodes EXCEPT ![n] = p]
            /\ UNCHANGED delta_nodes
       ELSE /\ delta_nodes' = [delta_nodes EXCEPT ![n - Len(base_nodes)] = p]
            /\ UNCHANGED base_nodes
    /\ UNCHANGED <<base_edges, delta_edges, index, chains, live_nodes,
                   live_edges, live_node_count, live_edge_count, relocations>>

(* Write v to one field of the records of the edges in S, wherever they    *)
(* sit.                                                                    *)
UpdateRecords(S, field, v) ==
    /\ base_edges' = [e \in DOMAIN base_edges |->
          IF e \in S THEN [base_edges[e] EXCEPT ![field] = v] ELSE base_edges[e]]
    /\ delta_edges' = [i \in DOMAIN delta_edges |->
          IF Len(base_edges) + i \in S THEN [delta_edges[i] EXCEPT ![field] = v]
                                       ELSE delta_edges[i]]

edge_mut(e, p) ==
    /\ UpdateRecords({e}, "payload", p)
    /\ UNCHANGED <<base_nodes, delta_nodes, index, chains, live_nodes,
                   live_edges, live_node_count, live_edge_count, relocations>>
-----------------------------------------------------------------------------
(* Redirection.                                                            *)

IsPowerOfTwo(k) == \E i \in 0..k : k = 2^i

(* Drop the removed edges from a run whose length is a power of two.       *)
sweep(run) == IF IsPowerOfTwo(Len(run)) THEN LiveOf(run) ELSE run

(* Mutant of taken_run: an existing overlay leaves the chain behind.       *)
taken_run_without_drain(n, d) ==
    IF has_overlay(n, d) THEN relocations[d][n]
    ELSE LiveOf(base_run(n, d)) \o LiveOf(chain_run(n, d))

(* The run with_run hands to its edit: the overlay, or a first one started *)
(* from the live base run, followed by the chain it takes over.            *)
taken_run(n, d) ==
    (IF has_overlay(n, d) THEN relocations[d][n] ELSE LiveOf(base_run(n, d)))
      \o LiveOf(chain_run(n, d))

(* Mutant of RemoveFrom: the redirected edge stays where it was.           *)
RemoveFrom_nothing(run, e) == run

(* The run without the first occurrence of e, if there is one.             *)
RemoveFrom(run, e) ==
    IF e \notin Elements(run) THEN run
    ELSE LET at == CHOOSE i \in DOMAIN run :
                      run[i] = e /\ \A j \in 1..(i-1) : run[j] # e
         IN  SubSeq(run, 1, at - 1) \o SubSeq(run, at + 1, Len(run))

(* Mutant of with_runs: the drained chains are not detached.               *)
with_runs_keeping_chains(d, n1, run1, n2, run2) ==
    /\ relocations' = [relocations EXCEPT ![d] =
          [n \in DOMAIN @ \cup {n1, n2} |->
              IF n = n1 THEN run1 ELSE IF n = n2 THEN run2 ELSE @[n]]]
    /\ UNCHANGED chains

(* Two nodes' overlays along d become the runs given, and the chains they  *)
(* took over are forgotten.                                                *)
with_runs(d, n1, run1, n2, run2) ==
    /\ relocations' = [relocations EXCEPT ![d] =
          [n \in DOMAIN @ \cup {n1, n2} |->
              IF n = n1 THEN run1 ELSE IF n = n2 THEN run2 ELSE @[n]]]
    /\ chains' = [chains EXCEPT !.last =
          [n \in DOMAIN @ |->
              IF n \in {n1, n2} THEN [@[n] EXCEPT ![d] = NONE] ELSE @[n]]]

redirect(e, n, d) ==
    LET previous == edges[e][d]
    IN  /\ edge_is_live(e) /\ node_is_live(n)
        /\ previous # n
        /\ UpdateRecords({e}, d, n)
        /\ with_runs(d, previous, RemoveFrom(sweep(taken_run(previous, d)), e),
                        n, Append(sweep(taken_run(n, d)), e))
        /\ UNCHANGED <<base_nodes, delta_nodes, index, live_nodes, live_edges,
                       live_node_count, live_edge_count>>

move_adjacency(old, new, d) ==
    LET moved == LiveOf(taken_run(old, d))
    IN  /\ old # new
        /\ adjacent(old, d) # <<>>
        /\ node_is_live(new)
        /\ UpdateRecords(Elements(moved), d, new)
        /\ with_runs(d, old, <<>>, new, sweep(taken_run(new, d)) \o moved)
        /\ UNCHANGED <<base_nodes, delta_nodes, index, live_nodes, live_edges,
                       live_node_count, live_edge_count>>
-----------------------------------------------------------------------------
(* Compaction.                                                             *)

take_live_nodes(node_map) == Surviving(nodes, node_map, Cardinality(live_nodes))

take_live_edges(node_map, edge_map) ==
    [k \in 1..Cardinality(live_edges) |->
        LET record == Surviving(edges, edge_map, Cardinality(live_edges))[k]
        IN  EdgeRecord(node_map[record.out], node_map[record.in],
                       record.payload)]

(* Counting placement: every run in slot order.                            *)
compress(records, count, d) ==
    LET Before(e, f) == \/ records[e][d] < records[f][d]
                        \/ records[e][d] = records[f][d] /\ e < f
        all == DOMAIN records
        Position(e) == Cardinality({f \in all : Before(f, e)}) + 1
    IN  [offsets |-> [n \in 1..(count + 1) |->
                        Cardinality({e \in all : records[e][d] < n})],
         edges   |-> [i \in all |-> CHOOSE e \in all : Position(e) = i]]

IsSorted(run) == \A i \in 1..(Len(run) - 1) : run[i] <= run[i+1]

(* The surviving nodes whose own run is not in identity order, with the    *)
(* order they read in, in the new numbering.                               *)
reordered_adjacency(d, node_map, edge_map) ==
    LET reordered == {n \in 1..node_bound :
                        /\ node_map[n] # NONE
                        /\ ~IsSorted(IF has_overlay(n, d) THEN relocations[d][n]
                                                          ELSE base_run(n, d))}
    IN  [m \in {node_map[n] : n \in reordered} |->
            LET walk == adjacent(CHOOSE n \in reordered : node_map[n] = m, d)
            IN  [i \in DOMAIN walk |-> edge_map[walk[i]]]]

(* Mutant of restore_runs: every run is left in identity order.            *)
restore_runs_never(idx, runs) == idx

(* Overwrite the slices of the nodes in `runs` with their runs.            *)
restore_runs(idx, runs) ==
    LET Covers(m, i) == /\ i > idx.offsets[m]
                        /\ i <= idx.offsets[m] + Len(runs[m])
    IN  [idx EXCEPT !.edges =
            [i \in DOMAIN @ |->
                IF \E m \in DOMAIN runs : Covers(m, i)
                THEN LET m == CHOOSE m \in DOMAIN runs : Covers(m, i)
                     IN  runs[m][i - idx.offsets[m]]
                ELSE @[i]]]

compact ==
    LET node_map == surviving_slots(live_nodes, node_bound)
        edge_map == surviving_slots(live_edges, edge_bound)
        kept == take_live_edges(node_map, edge_map)
    IN  /\ base_nodes' = take_live_nodes(node_map)
        /\ base_edges' = kept
        /\ index' = [d \in Direction |->
              restore_runs(compress(kept, Cardinality(live_nodes), d),
                           reordered_adjacency(d, node_map, edge_map))]
        /\ delta_nodes' = <<>> /\ delta_edges' = <<>>
        /\ live_nodes' = 1..Cardinality(live_nodes)
        /\ live_edges' = 1..Cardinality(live_edges)
        /\ live_node_count' = Cardinality(live_nodes)
        /\ live_edge_count' = Cardinality(live_edges)
        /\ chains' = NoChains
        /\ relocations' = [d \in Direction |-> <<>>]

has_relocations == \E d \in Direction : DOMAIN relocations[d] # {}

is_compact ==
    /\ delta_nodes = <<>> /\ delta_edges = <<>>
    /\ live_node_count = Len(base_nodes)
    /\ live_edge_count = Len(base_edges)
    /\ ~has_relocations
-----------------------------------------------------------------------------
Next ==
    \/ \E p \in Payload : add_node(p)
    \/ \E s, t \in 1..node_bound, p \in Payload : add_edge(s, t, p)
    \/ \E e \in 1..edge_bound : remove_edge(e)
    \/ \E n \in 1..node_bound : remove_node(n)
    \/ \E n \in 1..node_bound, p \in Payload : node_mut(n, p)
    \/ \E e \in 1..edge_bound, p \in Payload : edge_mut(e, p)
    \/ \E e \in 1..edge_bound, n \in 1..node_bound, d \in Direction :
          redirect(e, n, d)
    \/ \E old, new \in 1..node_bound, d \in Direction :
          move_adjacency(old, new, d)
    \/ compact

Spec == Init /\ [][Next]_vars
-----------------------------------------------------------------------------
(* The columns have the shapes the code's vectors have, and every slot     *)
(* number they hold is in range.                                           *)
TypeOK ==
    /\ base_nodes \in Seq(Payload) /\ delta_nodes \in Seq(Payload)
    /\ node_bound <= MaxNodeSlots /\ edge_bound <= MaxEdgeSlots
    /\ \A e \in 1..edge_bound :
          edges[e] \in [out: 1..node_bound, in: 1..node_bound, payload: Payload]
    /\ DOMAIN index = Direction
    /\ \A n \in DOMAIN chains.last : chains.last[n] \in [Direction -> 0..Len(delta_edges)]
    /\ \A i \in DOMAIN chains.next : chains.next[i] \in [Direction -> 1..Len(delta_edges)]
    /\ live_nodes \subseteq 1..node_bound
    /\ live_edges \subseteq 1..edge_bound
    /\ live_node_count \in Nat /\ live_edge_count \in Nat
    /\ DOMAIN relocations = Direction

(* The live counters are what the bitsets hold, so the two shortcuts that  *)
(* answer liveness from a counter alone (node_is_live, edge_is_live) agree *)
(* with the bits in every state.                                           *)
LivenessExact ==
    /\ live_node_count = Cardinality(live_nodes)
    /\ live_edge_count = Cardinality(live_edges)
    /\ node_ids = live_nodes
    /\ edge_ids = live_edges

(* check_adjacency: a live node's walk reads each of its live edges once,  *)
(* in both directions, and a removed node reads nothing although it may    *)
(* still own an overlay run.                                               *)
MirroredAdjacency ==
    \A n \in 1..node_bound, d \in Direction :
        LET walk == adjacent(n, d)
        IN  /\ Elements(walk) = {e \in edge_ids : edges[e][d] = n}
            /\ Len(walk) = Cardinality(Elements(walk))
            /\ n \notin node_ids => walk = <<>>

(* What reading a run by halves rests on: degree's shortcut through the    *)
(* offsets counts what the walk reads, and ("the delta chain never breaks  *)
(* the order", the premise of reordered_adjacency) whatever was redirected *)
(* and removed, a node's chain is ascending and holds only identities      *)
(* above those of the run it follows.                                      *)
RunThenChain ==
    \A n \in 1..node_bound, d \in Direction :
        LET run == IF has_overlay(n, d) THEN relocations[d][n] ELSE base_run(n, d)
            chain == chain_run(n, d)
        IN  /\ degree(n, d) = Len(adjacent(n, d))
            /\ IsSorted(chain)
            /\ \A i \in DOMAIN run, j \in DOMAIN chain : run[i] < chain[j]

(* check_index: an empty index of a store never compacted, or one run per  *)
(* base node that together list each base edge.                            *)
check_index(d) ==
    LET offsets == index[d].offsets
        listed  == index[d].edges
    IN  \/ offsets = <<>> /\ listed = <<>> /\ base_nodes = <<>> /\ base_edges = <<>>
        \/ /\ Len(offsets) = Len(base_nodes) + 1
           /\ Len(listed) = Len(base_edges)
           /\ offsets[1] = 0 /\ offsets[Len(offsets)] = Len(listed)
           /\ \A i \in 1..Len(base_nodes) : offsets[i] <= offsets[i+1]
           /\ \A i \in DOMAIN listed : listed[i] \in 1..Len(base_edges)

(* DeltaChains::check: every chain is a ring of its node's own edges that  *)
(* comes back to its last element, and no edge is in two of them.          *)
check_chains(d) ==
    /\ Len(chains.last) <= node_bound
    /\ Len(chains.next) = Len(delta_edges)
    /\ \A n \in DOMAIN chains.last :
          LET last == chains.last[n][d]
              own == {i \in DOMAIN delta_edges : delta_edges[i][d] = n}
              walk == ring(chains.next, last, d)
          IN  last # NONE =>
                \E k \in 1..Len(chains.next) :
                   /\ walk[k] = last
                   /\ \A i \in 1..k : walk[i] \in own
                   /\ \A i, j \in 1..k : walk[i] = walk[j] => i = j

(* Runs::from_encoded: an overlay belongs to a node slot and names edges.  *)
from_encoded(d) ==
    /\ DOMAIN relocations[d] \subseteq 1..node_bound
    /\ \A n \in DOMAIN relocations[d] :
          Elements(relocations[d][n]) \subseteq 1..edge_bound

(* Whatever was done to a store, what it serializes is a document that     *)
(* Stored::try_from accepts: no store the library wrote is refused.        *)
DocumentAccepted ==
    /\ node_bound <= MaxNodeSlots /\ edge_bound <= MaxEdgeSlots
    /\ live_node_count = Cardinality(live_nodes) /\ live_nodes \subseteq 1..node_bound
    /\ live_edge_count = Cardinality(live_edges) /\ live_edges \subseteq 1..edge_bound
    /\ \A e \in 1..edge_bound, d \in Direction : edges[e][d] \in 1..node_bound
    /\ \A d \in Direction : check_index(d) /\ check_chains(d) /\ from_encoded(d)
    /\ MirroredAdjacency

(* The doc of Graph::node_bound says that "a removed node remains a node   *)
(* of the view, with no edges"; the view iterates node_ids.                *)
ViewKeepsRemovedNodes == node_ids = 1..node_bound

(* The order in which the nodes' walks read the edges along d.             *)
ReadBefore(d) ==
    UNION {LET walk == adjacent(n, d)
           IN  UNION {{<<walk[i], walk[j]>> : i \in 1..(j-1)} : j \in DOMAIN walk}
           : n \in node_ids}

Abstract == INSTANCE OrderedMultigraph WITH
    nodePayload <- nodes,
    edgePayload <- [e \in 1..edge_bound |-> edges[e].payload],
    ends        <- [d \in Direction |-> [e \in 1..edge_bound |-> edges[e][d]]],
    liveNodes   <- node_ids,
    liveEdges   <- edge_ids,
    before      <- [d \in Direction |-> ReadBefore(d)]

(* Every operation of the store, compaction included, does to the ordered  *)
(* multigraph its walks read exactly what OrderedMultigraph says: the      *)
(* split in base, delta, chain and overlay cannot be observed.             *)
ImplementsOrderedMultigraph == Abstract!Spec
=============================================================================

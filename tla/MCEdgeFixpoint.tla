--------------------------- MODULE MCEdgeFixpoint ---------------------------
(***************************************************************************)
(* The problems given to the edge-sensitive solver: plain ones on every    *)
(* graph of two nodes, parallel edges, self-loops and a dead slot among    *)
(* them, and lifted ones (Reachable) on every graph of three nodes.  The   *)
(* meet is commutative, so that edges are numbered by where they run.      *)
(***************************************************************************)
EXTENDS EdgeFixpoint

CONSTANTS Reached,      \* the atom that makes a fact Some
          PlainNodes    \* the nodes of a plain problem

Ends(k) == (0..(k - 1)) \X (0..(k - 1))
Place(k, x) == x[1] * k + x[2]
Graphs(k) ==
    {g \in [EdgeSlots -> Ends(k)] :
        \A d, e \in EdgeSlots : d < e => Place(k, g[d]) <= Place(k, g[e])}

(* A normal edge observes the end of its source, an exceptional one its    *)
(* start, and one with a fact of its own may draw on both.                 *)
OnOutput == [f \in Fact \X Fact |-> f[2]]
OnInput == [f \in Fact \X Fact |-> f[1]]
OnBoth == [f \in Fact \X Fact |-> f[1] \cup f[2]]

LiftedMap(f) == [x \in Fact |-> IF x = {} THEN {} ELSE f]
Keep == [x \in Fact |-> x]

Problem(g, live, direction, seeds, boundary, nodes, edges, rejects, limit) ==
    [live |-> live, source |-> [e \in EdgeSlots |-> g[e][1]],
     target |-> [e \in EdgeSlots |-> g[e][2]],
     direction |-> direction, seeds |-> seeds, boundary |-> boundary,
     transfer_node |-> nodes, transfer_edge |-> edges,
     rejects_node |-> [n \in Nodes |-> IF n = 1 THEN rejects ELSE {}],
     rejects_edge |-> [e \in EdgeSlots |->
                          IF e = 1 THEN {<<f, f>> : f \in rejects} ELSE {}],
     limit |-> limit]

AtEntry(f) == [n \in Nodes |-> IF n = 0 THEN f ELSE {}]

Only(k, t) == [n \in Nodes |-> IF n < k THEN t[n] ELSE Keep]
PlainMaps == {Keep, [x \in Fact |-> Atoms \ x], [x \in Fact |-> {Reached}]}
               \cup {[x \in Fact |-> IF Reached \in x THEN Atoms ELSE {Reached}]}

Plain ==
    {Problem(g, l, d, 0..(PlainNodes - 1), AtEntry(Atoms), Only(PlainNodes, t),
             te, {}, NoLimit) :
        g \in Graphs(PlainNodes), l \in {EdgeSlots, EdgeSlots \ {0}},
        d \in {"forward", "backward"},
        t \in [0..(PlainNodes - 1) -> PlainMaps],
        te \in [EdgeSlots -> {OnOutput, OnBoth}]}

Stopped ==
    {Problem(g, EdgeSlots, "forward", {0}, AtEntry(Atoms), Only(PlainNodes, t),
             [e \in EdgeSlots |-> OnOutput], s[1], s[2]) :
        g \in Graphs(PlainNodes), t \in [0..(PlainNodes - 1) -> PlainMaps],
        s \in {<<{Atoms}, NoLimit>>, <<{}, 3>>, <<{}, PlainNodes>>}}

Reaching ==
    {Problem(g, EdgeSlots, "forward", S, AtEntry({Reached}), t, te, {}, NoLimit) :
        g \in Graphs(Bound), S \in {{0}, Nodes},
        t \in {t \in [Nodes -> {Keep, LiftedMap(Atoms)}] : t[Bound - 1] = Keep},
        te \in [EdgeSlots -> {OnOutput, OnInput}]}

Enumerated == Plain \cup Stopped \cup Reaching
=============================================================================

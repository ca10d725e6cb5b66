--------------------------- MODULE MCNodeFixpoint ---------------------------
(***************************************************************************)
(* The problems given to the solvers.  Reversing every edge turns a        *)
(* backward problem without a root into a forward one, so that only the    *)
(* plain full solve is enumerated in both directions.                      *)
(***************************************************************************)
EXTENDS NodeFixpoint

CONSTANT MaxInputEdges    \* the most edges of a graph

Graphs == {E \in SUBSET (Nodes \X Nodes) : Cardinality(E) <= MaxInputEdges}
Transfers == {[x \in Fact |-> {}], [x \in Fact |-> Atoms], [x \in Fact |-> x]}

Start(direction, root, seeds, limit, rejects) ==
    [direction |-> direction, root |-> root, seeds |-> seeds,
     limit |-> limit, rejects |-> rejects]

Nothing == [n \in Nodes |-> {}]
LastRejects == [n \in Nodes |-> IF n = Bound - 1 THEN {Atoms} ELSE {}]

Starts ==
    {Start(d, NoRoot, AllNodes, NoLimit, Nothing) : d \in {"forward", "backward"}}
      \cup {Start("forward", 0, AllNodes, NoLimit, r) : r \in {Nothing, LastRejects}}
      \cup {Start("backward", 0, AllNodes, NoLimit, LastRejects)}
      \cup {Start("forward", 0, AllNodes, l, Nothing) : l \in 0..(Bound + 1)}
      \cup {Start("forward", 0, S, NoLimit, Nothing) :
               S \in {T \in SUBSET Nodes : Cardinality(T) = 1}}

Enumerated ==
    {[edges |-> E, direction |-> s.direction, root |-> s.root,
      seeds |-> s.seeds, boundary |-> Atoms, transfer |-> t,
      rejects |-> s.rejects, limit |-> s.limit] :
        E \in Graphs, s \in Starts, t \in [Nodes -> Transfers]}
=============================================================================

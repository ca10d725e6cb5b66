---------------------------- MODULE MCCfgPasses ----------------------------
(***************************************************************************)
(* Two families of inputs of InputBlocks blocks.                           *)
(***************************************************************************)
EXTENDS CfgPasses, FiniteSetsExt

CONSTANTS InputBlocks,   \* blocks of an input
          InputEdges     \* the most edges of an input

Handler(b, body, f) == [entry |-> b, body |-> body, filter |-> f]
Region(S, handler) ==
    [id |-> 1, protected_blocks |-> S, handlers |-> <<handler>>, parent |-> 0]

(* No exception metadata; a catch whose body is known; a filter; a cleanup *)
(* that ends in its handler.                                               *)
Metadata ==
    {[regions |-> <<>>, cleanups |-> <<>>],
     [regions |-> <<Region({1, 2}, Handler(3, <<{3}>>, 0))>>, cleanups |-> <<>>],
     [regions |-> <<Region({1}, Handler(2, <<>>, 3))>>, cleanups |-> <<>>],
     [regions |-> <<Region({1}, Handler(2, <<>>, 0))>>,
      cleanups |-> <<[handler |-> [region |-> 1, index |-> 1],
                      resume_from |-> 2,
                      continuations |-> {[reason |-> "normal", resume |-> 3]}]>>]}

Blocks == 1..InputBlocks
EdgeRecords(kinds) == [source : Blocks, target : Blocks, kind : kinds]

SeqOf(S) == CHOOSE s \in [1..Cardinality(S) -> S] :
               \A i, j \in DOMAIN s : i # j => s[i] # s[j]

GraphsWith(edges, fulls, metadata) ==
    {[instructions |-> [b \in Blocks |-> IF b \in full THEN <<b>> ELSE <<>>],
      edges |-> edges, live_blocks |-> Blocks,
      live_edges |-> DOMAIN edges, entry |-> 1,
      regions |-> m.regions, cleanups |-> m.cleanups] :
        full \in fulls, m \in metadata}

(* Edges of one kind, no two alike; any block empty; any metadata.         *)
RegionGraphs ==
    UNION {GraphsWith(SeqOf(E), SUBSET Blocks, Metadata) :
              E \in UNION {kSubset(k, EdgeRecords({"fallthrough"})) :
                              k \in 0..InputEdges}}

(* One edge fewer, but of any kind and parallel ones too, numbered by      *)
(* where they run; no metadata, the third block empty.                     *)
EdgeLists ==
    LET At(edge) == InputBlocks * edge.source + edge.target
    IN  {list \in [1..(InputEdges - 1) -> EdgeRecords(Kinds)] :
            \A i, j \in DOMAIN list : i < j => At(list[i]) <= At(list[j])}
KindGraphs ==
    UNION {GraphsWith(list, {{1, 2}}, {[regions |-> <<>>, cleanups |-> <<>>]}) :
              list \in EdgeLists}

Graphs == RegionGraphs \cup KindGraphs

(* Metadata is tried on simplify, which runs the three cleanup passes in   *)
(* turn, and on merge_blocks alone, where empty blocks are folded too;     *)
(* kinds on each pass by itself.                                           *)
SuitedInit ==
    /\ PassInit
    /\ \/ cfg \in RegionGraphs /\ pass.name \in {"simplify", "merge"}
       \/ cfg \in KindGraphs /\ pass.name # "simplify"

SuitedSpec ==
    SuitedInit /\ [][PassNext]_passVars /\ WF_passVars(PassNext)
=============================================================================

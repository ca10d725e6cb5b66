------------------------------- MODULE MCCfg -------------------------------
(***************************************************************************)
(* A client that takes over a built graph: three blocks in one of a few    *)
(* shapes, at most one region with one or two handlers, possibly a         *)
(* cleanup; then every sequence of at most MaxSteps structural mutations.  *)
(* Or one that starts from the empty graph and edits it in every way, at   *)
(* most ScratchSteps times, within two blocks, edges and instructions.     *)
(***************************************************************************)
EXTENDS Cfg

CONSTANTS MaxSteps,     \* operations after the load
          ScratchSteps, \* operations on the empty graph
          Shapes,       \* the edge lists the loaded graph may have
          Cleaned       \* the cleanup records it may have

VARIABLES steps,        \* operations so far
          scratch       \* whether the client started from the empty graph

Catch(b, body) == [entry |-> b, body |-> <<body>>, filter |-> 0]
Filtered(b, f) == [entry |-> b, body |-> <<>>, filter |-> f]
Region(S, handlers) ==
    [id |-> 1, protected_blocks |-> S, handlers |-> handlers, parent |-> 0]

(* A catch with a known body, a filter with an unknown one, and both.      *)
FewRegions ==
    {Region({1, 2}, <<Catch(3, {2, 3})>>),
     Region({1}, <<Filtered(2, 3)>>),
     Region({3}, <<Catch(2, {2}), Filtered(1, 1)>>)}

TinyRegions == {Region({1}, <<Catch(2, {2})>>), Region({2}, <<Filtered(1, 2)>>)}

(* A chain, and a loop whose header is the second block.                   *)
ChainAndLoop == {<< <<1, 2>>, <<2, 3>> >>, << <<1, 2>>, <<2, 3>>, <<3, 2>> >>}

Ends(b) == [handler |-> [region |-> 1, index |-> 1], resume_from |-> b,
            continuations |-> {[reason |-> "normal", resume |-> 3]}]
FewCleanups == {<<>>, <<Ends(2)>>}

EdgeList(shape) ==
    [e \in DOMAIN shape |-> [source |-> shape[e][1], target |-> shape[e][2],
                             kind |-> "fallthrough"]]

LoadedInit ==
    /\ ~scratch
    /\ \E shape \in Shapes, region \in FewRegions, cleanups \in Cleaned :
          cfg = [instructions |-> << <<1, 2>>, <<3>>, <<>> >>,
                 edges |-> EdgeList(shape),
                 live_blocks |-> 1..3, live_edges |-> DOMAIN shape,
                 entry |-> 1, regions |-> <<region>>, cleanups |-> cleanups]
    /\ origin = Identities(cfg)
    /\ rewrite = new

LoadedNext == ~scratch /\ steps < MaxSteps /\ (Reroute \/ Rearrange)

Small(c) == /\ Len(c.instructions) <= 2 /\ Len(c.edges) <= 2
            /\ Tags(c, Slots(c)) \subseteq 1..2
ScratchNext == scratch /\ steps < ScratchSteps /\ Next /\ Small(cfg')

MCInit ==
    /\ steps = 0 /\ scratch \in BOOLEAN
    /\ \/ scratch /\ Init
       \/ LoadedInit
MCNext == (LoadedNext \/ ScratchNext) /\ steps' = steps + 1 /\ UNCHANGED scratch
MCSpec == MCInit /\ [][MCNext]_<<vars, steps, scratch>>
=============================================================================

---------------------------- MODULE MCGraphStore ----------------------------
(***************************************************************************)
(* Two clients of the store.  One starts from nothing and does anything    *)
(* but write payloads, within ScratchNodes nodes and ScratchEdges edges.   *)
(* The other first builds and compacts a graph of three nodes and four     *)
(* edges, and then does at most MaxSteps operations, moving edges between  *)
(* the Hot nodes along one direction and writing the payloads of the last  *)
(* slots: it reaches the runs of length four, the unsorted base runs and   *)
(* the second compactions the first is too small for.                      *)
(***************************************************************************)
EXTENDS GraphStore

CONSTANTS ScratchNodes, ScratchEdges,
          MaxSteps,   \* operations of the second client after the build
          Hot,        \* the nodes it moves edges between and removes
          p, q        \* two payloads

VARIABLES client, steps

(* Endpoints of the edges built: a node with three edges, two of them      *)
(* parallel, and a self edge.                                              *)
Shape == << <<1, 2>>, <<1, 2>>, <<1, 3>>, <<2, 2>> >>
BuildSteps == 3 + Len(Shape) + 1

ClientInit == Init /\ client \in {"scratch", "builder"} /\ steps = 0

Scratch ==
    /\ client = "scratch"
    /\ \/ node_bound < ScratchNodes /\ add_node(p)
       \/ edge_bound < ScratchEdges /\ \E s, t \in 1..node_bound : add_edge(s, t, p)
       \/ \E e \in 1..edge_bound : remove_edge(e)
       \/ \E n \in 1..node_bound : remove_node(n)
       \/ \E e \in 1..edge_bound, n \in 1..node_bound, d \in Direction :
             redirect(e, n, d)
       \/ \E old, new \in 1..node_bound, d \in Direction :
             move_adjacency(old, new, d)
       \/ compact
    /\ UNCHANGED <<client, steps>>

Build ==
    \/ steps < 3 /\ add_node(IF steps = 1 THEN q ELSE p)
    \/ /\ steps \in 3..(2 + Len(Shape))
       /\ LET e == steps - 2
          IN  add_edge(Shape[e][1], Shape[e][2], IF e % 2 = 0 THEN p ELSE q)
    \/ steps = BuildSteps - 1 /\ compact

Edit ==
    \/ add_node(q)
    \/ \E n \in Hot : n \in 1..node_bound /\ add_edge(n, n, q)
    \/ \E e \in 1..edge_bound : remove_edge(e)
    \/ \E n \in Hot : n \in 1..node_bound /\ remove_node(n)
    \/ \E e \in 1..edge_bound, n \in Hot :
          n \in 1..node_bound /\ redirect(e, n, "out")
    \/ \E old, new \in Hot :
          {old, new} \subseteq 1..node_bound /\ move_adjacency(old, new, "out")
    \/ node_bound # 0 /\ node_mut(node_bound, p)
    \/ edge_bound # 0 /\ edge_mut(edge_bound, p)
    \/ compact

Builder ==
    /\ client = "builder"
    /\ \/ steps < BuildSteps /\ Build
       \/ steps \in BuildSteps..(BuildSteps + MaxSteps - 1) /\ Edit
    /\ steps' = steps + 1
    /\ UNCHANGED client

ClientNext == Scratch \/ Builder
ClientSpec == ClientInit /\ [][ClientNext]_<<vars, client, steps>>
=============================================================================

------------------------------ MODULE Digraph ------------------------------
(***************************************************************************)
(* A graph as the generic algorithms read it                               *)
(* (src/crates/cfglib/src/graph/view.rs): a bound on the indices, the live *)
(* nodes, and forward and reverse adjacency that describe one multiset of  *)
(* edges; and what reachability means in it, for the algorithms' results   *)
(* to be compared with.                                                    *)
(***************************************************************************)
EXTENDS Integers, Sequences, SequencesExt, FiniteSetsExt

CONSTANT Bound    \* node_bound, above every index the view yields

ASSUME BoundAssumption == Bound \in Nat

VARIABLE graph    \* what the algorithms are given

Slots == 0..(Bound - 1)

(* Edges in the order they were added, each a source and a target.         *)
ViewType == [live : SUBSET Slots, edges : Seq(Slots \X Slots)]

successors(g, n) ==
    LET out == SelectSeq(g.edges, LAMBDA e : e[1] = n)
    IN  [i \in DOMAIN out |-> out[i][2]]

predecessors(g, n) ==
    LET in == SelectSeq(g.edges, LAMBDA e : e[2] = n)
    IN  [i \in DOMAIN in |-> in[i][1]]
-----------------------------------------------------------------------------
(* What the nodes S reach on ways that avoid the nodes in avoided: after   *)
(* as many steps as there are slots nothing is added.                      *)
Reach(g, S, avoided) ==
    LET stepped(X) == X \cup {e[2] : e \in {d \in Range(g.edges) :
                                              d[1] \in X /\ d[2] \notin avoided}}
        after[k \in 0..Bound] ==
          IF k = 0 THEN S \ avoided
          ELSE LET before == after[k - 1] IN stepped(before)
    IN  after[Bound]

Reaches(g, u, v) == v \in Reach(g, {u}, {})
=============================================================================

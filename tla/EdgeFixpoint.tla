---------------------------- MODULE EdgeFixpoint ----------------------------
(***************************************************************************)
(* The edge-sensitive dataflow solver                                      *)
(* (src/crates/cfglib/src/dataflow/edge_fixpoint.rs): a fact on every edge *)
(* besides the two of every node, and only the far end of an edge whose    *)
(* fact changed is queued again.                                           *)
(*                                                                         *)
(* Facts are sets of atoms met by union, as in NodeFixpoint, so that a     *)
(* boundary that is absent is the one that adds nothing.  The lifting of   *)
(* Reachable is the same lattice with an atom of its own, Reached: a fact  *)
(* with it is Some of the rest, the empty fact is None.                    *)
(***************************************************************************)
EXTENDS Worklist, FiniteSets

CONSTANTS Bound,      \* the graph's nodes are 0..(Bound - 1)
          EdgeBound,  \* its edge slots are 0..(EdgeBound - 1)
          Atoms,      \* what facts are made of
          Problems,   \* the problems given to the solver
          MaxSteps    \* where the count of steps stops, above any limit

Nodes == 0..(Bound - 1)
EdgeSlots == 0..(EdgeBound - 1)
Fact == SUBSET Atoms
bottom == {}

NoLimit == -1     \* an unbounded SolveConfig
NoFacts == [input |-> << >>, output |-> << >>, edge |-> << >>]

(* A slot whose edge was removed, or that a filtered view leaves out, is   *)
(* not live.  transfer_edge takes a node's two facts in program order.     *)
ProblemType ==
    [live : SUBSET EdgeSlots, source : [EdgeSlots -> Nodes],
     target : [EdgeSlots -> Nodes], direction : {"forward", "backward"},
     seeds : SUBSET Nodes, boundary : [Nodes -> Fact],
     transfer_node : [Nodes -> [Fact -> Fact]],
     transfer_edge : [EdgeSlots -> [Fact \X Fact -> Fact]],
     rejects_node : [Nodes -> SUBSET Fact],
     rejects_edge : [EdgeSlots -> SUBSET (Fact \X Fact)],
     limit : (0..MaxSteps) \cup {NoLimit}]

ASSUME SolverAssumption ==
    {Bound, EdgeBound, MaxSteps} \subseteq Nat /\ Problems \subseteq ProblemType

VARIABLES problem,    \* what is being solved
          worklist,
          input, output,  \* the facts of every node, in program order
          edge,       \* the fact on every live edge
          steps,
          result,     \* "running", "ok", "limit" or "problem"
          facts       \* what a solve that succeeds returns

vars == <<problem, worklist, input, output, edge, steps, result, facts>>
-----------------------------------------------------------------------------
(* The edges that leave node n along the flow of facts, the node such an   *)
(* edge leads to, and the edges that bring facts to n.                     *)
downstream(p, n) ==
    {e \in p.live :
        n = IF p.direction = "forward" THEN p.source[e] ELSE p.target[e]}
next(p, e) == IF p.direction = "forward" THEN p.target[e] ELSE p.source[e]
upstream(p, n) == {e \in p.live : n = next(p, e)}

(* Mutant of Init: an edge begins with the boundary of the node it leads   *)
(* to.                                                                     *)
Init_at_boundary ==
    /\ problem \in Problems
    /\ worklist = of(problem.seeds)
    /\ input = [n \in Nodes |-> bottom]
    /\ output = [n \in Nodes |-> bottom]
    /\ edge = [e \in problem.live |-> problem.boundary[next(problem, e)]]
    /\ steps = 0
    /\ result = "running"
    /\ facts = NoFacts

Init ==
    /\ problem \in Problems
    /\ worklist = of(problem.seeds)
    /\ input = [n \in Nodes |-> bottom]
    /\ output = [n \in Nodes |-> bottom]
    /\ edge = [e \in problem.live |-> bottom]
    /\ steps = 0
    /\ result = "running"
    /\ facts = NoFacts

(* Mutant of meet_edges: a boundary counts only where no edge comes in.    *)
meet_edges_or_boundary(p, on, n) ==
    (IF upstream(p, n) = {} THEN p.boundary[n] ELSE {})
      \cup UNION {on[e] : e \in upstream(p, n)}

meet_edges(p, on, n) ==
    p.boundary[n] \cup UNION {on[e] : e \in upstream(p, n)}

(* A node's facts in program order, whichever way they flow.               *)
program_order(direction, entering, leaving) ==
    IF direction = "forward" THEN <<entering, leaving>> ELSE <<leaving, entering>>

(* The facts node n would have, and what its downstream edges would carry, *)
(* given the facts on the edges.                                           *)
NodeFacts(p, on, n) ==
    LET entering == meet_edges(p, on, n)
    IN  program_order(p.direction, entering, p.transfer_node[n][entering])

Rejected(p, on, n) ==
    \/ meet_edges(p, on, n) \in p.rejects_node[n]
    \/ \E e \in downstream(p, n) : NodeFacts(p, on, n) \in p.rejects_edge[e]

StepLimit(n) ==
    /\ problem.limit # NoLimit /\ steps >= problem.limit
    /\ result' = "limit"
    /\ worklist' = pop_first(worklist, n)
    /\ UNCHANGED <<problem, input, output, edge, steps, facts>>

(* Mutant of Changed: every edge counts as changed.                        *)
Changed_always(p, on, n, f) == downstream(p, n)

(* Mutant of Changed: an edge is skipped when the node's output stands.    *)
Changed_with_output(p, on, n, f) ==
    {e \in downstream(p, n) :
        p.transfer_edge[e][f] # on[e] /\ output[n] # f[2]}

(* The edges of n whose fact changes when n's facts become f.              *)
Changed(p, on, n, f) ==
    {e \in downstream(p, n) : p.transfer_edge[e][f] # on[e]}

visit(n) ==
    LET f == NodeFacts(problem, edge, n)
        changed == Changed(problem, edge, n, f)
    IN  /\ problem.limit = NoLimit \/ steps < problem.limit
        /\ steps' = IF steps < MaxSteps THEN steps + 1 ELSE steps
        /\ IF Rejected(problem, edge, n)
           THEN /\ result' = "problem"
                /\ worklist' = pop_first(worklist, n)
                /\ UNCHANGED <<input, output, edge>>
           ELSE /\ input' = [input EXCEPT ![n] = f[1]]
                /\ output' = [output EXCEPT ![n] = f[2]]
                /\ edge' = [e \in problem.live |->
                              IF e \in changed THEN problem.transfer_edge[e][f]
                              ELSE edge[e]]
                /\ worklist' = insert(pop_first(worklist, n),
                                      {next(problem, e) : e \in changed})
                /\ UNCHANGED result
        /\ UNCHANGED <<problem, facts>>

(* The facts so far, as EdgeFacts holds them.                              *)
Held == [input |-> input, output |-> output, edge |-> edge]

Finish ==
    /\ PopsNothing(worklist)
    /\ result' = "ok"
    /\ facts' = Held
    /\ UNCHANGED <<problem, worklist, input, output, edge, steps>>

Next ==
    /\ result = "running"
    /\ \/ \E n \in Nodes : IsFirst(worklist, n) /\ (StepLimit(n) \/ visit(n))
       \/ Finish

(* The loop is one call that runs to its end.                              *)
Spec == Init /\ [][Next]_vars /\ WF_vars(Next)
-----------------------------------------------------------------------------
TypeOK ==
    /\ problem \in ProblemType
    /\ worklist \in [queued : SUBSET Nodes, cursor : Nat]
    /\ input \in [Nodes -> Fact] /\ output \in [Nodes -> Fact]
    /\ edge \in [problem.live -> Fact]
    /\ steps \in Nat
    /\ result \in {"running", "ok", "limit", "problem"}
    /\ facts \in {NoFacts, Held}

(* Node n and what leaves it agree with what comes to it, in facts v.      *)
Balanced(v, n) ==
    /\ <<v.input[n], v.output[n]>> = NodeFacts(problem, v.edge, n)
    /\ \A e \in downstream(problem, n) :
          v.edge[e] = problem.transfer_edge[e][<<v.input[n], v.output[n]>>]

(* Nothing was ever asked of node n: it is no seed and nothing came to it. *)
Untouched(v, n) ==
    /\ n \notin problem.seeds
    /\ v.input[n] = bottom /\ v.output[n] = bottom
    /\ \A e \in upstream(problem, n) \cup downstream(problem, n) :
          v.edge[e] = bottom

(* The facts returned are a solution: at every node the solve came to, the *)
(* facts that enter it are the meet of its boundary and the facts on its   *)
(* edges, the others are their transfer, and each edge that leaves carries *)
(* the transfer of the two.  Everywhere else all facts are bottom.         *)
ReturnsSolution ==
    result = "ok" => \A n \in Nodes : Balanced(facts, n) \/ Untouched(facts, n)

(* Edge facts that no visit would exceed; a solution has such facts.       *)
Bounds(s) ==
    \A n \in Nodes : \A e \in downstream(problem, n) :
        problem.transfer_edge[e][NodeFacts(problem, s, n)] \subseteq s[e]
Monotone ==
    /\ \A n \in Nodes : \A g \in Fact : \A f \in SUBSET g :
          problem.transfer_node[n][f] \subseteq problem.transfer_node[n][g]
    /\ \A e \in problem.live : \A g \in Fact \X Fact :
          \A f \in (SUBSET g[1]) \X (SUBSET g[2]) :
             problem.transfer_edge[e][f] \subseteq problem.transfer_edge[e][g]

(* At every moment the facts on the edges are below every solution, so     *)
(* that the one returned is the least, in whatever order nodes are visited.*)
NeverOvershoots ==
    Monotone => \A s \in [problem.live -> Fact] :
                   Bounds(s) => \A e \in problem.live : edge[e] \subseteq s[e]

(* Reachable(problem): unreached is the bottom of every transfer, and a    *)
(* transfer of a reached fact is reached.                                  *)
Lifted ==
    /\ \A n \in Nodes : \A f \in Fact :
          problem.transfer_node[n][f] = bottom <=> f = bottom
    /\ \A e \in problem.live : \A f, g \in Fact :
          (f = bottom <=> g = bottom) =>
             (problem.transfer_edge[e][<<f, g>>] = bottom <=> f = bottom)

ReachedFrom(S) ==
    {n \in Nodes :
        \A T \in SUBSET Nodes :
            S \subseteq T
              /\ (\A m \in T : {next(problem, e) : e \in downstream(problem, m)}
                                 \subseteq T)
            => n \in T}

(* A lifted problem has no fact exactly where execution does not reach:    *)
(* None at a node means that no path leads to it from a seed that has an   *)
(* entry fact.                                                             *)
NoneIsUnreached ==
    result = "ok" /\ Lifted =>
        \A n \in Nodes :
            facts.input[n] # bottom
              <=> n \in ReachedFrom({m \in problem.seeds :
                                        problem.boundary[m] # bottom})

(* Every solve of a monotone problem returns.                              *)
Returns == Monotone ~> result # "running"
=============================================================================

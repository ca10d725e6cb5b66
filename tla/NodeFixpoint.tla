---------------------------- MODULE NodeFixpoint ----------------------------
(***************************************************************************)
(* The block and node dataflow solvers: node_fixpoint.rs and fixpoint.rs   *)
(* of src/crates/cfglib/src/dataflow, which share one loop.                *)
(*                                                                         *)
(* Facts are sets of atoms and the meet is union: a powerset lattice, in   *)
(* which an intersection problem is the one of the complements.  A problem *)
(* is a record: the edges, the direction, the solver it is given to (and   *)
(* the root, for blocks), the seeds of a seeded solve, the boundary fact,  *)
(* a transfer function for every node, the facts every node rejects, and   *)
(* the step limit.  A boundary fact that cannot be built is reported       *)
(* before the loop starts, and is left out.                                *)
(***************************************************************************)
EXTENDS Worklist, FiniteSets

CONSTANTS Bound,      \* the graph's nodes are 0..(Bound - 1)
          Atoms,      \* what facts are made of
          Problems,   \* the problems given to the solvers
          MaxSteps    \* where the count of steps stops, above any limit

Nodes == 0..(Bound - 1)
Fact == SUBSET Atoms
bottom == {}

NoRoot == -1      \* the node solver has no root
NoLimit == -1     \* an unbounded SolveConfig
AllNodes == {-1}  \* a solve that was given no seeds
NoFacts == [input |-> << >>, output |-> << >>]

ProblemType ==
    [edges : SUBSET (Nodes \X Nodes), direction : {"forward", "backward"},
     root : Nodes \cup {NoRoot}, seeds : (SUBSET Nodes) \cup {AllNodes},
     boundary : Fact, transfer : [Nodes -> [Fact -> Fact]],
     rejects : [Nodes -> SUBSET Fact], limit : (0..MaxSteps) \cup {NoLimit}]

ASSUME SolverAssumption ==
    {Bound, MaxSteps} \subseteq Nat /\ Problems \subseteq ProblemType

VARIABLES problem,    \* what is being solved
          worklist, input, output, steps,
          result,     \* "running", "ok", "limit" or "problem"
          facts       \* what a solve that succeeds returns

vars == <<problem, worklist, input, output, steps, result, facts>>
-----------------------------------------------------------------------------
(* Where the facts of node n go, and where they come from.                 *)
downstream(p, n) ==
    {m \in Nodes : (IF p.direction = "forward" THEN <<n, m>> ELSE <<m, n>>)
                      \in p.edges}
upstream(p, n) == {m \in Nodes : n \in downstream(p, m)}

Reached(p) ==
    {n \in Nodes :
        \A T \in SUBSET Nodes :
            p.root \in T /\ (\A m \in T : downstream(p, m) \subseteq T)
                => n \in T}

(* The nodes queued to begin with.                                         *)
initial_worklist(p) ==
    IF p.seeds # AllNodes THEN p.seeds
    ELSE IF p.root # NoRoot /\ p.direction = "forward" THEN Reached(p)
    ELSE Nodes

entry(p) == IF p.direction = "forward" THEN p.root ELSE NoRoot

(* Mutant of Init: everyone starts at the boundary.                         *)
Init_at_boundary ==
    /\ problem \in Problems
    /\ worklist = of(initial_worklist(problem))
    /\ input = [n \in Nodes |-> bottom]
    /\ output = [n \in Nodes |-> problem.boundary]
    /\ steps = 0
    /\ result = "running"
    /\ facts = NoFacts

Init ==
    /\ problem \in Problems
    /\ worklist = of(initial_worklist(problem))
    /\ input = [n \in Nodes |-> bottom]
    /\ output = [n \in Nodes |-> bottom]
    /\ steps = 0
    /\ result = "running"
    /\ facts = NoFacts

(* What flows into node n, given everyone's output.                        *)
met(p, out, n) ==
    (IF n = entry(p) \/ upstream(p, n) = {} THEN p.boundary ELSE {})
      \cup UNION {out[m] : m \in upstream(p, n)}

StepLimit(n) ==
    /\ problem.limit # NoLimit /\ steps >= problem.limit
    /\ result' = "limit"
    /\ worklist' = pop_first(worklist, n)
    /\ UNCHANGED <<problem, input, output, steps, facts>>

(* Mutant of visit: downstream is told whether or not anything changed.    *)
visit_telling_always(n) ==
    LET in == met(problem, output, n)
        out == problem.transfer[n][in]
    IN  /\ problem.limit = NoLimit \/ steps < problem.limit
        /\ steps' = IF steps < MaxSteps THEN steps + 1 ELSE steps
        /\ IF in \in problem.rejects[n]
           THEN /\ result' = "problem"
                /\ worklist' = pop_first(worklist, n)
                /\ UNCHANGED <<input, output>>
           ELSE /\ input' = [input EXCEPT ![n] = in]
                /\ output' = [output EXCEPT ![n] = out]
                /\ worklist' = insert(pop_first(worklist, n),
                                      downstream(problem, n))
                /\ UNCHANGED result
        /\ UNCHANGED <<problem, facts>>

visit(n) ==
    LET in == met(problem, output, n)
        out == problem.transfer[n][in]
    IN  /\ problem.limit = NoLimit \/ steps < problem.limit
        /\ steps' = IF steps < MaxSteps THEN steps + 1 ELSE steps
        /\ IF in \in problem.rejects[n]
           THEN /\ result' = "problem"
                /\ worklist' = pop_first(worklist, n)
                /\ UNCHANGED <<input, output>>
           ELSE /\ input' = [input EXCEPT ![n] = in]
                /\ output' = [output EXCEPT ![n] = out]
                /\ worklist' = IF out # output[n]
                               THEN insert(pop_first(worklist, n),
                                           downstream(problem, n))
                               ELSE pop_first(worklist, n)
                /\ UNCHANGED result
        /\ UNCHANGED <<problem, facts>>

(* Facts are returned in program order, whichever way they flowed.         *)
program_order(direction, entering, leaving) ==
    IF direction = "forward" THEN [input |-> entering, output |-> leaving]
    ELSE [input |-> leaving, output |-> entering]

Finish ==
    /\ PopsNothing(worklist)
    /\ result' = "ok"
    /\ facts' = program_order(problem.direction, input, output)
    /\ UNCHANGED <<problem, worklist, input, output, steps>>

Next ==
    /\ result = "running"
    /\ \/ \E n \in Nodes : IsFirst(worklist, n) /\ (StepLimit(n) \/ visit(n))
       \/ Finish

(* The loop is one call that runs to its end.                              *)
Spec == Init /\ [][Next]_vars /\ WF_vars(Next)
-----------------------------------------------------------------------------
TypeOK ==
    /\ problem \in ProblemType
    /\ worklist \in [queued : SUBSET Nodes, cursor : Nat]
    /\ input \in [Nodes -> Fact] /\ output \in [Nodes -> Fact]
    /\ steps \in Nat
    /\ result \in {"running", "ok", "limit", "problem"}
    /\ \/ facts = NoFacts
       \/ facts \in [input : [Nodes -> Fact], output : [Nodes -> Fact]]

(* The nodes whose facts the solve answers for: the ones it began with and *)
(* whatever something was handed to.                                       *)
Settled(p, out) ==
    initial_worklist(p)
      \cup UNION {downstream(p, n) : n \in {m \in Nodes : out[m] # bottom}}

Balanced(entering, leaving, n) ==
    /\ entering[n] = met(problem, leaving, n)
    /\ leaving[n] = problem.transfer[n][entering[n]]

Untouched(entering, leaving, n) ==
    /\ n \notin Settled(problem, leaving)
    /\ entering[n] = bottom /\ leaving[n] = bottom

(* A node's facts are at rest: settled, or never asked for.                *)
AtRest(entering, leaving, n) ==
    Balanced(entering, leaving, n) \/ Untouched(entering, leaving, n)

(* The facts returned are a solution.  Going forward, at every node the    *)
(* solve answers for, the input is the meet of the predecessors' outputs   *)
(* and the output its transfer; going backward the output is the meet of   *)
(* the successors' inputs and the input its transfer.  The rest is bottom. *)
ReturnsSolution ==
    result = "ok" =>
        \A n \in Nodes :
            IF problem.direction = "forward" THEN AtRest(facts.input, facts.output, n)
            ELSE AtRest(facts.output, facts.input, n)

(* Outputs that no node wants to exceed; a solution is such a bound.       *)
Bounds(s) ==
    \A n \in Nodes : problem.transfer[n][met(problem, s, n)] \subseteq s[n]
Monotone ==
    \A n \in Nodes : \A f, g \in Fact :
        f \subseteq g => problem.transfer[n][f] \subseteq problem.transfer[n][g]

(* At every moment the facts are below every solution, so that what is     *)
(* returned does not depend on the order of the visits: it is the least.   *)
NeverOvershoots ==
    Monotone => \A s \in [Nodes -> Fact] :
                   Bounds(s) => \A n \in Nodes : output[n] \subseteq s[n]

(* A problem that rejects a fact and every larger one is reported as       *)
(* rejected only if every solution is rejected.                            *)
RejectsRightly ==
    result = "problem" /\ Monotone
      /\ (\A n \in Nodes : \A f \in problem.rejects[n] : \A g \in Fact :
             f \subseteq g => g \in problem.rejects[n])
    => \A s \in [Nodes -> Fact] :
          Bounds(s) => \E n \in Nodes : met(problem, s, n) \in problem.rejects[n]

(* The work is bounded: a node is visited once, and once more for every    *)
(* time something upstream grew, so a step limit this high never fires.    *)
WorkBound ==
    Cardinality(initial_worklist(problem))
      + Cardinality(problem.edges) * Cardinality(Atoms)
StepsBounded ==
    Monotone => /\ steps <= WorkBound
                /\ result = "limit" => problem.limit < WorkBound

(* A solve that ends without facts was right to: its problem rejects every *)
(* solution, or it needs more visits than it was allowed (try_solve_along).*)
StopsRightly == RejectsRightly /\ StepsBounded

(* Every solve of a monotone problem returns.                              *)
Returns == Monotone ~> result # "running"
=============================================================================

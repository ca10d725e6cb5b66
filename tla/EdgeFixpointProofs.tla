------------------------- MODULE EdgeFixpointProofs -------------------------
(***************************************************************************)
(* For every graph, powerset lattice and transfer of nodes and edges: what *)
(* the edge-sensitive solver returns is a solution, and the least one if   *)
(* the transfers are monotone.                                             *)
(***************************************************************************)
EXTENDS EdgeFixpoint

AtRest(v, n) == Balanced(v, n) \/ Untouched(v, n)

(* A node that is not queued needs no visit.                               *)
Quiet ==
    result \in {"running", "ok"} =>
        \A n \in Nodes \ worklist.queued : AtRest(Held, n)

(* The solver finished with nothing queued, and returned what it had.      *)
Drained == result = "ok" => worklist.queued = {} /\ facts = Held

SolverInv ==
    TypeOK /\ (result = "running" => facts = NoFacts /\ Guarded(worklist))
      /\ Quiet /\ Drained

(* The facts of a node are facts.                                          *)
LEMMA FactsType ==
    ASSUME NEW p \in ProblemType, NEW on \in [p.live -> Fact], NEW n \in Nodes
    PROVE  /\ meet_edges(p, on, n) \in Fact
           /\ NodeFacts(p, on, n) \in Fact \X Fact
<1>1. p.boundary[n] \in Fact /\ p.transfer_node[n] \in [Fact -> Fact]
  BY DEF ProblemType
<1>2. \A e \in upstream(p, n) : on[e] \in Fact
  BY DEF upstream
<1>3. UNION {on[e] : e \in upstream(p, n)} \in Fact
  BY <1>2 DEF Fact
<1>4. meet_edges(p, on, n) \in Fact
  BY <1>1, <1>3 DEF meet_edges, Fact
<1>5. p.transfer_node[n][meet_edges(p, on, n)] \in Fact
  BY <1>1, <1>4
<1> QED BY <1>4, <1>5 DEF NodeFacts, program_order

(* They depend on the edges that lead to the node alone.                   *)
LEMMA FactsSame ==
    ASSUME NEW p, NEW on, NEW new_, NEW n,
           \A e \in upstream(p, n) : new_[e] = on[e]
    PROVE  NodeFacts(p, new_, n) = NodeFacts(p, on, n)
<1>1. {new_[e] : e \in upstream(p, n)} = {on[e] : e \in upstream(p, n)}
  OBVIOUS
<1>2. meet_edges(p, new_, n) = meet_edges(p, on, n)
  BY <1>1 DEF meet_edges
<1> QED BY <1>2 DEF NodeFacts

(* An edge leaves one node.                                                *)
LEMMA OneSource ==
    ASSUME NEW p, NEW n, NEW k, k # n, NEW e \in downstream(p, k)
    PROVE  e \notin downstream(p, n)
BY DEF downstream

(* The initial state satisfies the invariant.                              *)
LEMMA InitSolver == Init => SolverInv
<1> SUFFICES ASSUME Init PROVE SolverInv
  OBVIOUS
<1>1. problem \in ProblemType
  BY SolverAssumption DEF Init
<1>2. problem.seeds \subseteq Nodes /\ Nodes \subseteq Nat
  BY <1>1, SolverAssumption DEF ProblemType, Nodes
<1>3. /\ worklist = [queued |-> problem.seeds, cursor |-> 0]
      /\ worklist.queued = problem.seeds /\ worklist.cursor = 0
  BY DEF Init, of
<1>4. TypeOK
  BY <1>1, <1>2, <1>3 DEF Init, TypeOK, Fact, bottom
<1>5. Guarded(worklist)
  <2>1. \A i \in Nodes : Word(i) \in Nat
    BY <1>2, WordType
  <2>2. \A i \in Nodes : 0 <= Word(i)
    BY <2>1
  <2> QED BY <1>2, <1>3, <2>2 DEF Guarded
<1>6. Quiet
  <2>1. \A n \in Nodes : output[n] = bottom /\ input[n] = bottom
    BY DEF Init
  <2>2. \A n \in Nodes : \A e \in upstream(problem, n) \cup downstream(problem, n) :
            edge[e] = bottom
    BY DEF Init, upstream, downstream
  <2>3. \A n \in Nodes \ worklist.queued : Untouched(Held, n)
    BY <1>3, <2>1, <2>2 DEF Untouched, Held
  <2> QED BY <2>3 DEF Quiet, AtRest
<1> QED BY <1>4, <1>5, <1>6 DEF SolverInv, Drained, Init

(* One visit keeps the invariant.                                          *)
LEMMA VisitKeeps ==
    ASSUME SolverInv, result = "running", NEW n \in Nodes,
           IsFirst(worklist, n), visit(n)
    PROVE  SolverInv'
<1> DEFINE f == NodeFacts(problem, edge, n)
           changed == Changed(problem, edge, n, f)
           told == {next(problem, e) : e \in changed}
           popped == pop_first(worklist, n)
<1>1. /\ TypeOK /\ Guarded(worklist) /\ Quiet
      /\ problem \in ProblemType /\ problem' = problem
      /\ facts = NoFacts /\ facts' = facts
      /\ edge \in [problem.live -> Fact] /\ Nodes \subseteq Nat
      /\ worklist.queued \subseteq Nodes
  BY SolverAssumption DEF SolverInv, TypeOK, visit, Nodes
<1>2. f \in Fact \X Fact
  BY <1>1, FactsType
<1>3. Guarded(popped) /\ popped.queued = worklist.queued \ {n}
  BY <1>1, PopGuarded
<1>4. popped \in [queued : SUBSET Nodes, cursor : Nat]
  BY <1>1, <1>3 DEF pop_first, Guarded
<1>5. steps' \in Nat
  BY <1>1 DEF visit, TypeOK
<1>6. CASE Rejected(problem, edge, n)
  <2>1. result' = "problem" /\ worklist' = popped /\ UNCHANGED <<input, output, edge>>
    BY <1>6 DEF visit
  <2> HIDE DEF popped
  <2>2. TypeOK'
    BY <1>1, <1>4, <1>5, <2>1 DEF TypeOK
  <2> QED BY <2>1, <2>2 DEF SolverInv, Quiet, Drained
<1>7. CASE ~Rejected(problem, edge, n)
  <2>1. /\ input' = [input EXCEPT ![n] = f[1]]
        /\ output' = [output EXCEPT ![n] = f[2]]
        /\ edge' = [e \in problem.live |->
                      IF e \in changed THEN problem.transfer_edge[e][f] ELSE edge[e]]
        /\ worklist' = insert(popped, told)
        /\ result' = result
    BY <1>7 DEF visit
  <2>2. /\ changed \subseteq downstream(problem, n)
        /\ changed \subseteq problem.live
        /\ \A e \in downstream(problem, n) \ changed :
              problem.transfer_edge[e][f] = edge[e]
        /\ \A e \in problem.live : e \in changed => next(problem, e) \in told
    BY DEF Changed, downstream
  <2>3. told \subseteq Nodes
    <3>1. \A e \in problem.live : next(problem, e) \in Nodes
      BY <1>1 DEF ProblemType, next
    <3> QED BY <2>2, <3>1
  <2>4. \A e \in downstream(problem, n) : edge'[e] = problem.transfer_edge[e][f]
    BY <2>1, <2>2 DEF downstream
  <2>5. \A e \in problem.live : e \notin changed => edge'[e] = edge[e]
    BY <2>1
  <2>6. /\ Guarded(worklist') /\ worklist'.queued = (worklist.queued \ {n}) \cup told
        /\ worklist' \in [queued : SUBSET Nodes, cursor : Nat]
    <3>1. told \in SUBSET Nat
      BY <1>1, <2>3
    <3>2. Guarded(insert(popped, told))
             /\ insert(popped, told).queued = popped.queued \cup told
      <4> HIDE DEF popped, told
      <4> QED BY <1>3, <3>1, InsertGuarded
    <3>3. insert(popped, told) = [queued |-> insert(popped, told).queued,
                                  cursor |-> insert(popped, told).cursor]
      BY DEF insert
    <3>4. Guarded(worklist') /\ worklist'.queued = (worklist.queued \ {n}) \cup told
      BY <1>3, <2>1, <3>2
    <3>5. worklist'.queued \subseteq Nodes /\ worklist'.cursor \in Nat
      BY <1>1, <2>3, <3>4 DEF Guarded
    <3>6. worklist' = [queued |-> worklist'.queued, cursor |-> worklist'.cursor]
      BY <2>1, <3>3
    <3> QED BY <3>4, <3>5, <3>6
  <2>7. \A e \in problem.live : problem.transfer_edge[e][f] \in Fact
    <3>1. problem.live \subseteq EdgeSlots
            /\ problem.transfer_edge \in [EdgeSlots -> [Fact \X Fact -> Fact]]
      BY <1>1 DEF ProblemType
    <3> HIDE DEF f
    <3> QED BY <1>2, <3>1
  <2> HIDE DEF f, changed, told, popped
  <2>8. TypeOK'
    <3>1. f[1] \in Fact /\ f[2] \in Fact
      BY <1>2
    <3>2. input' \in [Nodes -> Fact] /\ output' \in [Nodes -> Fact]
      BY <1>1, <2>1, <3>1 DEF TypeOK
    <3>3. edge' \in [problem.live -> Fact]
      BY <1>1, <2>1, <2>7
    <3> QED BY <1>1, <1>5, <2>1, <2>6, <3>2, <3>3 DEF TypeOK
  <2>9. ASSUME NEW k \in Nodes \ worklist'.queued
        PROVE  AtRest(Held, k)'
    <3>1. \A e \in upstream(problem, k) : edge'[e] = edge[e]
      <4>1. \A e \in upstream(problem, k) : e \in problem.live /\ next(problem, e) = k
        BY DEF upstream
      <4>2. k \notin told
        BY <2>6
      <4> QED BY <2>2, <2>5, <4>1, <4>2
    <3>2. NodeFacts(problem, edge', k) = NodeFacts(problem, edge, k)
      BY <3>1, FactsSame
    <3>3. /\ Held'.input = input' /\ Held'.output = output' /\ Held'.edge = edge'
          /\ Held.input = input /\ Held.output = output /\ Held.edge = edge
      BY DEF Held
    <3>4. CASE k = n
      <4>1. input'[k] = f[1] /\ output'[k] = f[2]
        BY <1>1, <2>1, <3>4 DEF TypeOK
      <4>2. f = NodeFacts(problem, edge, k) /\ f = <<f[1], f[2]>>
        BY <1>2, <3>4 DEF f
      <4>3. <<input'[k], output'[k]>> = f
        BY <4>1, <4>2
      <4>4. Balanced(Held, k)'
        BY <1>1, <2>4, <3>2, <3>3, <3>4, <4>2, <4>3 DEF Balanced
      <4> QED BY <4>4 DEF AtRest
    <3>5. CASE k # n
      <4>1. input'[k] = input[k] /\ output'[k] = output[k]
        BY <1>1, <2>1, <3>5 DEF TypeOK
      <4>2. \A e \in downstream(problem, k) : edge'[e] = edge[e]
        <5>1. \A e \in downstream(problem, k) :
                 e \in problem.live /\ e \notin downstream(problem, n)
          BY <3>5, OneSource DEF downstream
        <5> QED BY <2>2, <2>5, <5>1
      <4>3. k \in Nodes \ worklist.queued
        BY <2>6, <3>5
      <4>4. AtRest(Held, k)
        BY <1>1, <4>3 DEF Quiet
      <4>5. ASSUME Balanced(Held, k) PROVE Balanced(Held, k)'
        BY <1>1, <3>2, <3>3, <4>1, <4>2, <4>5 DEF Balanced
      <4>6. ASSUME Untouched(Held, k) PROVE Untouched(Held, k)'
        BY <1>1, <3>1, <3>3, <4>1, <4>2, <4>6 DEF Untouched
      <4> QED BY <4>4, <4>5, <4>6 DEF AtRest
    <3> QED BY <3>4, <3>5
  <2>10. Quiet'
    BY <2>9 DEF Quiet
  <2> QED BY <1>1, <2>1, <2>6, <2>8, <2>10 DEF SolverInv, Drained
<1> QED BY <1>6, <1>7

(* Every step keeps the invariant.                                         *)
LEMMA SolverStep == SolverInv /\ [Next]_vars => SolverInv'
<1> SUFFICES ASSUME SolverInv, [Next]_vars PROVE SolverInv'
  OBVIOUS
<1>1. ASSUME result = "running", NEW n \in Nodes, IsFirst(worklist, n), visit(n)
      PROVE  SolverInv'
  BY <1>1, VisitKeeps
<1>2. ASSUME result = "running", NEW n \in Nodes, IsFirst(worklist, n),
             StepLimit(n)
      PROVE  SolverInv'
  <2>1. /\ result' = "limit" /\ worklist' = pop_first(worklist, n)
        /\ UNCHANGED <<problem, input, output, edge, steps, facts>>
    BY <1>2 DEF StepLimit
  <2>2. n \in Nat
    BY SolverAssumption DEF Nodes
  <2>3. worklist' \in [queued : SUBSET Nodes, cursor : Nat]
    BY <2>1, <2>2, WordType DEF SolverInv, TypeOK, pop_first
  <2> QED BY <2>1, <2>3 DEF SolverInv, TypeOK, Quiet, Drained, Held
<1>3. ASSUME result = "running", Finish
      PROVE  SolverInv'
  <2>1. /\ result' = "ok" /\ facts' = Held /\ Held' = Held
        /\ UNCHANGED <<problem, worklist, input, output, edge, steps>>
    BY <1>3 DEF Finish, Held
  <2>2. worklist.queued = {}
    BY <1>3, DrainedEmpty DEF Finish, SolverInv
  <2>3. Quiet'
    <3>1. \A n \in Nodes : AtRest(Held, n)
      BY <1>3, <2>2 DEF SolverInv, Quiet
    <3>2. \A n \in Nodes : AtRest(Held, n)'
      BY <2>1, <3>1 DEF AtRest, Balanced, Untouched
    <3> QED BY <3>2 DEF Quiet
  <2>4. TypeOK'
    BY <2>1 DEF SolverInv, TypeOK
  <2> QED BY <2>1, <2>2, <2>3, <2>4 DEF SolverInv, Drained
<1>4. ASSUME UNCHANGED vars
      PROVE  SolverInv'
  <2>1. Held' = Held
    BY <1>4 DEF vars, Held
  <2>2. Quiet'
    BY <1>4, <2>1 DEF vars, SolverInv, Quiet, AtRest, Balanced, Untouched
  <2>3. TypeOK'
    BY <1>4, <2>1 DEF vars, SolverInv, TypeOK
  <2> QED BY <1>4, <2>1, <2>2, <2>3 DEF vars, SolverInv, Drained, Guarded
<1> QED BY <1>1, <1>2, <1>3, <1>4 DEF Next

(* The solver's state stays well typed.                                    *)
THEOREM TypeCorrect == Spec => []TypeOK
<1>1. SolverInv => TypeOK
  BY DEF SolverInv
<1> QED BY <1>1, InitSolver, SolverStep, PTL DEF Spec

(* The facts returned satisfy the equations of every node and edge: no     *)
(* edge whose fact changed was left without its far end being told.        *)
THEOREM SolutionReturned == Spec => []ReturnsSolution
<1>1. SolverInv => ReturnsSolution
  BY DEF SolverInv, ReturnsSolution, Quiet, Drained, AtRest
<1> QED BY <1>1, InitSolver, SolverStep, PTL DEF Spec

(* With monotone transfers the facts on the edges never rise above a       *)
(* solution, in whatever order the nodes are visited.                      *)
THEOREM LeastReturned == Spec => []NeverOvershoots
<1>1. Init => NeverOvershoots
  BY DEF Init, NeverOvershoots, bottom
<1>2. ASSUME SolverInv, NeverOvershoots, [Next]_vars
      PROVE  NeverOvershoots'
  <2> USE <1>2
  <2>1. problem' = problem
    BY DEF Next, StepLimit, visit, Finish, vars
  <2>2. /\ problem \in ProblemType /\ edge \in [problem.live -> Fact]
        /\ problem.live \subseteq EdgeSlots
    BY DEF SolverInv, TypeOK, ProblemType
  <2> SUFFICES ASSUME Monotone', NEW s \in [problem.live -> Fact], Bounds(s)',
                      NEW e \in problem.live
               PROVE  edge'[e] \subseteq s[e]
    BY <2>1 DEF NeverOvershoots
  <2>3. Monotone /\ Bounds(s)
    BY <2>1 DEF Monotone, Bounds
  <2>4. \A d \in problem.live : edge[d] \subseteq s[d]
    BY <2>3 DEF NeverOvershoots
  <2>5. CASE edge' = edge
    BY <2>4, <2>5
  <2>6. ASSUME NEW n \in Nodes, visit(n), edge' # edge
        PROVE  edge'[e] \subseteq s[e]
    <3> DEFINE f == NodeFacts(problem, edge, n)
               g == NodeFacts(problem, s, n)
               changed == Changed(problem, edge, n, f)
               in == meet_edges(problem, edge, n)
               sup == meet_edges(problem, s, n)
    <3>1. edge' = [d \in problem.live |->
                     IF d \in changed THEN problem.transfer_edge[d][f] ELSE edge[d]]
      BY <2>6 DEF visit
    <3>2. /\ in \in Fact /\ sup \in Fact
          /\ f \in Fact \X Fact /\ g \in Fact \X Fact
      BY <2>2, FactsType
    <3>3. in \subseteq sup
      <4>1. \A d \in upstream(problem, n) : edge[d] \subseteq s[d]
        BY <2>4 DEF upstream
      <4> QED BY <4>1 DEF meet_edges
    <3>4. problem.transfer_node[n][in] \subseteq problem.transfer_node[n][sup]
      BY <2>3, <3>2, <3>3 DEF Monotone
    <3>5. f[1] \subseteq g[1] /\ f[2] \subseteq g[2]
      BY <3>3, <3>4 DEF NodeFacts, program_order
    <3> HIDE DEF f, g, in, sup
    <3>6. f \in (SUBSET g[1]) \X (SUBSET g[2])
      BY <3>2, <3>5
    <3>7. problem.transfer_edge[e][f] \subseteq problem.transfer_edge[e][g]
      BY <2>3, <3>2, <3>6 DEF Monotone
    <3>8. e \in changed => problem.transfer_edge[e][g] \subseteq s[e]
      BY <2>3 DEF Bounds, Changed, g
    <3> HIDE DEF changed
    <3> QED BY <2>4, <3>1, <3>7, <3>8
  <2> QED BY <2>5, <2>6 DEF Next, StepLimit, Finish, vars
<1> QED BY <1>1, <1>2, InitSolver, SolverStep, PTL DEF Spec
-----------------------------------------------------------------------------
(* Reachability.  A set of nodes that holds the seeds with an entry fact   *)
(* and is closed under the flow.                                           *)
Sources == {m \in problem.seeds : problem.boundary[m] # bottom}
Closed(T) ==
    \A m \in T : {next(problem, e) : e \in downstream(problem, m)} \subseteq T
Covers(T) == Sources \subseteq T /\ Closed(T)

(* A lifted solve never leaves such a set: a fact outside it is bottom,    *)
(* and only seeds are queued outside it.                                   *)
StaysIn(T) ==
    /\ \A n \in Nodes : input[n] # bottom => n \in T
    /\ \A n \in Nodes : \A e \in downstream(problem, n) : edge[e] # bottom => n \in T
    /\ \A n \in worklist.queued : n \in problem.seeds \/ n \in T
Contained == Lifted => \A T \in SUBSET Nodes : Covers(T) => StaysIn(T)

(* An edge that leads to a node leaves one.                                *)
LEMMA HasSource ==
    ASSUME NEW p \in ProblemType, NEW e \in p.live
    PROVE  \E n \in Nodes : e \in downstream(p, n)
BY DEF ProblemType, downstream

(* Where nothing comes in and there is no entry fact, a lifted node has    *)
(* bottom facts and hands on bottom.                                       *)
LEMMA NothingOutside ==
    ASSUME SolverInv, Lifted, NEW T \in SUBSET Nodes, Covers(T), StaysIn(T),
           NEW n \in worklist.queued, n \notin T
    PROVE  /\ NodeFacts(problem, edge, n) = <<bottom, bottom>>
           /\ Changed(problem, edge, n, NodeFacts(problem, edge, n)) = {}
<1>1. /\ problem \in ProblemType /\ edge \in [problem.live -> Fact]
      /\ n \in Nodes /\ n \in problem.seeds
  BY DEF SolverInv, TypeOK, StaysIn
<1>2. problem.boundary[n] = bottom
  BY <1>1 DEF Covers, Sources
<1>3. ASSUME NEW e \in upstream(problem, n) PROVE edge[e] = bottom
  <2>1. e \in problem.live /\ next(problem, e) = n
    BY DEF upstream
  <2>2. PICK m \in Nodes : e \in downstream(problem, m)
    BY <1>1, <2>1, HasSource
  <2>3. m \notin T
    BY <2>1, <2>2 DEF Covers, Closed
  <2> QED BY <2>2, <2>3 DEF StaysIn
<1>4. meet_edges(problem, edge, n) = bottom
  BY <1>2, <1>3 DEF meet_edges, bottom
<1>5. bottom \in Fact
  BY DEF bottom, Fact
<1>6. problem.transfer_node[n][bottom] = bottom
  BY <1>1, <1>5 DEF Lifted
<1>7. NodeFacts(problem, edge, n) = <<bottom, bottom>>
  BY <1>4, <1>6 DEF NodeFacts, program_order
<1>8. \A e \in downstream(problem, n) : edge[e] = bottom
  BY <1>1 DEF StaysIn
<1>9. \A e \in problem.live : problem.transfer_edge[e][<<bottom, bottom>>] = bottom
  BY <1>5 DEF Lifted
<1>10. \A e \in downstream(problem, n) : e \in problem.live
  BY DEF downstream
<1> QED BY <1>7, <1>8, <1>9, <1>10 DEF Changed

(* A visit stays in every such set.                                        *)
LEMMA VisitContained ==
    ASSUME SolverInv, Lifted, NEW T \in SUBSET Nodes, Covers(T), StaysIn(T),
           result = "running", NEW n \in Nodes, IsFirst(worklist, n), visit(n)
    PROVE  StaysIn(T)'
<1> DEFINE f == NodeFacts(problem, edge, n)
           changed == Changed(problem, edge, n, f)
           told == {next(problem, e) : e \in changed}
<1>1. /\ TypeOK /\ problem \in ProblemType /\ problem' = problem
      /\ edge \in [problem.live -> Fact] /\ input \in [Nodes -> Fact]
      /\ Guarded(worklist) /\ n \in worklist.queued
  BY DEF SolverInv, TypeOK, visit, IsFirst
<1>2. pop_first(worklist, n).queued = worklist.queued \ {n}
  BY DEF pop_first
<1>3. CASE Rejected(problem, edge, n)
  <2>1. worklist' = pop_first(worklist, n) /\ UNCHANGED <<problem, input, edge>>
    BY <1>3 DEF visit
  <2> QED BY <1>2, <2>1 DEF StaysIn
<1>4. CASE ~Rejected(problem, edge, n)
  <2>1. /\ input' = [input EXCEPT ![n] = f[1]]
        /\ edge' = [e \in problem.live |->
                      IF e \in changed THEN problem.transfer_edge[e][f] ELSE edge[e]]
        /\ worklist' = insert(pop_first(worklist, n), told)
    BY <1>4 DEF visit
  <2>2. worklist'.queued = (worklist.queued \ {n}) \cup told
    BY <1>2, <2>1 DEF insert
  <2>3. n \notin T => f[1] = bottom /\ changed = {}
    BY <1>1, NothingOutside
  <2>4. n \in T => told \subseteq T
    BY DEF Covers, Closed, Changed
  <2>5. told \subseteq T
    BY <2>3, <2>4
  <2>6. \A k \in Nodes : input'[k] # bottom => k \in T
    <3> HIDE DEF f, changed, told
    <3> QED BY <1>1, <2>1, <2>3 DEF StaysIn
  <2>7. ASSUME NEW k \in Nodes, NEW e \in downstream(problem, k), edge'[e] # bottom
        PROVE  k \in T
    <3>1. e \in problem.live
      BY DEF downstream
    <3>2. CASE e \in changed
      <4>1. k = n
        BY <3>2, OneSource DEF Changed
      <4> QED BY <2>3, <3>2, <4>1
    <3>3. CASE e \notin changed
      <4>1. edge'[e] = edge[e]
        BY <2>1, <3>1, <3>3
      <4> QED BY <2>7, <4>1 DEF StaysIn
    <3> QED BY <3>2, <3>3
  <2> HIDE DEF told
  <2>8. \A k \in worklist'.queued : k \in problem.seeds \/ k \in T
    BY <2>2, <2>5 DEF StaysIn
  <2> QED BY <1>1, <2>6, <2>7, <2>8 DEF StaysIn
<1> QED BY <1>3, <1>4

(* So does every step.                                                     *)
LEMMA ContainedStep == SolverInv /\ Contained /\ [Next]_vars => Contained'
<1> SUFFICES ASSUME SolverInv, Contained, [Next]_vars, Lifted',
                    NEW T \in SUBSET Nodes, Covers(T)'
             PROVE  StaysIn(T)'
  BY DEF Contained
<1>1. problem' = problem
  BY DEF Next, StepLimit, visit, Finish, vars
<1>2. Lifted /\ Covers(T)
  BY <1>1 DEF Lifted, Covers, Sources, Closed
<1>3. StaysIn(T)
  BY <1>2 DEF Contained
<1>4. ASSUME result = "running", NEW n \in Nodes, IsFirst(worklist, n), visit(n)
      PROVE  StaysIn(T)'
  BY <1>2, <1>3, <1>4, VisitContained
<1>5. ASSUME NEW n \in Nodes, StepLimit(n) PROVE StaysIn(T)'
  BY <1>3, <1>5 DEF StepLimit, pop_first, StaysIn
<1>6. ASSUME Finish PROVE StaysIn(T)'
  BY <1>3, <1>6 DEF Finish, StaysIn
<1>7. ASSUME UNCHANGED vars PROVE StaysIn(T)'
  BY <1>3, <1>7 DEF vars, StaysIn
<1> QED BY <1>4, <1>5, <1>6, <1>7 DEF Next

(* At the start everything is bottom and the seeds are queued.             *)
LEMMA ContainedInit == Init => Contained
<1> SUFFICES ASSUME Init, NEW T \in SUBSET Nodes PROVE StaysIn(T)
  BY DEF Contained
<1>1. worklist.queued = problem.seeds
  BY DEF Init, of
<1>2. \A n \in Nodes : \A e \in downstream(problem, n) : edge[e] = bottom
  BY DEF Init, downstream
<1> QED BY <1>1, <1>2 DEF Init, StaysIn

(* In a lifted solution a node with a fact to enter it has both.           *)
LEMMA BothFacts ==
    ASSUME SolverInv, Lifted, NEW n \in Nodes, Balanced(Held, n)
    PROVE  /\ input[n] = bottom <=> meet_edges(problem, edge, n) = bottom
           /\ output[n] = bottom <=> meet_edges(problem, edge, n) = bottom
<1> DEFINE m == meet_edges(problem, edge, n)
<1>1. m \in Fact
  BY FactsType DEF SolverInv, TypeOK
<1>2. problem.transfer_node[n][m] = bottom <=> m = bottom
  BY <1>1 DEF Lifted
<1>3. <<input[n], output[n]>>
        = program_order(problem.direction, m, problem.transfer_node[n][m])
  BY DEF Balanced, Held, NodeFacts
<1> HIDE DEF m
<1>4. \/ input[n] = m /\ output[n] = problem.transfer_node[n][m]
      \/ output[n] = m /\ input[n] = problem.transfer_node[n][m]
  BY <1>3 DEF program_order
<1>5. (input[n] = bottom <=> m = bottom) /\ (output[n] = bottom <=> m = bottom)
  BY <1>2, <1>4
<1> QED BY <1>5 DEF m

(* What a lifted solve returned reaches on: the nodes with facts hold the  *)
(* sources and are closed under the flow.                                  *)
LEMMA ReachesOn ==
    ASSUME SolverInv, Lifted, result = "ok"
    PROVE  Covers({n \in Nodes : input[n] # bottom})
<1> DEFINE R == {n \in Nodes : input[n] # bottom}
<1>1. /\ problem \in ProblemType /\ edge \in [problem.live -> Fact]
      /\ input \in [Nodes -> Fact] /\ output \in [Nodes -> Fact]
      /\ problem.seeds \subseteq Nodes
  BY DEF SolverInv, TypeOK, ProblemType
<1>2. \A n \in Nodes : Balanced(Held, n) \/ Untouched(Held, n)
  BY DEF SolverInv, Quiet, Drained, AtRest
<1>3. ASSUME NEW n \in Sources PROVE n \in R
  <2>1. n \in Nodes /\ n \in problem.seeds /\ problem.boundary[n] # bottom
    BY <1>1 DEF Sources
  <2>2. Balanced(Held, n)
    BY <1>2, <2>1 DEF Untouched
  <2>3. meet_edges(problem, edge, n) # bottom
    BY <2>1 DEF meet_edges, bottom
  <2> QED BY <2>1, <2>2, <2>3, BothFacts
<1>4. ASSUME NEW n \in R, NEW e \in downstream(problem, n) PROVE next(problem, e) \in R
  <2> DEFINE k == next(problem, e)
  <2>1. n \in Nodes /\ input[n] # bottom /\ e \in problem.live
    BY DEF downstream
  <2>2. Balanced(Held, n)
    BY <1>2, <2>1 DEF Untouched, Held
  <2>3. edge[e] = problem.transfer_edge[e][<<input[n], output[n]>>]
    BY <2>2 DEF Balanced, Held
  <2>4. output[n] # bottom
    BY <2>1, <2>2, BothFacts
  <2>5. edge[e] # bottom
    <3>1. input[n] \in Fact /\ output[n] \in Fact
      BY <1>1, <2>1
    <3>2. problem.transfer_edge[e][<<input[n], output[n]>>] = bottom <=> input[n] = bottom
      BY <2>1, <2>4, <3>1 DEF Lifted
    <3> QED BY <2>1, <2>3, <3>2
  <2>6. k \in Nodes /\ e \in upstream(problem, k)
    BY <1>1, <2>1 DEF ProblemType, next, upstream
  <2> HIDE DEF k
  <2>7. Balanced(Held, k)
    BY <1>2, <2>5, <2>6 DEF Untouched, Held
  <2>8. meet_edges(problem, edge, k) # bottom
    <3>1. edge[e] \subseteq meet_edges(problem, edge, k)
      BY <2>6 DEF meet_edges
    <3> QED BY <2>5, <3>1 DEF bottom
  <2>9. input[k] # bottom
    BY <2>6, <2>7, <2>8, BothFacts
  <2> QED BY <2>6, <2>9 DEF k
<1> QED BY <1>3, <1>4 DEF Covers, Closed

(* A lifted problem has no fact exactly where execution does not reach:    *)
(* the solver neither invents reachability by a seed without an entry fact *)
(* nor loses it along an edge, whatever the transfers do to the facts      *)
(* below, monotone or not (Reachable, edge_fixpoint.rs).                   *)
THEOREM UnreachedIsNone == Spec => []NoneIsUnreached
<1>1. SolverInv /\ Contained => NoneIsUnreached
  <2> SUFFICES ASSUME SolverInv, Contained, result = "ok", Lifted, NEW n \in Nodes
               PROVE  facts.input[n] # bottom
                        <=> \A T \in SUBSET Nodes : Covers(T) => n \in T
    BY DEF NoneIsUnreached, ReachedFrom, Covers, Sources, Closed
  <2>1. facts.input = input
    BY DEF SolverInv, Drained, Held
  <2>2. ASSUME input[n] # bottom, NEW T \in SUBSET Nodes, Covers(T) PROVE n \in T
    BY <2>2 DEF Contained, StaysIn
  <2>3. ASSUME \A T \in SUBSET Nodes : Covers(T) => n \in T PROVE input[n] # bottom
    <3> DEFINE R == {k \in Nodes : input[k] # bottom}
    <3>1. Covers(R) /\ R \in SUBSET Nodes
      BY ReachesOn
    <3>2. n \in R
      <4> HIDE DEF R
      <4> QED BY <2>3, <3>1
    <3> QED BY <3>2
  <2> QED BY <2>1, <2>2, <2>3
<1> QED BY <1>1, ContainedInit, ContainedStep, InitSolver, SolverStep, PTL DEF Spec
=============================================================================

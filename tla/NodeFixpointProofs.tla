------------------------- MODULE NodeFixpointProofs -------------------------
(***************************************************************************)
(* For every graph, every powerset lattice and every transfer function:    *)
(* what the block and node solvers return is a solution, and if the        *)
(* transfer functions are monotone it is the least one.                    *)
(***************************************************************************)
EXTENDS NodeFixpoint, FiniteSetTheorems

(* Nothing below the cursor is queued: pop_first misses no node.           *)
CursorOK == \A i \in worklist.queued : worklist.cursor <= Word(i)

(* A node that is not queued needs no visit.                               *)
Quiet ==
    result \in {"running", "ok"} =>
        \A n \in Nodes \ worklist.queued : AtRest(input, output, n)

(* The solver finished with nothing queued, and returned what it had.      *)
Drained ==
    result = "ok" => /\ worklist.queued = {}
                     /\ facts = program_order(problem.direction, input, output)

SolverInv == TypeOK /\ (result = "running" => CursorOK) /\ Quiet /\ Drained

(* The meet of facts is a fact.                                            *)
LEMMA MetType ==
    ASSUME NEW p \in ProblemType, NEW out \in [Nodes -> Fact], NEW n \in Nodes
    PROVE  met(p, out, n) \in Fact
<1>1. p.boundary \in Fact
  BY DEF ProblemType
<1>2. \A m \in upstream(p, n) : out[m] \in Fact
  BY DEF upstream
<1>3. UNION {out[m] : m \in upstream(p, n)} \in Fact
  BY <1>2 DEF Fact
<1> QED BY <1>1, <1>3 DEF met, Fact

(* What flows into a node depends on the outputs upstream of it alone.     *)
LEMMA MetSame ==
    ASSUME NEW p, NEW out, NEW new_, NEW n, NEW k \in Nodes,
           n \notin upstream(p, k),
           \A m \in Nodes \ {n} : new_[m] = out[m]
    PROVE  met(p, new_, k) = met(p, out, k)
<1>1. \A m \in upstream(p, k) : new_[m] = out[m]
  BY DEF upstream
<1>2. {new_[m] : m \in upstream(p, k)} = {out[m] : m \in upstream(p, k)}
  BY <1>1
<1> QED BY <1>2 DEF met

(* The initial state satisfies the invariant.                              *)
LEMMA InitSolver == Init => SolverInv
<1> SUFFICES ASSUME Init PROVE SolverInv
  OBVIOUS
<1>1. problem \in ProblemType
  BY SolverAssumption DEF Init
<1>2. initial_worklist(problem) \subseteq Nodes
  BY <1>1 DEF initial_worklist, ProblemType, Reached
<1>3. worklist.queued = initial_worklist(problem) /\ worklist.cursor = 0
  BY DEF Init, of
<1>4. worklist \in [queued : SUBSET Nodes, cursor : Nat]
  BY <1>2 DEF Init, of
<1>5. TypeOK
  BY <1>1, <1>4 DEF Init, TypeOK, Fact, bottom
<1>6. CursorOK
  <2>1. Nodes \subseteq Nat
    BY SolverAssumption DEF Nodes
  <2>2. \A i \in Nodes : Word(i) \in Nat
    BY <2>1, WordType
  <2>3. \A i \in Nodes : 0 <= Word(i)
    BY <2>2
  <2> QED BY <1>2, <1>3, <2>3 DEF CursorOK
<1>7. Quiet
  <2>1. \A n \in Nodes : output[n] = bottom /\ input[n] = bottom
    BY DEF Init
  <2>2. Settled(problem, output) = initial_worklist(problem)
    BY <2>1 DEF Settled
  <2> QED BY <1>3, <2>1, <2>2 DEF Quiet, Untouched, AtRest
<1> QED BY <1>5, <1>6, <1>7 DEF SolverInv, Drained, Init

(* A node is popped, and what is left stays above the cursor.              *)
LEMMA PopKeeps ==
    ASSUME TypeOK, CursorOK, NEW n \in Nodes, IsFirst(worklist, n)
    PROVE  LET w == pop_first(worklist, n)
           IN  /\ w.queued = worklist.queued \ {n}
               /\ w.cursor \in Nat
               /\ \A i \in w.queued : w.cursor <= Word(i)
<1>1. n \in Nat /\ worklist.queued \subseteq Nat
  BY SolverAssumption DEF TypeOK, Nodes
<1>2. Word(n) \in Nat /\ \A i \in worklist.queued : Word(i) \in Nat
  BY <1>1, WordType
<1>3. \A i \in worklist.queued : Word(n) <= Word(i)
  BY <1>2 DEF IsFirst, CursorOK
<1> QED BY <1>2, <1>3 DEF pop_first

(* One visit keeps the invariant.                                          *)
LEMMA VisitKeeps ==
    ASSUME SolverInv, result = "running", NEW n \in Nodes,
           IsFirst(worklist, n), visit(n)
    PROVE  SolverInv'
<1> DEFINE in == met(problem, output, n)
           out == problem.transfer[n][in]
           popped == pop_first(worklist, n)
<1>1. /\ TypeOK /\ CursorOK /\ Quiet
      /\ problem \in ProblemType /\ problem' = problem /\ facts' = facts
      /\ Nodes \subseteq Nat
  BY SolverAssumption DEF SolverInv, TypeOK, visit, Nodes
<1>2. in \in Fact /\ out \in Fact
  <2>1. in \in Fact
    BY <1>1, MetType DEF TypeOK
  <2>2. problem.transfer \in [Nodes -> [Fact -> Fact]]
    BY <1>1 DEF ProblemType
  <2> QED BY <2>1, <2>2
<1>3. /\ popped.queued = worklist.queued \ {n}
      /\ popped.cursor \in Nat
      /\ \A i \in popped.queued : popped.cursor <= Word(i)
  BY <1>1, PopKeeps
<1>4. popped \in [queued : SUBSET Nodes, cursor : Nat]
  BY <1>1, <1>3 DEF TypeOK, pop_first
<1>5. steps' \in Nat
  BY <1>1 DEF visit, TypeOK
<1>6. CASE in \in problem.rejects[n]
  <2>1. result' = "problem" /\ worklist' = popped /\ UNCHANGED <<input, output>>
    BY <1>6 DEF visit
  <2> HIDE DEF popped
  <2>2. TypeOK'
    BY <1>1, <1>4, <1>5, <2>1 DEF TypeOK
  <2> QED BY <2>1, <2>2 DEF SolverInv, Quiet, Drained
<1>7. CASE in \notin problem.rejects[n]
  <2>1. /\ input' = [input EXCEPT ![n] = in]
        /\ output' = [output EXCEPT ![n] = out]
        /\ worklist' = IF out # output[n]
                       THEN insert(popped, downstream(problem, n)) ELSE popped
        /\ result' = result
    BY <1>7 DEF visit
  <2> HIDE DEF in, out, popped
  <2>2. input' \in [Nodes -> Fact] /\ output' \in [Nodes -> Fact]
    BY <1>1, <1>2, <2>1 DEF TypeOK
  <2>3. /\ worklist' \in [queued : SUBSET Nodes, cursor : Nat]
        /\ CursorOK'
        /\ worklist'.queued = (worklist.queued \ {n})
              \cup (IF out # output[n] THEN downstream(problem, n) ELSE {})
    <3>1. CASE out = output[n]
      BY <1>3, <1>4, <2>1, <3>1 DEF CursorOK
    <3>2. CASE out # output[n]
      <4> DEFINE D == downstream(problem, n)
                 w == insert(popped, D)
      <4>1. D \subseteq Nodes /\ D \in SUBSET Nat
        BY <1>1 DEF downstream
      <4>2. /\ w.queued = popped.queued \cup D /\ w.cursor \in Nat
            /\ w.cursor <= popped.cursor /\ \A i \in D : w.cursor <= Word(i)
        BY <1>3, <4>1, InsertCursor
      <4>3. worklist' = w
        BY <2>1, <3>2
      <4>4. w \in [queued : SUBSET Nodes, cursor : Nat]
        <5>1. w = [queued |-> w.queued, cursor |-> w.cursor]
          BY DEF insert
        <5>2. w.queued \in SUBSET Nodes
          BY <1>4, <4>1, <4>2
        <5> HIDE DEF w
        <5> QED BY <4>2, <5>1, <5>2
      <4>5. popped.queued \subseteq Nat /\ \A i \in popped.queued : Word(i) \in Nat
        BY <1>1, <1>4, WordType
      <4>6. \A i \in w.queued : w.cursor <= Word(i)
        <5> HIDE DEF w, D
        <5>1. \A i \in popped.queued : w.cursor <= Word(i)
          BY <1>3, <4>2, <4>5
        <5> QED BY <4>2, <5>1
      <4> HIDE DEF w
      <4> QED BY <1>3, <3>2, <4>2, <4>3, <4>4, <4>6 DEF CursorOK
    <3> QED BY <3>1, <3>2
  <2>4. TypeOK'
    BY <1>1, <1>5, <2>1, <2>2, <2>3 DEF TypeOK
  <2>5. ASSUME NEW k \in Nodes \ worklist'.queued
        PROVE  AtRest(input, output, k)'
    <3>1. met(problem, output', k) = met(problem, output, k)
      <4>1. CASE out = output[n]
        <5>1. output' = output
          BY <1>1, <2>1, <4>1 DEF TypeOK
        <5> QED BY <5>1
      <4>2. CASE out # output[n]
        <5>1. n \notin upstream(problem, k)
          BY <2>3, <4>2 DEF upstream
        <5>2. \A m \in Nodes \ {n} : output'[m] = output[m]
          BY <1>1, <2>1 DEF TypeOK
        <5> QED BY <5>1, <5>2, MetSame
      <4> QED BY <4>1, <4>2
    <3>2. CASE k = n
      <4>1. input'[k] = in /\ output'[k] = out
        BY <1>1, <2>1, <3>2 DEF TypeOK
      <4>2. Balanced(input, output, k)'
        BY <1>1, <3>1, <3>2, <4>1 DEF Balanced, in, out
      <4> QED BY <4>2 DEF AtRest
    <3>3. CASE k # n
      <4>1. input'[k] = input[k] /\ output'[k] = output[k]
        BY <1>1, <2>1, <3>3 DEF TypeOK
      <4>2. k \in Nodes \ worklist.queued
        BY <2>3, <3>3
      <4>3. AtRest(input, output, k)
        BY <1>1, <4>2 DEF Quiet, SolverInv
      <4>4. ASSUME Balanced(input, output, k) PROVE Balanced(input, output, k)'
        BY <1>1, <3>1, <4>1, <4>4 DEF Balanced
      <4>5. ASSUME Untouched(input, output, k) PROVE Untouched(input, output, k)'
        <5>1. k \notin Settled(problem, output')
          <6>1. CASE out = output[n]
            <7>1. output' = output
              BY <1>1, <2>1, <6>1 DEF TypeOK
            <7> QED BY <4>5, <7>1 DEF Untouched
          <6>2. CASE out # output[n]
            <7>1. k \notin downstream(problem, n)
              BY <2>3, <6>2
            <7>2. \A m \in Nodes \ {n} : output'[m] = output[m]
              BY <1>1, <2>1 DEF TypeOK
            <7> QED BY <4>5, <7>1, <7>2 DEF Untouched, Settled
          <6> QED BY <6>1, <6>2
        <5> QED BY <1>1, <4>1, <4>5, <5>1 DEF Untouched
      <4> QED BY <4>3, <4>4, <4>5 DEF AtRest
    <3> QED BY <3>2, <3>3
  <2>6. Quiet'
    BY <2>5 DEF Quiet
  <2> QED BY <2>1, <2>3, <2>4, <2>6 DEF SolverInv, Drained
<1> QED BY <1>6, <1>7

(* Every step keeps the invariant.                                         *)
LEMMA SolverStep == SolverInv /\ [Next]_vars => SolverInv'
<1> SUFFICES ASSUME SolverInv, [Next]_vars PROVE SolverInv'
  OBVIOUS
<1>1. ASSUME result = "running", NEW n \in Nodes, IsFirst(worklist, n), visit(n)
      PROVE  SolverInv'
  BY <1>1, VisitKeeps
<1>2. ASSUME result = "running", NEW n \in Nodes, IsFirst(worklist, n),
             StepLimit(n)
      PROVE  SolverInv'
  <2>1. /\ result' = "limit" /\ worklist' = pop_first(worklist, n)
        /\ UNCHANGED <<problem, input, output, steps, facts>>
    BY <1>2 DEF StepLimit
  <2>2. n \in Nat
    BY SolverAssumption DEF Nodes
  <2>3. worklist' \in [queued : SUBSET Nodes, cursor : Nat]
    BY <2>1, <2>2, WordType DEF SolverInv, TypeOK, pop_first
  <2> QED BY <2>1, <2>3 DEF SolverInv, TypeOK, Quiet, Drained
<1>3. ASSUME result = "running", Finish
      PROVE  SolverInv'
  <2>1. /\ result' = "ok" /\ UNCHANGED <<problem, worklist, input, output, steps>>
        /\ facts' = program_order(problem.direction, input, output)
    BY <1>3 DEF Finish
  <2>2. worklist.queued = {}
    <3>1. \A j \in worklist.queued : Word(j) < worklist.cursor
                                     /\ worklist.cursor <= Word(j)
      BY <1>3 DEF Finish, PopsNothing, SolverInv, CursorOK
    <3>2. \A j \in worklist.queued : Word(j) \in Nat
      BY SolverAssumption, WordType DEF SolverInv, TypeOK, Nodes
    <3>3. worklist.cursor \in Nat
      BY DEF SolverInv, TypeOK
    <3> QED BY <3>1, <3>2, <3>3
  <2>3. Quiet'
    BY <1>3, <2>1 DEF SolverInv, Quiet, AtRest, Balanced, Untouched
  <2>4. TypeOK'
    <3>1. facts' \in [input : [Nodes -> Fact], output : [Nodes -> Fact]]
      BY <2>1 DEF SolverInv, TypeOK, program_order
    <3> QED BY <2>1, <3>1 DEF SolverInv, TypeOK
  <2> QED BY <2>1, <2>2, <2>3, <2>4 DEF SolverInv, Drained
<1>4. ASSUME UNCHANGED vars
      PROVE  SolverInv'
  BY <1>4 DEF vars, SolverInv, TypeOK, CursorOK, Quiet, AtRest,
              Balanced, Untouched, Drained
<1> QED BY <1>1, <1>2, <1>3, <1>4 DEF Next

(* The solver's state stays well typed.                                    *)
THEOREM TypeCorrect == Spec => []TypeOK
<1>1. SolverInv => TypeOK
  BY DEF SolverInv
<1> QED BY <1>1, InitSolver, SolverStep, PTL DEF Spec

(* When the loop ends, every node's facts satisfy its equations: the       *)
(* worklist lost no node that still had to be visited, whatever the graph, *)
(* the transfer functions, the seeds and the width of a word.              *)
THEOREM SolutionReturned == Spec => []ReturnsSolution
<1>1. SolverInv => ReturnsSolution
  <2> SUFFICES ASSUME SolverInv, result = "ok", NEW n \in Nodes
               PROVE  IF problem.direction = "forward"
                      THEN AtRest(facts.input, facts.output, n)
                      ELSE AtRest(facts.output, facts.input, n)
    BY DEF ReturnsSolution
  <2>1. AtRest(input, output, n)
    BY DEF SolverInv, Quiet, Drained
  <2>2. facts = program_order(problem.direction, input, output)
    BY DEF SolverInv, Drained
  <2> QED BY <2>1, <2>2 DEF program_order
<1> QED BY <1>1, InitSolver, SolverStep, PTL DEF Spec

(* With monotone transfer functions the facts never rise above a solution, *)
(* in whatever order the nodes are visited.                                *)
THEOREM LeastReturned == Spec => []NeverOvershoots
<1>1. Init => NeverOvershoots
  BY DEF Init, NeverOvershoots, bottom
<1>2. ASSUME SolverInv, NeverOvershoots, [Next]_vars
      PROVE  NeverOvershoots'
  <2> USE <1>2
  <2>1. problem' = problem
    BY DEF Next, StepLimit, visit, Finish, vars
  <2> SUFFICES ASSUME Monotone', NEW s \in [Nodes -> Fact], Bounds(s)',
                      NEW n \in Nodes
               PROVE  output'[n] \subseteq s[n]
    BY DEF NeverOvershoots
  <2>2. Monotone /\ Bounds(s)
    BY <2>1 DEF Monotone, Bounds
  <2>3. \A m \in Nodes : output[m] \subseteq s[m]
    BY <2>2 DEF NeverOvershoots
  <2>4. CASE output' = output
    BY <2>3, <2>4
  <2>5. ASSUME NEW k \in Nodes, visit(k), output' # output
        PROVE  output'[n] \subseteq s[n]
    <3> DEFINE in == met(problem, output, k)
    <3>1. /\ problem \in ProblemType /\ output \in [Nodes -> Fact]
          /\ output' = [output EXCEPT ![k] = problem.transfer[k][in]]
      BY <2>5 DEF visit, SolverInv, TypeOK
    <3>2. in \in Fact /\ met(problem, s, k) \in Fact
      BY <3>1, MetType
    <3>3. in \subseteq met(problem, s, k)
      <4>1. \A m \in upstream(problem, k) : output[m] \subseteq s[m]
        BY <2>3 DEF upstream
      <4> QED BY <4>1 DEF met
    <3>4. problem.transfer[k][in] \subseteq problem.transfer[k][met(problem, s, k)]
      BY <2>2, <3>2, <3>3 DEF Monotone
    <3>5. problem.transfer[k][in] \subseteq s[k]
      BY <2>2, <3>4 DEF Bounds
    <3> HIDE DEF in
    <3> QED BY <2>3, <3>1, <3>5
  <2> QED BY <2>4, <2>5 DEF Next, StepLimit, Finish, vars
<1> QED BY <1>1, <1>2, InitSolver, SolverStep, PTL DEF Spec
-----------------------------------------------------------------------------
(* How a solve stops.  A rejected fact is still there when the solve has   *)
(* been reported as rejected.                                              *)
Refused ==
    result = "problem" =>
        \E n \in Nodes : met(problem, output, n) \in problem.rejects[n]

(* Larger outputs flow into larger facts.                                  *)
LEMMA MetMonotone ==
    ASSUME NEW p, NEW low, NEW high, NEW n \in Nodes,
           \A m \in Nodes : low[m] \subseteq high[m]
    PROVE  met(p, low, n) \subseteq met(p, high, n)
<1>1. \A m \in upstream(p, n) : low[m] \subseteq high[m]
  BY DEF upstream
<1> QED BY <1>1 DEF met

(* The step that reports a rejection leaves the facts as they were, and no *)
(* step follows it.                                                        *)
LEMMA RefusedStep == Refused /\ [Next]_vars => Refused'
<1> SUFFICES ASSUME Refused, [Next]_vars PROVE Refused'
  OBVIOUS
<1>1. ASSUME NEW n \in Nodes, visit(n), result = "running" PROVE Refused'
  <2>1. CASE met(problem, output, n) \in problem.rejects[n]
    <3>1. problem' = problem /\ output' = output
      BY <1>1, <2>1 DEF visit
    <3> QED BY <2>1, <3>1 DEF Refused
  <2>2. CASE met(problem, output, n) \notin problem.rejects[n]
    BY <1>1, <2>2 DEF visit, Refused
  <2> QED BY <2>1, <2>2
<1>2. ASSUME NEW n \in Nodes, StepLimit(n) PROVE Refused'
  BY <1>2 DEF StepLimit, Refused
<1>3. ASSUME Finish PROVE Refused'
  BY <1>3 DEF Finish, Refused
<1>4. ASSUME UNCHANGED vars PROVE Refused'
  BY <1>4 DEF vars, Refused
<1> QED BY <1>1, <1>2, <1>3, <1>4 DEF Next

(* What was rejected is below what any solution has there.                 *)
LEMMA RefusedRight == SolverInv /\ NeverOvershoots /\ Refused => RejectsRightly
<1> SUFFICES ASSUME SolverInv, NeverOvershoots, Refused, result = "problem", Monotone,
                    \A n \in Nodes : \A f \in problem.rejects[n] : \A g \in Fact :
                       f \subseteq g => g \in problem.rejects[n],
                    NEW s \in [Nodes -> Fact], Bounds(s)
             PROVE  \E n \in Nodes : met(problem, s, n) \in problem.rejects[n]
  BY DEF RejectsRightly
<1>1. PICK n \in Nodes : met(problem, output, n) \in problem.rejects[n]
  BY DEF Refused
<1>2. \A m \in Nodes : output[m] \subseteq s[m]
  BY DEF NeverOvershoots
<1>3. met(problem, output, n) \subseteq met(problem, s, n)
  BY <1>2, MetMonotone
<1>4. met(problem, s, n) \in Fact
  BY MetType DEF SolverInv, TypeOK
<1> QED BY <1>1, <1>3, <1>4

(* A node's output is below what its transfer would make of what flows in: *)
(* with monotone transfers every visit that changes an output raises it.   *)
Rising ==
    Monotone => \A n \in Nodes :
                   output[n] \subseteq problem.transfer[n][met(problem, output, n)]

(* Raising one output keeps every node below its transfer.                 *)
LEMMA RisingStep == SolverInv /\ Rising /\ [Next]_vars => Rising'
<1> SUFFICES ASSUME SolverInv, Rising, [Next]_vars, Monotone', NEW k \in Nodes
             PROVE  output'[k] \subseteq problem'.transfer[k][met(problem', output', k)]
  BY DEF Rising
<1>1. problem' = problem
  BY DEF Next, StepLimit, visit, Finish, vars
<1>2. /\ Monotone /\ problem \in ProblemType /\ output \in [Nodes -> Fact]
      /\ \A n \in Nodes : output[n] \subseteq problem.transfer[n][met(problem, output, n)]
  BY <1>1 DEF Monotone, Rising, SolverInv, TypeOK
<1>3. CASE output' = output
  BY <1>1, <1>2, <1>3
<1>4. ASSUME NEW n \in Nodes, visit(n), output' # output
      PROVE  output'[k] \subseteq problem.transfer[k][met(problem, output', k)]
  <2> DEFINE in == met(problem, output, n)
             out == problem.transfer[n][in]
  <2>1. output' = [output EXCEPT ![n] = out]
    BY <1>4 DEF visit
  <2>2. in \in Fact /\ out \in Fact
    <3>1. in \in Fact
      BY <1>2, MetType
    <3>2. problem.transfer \in [Nodes -> [Fact -> Fact]]
      BY <1>2 DEF ProblemType
    <3> QED BY <3>1, <3>2
  <2>3. output[n] \subseteq out
    BY <1>2
  <2>4. output' \in [Nodes -> Fact] /\ \A m \in Nodes : output[m] \subseteq output'[m]
    <3> HIDE DEF in, out
    <3> QED BY <1>2, <2>1, <2>2, <2>3
  <2>5. /\ met(problem, output, k) \subseteq met(problem, output', k)
        /\ met(problem, output, k) \in Fact /\ met(problem, output', k) \in Fact
    BY <1>2, <2>4, MetMonotone, MetType
  <2>6. problem.transfer[k][met(problem, output, k)]
          \subseteq problem.transfer[k][met(problem, output', k)]
    BY <1>2, <2>5 DEF Monotone
  <2>7. output'[k] \subseteq problem.transfer[k][met(problem, output, k)]
    <3>1. CASE k = n
      BY <1>2, <2>1, <3>1
    <3>2. CASE k # n
      BY <1>2, <2>1, <3>2
    <3> QED BY <3>1, <3>2
  <2> QED BY <2>6, <2>7
<1> QED BY <1>1, <1>3, <1>4 DEF Next, StepLimit, Finish, vars
-----------------------------------------------------------------------------
(* The work.  Every atom of an output is told once along every edge that   *)
(* leaves its node: these are the tellings so far.                         *)
From(p, e) == IF p.direction = "forward" THEN e[1] ELSE e[2]
Told(p, out) == {x \in p.edges \X Atoms : x[2] \in out[From(p, x[1])]}

(* Visits done and visits still queued are paid for by the first visits    *)
(* and by the tellings.                                                    *)
Paid ==
    Monotone => steps + Cardinality(worklist.queued)
                  <= Cardinality(initial_worklist(problem))
                       + Cardinality(Told(problem, output))
LimitRight ==
    result = "limit" /\ Monotone => problem.limit < WorkBound

WorkInv == Rising /\ Paid /\ LimitRight

(* The sets that are counted are finite.                                   *)
LEMMA Finite ==
    ASSUME IsFiniteSet(Atoms), NEW p \in ProblemType, NEW out
    PROVE  /\ IsFiniteSet(Nodes) /\ IsFiniteSet(initial_worklist(p))
           /\ IsFiniteSet(p.edges) /\ IsFiniteSet(Told(p, out))
           /\ Cardinality(initial_worklist(p)) \in Nat
           /\ Cardinality(Told(p, out)) \in Nat
           /\ Cardinality(p.edges) * Cardinality(Atoms) \in Nat
           /\ Cardinality(Told(p, out)) <= Cardinality(p.edges) * Cardinality(Atoms)
<1>1. IsFiniteSet(Nodes)
  BY SolverAssumption, FS_Interval DEF Nodes
<1>2. initial_worklist(p) \in SUBSET Nodes
  BY DEF initial_worklist, ProblemType, Reached
<1>3. IsFiniteSet(p.edges)
  <2>1. p.edges \in SUBSET (Nodes \X Nodes)
    BY DEF ProblemType
  <2>2. IsFiniteSet(Nodes \X Nodes)
    BY <1>1, FS_Product
  <2> QED BY <2>1, <2>2, FS_Subset
<1>4. /\ IsFiniteSet(p.edges \X Atoms)
      /\ Cardinality(p.edges \X Atoms) = Cardinality(p.edges) * Cardinality(Atoms)
  BY <1>3, FS_Product
<1>5. Told(p, out) \in SUBSET (p.edges \X Atoms)
  BY DEF Told
<1>6. /\ IsFiniteSet(Told(p, out))
      /\ Cardinality(Told(p, out)) <= Cardinality(p.edges \X Atoms)
  BY <1>4, <1>5, FS_Subset
<1>7. IsFiniteSet(initial_worklist(p))
  BY <1>1, <1>2, FS_Subset
<1>8. /\ Cardinality(initial_worklist(p)) \in Nat
      /\ Cardinality(Told(p, out)) \in Nat
      /\ Cardinality(p.edges \X Atoms) \in Nat
  BY <1>4, <1>6, <1>7, FS_CardinalityType
<1> QED BY <1>1, <1>3, <1>4, <1>6, <1>7, <1>8

(* A node whose output gains an atom tells it along each edge that leaves: *)
(* as many new tellings as there are nodes to queue.                       *)
LEMMA RaisedTells ==
    ASSUME IsFiniteSet(Atoms), NEW p \in ProblemType, NEW n \in Nodes,
           NEW out \in [Nodes -> Fact], NEW new_ \in [Nodes -> Fact],
           \A m \in Nodes : out[m] \subseteq new_[m],
           new_[n] # out[n]
    PROVE  Cardinality(Told(p, out)) + Cardinality(downstream(p, n))
             <= Cardinality(Told(p, new_))
<1> DEFINE D == downstream(p, n)
           old == Told(p, out)
           now == Told(p, new_)
           along(m) == IF p.direction = "forward" THEN <<n, m>> ELSE <<m, n>>
<1>1. PICK a \in new_[n] : a \notin out[n]
  OBVIOUS
<1>2. a \in Atoms
  BY DEF Fact
<1> DEFINE f == [m \in D |-> <<along(m), a>>]
<1>3. p.edges \subseteq Nodes \X Nodes /\ \A e \in p.edges : From(p, e) \in Nodes
  BY DEF ProblemType, From
<1>4. old \subseteq now
  BY <1>3 DEF Told
<1>5. \A m \in D : along(m) \in p.edges /\ From(p, along(m)) = n
  BY DEF downstream, From
<1>6. \A m \in D : <<along(m), a>> \in now \ old
  BY <1>1, <1>2, <1>5 DEF Told
<1>7. \A m, k \in D : along(m) = along(k) => m = k
  OBVIOUS
<1>8. f \in Injection(D, now \ old)
  <2> HIDE DEF D, now, old, along
  <2>1. f \in [D -> now \ old]
    BY <1>6
  <2>2. \A m, k \in D : f[m] = f[k] => m = k
    BY <1>7
  <2> HIDE DEF f
  <2> QED BY <2>1, <2>2 DEF Injection, IsInjective
<1>9. /\ IsFiniteSet(now) /\ IsFiniteSet(old)
      /\ Cardinality(now) \in Nat /\ Cardinality(old) \in Nat
  BY Finite
<1>10. /\ IsFiniteSet(now \ old)
       /\ Cardinality(now \ old) = Cardinality(now) - Cardinality(old)
  <2>1. now \cap old = old
    BY <1>4
  <2> HIDE DEF now, old
  <2> QED BY <1>9, <2>1, FS_Difference
<1>11. IsFiniteSet(D) /\ Cardinality(D) <= Cardinality(now \ old)
  <2> HIDE DEF D, now, old, f
  <2> QED BY <1>8, <1>10, FS_Injection
<1>12. Cardinality(D) \in Nat
  BY <1>11, FS_CardinalityType
<1> HIDE DEF D, now, old
<1>13. Cardinality(old) + Cardinality(D) <= Cardinality(now)
  BY <1>9, <1>10, <1>11, <1>12
<1> QED BY <1>13 DEF D, now, old

(* One visit is paid for.                                                  *)
LEMMA VisitPaid ==
    ASSUME IsFiniteSet(Atoms), SolverInv, Rising, Paid, result = "running",
           NEW n \in Nodes, IsFirst(worklist, n), visit(n)
    PROVE  Paid'
<1> DEFINE in == met(problem, output, n)
           out == problem.transfer[n][in]
           popped == pop_first(worklist, n)
           queued == worklist.queued
           D == downstream(problem, n)
<1> SUFFICES ASSUME Monotone' PROVE Paid'
  BY DEF Paid
<1>1. /\ problem \in ProblemType /\ problem' = problem
      /\ output \in [Nodes -> Fact] /\ queued \subseteq Nodes /\ steps \in Nat
      /\ CursorOK /\ TypeOK
  BY DEF SolverInv, TypeOK, visit
<1>2. Monotone /\ steps + Cardinality(queued)
                    <= Cardinality(initial_worklist(problem)) + Cardinality(Told(problem, output))
  BY <1>1 DEF Monotone, Paid
<1>3. n \in queued /\ popped.queued = queued \ {n}
  BY <1>1, PopKeeps DEF IsFirst
<1>4. /\ IsFiniteSet(queued) /\ Cardinality(queued) \in Nat
      /\ IsFiniteSet(queued \ {n}) /\ Cardinality(queued \ {n}) = Cardinality(queued) - 1
      /\ Cardinality(queued \ {n}) \in Nat
  <2>1. IsFiniteSet(queued)
    BY <1>1, Finite, FS_Subset
  <2> HIDE DEF queued
  <2> QED BY <1>3, <2>1, FS_RemoveElement, FS_CardinalityType
<1>5. /\ steps' \in Nat /\ steps' <= steps + 1
  BY <1>1, SolverAssumption DEF visit
<1>6. /\ Cardinality(initial_worklist(problem)) \in Nat
      /\ Cardinality(Told(problem, output)) \in Nat
      /\ Cardinality(Told(problem, output')) \in Nat
  BY <1>1, Finite
<1>7. CASE worklist' = popped /\ output' = output
  <2>1. worklist'.queued = queued \ {n}
    BY <1>3, <1>7
  <2> HIDE DEF queued
  <2>2. steps' + Cardinality(worklist'.queued)
          <= Cardinality(initial_worklist(problem)) + Cardinality(Told(problem, output))
    BY <1>1, <1>2, <1>4, <1>5, <1>6, <2>1
  <2> QED BY <1>1, <1>7, <2>2 DEF Paid
<1>8. CASE /\ out # output[n] /\ output' = [output EXCEPT ![n] = out]
           /\ worklist' = insert(popped, D)
  <2>1. in \in Fact /\ out \in Fact
    <3>1. in \in Fact
      BY <1>1, MetType
    <3>2. problem.transfer \in [Nodes -> [Fact -> Fact]]
      BY <1>1 DEF ProblemType
    <3> QED BY <3>1, <3>2
  <2>2. output[n] \subseteq out
    BY <1>2 DEF Rising
  <2> HIDE DEF in, out
  <2>3. /\ output' \in [Nodes -> Fact] /\ output'[n] # output[n]
        /\ \A m \in Nodes : output[m] \subseteq output'[m]
    BY <1>1, <1>8, <2>1, <2>2
  <2>4. Cardinality(Told(problem, output)) + Cardinality(D)
          <= Cardinality(Told(problem, output'))
    BY <1>1, <2>3, RaisedTells
  <2>5. worklist'.queued = (queued \ {n}) \cup D
    BY <1>3, <1>8 DEF insert
  <2>6. IsFiniteSet(D)
    <3>1. D \in SUBSET Nodes
      BY DEF downstream
    <3> QED BY <1>1, <3>1, Finite, FS_Subset
  <2> HIDE DEF queued, D
  <2>7. /\ Cardinality((queued \ {n}) \cup D)
             = Cardinality(queued \ {n}) + Cardinality(D)
                 - Cardinality((queued \ {n}) \cap D)
        /\ IsFiniteSet((queued \ {n}) \cup D)
    BY <1>4, <2>6, FS_Union
  <2>8. IsFiniteSet((queued \ {n}) \cap D)
    BY <1>4, FS_Intersection
  <2>9. /\ Cardinality(D) \in Nat /\ Cardinality((queued \ {n}) \cap D) \in Nat
    BY <2>6, <2>8, FS_CardinalityType
  <2>10. steps' + Cardinality(worklist'.queued)
           <= Cardinality(initial_worklist(problem)) + Cardinality(Told(problem, output'))
    BY <1>1, <1>2, <1>4, <1>5, <1>6, <2>4, <2>5, <2>7, <2>9
  <2> QED BY <1>1, <2>10 DEF Paid
<1>9. \/ worklist' = popped /\ output' = output
      \/ /\ out # output[n] /\ output' = [output EXCEPT ![n] = out]
         /\ worklist' = insert(popped, D)
  <2>1. CASE in \in problem.rejects[n]
    BY <2>1 DEF visit
  <2>2. CASE in \notin problem.rejects[n] /\ out = output[n]
    <3>1. output' = [output EXCEPT ![n] = out] /\ worklist' = popped
      BY <2>2 DEF visit
    <3> HIDE DEF out
    <3> QED BY <1>1, <2>2, <3>1
  <2>3. CASE in \notin problem.rejects[n] /\ out # output[n]
    BY <2>3 DEF visit
  <2> QED BY <2>1, <2>2, <2>3
<1> QED BY <1>7, <1>8, <1>9

(* Every step keeps the account.                                           *)
LEMMA WorkStep ==
    ASSUME IsFiniteSet(Atoms), SolverInv, WorkInv, [Next]_vars
    PROVE  WorkInv'
<1>1. Rising'
  BY RisingStep DEF WorkInv
<1>2. problem' = problem /\ problem \in ProblemType
  BY DEF Next, StepLimit, visit, Finish, vars, SolverInv, TypeOK
<1>3. ASSUME result = "running", NEW n \in Nodes, IsFirst(worklist, n), visit(n)
      PROVE  Paid' /\ LimitRight'
  <2>1. Paid'
    BY <1>3, VisitPaid DEF WorkInv
  <2>2. result' # "limit"
    BY <1>3 DEF visit
  <2> QED BY <2>1, <2>2 DEF LimitRight
<1>4. ASSUME result = "running", NEW n \in Nodes, IsFirst(worklist, n), StepLimit(n)
      PROVE  Paid' /\ LimitRight'
  <2> DEFINE queued == worklist.queued
  <2>1. /\ worklist'.queued = queued \ {n} /\ n \in queued
        /\ output' = output /\ steps' = steps /\ steps \in Nat
        /\ problem.limit \in Nat /\ problem.limit <= steps
        /\ queued \subseteq Nodes
    <3>1. /\ worklist' = pop_first(worklist, n) /\ n \in queued
          /\ output' = output /\ steps' = steps /\ steps \in Nat
          /\ problem.limit # NoLimit /\ steps >= problem.limit /\ queued \subseteq Nodes
      BY <1>4 DEF StepLimit, IsFirst, SolverInv, TypeOK
    <3>2. problem.limit \in Nat
      BY <1>2, <3>1, SolverAssumption DEF ProblemType
    <3> QED BY <3>1, <3>2 DEF pop_first
  <2>2. /\ IsFiniteSet(queued) /\ Cardinality(queued) \in Nat
        /\ Cardinality(queued \ {n}) = Cardinality(queued) - 1
        /\ Cardinality(queued \ {n}) \in Nat
    <3>1. IsFiniteSet(queued)
      BY <1>2, <2>1, Finite, FS_Subset
    <3> HIDE DEF queued
    <3> QED BY <2>1, <3>1, FS_RemoveElement, FS_CardinalityType
  <2>3. /\ Cardinality(initial_worklist(problem)) \in Nat
        /\ Cardinality(Told(problem, output)) \in Nat
        /\ Cardinality(problem.edges) * Cardinality(Atoms) \in Nat
        /\ Cardinality(Told(problem, output))
             <= Cardinality(problem.edges) * Cardinality(Atoms)
    BY <1>2, Finite
  <2> SUFFICES ASSUME Monotone' PROVE Paid' /\ LimitRight'
    BY DEF Paid, LimitRight
  <2>4. steps + Cardinality(queued)
          <= Cardinality(initial_worklist(problem)) + Cardinality(Told(problem, output))
    BY <1>2 DEF WorkInv, Paid, Monotone
  <2> HIDE DEF queued
  <2>5. Paid'
    BY <1>2, <2>1, <2>2, <2>3, <2>4 DEF Paid
  <2>6. problem.limit < Cardinality(initial_worklist(problem))
                          + Cardinality(problem.edges) * Cardinality(Atoms)
    BY <2>1, <2>2, <2>3, <2>4
  <2> QED BY <1>2, <2>5, <2>6 DEF LimitRight, WorkBound
<1>5. ASSUME Finish PROVE Paid' /\ LimitRight'
  BY <1>5 DEF Finish, WorkInv, Paid, LimitRight, Monotone
<1>6. ASSUME UNCHANGED vars PROVE Paid' /\ LimitRight'
  BY <1>6 DEF vars, WorkInv, Paid, LimitRight, Monotone, WorkBound
<1> QED BY <1>1, <1>3, <1>4, <1>5, <1>6 DEF Next, WorkInv

(* The account opens balanced.                                             *)
LEMMA WorkInit ==
    ASSUME IsFiniteSet(Atoms), Init
    PROVE  WorkInv
<1>1. problem \in ProblemType
  BY SolverAssumption DEF Init
<1>2. Rising
  BY DEF Init, Rising, bottom
<1>3. worklist.queued = initial_worklist(problem) /\ steps = 0
  BY DEF Init, of
<1>4. /\ Cardinality(initial_worklist(problem)) \in Nat
      /\ Cardinality(Told(problem, output)) \in Nat
  BY <1>1, Finite
<1>5. Paid
  BY <1>3, <1>4 DEF Paid
<1> QED BY <1>2, <1>5 DEF WorkInv, LimitRight, Init

(* Over finitely many atoms the steps never exceed the bound.              *)
LEMMA PaidBounds ==
    ASSUME IsFiniteSet(Atoms), SolverInv, WorkInv
    PROVE  StepsBounded
<1> SUFFICES ASSUME Monotone
             PROVE  steps <= WorkBound /\ (result = "limit" => problem.limit < WorkBound)
  BY DEF StepsBounded
<1>1. /\ problem \in ProblemType /\ steps \in Nat /\ worklist.queued \subseteq Nodes
  BY DEF SolverInv, TypeOK
<1>2. Cardinality(worklist.queued) \in Nat
  BY <1>1, Finite, FS_Subset, FS_CardinalityType
<1>3. /\ Cardinality(initial_worklist(problem)) \in Nat
      /\ Cardinality(Told(problem, output)) \in Nat
      /\ Cardinality(problem.edges) * Cardinality(Atoms) \in Nat
      /\ Cardinality(Told(problem, output))
           <= Cardinality(problem.edges) * Cardinality(Atoms)
  BY <1>1, Finite
<1>4. steps + Cardinality(worklist.queued)
        <= Cardinality(initial_worklist(problem)) + Cardinality(Told(problem, output))
  BY DEF WorkInv, Paid
<1>5. steps <= WorkBound
  BY <1>1, <1>2, <1>3, <1>4 DEF WorkBound
<1> QED BY <1>5 DEF WorkInv, LimitRight

(* A solve that ends without facts was right to.  If it reports a          *)
(* rejection of an upward closed property, every solution is rejected; and *)
(* over finitely many atoms it takes at most one visit per node it starts  *)
(* with and one per edge and atom, so that it stops at a step limit only   *)
(* when the limit is below that (try_solve_along).                         *)
THEOREM StoppedRightly ==
    ASSUME IsFiniteSet(Atoms)
    PROVE  Spec => []StopsRightly
<1>1. Init => SolverInv /\ NeverOvershoots /\ Refused /\ WorkInv
  <2>1. Init => NeverOvershoots /\ Refused
    BY DEF Init, NeverOvershoots, Refused, bottom
  <2> QED BY <2>1, InitSolver, WorkInit
<1>2. SolverInv /\ Refused /\ WorkInv /\ [Next]_vars => SolverInv' /\ Refused' /\ WorkInv'
  BY SolverStep, RefusedStep, WorkStep
<1>3. SolverInv /\ NeverOvershoots /\ Refused /\ WorkInv => StopsRightly
  BY RefusedRight, PaidBounds DEF StopsRightly
<1> QED BY <1>1, <1>2, <1>3, LeastReturned, PTL DEF Spec
=============================================================================

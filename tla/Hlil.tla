-------------------------------- MODULE Hlil --------------------------------
(***************************************************************************)
(* The structured language (src/crates/cfglib/src/ir/hlil): the shapes of  *)
(* statements and expressions, the walks over them (view.rs), what verify  *)
(* refuses (verify.rs) and where a variable is declared (placement.rs).    *)
(*                                                                         *)
(* A statement is [kind, id, label, exprs, bodies, parts]: its own         *)
(* expressions, and its bodies in the order for_each_child_body visits     *)
(* them.  parts are the case values of each arm of a switch, or the        *)
(* handlers [kind, binding] of a try, a filter's predicate being the body  *)
(* before the handler's own.  An expression is <<"var", v>>,               *)
(* <<"const", c>> or <<"op", o, operands>>.                                *)
(***************************************************************************)
EXTENDS Integers, Sequences, SequencesExt, FiniteSetsExt

CONSTANT None

Var(v) == <<"var", v>>
Const(c) == <<"const", c>>
Op(o, operands) == <<"op", o, operands>>

Stmt(kind, id, label, exprs, bodies, parts) ==
    [kind |-> kind, id |-> id, label |-> label, exprs |-> exprs, bodies |-> bodies,
     parts |-> parts]
Simple(kind, id, exprs) == Stmt(kind, id, None, exprs, << >>, << >>)
Jumping(kind, id, label) == Stmt(kind, id, label, << >>, << >>, << >>)
Wrapping(kind, id, label, exprs, bodies) == Stmt(kind, id, label, exprs, bodies, << >>)

LoopKinds == {"while", "do", "loop", "for"}

(* A for's clauses stand between its header's parentheses.                 *)
Clauses(stmt) == IF stmt.kind = "for" THEN {1, 3} ELSE {}
Lexical(stmt) == DOMAIN stmt.bodies \ Clauses(stmt)

(* Where the bodies of each handler of a try begin: a filter has two.      *)
HandlerAt(stmt, h) ==
    1 + FoldLeft(LAMBDA n, p : n + (IF p.kind = "filter" THEN 2 ELSE 1), 0, SubSeq(stmt.parts, 1, h))

RECURSIVE visit_statements(_)
visit_statements(body) ==
    FlattenSeq([i \in DOMAIN body |->
        <<body[i]>> \o FlattenSeq([k \in DOMAIN body[i].bodies |-> visit_statements(body[i].bodies[k])])])

(* Operands before the operation that takes them.                          *)
RECURSIVE visit_expression_tree(_)
visit_expression_tree(e) ==
    (IF e[1] # "op" THEN << >>
     ELSE FlattenSeq([i \in DOMAIN e[3] |-> visit_expression_tree(e[3][i])])) \o <<e>>
VariablesOf(e) == {n[2] : n \in {m \in Range(visit_expression_tree(e)) : m[1] = "var"}}

(* A label names a loop only when that loop is all it labels.              *)
labeled_loop(body) ==
    IF Len(body) = 1 /\ body[1].kind \in LoopKinds THEN body[1] ELSE None

RECURSIVE expressions_equal(_, _)
expressions_equal(left, right) ==
    /\ left[1] = right[1] /\ left[2] = right[2]
    /\ left[1] = "op" =>
         /\ Len(left[3]) = Len(right[3])
         /\ \A i \in DOMAIN left[3] : expressions_equal(left[3][i], right[3][i])
compound_assignment(stmt) ==
    LET value == stmt.exprs[2]
    IN  IF /\ stmt.kind = "assign" /\ value[1] = "op" /\ Len(value[3]) = 2
           /\ expressions_equal(value[3][1], stmt.exprs[1])
        THEN <<value[2], value[3][2]>> ELSE None
-----------------------------------------------------------------------------
(* Verification.  The storage a view lends is a table of nodes, each with  *)
(* the indices of its children, and the roots.                             *)
References(table, roots, n) ==
    LET count(list) == Len(SelectSeq(list, LAMBDA c : c = n))
    IN  count(roots) + FoldLeft(LAMBDA sum, k : sum + count(table[k]), 0,
                                SelectSeq([k \in DOMAIN table |-> k],
                                          LAMBDA k : k > n))
verify_table(table, roots) ==
    /\ \A k \in DOMAIN table : \A i \in DOMAIN table[k] : table[k][i] \in 1..(k - 1)
    /\ Range(roots) \subseteq DOMAIN table
    /\ \A n \in DOMAIN table : References(table, roots, n) = 1

verify_statement_shape(stmt) ==
    /\ stmt.kind = "assign" => stmt.exprs[1][1] # "const"
    /\ stmt.kind = "switch" => \A i \in DOMAIN stmt.parts : stmt.parts[i] # << >>

(* What encloses a statement: how many loops, loops and switches, and      *)
(* which labels, those of loops among them.                                *)
Outermost == [loops |-> 0, breakable |-> 0, labels |-> {}, loop_labels |-> {}]
Enclosed(c, stmt) ==
    CASE stmt.kind \in LoopKinds -> [c EXCEPT !.loops = @ + 1, !.breakable = @ + 1]
      [] stmt.kind = "switch" -> [c EXCEPT !.breakable = @ + 1]
      [] stmt.kind = "labeled" ->
           [c EXCEPT !.labels = @ \cup {stmt.label},
              !.loop_labels = IF labeled_loop(stmt.bodies[1]) # None
                              THEN @ \cup {stmt.label} ELSE @]
      [] OTHER -> c
check_statement_any_label(c, defined, stmt) ==
    CASE stmt.kind = "break" ->
           IF stmt.label = None THEN c.breakable > 0 ELSE stmt.label \in c.labels
      [] stmt.kind = "continue" ->
           IF stmt.label = None THEN c.loops > 0 ELSE stmt.label \in c.labels
      [] stmt.kind = "goto" -> stmt.label \in defined
      [] OTHER -> TRUE
check_statement(c, defined, stmt) ==
    CASE stmt.kind = "break" ->
           IF stmt.label = None THEN c.breakable > 0 ELSE stmt.label \in c.labels
      [] stmt.kind = "continue" ->
           IF stmt.label = None THEN c.loops > 0 ELSE stmt.label \in c.loop_labels
      [] stmt.kind = "goto" -> stmt.label \in defined
      [] OTHER -> TRUE
RECURSIVE walk_context(_, _, _)
walk_context(c, defined, body) ==
    \A i \in DOMAIN body :
        /\ check_statement(c, defined, body[i])
        /\ \A k \in DOMAIN body[i].bodies :
              walk_context(Enclosed(c, body[i]), defined, body[i].bodies[k])
verify_context(body) ==
    LET labelled == SelectSeq(visit_statements(body), LAMBDA s : s.kind = "labeled")
        defined == {s.label : s \in Range(labelled)}
    IN  Cardinality(defined) = Len(labelled) /\ walk_context(Outermost, defined, body)
verify(body) ==
    /\ \A s \in Range(visit_statements(body)) : verify_statement_shape(s)
    /\ verify_context(body)
-----------------------------------------------------------------------------
(* Placement.  A variable is declared before the first statement, in the   *)
(* narrowest lexical body that holds all of it, that has it: one that two  *)
(* parts of a statement hold, or a part that is no body, before that       *)
(* statement.  placed maps variables to the ids of statements.             *)
Place(placed, vars, id) == [v \in vars |-> id] @@ placed
OwnExpressions(stmt) == UNION {VariablesOf(stmt.exprs[i]) : i \in DOMAIN stmt.exprs}
collect_body(body) == UNION {OwnExpressions(s) : s \in Range(visit_statements(body))}

RECURSIVE anchor_body(_, _), anchor_statement(_, _)
anchor_statement(placed, stmt) ==
    LET owned == OwnExpressions(stmt)
                 \cup UNION {collect_body(stmt.bodies[k]) : k \in Clauses(stmt)}
        step(a, k) ==
          LET inner == anchor_body(a.placed, stmt.bodies[k])
          IN  [placed |-> inner.placed, vars |-> a.vars \cup inner.vars,
               shared |-> a.shared \cup (a.vars \cap inner.vars)]
        bodies == SelectSeq([k \in DOMAIN stmt.bodies |-> k], LAMBDA k : k \in Lexical(stmt))
        all == FoldLeft(step, [placed |-> placed, vars |-> {}, shared |-> {}], bodies)
    IN  [placed |-> Place(all.placed, owned \cup all.shared, stmt.id), vars |-> owned \cup all.vars]
anchor_body(placed, body) ==
    LET take_in_statement(a, stmt) ==
          LET inner == anchor_statement(a.placed, stmt)
              again == inner.vars \cap DOMAIN a.first
          IN  [placed |-> [v \in again |-> a.first[v]] @@ inner.placed,
               first |-> a.first @@ [v \in inner.vars |-> stmt.id]]
        all == FoldLeft(take_in_statement, [placed |-> placed, first |-> << >>], body)
    IN  [placed |-> all.placed, vars |-> DOMAIN all.first]
anchor_variables(body) == anchor_body(<< >>, body).placed
=============================================================================

----------------------------- MODULE Propagate ------------------------------
(***************************************************************************)
(* What is known of values and what is rewritten with it: copies, constant *)
(* values with and without branches, numbers of equal values, redundant    *)
(* computations and storage shared by colour                               *)
(* (src/crates/cfglib/src/dataflow/copy_propagation.rs,                    *)
(* constant_propagation.rs, sccp.rs; analysis/value_numbering.rs;          *)
(* transform/pre.rs, coloring.rs).                                         *)
(***************************************************************************)
EXTENDS Ssa

(* What the caller's instructions say of themselves: a copy or several     *)
(* aliases of what is read, a constant, a pure operation (the complement   *)
(* of a bit), a branch on what is read, or something opaque.               *)
Const(v) == <<v>>
Top == << >>
Bottom == <<None>>
is_const(l) == l # Top /\ l # Bottom
is_pure(i) == i.what \in {"copy", "const", "op"}
operator(i) == <<i.what, i.arg>>
fold_constant(i, known) ==
    CASE i.what = "const" -> <<i.defs[1], i.arg>>
      [] i.what = "op" /\ is_const(known[i.uses[1]]) -> <<i.defs[1], 1 - known[i.uses[1]][1]>>
      [] i.what = "copy" /\ is_const(known[i.uses[1]]) -> <<i.defs[1], known[i.uses[1]][1]>>
      [] OTHER -> None
fold_branch(i, known) ==
    IF i.what = "branch" /\ is_const(known[i.uses[1]]) THEN <<known[i.uses[1]][1] = 1>> ELSE None
rewrite_use(i, old, new) ==
    [i EXCEPT !.uses = [k \in DOMAIN @ |-> IF @[k] = old THEN new ELSE @[k]]]
-----------------------------------------------------------------------------
(* Copies.  pairs is empty for an instruction that is not propagated.      *)
pairs(i, mode) ==
    IF i.what \in (IF mode = "copies" THEN {"copy"} ELSE {"copy", "alias"})
       /\ i.defs # << >> /\ Len(i.defs) = Len(i.uses)
    THEN [k \in DOMAIN i.defs |-> <<i.defs[k], i.uses[k]>>] ELSE << >>

(* Mutant of point_dominates: by blocks, whatever may be thrown.           *)
block_dominates(c, t, a, p) ==
    IF a[1] = p[1] THEN a[2] < p[2] ELSE dominates(t, a[1], p[1])

point_dominates(c, t, a, p) ==
    IF a[1] = p[1] THEN a[2] < p[2]
    ELSE dominates(t, a[1], p[1]) /\ ~(unwound(c, a) /\ p[1] \in unwind_reach(c, a[1]))

def_sites(c, x) ==
    {<<p, k>> \in Points(c) \X (1..2) : k \in DOMAIN Inst(c, p).defs /\ Inst(c, p).defs[k] = x}
use_sites(c, x) == {p \in Points(c) : x \in Range(Inst(c, p).uses)}
sound_substitution(c, t, p, dst, src) ==
    /\ dst # src
    /\ Cardinality(def_sites(c, dst)) = 1
    /\ \/ def_sites(c, src) = {}
       \/ Cardinality(def_sites(c, src)) = 1
          /\ \A s \in def_sites(c, src) : point_dominates(c, t, s[1], p)
    /\ \A u \in use_sites(c, dst) : u = p \/ point_dominates(c, t, p, u)
sound_copies(c, t, mode) ==
    LET candidates == {<<p, k>> \in Points(c) \X (1..2) :
                         k \in DOMAIN pairs(Inst(c, p), mode) /\ is_reachable(t, p[1])}
    IN  {q \in candidates : LET pair == pairs(Inst(c, q[1]), mode)[q[2]]
                            IN  sound_substitution(c, t, q[1], pair[1], pair[2])}
substitutions_of(c, mode, sound) ==
        [x \in {pairs(Inst(c, q[1]), mode)[q[2]][1] : q \in sound} |->
           LET q == CHOOSE s \in sound : pairs(Inst(c, s[1]), mode)[s[2]][1] = x
           IN  [source |-> pairs(Inst(c, q[1]), mode)[q[2]][2], definition |-> q[1]]]
found_substitutions(c, mode) ==
    substitutions_of(c, mode, sound_copies(c, compute(c, Root), mode))

(* The end of a chain of copies; a cycle ends where it was entered.        *)
RECURSIVE chain_end(_, _, _)
chain_end(subs, x, seen) ==
    IF x \notin DOMAIN subs \/ x \in seen THEN x
    ELSE chain_end(subs, subs[x].source, seen \cup {x})
RECURSIVE chain_path(_, _, _)
chain_path(subs, x, terminal) ==
    IF x \notin DOMAIN subs \/ x \in DOMAIN terminal THEN {}
    ELSE {x} \cup chain_path([y \in DOMAIN subs \ {x} |-> subs[y]], subs[x].source, terminal)
resolve(subs, terminal, x) ==
    IF x \in DOMAIN terminal THEN terminal
    ELSE LET path == chain_path(subs, x, terminal)
             stop == chain_end([y \in DOMAIN subs \ DOMAIN terminal |-> subs[y]], x, {})
             end == IF stop \in DOMAIN terminal THEN terminal[stop] ELSE stop
         IN  [y \in DOMAIN terminal \cup path |-> IF y \in path THEN end ELSE terminal[y]]
resolve_chains(subs) ==
    LET terminal == FoldLeft(LAMBDA a, x : resolve(subs, a, x), [y \in {} |-> y],
                             Sorted(DOMAIN subs))
    IN  [x \in DOMAIN subs |-> [subs[x] EXCEPT !.source = terminal[x]]]

RECURSIVE rewritten(_, _, _, _)
rewritten(subs, p, i, candidates) ==
    IF candidates = {} THEN i
    ELSE LET old == Min(candidates)
             rest == candidates \ {old}
         IN  IF old \notin DOMAIN subs \/ subs[old].definition = p
             THEN rewritten(subs, p, i, rest)
             ELSE rewritten(subs, p, rewrite_use(i, old, subs[old].source),
                            rest \cup (IF subs[old].source > old THEN {subs[old].source} ELSE {}))
replace_uses(c, subs) ==
    [c EXCEPT !.insts = [b \in c.live |-> [i \in DOMAIN c.insts[b] |->
       rewritten(subs, <<b, i>>, c.insts[b][i], Range(c.insts[b][i].uses))]]]
without_copies(c, mode, facts) ==
    retain(c, {p \in Points(c) :
                 /\ pairs(Inst(c, p), mode) # << >>
                 /\ Range(Inst(c, p).defs) \cap live_point(c, facts, <<p[1], p[2] + 1>>) = {}})
eliminate_copies(c, mode, seeds) == without_copies(c, mode, solve(c, seeds))
apply_substitutions(c, mode, seeds, subs) ==
    IF DOMAIN subs = {} THEN retain(c, {})
    ELSE eliminate_copies(replace_uses(c, subs), mode, seeds)
propagate(c, mode, seeds) ==
    apply_substitutions(c, mode, seeds, resolve_chains(found_substitutions(c, mode)))
-----------------------------------------------------------------------------
(* Constants.  Facts give every variable a value of the lattice; blocks    *)
(* that are not reached have none.                                         *)
meet_with(a, b) == IF a = Top THEN b ELSE IF b = Top \/ a = b THEN a ELSE Bottom
meet_facts(f, g) == [x \in DOMAIN f |-> meet_with(f[x], g[x])]
fold_definitions(i, known) ==
    LET folded == fold_constant(i, known)
    IN  [k \in DOMAIN i.defs |->
           IF folded # None /\ folded[1] = i.defs[k] THEN Const(folded[2]) ELSE Bottom]
const_step(fact, i) ==
    LET values == fold_definitions(i, fact)
    IN  FoldLeft(LAMBDA f, k : [f EXCEPT ![i.defs[k]] = values[k]], fact, [k \in DOMAIN i.defs |-> k])
consts_before(c, p, fact) ==
    FoldLeft(LAMBDA f, i : const_step(f, c.insts[p[1]][i]), fact, [i \in 1..(p[2] - 1) |-> i])
(* Mutant of consts_along: an unwind carries what holds where it is taken  *)
(* first.                                                                  *)
consts_along_first(c, e, fact) == consts_before(c, departures(c, e)[1], fact)

consts_along(c, e, fact) ==
    LET from == departures(c, e)
        first == consts_before(c, from[1], fact)
    IN  FoldLeft(LAMBDA f, p : meet_facts(f, consts_before(c, p, fact)), first, Tail(from))
RECURSIVE consts_from(_, _)
consts_from(c, fact) ==
    LET at(b) == SelectSeq(incident(c, b, "in"), LAMBDA e : fact[c.edges[e][1]] # None)
        begin(b) == [x \in Variables(c) |-> IF b = Root THEN Bottom ELSE Top]
        next == [b \in c.live |-> IF b # Root /\ at(b) = << >> THEN None ELSE
                   FoldLeft(LAMBDA f, e : meet_facts(f, consts_along(c, e, fact[c.edges[e][1]])),
                            begin(b), at(b))]
    IN  IF next = fact THEN fact ELSE consts_from(c, next)
constants_in(c) == consts_from(c, [b \in c.live |-> None])
-----------------------------------------------------------------------------
(* Sparse conditional constants: a stack of edges, and rounds over the     *)
(* reached blocks while a value changes.                                   *)
Values(ssa) ==
    {phi.result : phi \in ssa.phis} \cup UNION {inputs(phi) : phi \in ssa.phis}
        \cup UNION {UNION {Range(i.uses) \cup Range(i.defs) : i \in Range(ssa.insts[b])} :
                      b \in DOMAIN ssa.insts}
lattice_begin(ssa, seeds) ==
    [v \in Values(ssa) |-> IF v[2] # 0 THEN Top
                           ELSE IF v[1] \in DOMAIN seeds THEN Const(seeds[v[1]]) ELSE Bottom]
update_value(st, v, candidate) ==
    LET next == meet_with(st.values[v], candidate)
    IN  IF next = st.values[v] THEN st
        ELSE [st EXCEPT !.values[v] = next, !.changed = TRUE]
known_constants(c, ssa, values, p) ==
    LET named == ssa.insts[p[1]][p[2]].uses
        of(x) == {k \in DOMAIN named : named[k][1] = x}
    IN  [x \in Variables(c) |-> IF of(x) = {} THEN Top ELSE values[named[Max(of(x))]]]
evaluate_inst(c, ssa, st, p) ==
    LET found == fold_definitions(Inst(c, p), known_constants(c, ssa, st.values, p))
    IN  FoldLeft(LAMBDA a, k : update_value(a, ssa.insts[p[1]][p[2]].defs[k], found[k]), st,
                 [k \in DOMAIN found |-> k])
evaluate_block(c, ssa, st, b) ==
    FoldLeft(LAMBDA a, i : evaluate_inst(c, ssa, a, <<b, i>>), st, Indices(c, b))
decided_branch(c, ssa, values, b) ==
    IF c.insts[b] = << >> THEN None
    ELSE fold_branch(Last(c.insts[b]), known_constants(c, ssa, values, <<b, Len(c.insts[b])>>))
withheld(decided) == IF decided = <<TRUE>> THEN "false" ELSE "true"
activate_successors(c, ssa, st, b) ==
    LET decided == decided_branch(c, ssa, st.values, b)
    IN  [st EXCEPT !.work = @ \o SelectSeq(incident(c, b, "out"), LAMBDA e :
            ~(decided # None /\ c.kinds[e] = withheld(decided)) /\ e \notin st.executable)]

edge_departure(c, e) == <<c.edges[e][1], departs_before_throws(c, e)>>
operand_departure(c, p) == <<p[1], p # End(c, p[1])>>

evaluate_phi(c, st, b, phi) ==
    LET begin == IF phi.block = Root THEN st.values[live_in_value(phi.variable)] ELSE Top
        arriving == {edge_departure(c, e) : e \in Range(incident(c, b, "in")) \cap st.executable}
        taken == SelectSeq(phi.operands, LAMBDA o : operand_departure(c, o[1]) \in arriving)
    IN  update_value(st, phi.result,
                     FoldLeft(LAMBDA a, o : meet_with(a, st.values[o[2]]), begin, taken))
evaluate_phis(c, ssa, st, b) ==
    FoldSet(LAMBDA phi, a : evaluate_phi(c, a, b, phi), st, {phi \in ssa.phis : phi.block = b})
visit(c, ssa, st, b) ==
    LET named == evaluate_phis(c, ssa, st, b)
        run == evaluate_block(c, ssa, named, b)
    IN  activate_successors(c, ssa, run, b)
RECURSIVE follow_edges(_, _, _)
follow_edges(c, ssa, st) ==
    IF st.work = << >> THEN st
    ELSE LET e == Last(st.work)
             b == c.edges[e][2]
             popped == [st EXCEPT !.work = Front(@)]
             taken == [popped EXCEPT !.executable = @ \cup {e}, !.reachable = @ \cup {b}]
         IN  IF e \in st.executable THEN follow_edges(c, ssa, popped)
             ELSE IF b \in st.reachable
                  THEN follow_edges(c, ssa, evaluate_phis(c, ssa, taken, b))
                  ELSE follow_edges(c, ssa, visit(c, ssa, taken, b))
RECURSIVE refine(_, _, _)
refine(c, ssa, st) ==
    IF ~st.changed THEN st
    ELSE LET round == FoldLeft(LAMBDA a, b : visit(c, ssa, a, b), [st EXCEPT !.changed = FALSE],
                               Sorted(st.reachable))
         IN  refine(c, ssa, round)
RECURSIVE sccp_from(_, _, _)
sccp_from(c, ssa, st) ==
    IF st.work = << >> /\ ~st.changed THEN st
    ELSE LET followed == follow_edges(c, ssa, st)
             refined == refine(c, ssa, followed)
         IN  sccp_from(c, ssa, refined)
compute_seeded(c, ssa, seeds) ==
    LET begin == [values |-> lattice_begin(ssa, seeds), executable |-> {}, reachable |-> {Root},
                  work |-> << >>, changed |-> FALSE]
        entered == visit(c, ssa, begin, Root)
    IN  sccp_from(c, ssa, entered)
operand_is_executable(c, st, p, b) ==
    \E e \in Range(incident(c, b, "in")) \cap st.executable :
        edge_departure(c, e) = operand_departure(c, p)
-----------------------------------------------------------------------------
(* Numbers of equal values over the dominator tree, computations that are  *)
(* redundant by them, and variables that may share storage.                *)

(* The tables: a number or None for each variable, the numbers of the      *)
(* expressions in scope, and the next number.                              *)
redefine(tb, x) == [tb EXCEPT !.vals[x] = tb.next, !.next = @ + 1]
value_of(tb, x) == IF tb.vals[x] = None THEN redefine(tb, x) ELSE tb
bind(tb, x, n) == [tb EXCEPT !.vals[x] = n]
redefine_all(tb, vars) == FoldLeft(redefine, tb, vars)

(* A pure instruction gets the number of its operation on the numbers it   *)
(* reads, and is redundant when the operation has one; any other defines   *)
(* afresh.                                                                 *)
number_instruction(tb, i) ==
    IF ~is_pure(i) \/ i.defs = << >>
    THEN [tables |-> redefine_all(tb, i.defs), value |-> None, redundant |-> FALSE, introduced |-> {}]
    ELSE LET read == FoldLeft(value_of, tb, i.uses)
             key == <<operator(i), [k \in DOMAIN i.uses |-> read.vals[i.uses[k]]]>>
             known == {e \in read.exprs : e[1] = key}
             made == IF known # {} THEN read
                     ELSE [read EXCEPT !.exprs = @ \cup {<<key, read.next>>}, !.next = @ + 1]
             value == (CHOOSE e \in made.exprs : e[1] = key)[2]
         IN  [tables |-> FoldLeft(LAMBDA a, x : bind(a, x, value), made, i.defs), value |-> value,
              redundant |-> known # {}, introduced |-> IF known = {} THEN {key} ELSE {}]

(* The variables written on some way from the immediate dominator to b.    *)
RECURSIVE between(_, _, _, _, _)
between(c, t, parent, pending, found) ==
    IF pending = {} THEN found
    ELSE LET next == {p \in UNION {Range(predecessors(c, n)) : n \in pending} :
                        p # parent /\ is_reachable(t, p)} \ found
         IN  between(c, t, parent, next, found \cup next)

(* Mutant of side_path_definitions: only the predecessors themselves.      *)
predecessor_definitions(c, t, b) ==
    IF idom(t, b) = None THEN << >>
    ELSE LET on == {p \in Range(predecessors(c, b)) : p # idom(t, b) /\ is_reachable(t, p)}
         IN  Sorted(UNION {writes_of(c, n) : n \in on})

side_path_definitions(c, t, b) ==
    IF idom(t, b) = None THEN << >>
    ELSE LET on == between(c, t, idom(t, b), {b}, {})
         IN  Sorted(UNION {writes_of(c, n) : n \in on})

(* Entering a block that an unwind out of its dominator reaches forgets    *)
(* what the dominator did from its first throw on.                         *)
enter_scope(c, t, st, b) ==
    LET parent == idom(t, b)
        after == parent # None /\ first_unwind_point(c, parent) # None
                   /\ b \in unwind_reach(c, parent)
        forgot == IF ~after THEN st.tables
                  ELSE [redefine_all(st.tables, Sorted(st.suffix[parent].variables)) EXCEPT
                          !.exprs = {e \in @ : e[1] \notin st.suffix[parent].expressions}]
    IN  [tables |-> redefine_all(forgot, side_path_definitions(c, t, b)),
         hidden |-> st.tables.exprs \ forgot.exprs, added |-> {},
         vn |-> st.vn, redundant |-> st.redundant, variables |-> {}, expressions |-> {}]
record_number(acc, p, defs, late, n) ==
    [acc EXCEPT !.tables = n.tables, !.added = @ \cup n.introduced,
                !.vn = [@ EXCEPT ![p] = n.value],
                !.redundant = @ \cup (IF n.redundant THEN {p} ELSE {}),
                !.variables = @ \cup (IF late THEN Range(defs) ELSE {}),
                !.expressions = @ \cup (IF late THEN n.introduced ELSE {})]
number_at(c, b, acc, i) ==
    record_number(acc, <<b, i>>, c.insts[b][i].defs, unwound(c, <<b, i>>),
                  number_instruction(acc.tables, c.insts[b][i]))
number_block(c, t, st, b) ==
    LET entered == enter_scope(c, t, st, b)
    IN  FoldLeft(LAMBDA a, i : number_at(c, b, a, i), entered, Indices(c, b))

(* Leaving a block puts back what its scope changed.                       *)
exit_scope(st, scope) ==
    [st EXCEPT !.tables.exprs = {e \in @ : e[1] \notin scope.added} \cup scope.hidden,
               !.tables.vals = scope.vals]
block_scope(b, st, done) ==
    [block |-> b, vals |-> st.tables.vals, added |-> done.added, hidden |-> done.hidden]
after_block(b, st, done) ==
    [tables |-> done.tables, vn |-> done.vn, redundant |-> done.redundant,
     suffix |-> [st.suffix EXCEPT ![b] = [variables |-> done.variables,
                                          expressions |-> done.expressions]]]
RECURSIVE numbering_from(_, _, _, _, _)
RECURSIVE numbering_after(_, _, _, _, _, _)
numbering_from(c, t, st, rest, open) ==
    IF open # << >> /\ (rest = << >> \/ ~dominates(t, Last(open).block, Head(rest)))
    THEN numbering_from(c, t, exit_scope(st, Last(open)), rest, Front(open))
    ELSE IF rest = << >> THEN st
    ELSE numbering_after(c, t, st, rest, open, number_block(c, t, st, Head(rest)))
numbering_after(c, t, st, rest, open, done) ==
    numbering_from(c, t, after_block(Head(rest), st, done), Tail(rest),
                   Append(open, block_scope(Head(rest), st, done)))
numbering_over(c, t) ==
    LET begin == [tables |-> [vals |-> [x \in Variables(c) |-> None], exprs |-> {}, next |-> 0],
                  vn |-> [p \in Points(c) |-> None], redundant |-> {},
                  suffix |-> [b \in c.live |-> [variables |-> {}, expressions |-> {}]]]
    IN  numbering_from(c, t, begin, t.order, << >>)
numbering(c) == numbering_over(c, compute(c, Root))
-----------------------------------------------------------------------------
(* Redundant computations give way to the one that leads their number.     *)
leader(nb, n) == CHOOSE p \in DOMAIN nb.vn \ nb.redundant : nb.vn[p] = n
dominates_read(t, p, u) ==
    IF p[1] = u[1] THEN p[2] < u[2] ELSE strictly_dominates(t, p[1], u[1])

(* Mutant of replaceable: a read need not come after what is taken out.    *)
replaceable_for_any(c, t, nb, p) ==
    LET old == Inst(c, p).defs
        new == Inst(c, leader(nb, nb.vn[p])).defs
    IN  /\ Len(old) = Len(new)
        /\ \A k \in DOMAIN old :
              /\ old[k] # new[k]
              /\ Cardinality(def_sites(c, old[k])) = 1 /\ Cardinality(def_sites(c, new[k])) = 1

replaceable(c, t, nb, p) ==
    LET old == Inst(c, p).defs
        new == Inst(c, leader(nb, nb.vn[p])).defs
    IN  /\ Len(old) = Len(new)
        /\ \A k \in DOMAIN old :
              /\ old[k] # new[k]
              /\ Cardinality(def_sites(c, old[k])) = 1 /\ Cardinality(def_sites(c, new[k])) = 1
              /\ \A u \in use_sites(c, old[k]) : dominates_read(t, p, u)
without_redundant(c, nb, removed) ==
    LET new(x) == LET p == CHOOSE q \in removed : x \in Range(Inst(c, q).defs)
                      k == CHOOSE j \in DOMAIN Inst(c, p).defs : Inst(c, p).defs[j] = x
                  IN  Inst(c, leader(nb, nb.vn[p])).defs[k]
        gone == UNION {Range(Inst(c, p).defs) : p \in removed}
        read(i) == [i EXCEPT !.uses = [k \in DOMAIN @ |->
                      IF @[k] \in gone THEN new(@[k]) ELSE @[k]]]
    IN  retain([c EXCEPT !.insts = [b \in c.live |-> [i \in DOMAIN c.insts[b] |->
                  read(c.insts[b][i])]]], removed)
eliminate_found(c, t, nb) ==
    without_redundant(c, nb, {p \in nb.redundant : replaceable(c, t, nb, p)})
eliminate_over(c, t) == eliminate_found(c, t, numbering_over(c, t))
eliminate_pre(c) == eliminate_over(c, compute(c, Root))
-----------------------------------------------------------------------------
(* Variables interfere when both are live, or one is written while the     *)
(* other is live or written.                                               *)
clique(S) == {<<x, y>> \in S \X S : x # y}

(* Mutant of at_instruction: a definition that nothing reads is no          *)
(* conflict.                                                               *)
at_instruction_of_live(i, active, unwind) == clique(step_backward(active, i, unwind))

at_instruction(i, active, unwind) ==
    LET written == Range(i.defs)
    IN  clique(written) \cup clique(step_backward(active, i, unwind))
        \cup {<<x, y>> \in written \X active : x # y} \cup {<<x, y>> \in active \X written : x # y}
interference_graph(c, facts) ==
    LET before(b, i) == live_point(c, facts, <<b, i + 1>>)
    IN  UNION {clique(facts.live_out[b]) \cup
                 UNION {at_instruction(c.insts[b][i], before(b, i), live_on_unwind(c, facts, b)) :
                          i \in DOMAIN c.insts[b]} : b \in c.live}
interfering(c, facts) ==
    UNION {facts.live_in[b] \cup facts.live_out[b] \cup writes_of(c, b) : b \in c.live}

(* Few neighbours first, the least colour that no neighbour has.           *)
color_graph(nodes, pairs_) ==
    LET beside(x) == {y \in nodes : <<x, y>> \in pairs_}
        order == SetToSortSeq(nodes, LAMBDA x, y :
                   \/ Cardinality(beside(x)) < Cardinality(beside(y))
                   \/ Cardinality(beside(x)) = Cardinality(beside(y)) /\ x < y)
        paint(a, x) == LET used == {a[y] : y \in beside(x) \cap DOMAIN a}
                           least == Min(0..Cardinality(nodes) \ used)
                       IN  [y \in DOMAIN a \cup {x} |-> IF y = x THEN least ELSE a[y]]
    IN  FoldLeft(paint, [y \in {} |-> 0], order)
=============================================================================

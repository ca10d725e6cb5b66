-------------------------------- MODULE Ssa ---------------------------------
(***************************************************************************)
(* Static single assignment: where phis go, the renaming walk over the     *)
(* dominator forest, lookup of a value, copies in place of phis and webs   *)
(* of values that phis connect (src/crates/cfglib/src/dataflow/ssa,        *)
(* ssa_destruction.rs and phi_web.rs); and the same for memory (memory.rs  *)
(* and dataflow/memory).                                                   *)
(***************************************************************************)
EXTENDS Code

(* A value is a variable and a version, version 0 the one it starts with.  *)
live_in_value(x) == <<x, 0>>

(* The table of frontiers: up from each predecessor of a join to the       *)
(* join's immediate dominator.                                             *)
runners(t, p, stop) ==
    LET up == ancestry(t, p)
    IN  IF stop \in Range(up) THEN SubSeq(up, 1, SelectInSeq(up, LAMBDA n : n = stop) - 1) ELSE up
joins(c, t, b) == Len(predecessors(c, b)) >= (IF idom(t, b) = None THEN 1 ELSE 2)
frontier_runs(c, t) ==
    LET met(n, b) == /\ is_reachable(t, b) /\ joins(c, t, b)
                     /\ \E p \in Range(predecessors(c, b)) :
                           is_reachable(t, p) /\ n \in Range(runners(t, p, idom(t, b)))
    IN  [n \in c.live |-> Sorted({b \in c.live : met(n, b)})]

(* The blocks that get a phi for x: what an unwind out of a block that     *)
(* writes x at or after its first throw enters, then the frontiers, from a *)
(* stack of blocks that have a new value of x.                             *)
defining(c, x) == {p[1] : p \in {q \in Points(c) : x \in Range(Inst(c, q).defs)}}

unwound_into(c, x) ==
    LET sources == {p[1] : p \in {q \in Points(c) : x \in Range(Inst(c, q).defs) /\ unwound(c, q)}}
        edges == FlattenSeq([k \in DOMAIN Sorted(sources) |-> unwind_edges(c, Sorted(sources)[k])])
    IN  Firsts([k \in DOMAIN edges |-> c.edges[edges[k]][2]])
RECURSIVE phis_from(_, _, _, _)
phis_from(frontiers, worklist, has_phi, placed) ==
    IF worklist = << >> THEN has_phi
    ELSE LET fresh == Without(frontiers[Last(worklist)], has_phi)
         IN  phis_from(frontiers, Front(worklist) \o Without(fresh, placed),
                       has_phi \cup Range(fresh), placed \cup Range(fresh))
phi_blocks(c, frontiers, x) ==
    LET targets == unwound_into(c, x)
    IN  phis_from(frontiers, Sorted(defining(c, x)) \o Without(targets, defining(c, x)),
                  Range(targets), defining(c, x) \cup Range(targets))
place_phis(c, t) ==
    LET frontiers == frontier_runs(c, t)
        written == {x \in Variables(c) : defining(c, x) # {}}
    IN  UNION {{<<b, x>> : b \in phi_blocks(c, frontiers, x)} : x \in written}
-----------------------------------------------------------------------------
(* Renaming.  phis are pairs of a block and a variable, results and        *)
(* operands what they have been given; stacks hold the values of each      *)
(* variable that are in scope, versions the last version given out.        *)
current_value(st, x) == IF st.stacks[x] = << >> THEN live_in_value(x) ELSE Last(st.stacks[x])
push_fresh(st, x) ==
    LET v == <<x, st.versions[x] + 1>>
    IN  [st EXCEPT !.versions[x] = v[2], !.stacks[x] = Append(@, v), !.pushed = Append(@, x),
                   !.new = Append(@, v)]
set_operands(st, c, edges, p) ==
    LET blocks == {c.edges[e][2] : e \in Range(edges)}
    IN  [st EXCEPT !.operands = @ \cup
           {<<phi, p, current_value(st, phi[2])>> : phi \in {f \in st.phis : f[1] \in blocks}}]

enter_phi(st, phi) ==
    LET next == push_fresh(st, phi[2])
    IN  [next EXCEPT !.results = @ \cup {<<phi, Last(next.new)>>}]

(* Mutant of enter_inst: a handler gets the values of after the throw.     *)
enter_inst_late(c, st, b, i) ==
    LET inst == c.insts[b][i]
        uses == FoldLeft(LAMBDA s, x : Append(s, current_value(st, x)), << >>, inst.uses)
        done == FoldLeft(push_fresh, [st EXCEPT !.new = << >>], inst.defs)
        told == IF inst.throws THEN set_operands(done, c, unwind_edges(c, b), <<b, i>>) ELSE done
    IN  [told EXCEPT !.insts[b] = Append(@, [uses |-> uses, defs |-> done.new])]

enter_inst(c, st, b, i) ==
    LET inst == c.insts[b][i]
        told == IF inst.throws THEN set_operands(st, c, unwind_edges(c, b), <<b, i>>) ELSE st
        uses == FoldLeft(LAMBDA s, x : Append(s, current_value(told, x)), << >>, inst.uses)
        done == FoldLeft(push_fresh, [told EXCEPT !.new = << >>], inst.defs)
    IN  [done EXCEPT !.insts[b] = Append(@, [uses |-> uses, defs |-> done.new])]

(* A block on the way in: its phis, its instructions, then the operands of *)
(* what follows it; and on the way out, a pop for each push.               *)
rename_block(c, st, b) ==
    LET named == FoldSet(LAMBDA phi, a : enter_phi(a, phi), [st EXCEPT !.pushed = << >>],
                         {phi \in st.phis : phi[1] = b})
        run == FoldLeft(LAMBDA a, i : enter_inst(c, a, b, i), named, Indices(c, b))
    IN  set_operands(run, c, incident(c, b, "out"), End(c, b))
exit_block(st, pushed) == FoldLeft(LAMBDA a, x : [a EXCEPT !.stacks[x] = Front(@)], st, pushed)

(* scoped_walk: a preorder of the forest with a stack of open scopes.      *)
RECURSIVE rename(_, _, _, _, _)
rename(c, t, st, rest, open) ==
    IF open # << >> /\ (rest = << >> \/ ~dominates(t, Last(open)[1], Head(rest)))
    THEN LET left == exit_block(st, Last(open)[2])
         IN  rename(c, t, left, rest, Front(open))
    ELSE IF rest = << >> THEN st
    ELSE LET next == rename_block(c, st, Head(rest))
         IN  rename(c, t, next, Tail(rest), Append(open, <<Head(rest), next.pushed>>))

(* A phi with its result and an operand for each arrival, the value of the *)
(* start where none came; a departure that is no arrival set nothing.      *)
finish_phi(c, st, phi) ==
    LET come(p) == {o[3] : o \in {q \in st.operands : q[1] = phi /\ q[2] = p}}
        from == arrivals(c, phi[1])
    IN  [block |-> phi[1], variable |-> phi[2],
         result |-> (CHOOSE r \in st.results : r[1] = phi)[2],
         operands |-> [j \in DOMAIN from |->
            <<from[j], IF come(from[j]) = {} THEN live_in_value(phi[2])
                       ELSE CHOOSE v \in come(from[j]) : TRUE>>]]
rename_begin(c, phis) ==
    [phis |-> phis, results |-> {}, operands |-> {},
     insts |-> [b \in c.live |-> << >>], pushed |-> << >>, new |-> << >>,
     stacks |-> [x \in Variables(c) |-> << >>], versions |-> [x \in Variables(c) |-> 0]]
finish(c, t, done) ==
    [phis |-> {finish_phi(c, done, phi) : phi \in done.phis}, insts |-> done.insts, idom |-> t.idom]
rename_over(c, t) == finish(c, t, rename(c, t, rename_begin(c, place_phis(c, t)), t.order, << >>))

(* Over the forest of all blocks when there is one, else over the tree.    *)
forest_of(reached, all) == IF all = None THEN reached ELSE all
ssa_over(c, reached) ==
    rename_over(c, forest_of(reached, complete_dominator_forest(c, Root, reached)))
ssa_form(c) == ssa_over(c, compute(c, Root))
-----------------------------------------------------------------------------
(* value_at: back through the block, then its phis, then up the tree.      *)
def_of(inst, x) ==
    LET found == {k \in DOMAIN inst.defs : inst.defs[k][1] = x}
    IN  IF found = {} THEN None ELSE inst.defs[Max(found)]
value_in_block(ssa, b, end, x) ==
    LET writes == {i \in 1..end : def_of(ssa.insts[b][i], x) # None}
        phis == {phi \in ssa.phis : phi.block = b /\ phi.variable = x}
    IN  IF writes # {} THEN def_of(ssa.insts[b][Max(writes)], x)
        ELSE IF phis # {} THEN (CHOOSE phi \in phis : TRUE).result ELSE None
RECURSIVE value_up(_, _, _, _)
value_up(ssa, b, end, x) ==
    IF b = None THEN live_in_value(x)
    ELSE LET here == value_in_block(ssa, b, end, x)
         IN  IF here # None THEN here
             ELSE LET up == ssa.idom[b]
                  IN  value_up(ssa, up, IF up = None THEN 0 ELSE Len(ssa.insts[up]), x)
value_at(ssa, p, x) == value_up(ssa, p[1], p[2] - 1, x)
-----------------------------------------------------------------------------
(* Copies that stand for the phis, one for each departure; those of one    *)
(* departure into one block happen together.                               *)
Start == <<None>>
start_value(phi) == IF phi.block = Root THEN {live_in_value(phi.variable)} ELSE {}
phi_copies(phi) ==
    {[from |-> Start, phi |-> phi, source |-> v] : v \in start_value(phi)}
    \cup {[from |-> o[1], phi |-> phi, source |-> o[2]] : o \in Range(phi.operands)}
eliminate_phis(ssa) == UNION {phi_copies(phi) : phi \in ssa.phis}
copies_by_predecessor(copies, from, to) ==
    {copy \in copies : copy.from = from /\ copy.phi.block = to}

(* Webs: what phis connect, all phis or those some instruction needs.      *)
inputs(phi) == {o[2] : o \in Range(phi.operands)} \cup start_value(phi)
RECURSIVE demanded(_, _, _)
demanded(phis, live, wanted) ==
    LET more == {phi \in phis \ live : phi.result \in wanted}
    IN  IF more = {} THEN live
        ELSE demanded(phis, live \cup more,
                      UNION {{o[2] : o \in Range(phi.operands)} : phi \in more})
live_phis(ssa) ==
    demanded(ssa.phis, {}, UNION {UNION {Range(i.uses) : i \in Range(ssa.insts[b])} :
                                     b \in DOMAIN ssa.insts})
unite(webs, S) == {w \in webs : w \cap S = {}} \cup {S \cup UNION {w \in webs : w \cap S # {}}}
webs_of(phis) == FoldSet(LAMBDA phi, webs : unite(webs, {phi.result} \cup inputs(phi)), {}, phis)
web_of(webs, v) == IF \E w \in webs : v \in w THEN CHOOSE w \in webs : v \in w ELSE {v}
-----------------------------------------------------------------------------
(* Memory: the events that instructions report, the classes of locations   *)
(* that may overlap, single assignment over the classes by way of a shadow *)
(* program whose instructions are the events, the chains between           *)
(* definitions and reads, and the graph of values that flow through        *)
(* memory.                                                                 *)

(* An event is a read, a write, an update or a fence; an access has a      *)
(* location, the variables its address is made of, and those it stores and *)
(* loads.  Its site is the point of its instruction and its place there.   *)
is_fence(ev) == ev.kind = "fence"
reads(ev) == ev.kind \in {"read", "update"}
writes(ev) == ev.kind \in {"write", "update"}
operations(ev) ==
    CASE ev.kind = "read" -> {"read"} [] ev.kind = "write" -> {"write"}
      [] ev.kind = "update" -> {"read", "modify", "write"} [] is_fence(ev) -> {}
trace(c) ==
    LET at(b, i) == [k \in DOMAIN c.insts[b][i].mem |-> <<<<b, i>>, k>>]
        in(b) == FlattenSeq([i \in DOMAIN c.insts[b] |-> at(b, i)])
    IN  FlattenSeq([j \in DOMAIN Sorted(c.live) |-> in(Sorted(c.live)[j])])
event_at(c, site) == Inst(c, site[1]).mem[site[2]]
operations_at(c, p) == UNION {operations(ev) : ev \in Range(Inst(c, p).mem)}
-----------------------------------------------------------------------------
(* Index paths overlap when each index they share may be the same one, an  *)
(* index that is not fixed being any.                                      *)
index_paths_may_overlap(left, right) ==
    Len(left) = Len(right) =>
        \A k \in DOMAIN left : None \in {left[k], right[k]} \/ left[k] = right[k]

(* Classes: the closure of alias, pairs of locations that an oracle says   *)
(* may overlap, asked either way round; numbered by their first location.  *)
locations(c) ==
    {event_at(c, s).loc : s \in {q \in Range(trace(c)) : ~is_fence(event_at(c, q))}}

(* Mutant of aliased: the oracle is asked one way round.                   *)
aliased_ordered(alias, left, right) == left < right /\ <<left, right>> \in alias

aliased(alias, left, right) ==
    left < right /\ (<<left, right>> \in alias \/ <<right, left>> \in alias)
build_location_classes(c, alias) ==
    LET pairs == {p \in locations(c) \X locations(c) : aliased(alias, p[1], p[2])}
        merged == FoldSet(LAMBDA p, classes : unite(classes, {p[1], p[2]}),
                          {{l} : l \in locations(c)}, pairs)
        rank(class) == Cardinality({other \in merged : Min(other) < Min(class)})
    IN  [l \in locations(c) |-> rank(CHOOSE class \in merged : l \in class)]
may_alias(class_of, left, right) ==
    left \in DOMAIN class_of /\ right \in DOMAIN class_of /\ class_of[left] = class_of[right]
-----------------------------------------------------------------------------
(* The shadow program: one step for each event, and one without an event   *)
(* for an instruction that throws and has none.  Only the first step of an *)
(* instruction throws: an unwind carries the memory from before all of it. *)
class_at(c, class_of, site) ==
    IF is_fence(event_at(c, site)) THEN << >> ELSE <<class_of[event_at(c, site).loc]>>
shadow_event(c, class_of, site, unwinds) ==
    [site |-> site, point |-> site[1], throws |-> unwinds, uses |-> class_at(c, class_of, site),
     defs |-> IF writes(event_at(c, site)) THEN class_at(c, class_of, site) ELSE << >>]
shadow_unwind(p) == [site |-> None, point |-> p, throws |-> TRUE, uses |-> << >>, defs |-> << >>]

(* Mutant of shadow_steps: the unwind leaves before the last event.        *)
shadow_steps_last(c, class_of, p) ==
    LET unwinds == Inst(c, p).throws /\ unwind_edges(c, p[1]) # << >>
        n == Len(Inst(c, p).mem)
    IN  IF n = 0 /\ unwinds THEN <<shadow_unwind(p)>>
        ELSE [k \in 1..n |-> shadow_event(c, class_of, <<p, k>>, unwinds /\ k = n)]

shadow_steps(c, class_of, p) ==
    LET unwinds == Inst(c, p).throws /\ unwind_edges(c, p[1]) # << >>
        n == Len(Inst(c, p).mem)
    IN  IF n = 0 /\ unwinds THEN <<shadow_unwind(p)>>
        ELSE [k \in 1..n |-> shadow_event(c, class_of, <<p, k>>, unwinds /\ k = 1)]
build_shadow_cfg(c, class_of) ==
    [c EXCEPT !.insts = [b \in c.live |->
        FlattenSeq([i \in DOMAIN c.insts[b] |-> shadow_steps(c, class_of, <<b, i>>)])]]
-----------------------------------------------------------------------------
(* The form: for each event the versions it reads, writes and replaces,    *)
(* phis whose operands depart from points of the program, and of each      *)
(* version its definition and its users.                                   *)
source_departure(c, shadow, p) ==
    IF p[2] \in DOMAIN shadow.insts[p[1]] THEN Inst(shadow, p).point ELSE End(c, p[1])
First(seq) == IF seq = << >> THEN None ELSE seq[1]
ssa_event(c, step, renamed) ==
    LET ev == event_at(c, step.site)
        input == First(renamed.uses)
        output == First(renamed.defs)
    IN  [site |-> step.site, class |-> First(step.uses),
         read |-> IF reads(ev) THEN input ELSE None,
         written |-> IF writes(ev) THEN output ELSE None,
         clobbered |-> IF writes(ev) THEN input ELSE None]
event_table(c, shadow, ssa) ==
    {ssa_event(c, Inst(shadow, p), ssa.insts[p[1]][p[2]]) :
        p \in {q \in Points(shadow) : /\ Inst(shadow, q).site # None
                                      /\ q[2] \in DOMAIN ssa.insts[q[1]]}}
phi_table(c, shadow, ssa) ==
    {[phi EXCEPT !.operands = [j \in DOMAIN @ |-> <<source_departure(c, shadow, @[j][1]), @[j][2]>>]] :
        phi \in ssa.phis}
from_shadow_ssa(c, class_of, shadow, ssa) ==
    [class_of |-> class_of, events |-> event_table(c, shadow, ssa), phis |-> phi_table(c, shadow, ssa)]
memory_over(c, class_of, shadow) == from_shadow_ssa(c, class_of, shadow, ssa_form(shadow))
memory_ssa(c, alias) ==
    LET class_of == build_location_classes(c, alias)
    IN  memory_over(c, class_of, build_shadow_cfg(c, class_of))

definition(m, v) ==
    CASE \E phi \in m.phis : phi.result = v ->
           <<"phi", (CHOOSE phi \in m.phis : phi.result = v).block, v[1]>>
      [] \E e \in m.events : e.written = v -> <<"event", (CHOOSE e \in m.events : e.written = v).site>>
      [] v[2] = 0 -> <<"live_in", v[1]>>
      [] OTHER -> None
phis_of(m, v) == {phi \in m.phis : phi.result = v}
reader_events(m, v) == {e \in m.events : e.read = v}
phi_uses(m, v) == {phi \in m.phis : v \in inputs(phi)}
event(m, site) == CHOOSE e \in m.events : e.site = site
reaching_definition(m, site) ==
    IF event(m, site).read = None THEN None ELSE definition(m, event(m, site).read)
clobbered_definition(m, site) ==
    IF event(m, site).clobbered = None THEN None ELSE definition(m, event(m, site).clobbered)

(* Back through the phis from what an event reads.                         *)
RECURSIVE versions_behind(_, _, _)
versions_behind(m, pending, visited) ==
    IF pending = {} THEN visited
    ELSE versions_behind(m, UNION {UNION {inputs(phi) : phi \in phis_of(m, v)} : v \in pending}
                               \ (visited \cup pending), visited \cup pending)


reaching_definitions(m, site) ==
    LET behind == versions_behind(m, {event(m, site).read} \ {None}, {})
    IN  {definition(m, v) : v \in {w \in behind : phis_of(m, w) = {}}} \ {None}

(* Forward through phis and updates from what an event writes.             *)
RECURSIVE versions_after(_, _, _)
versions_after(m, pending, visited) ==
    LET onward(v) == {e.written : e \in reader_events(m, v)} \cup {phi.result : phi \in phi_uses(m, v)}
    IN  IF pending = {} THEN visited
        ELSE versions_after(m, UNION {onward(v) : v \in pending} \ (visited \cup pending \cup {None}),
                            visited \cup pending)
transitive_readers(m, site) ==
    LET after == versions_after(m, {event(m, site).written} \ {None}, {})
    IN  UNION {{e.site : e \in reader_events(m, v)} : v \in after}
-----------------------------------------------------------------------------
(* The graph of values and memory: its edges, or the first event that      *)
(* names a variable its instruction does not have on that side.            *)
use_of(inst, x) ==
    LET found == {k \in DOMAIN inst.uses : inst.uses[k][1] = x}
    IN  IF found = {} THEN None ELSE inst.uses[Min(found)]
Value(v) == <<"value", v>>
State(v) == <<"memory", v>>
Event(site) == <<"event", site>>
phi_pairs(phis) == UNION {{<<v, phi.result>> : v \in inputs(phi)} : phi \in phis}
add_values(ssa) ==
    {<<Value(p[1]), Value(p[2])>> : p \in phi_pairs(ssa.phis)}
    \cup UNION {UNION {{<<Value(u), Value(d)>> : u \in Range(i.uses), d \in Range(i.defs)} :
                          i \in Range(ssa.insts[b])} : b \in DOMAIN ssa.insts}
add_memory_states(m) == {<<State(p[1]), State(p[2])>> : p \in phi_pairs(m.phis)}
unresolved(c, ssa, e) ==
    LET ev == event_at(c, e.site)
        p == e.site[1]
        inst == ssa.insts[p[1]][p[2]]
    IN  CASE p[2] \notin DOMAIN ssa.insts[p[1]] -> {"instruction"}
          [] is_fence(ev) -> {}
          [] OTHER -> {x \in Range(ev.address) \cup Range(ev.stored) : use_of(inst, x) = None}
                        \cup {x \in Range(ev.loaded) : def_of(inst, x) = None}
event_edges(c, ssa, e) ==
    LET ev == event_at(c, e.site)
        inst == ssa.insts[e.site[1][1]][e.site[1][2]]
        node == Event(e.site)
    IN  IF is_fence(ev) THEN {}
        ELSE {<<Value(use_of(inst, x)), node>> : x \in Range(ev.address) \cup Range(ev.stored)}
             \cup {<<node, Value(def_of(inst, x))>> : x \in Range(ev.loaded)}
             \cup {<<State(v), node>> : v \in {e.read} \ {None}}
             \cup {<<node, State(v)>> : v \in {e.written} \ {None}}
add_events(c, m, ssa) == UNION {event_edges(c, ssa, e) : e \in m.events}
memory_value_flow(c, m, ssa) ==
    IF \E e \in m.events : unresolved(c, ssa, e) # {} THEN None
    ELSE add_values(ssa) \cup add_memory_states(m) \cup add_events(c, m, ssa)
=============================================================================

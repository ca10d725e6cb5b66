----------------------------- MODULE Structuring -----------------------------
(***************************************************************************)
(* The structured form of a control-flow graph                             *)
(* (src/crates/cfglib/src/analysis/control_tree/structure.rs and the files *)
(* below it): branches, dispatches, loops and try regions found by walking *)
(* the graph once, and a goto wherever that walk may not go on.            *)
(*                                                                         *)
(* A graph is [live, edges, kinds, insts, regions]: a view, the kind of    *)
(* each edge, the predicate of each instruction of a block, and exception  *)
(* regions [protected, handlers], a handler [entry, extent, kind, filter]. *)
(* The frames the code keeps in the heap are the operators' own recursion  *)
(* here; st holds what a walk leaves behind for the next one.  The arena   *)
(* of the tree is the nesting of its nodes, the bodies of a node in the    *)
(* order child_bodies lists them.                                          *)
(***************************************************************************)
EXTENDS Loops

Root == 0
Exceptional == {"handler", "unwind", "resume", "continue_exception"}
is_exceptional(g, e) == g.kinds[e] \in Exceptional
target(g, e) == g.edges[e][2]
Flow(g, b) == SelectSeq(incident(g, b, "out"), LAMBDA e : ~is_exceptional(g, e))
flow_successors(g, b) == LET out == Flow(g, b) IN [i \in DOMAIN out |-> target(g, out[i])]
HasOneWayIn(g, b) == Len(incident(g, b, "in")) = 1
Tags(g) == {e \in DOMAIN g.kinds : g.kinds[e] = "back"}

(* The statements of a tree.  A span is a block and a run of its code.     *)
Span(b, from, to) == [block |-> b, from |-> from, to |-> to]
Leaf(kind, span) == [kind |-> kind, span |-> span, bodies |-> << >>]
Transfer(kind, label) == [kind |-> kind, label |-> label, bodies |-> << >>]
Goto(b) == [kind |-> "goto", target |-> b, bodies |-> << >>]
Branch(span, then, else) == [kind |-> "if", span |-> span, bodies |-> <<then, else>>]
Labelled(b, nodes) == [kind |-> "label", label |-> b, bodies |-> <<nodes>>]
Sequence(nodes) == [kind |-> "sequence", bodies |-> <<nodes>>]

(* Whether control never comes out after the last statement.               *)
RECURSIVE never_completes(_)
never_completes(node) ==
    LET stuck(i) == node.bodies[i] # << >> /\ never_completes(Last(node.bodies[i]))
    IN  \/ node.kind \in {"break", "continue", "return"}
        \/ /\ node.kind \in {"sequence", "label", "guarded", "if", "switch"}
           /\ \A i \in DOMAIN node.bodies : stuck(i)
Ends(nodes) == nodes # << >> /\ never_completes(Last(nodes))
-----------------------------------------------------------------------------
(* Where a walk may go: a set of blocks or all of them, within loops, the  *)
(* innermost first.                                                        *)
Whole == [loops |-> << >>, set |-> None]
SetBound(S) == [loops |-> << >>, set |-> S]
admits(f, w, b) ==
    /\ \A i \in DOMAIN w.loops : contains(f, w.loops[i], b)
    /\ w.set = None \/ b \in w.set
within_loop(f, w, k) ==
    [w EXCEPT !.loops = <<k>> \o (IF @ # << >> /\ encloses(f, Head(@), k) THEN Tail(@) ELSE @)]

(* The blocks of an extent in the order flow comes to them.  A walk never  *)
(* enters a component that tarjan_scc numbers below all of the extent's.   *)
AllPostorder(g) ==
    FoldLeft(LAMBDA order, b : IF b \in Range(order) THEN order
                               ELSE postorder_from(g, "out", <<<<b, FALSE>>>>, Range(order), order),
             << >>, Sorted(g.live))
component_numbers(g, order, parts) ==
    LET closes(C) == Max({Position(order, b) : b \in C})
    IN  [b \in g.live |-> Cardinality({C \in parts :
                             closes(C) < closes(CHOOSE D \in parts : b \in D)})]
reverse_postorder_of(g, component, entry, extent) ==
    LET floor == Min({component[b] : b \in extent})
        pruned == [g EXCEPT !.edges = SelectSeq(@, LAMBDA e : component[e[2]] >= floor)]
    IN  SelectSeq(reverse_postorder(pruned, entry, "out"), LAMBDA b : b \in extent)
handler_blocks_in_order(g, component, h) ==
    LET lead == Firsts(<<h.entry>> \o (IF h.kind = "filter" THEN <<h.filter>> ELSE << >>))
        listed == reverse_postorder_of(g, component, h.entry, h.extent) \o Sorted(h.extent)
    IN  IF h.extent = None \/ h.extent = {} THEN lead
        ELSE Firsts(lead \o SelectSeq(listed, LAMBDA b : g.insts[b] # << >>))
handler_roots(g, component) ==
    Firsts(FlattenSeq([r \in DOMAIN g.regions |->
             FlattenSeq([h \in DOMAIN g.regions[r].handlers |->
                handler_blocks_in_order(g, component, g.regions[r].handlers[h])])]))

(* Each region at the protected block that flow comes to first, larger     *)
(* regions first.                                                          *)
region_anchors(g, order) ==
    LET place(b) == IF b \in Range(order) THEN Position(order, b) ELSE Len(order) + 1
        anchor(r) == LET P == g.regions[r].protected
                     IN  CHOOSE b \in P : \A d \in P :
                           place(b) < place(d) \/ (place(b) = place(d) /\ b <= d)
        size(r) == Cardinality(g.regions[r].protected)
        at(b) == {r \in DOMAIN g.regions : g.regions[r].protected # {} /\ anchor(r) = b}
    IN  [b \in g.live |-> SetToSortSeq(at(b), LAMBDA r, q :
            size(r) > size(q) \/ (size(r) = size(q) /\ r < q))]
claimed_blocks(h) == {h.entry} \cup (IF h.extent = None THEN {} ELSE h.extent)
HandlerBlocks(region) == UNION {claimed_blocks(h) : h \in Range(region.handlers)}
-----------------------------------------------------------------------------
(* LoopExits: for every loop the first block that flow leaves it to, and   *)
(* the blocks at which it is left for the loop around it.                  *)
Lifting(f) ==
    LET count == Len(f.loops)
        levels == Min({l \in 1..(count + 1) : 2^l > count})
        lift[l \in 1..levels] ==
            IF l = 1 THEN f.enclosing
            ELSE [k \in DOMAIN f.loops |->
                    LET up == lift[l - 1][k] IN IF up = None THEN None ELSE lift[l - 1][up]]
    IN  [i \in 1..levels |-> lift[levels + 1 - i]]
highest(f, steps, k, b) ==
    FoldLeft(LAMBDA at, up : IF up[at] # None /\ ~contains(f, up[at], b) THEN up[at] ELSE at,
             k, steps)
loop_exits(g, f, reached) ==
    LET inside == SelectSeq(Sorted(reached), LAMBDA b : f.innermost[b] # None)
        leaving(b) == SelectSeq(Flow(g, b), LAMBDA e : ~contains(f, f.innermost[b], target(g, e)))
        steps == Lifting(f)
        note(a, e) ==
          LET k == f.innermost[g.edges[e][1]]
              top == highest(f, steps, k, target(g, e))
              left == {j \in Range(chain(f, k)) : a.first[j] = None /\ ~contains(f, j, target(g, e))}
          IN  [first |-> [j \in DOMAIN a.first |-> IF j \in left THEN target(g, e) ELSE a.first[j]],
               local |-> IF f.enclosing[top] = None THEN a.local
                         ELSE [a.local EXCEPT ![top] = Append(@, target(g, e))]]
    IN  FoldLeft(note, [first |-> [k \in DOMAIN f.loops |-> None],
                        local |-> [k \in DOMAIN f.loops |-> << >>]],
                 FlattenSeq([i \in DOMAIN inside |-> leaving(inside[i])]))

(* The exit of the lowest block that has one, to where w admits if it can. *)
ExitsTo(c, k, w, b) ==
    SelectSeq(Flow(c.code, b), LAMBDA e : /\ ~contains(c.forest, k, target(c.code, e))
                                          /\ admits(c.forest, w, target(c.code, e)))
LowestExit(c, k, w) ==
    LET from == {b \in body(c.forest, k) \cap c.reached : ExitsTo(c, k, w, b) # << >>}
    IN  IF from = {} THEN None ELSE target(c.code, Head(ExitsTo(c, k, w, Min(from))))
scan_endless_follow(c, k, w) ==
    IF LowestExit(c, k, w) # None THEN LowestExit(c, k, w) ELSE LowestExit(c, k, Whole)

(* The same, read from the edges into the blocks of w's set.               *)
first_exit_into(c, k, w) ==
    LET g == c.code
        into == {e \in Edges(g) : /\ target(g, e) \in w.set /\ ~is_exceptional(g, e)
                                  /\ ~contains(c.forest, k, target(g, e))
                                  /\ admits(c.forest, w, target(g, e))
                                  /\ g.edges[e][1] \in body(c.forest, k) \cap c.reached}
        sooner(e, d) == g.edges[e][1] < g.edges[d][1] \/ (g.edges[e][1] = g.edges[d][1] /\ e <= d)
    IN  IF into = {} THEN None ELSE target(g, CHOOSE e \in into : \A d \in into : sooner(e, d))
endless_follow(c, k, w) ==
    LET f == c.forest
        nested == is_nested(f.loops[k])
        outer == [w EXCEPT !.loops = Tail(@)]
        near_exits == SelectSeq(c.exits.local[k], LAMBDA b : admits(f, outer, b))
        into == first_exit_into(c, k, w)
    IN  IF nested /\ w = Whole THEN c.exits.first[k]
        ELSE IF nested /\ w.loops # << >> /\ f.enclosing[k] = w.loops[1]
        THEN IF near_exits # << >> THEN Head(near_exits) ELSE c.exits.first[k]
        ELSE IF w.set # None /\ Cardinality(w.set) < Cardinality(body(f, k))
        THEN IF into # None THEN into
             ELSE IF nested THEN c.exits.first[k] ELSE scan_endless_follow(c, k, Whole)
        ELSE scan_endless_follow(c, k, w)
-----------------------------------------------------------------------------
(* What the structurer reads, computed once.                               *)
structurer_over(g, t, f, component) ==
    LET reached == Range(t.order)
        view == virtual_root(g, Sorted({Root} \cup (g.live \ reached)))
        claimed == UNION {g.regions[r].protected \cup HandlerBlocks(g.regions[r]) :
                            r \in DOMAIN g.regions}
    IN  [code |-> g, reached |-> reached, forest |-> f,
         pdom |-> compute_post(view, Max(view.live)),
         handler_roots |-> handler_roots(g, component), component |-> component,
         back_edges |-> UNION {{<<l, f.loops[k].header>> : l \in Range(f.loops[k].latches)} :
                                 k \in DOMAIN f.loops},
         anchors |-> region_anchors(g, reverse_postorder(g, Root, "out")),
         exits |-> loop_exits(g, f, reached),
         unclaimed |-> g.live \ claimed]
structurer(g, t) ==
    structurer_over(g, t, compute_all_tagged(g, Root, Tags(g), t),
                    component_numbers(g, AllPostorder(g), ComponentsIn(g, g.live)))
new(g, empty) ==
    structurer([g EXCEPT !.insts = [b \in g.live |-> IF b \in empty THEN << >> ELSE @[b]]],
               compute(g, Root))

instruction_count(c, b) == Len(c.code.insts[b])
whole_span(c, b) == Span(b, 1, instruction_count(c, b) + 1)
push_block(c, nodes, b) ==
    IF instruction_count(c, b) = 0 THEN nodes ELSE Append(nodes, Leaf("block", whole_span(c, b)))

has_edge_kind(g, b, kind) == \E e \in Range(incident(g, b, "out")) : g.kinds[e] = kind
branching(g, b) ==
    IF has_edge_kind(g, b, "true") /\ has_edge_kind(g, b, "false") THEN "conditional"
    ELSE IF has_edge_kind(g, b, "case") THEN "switch" ELSE None
flow_back_edge_target(c, b) ==
    LET backs == SelectSeq(Flow(c.code, b), LAMBDA e : c.code.edges[e] \in c.back_edges)
    IN  IF backs = << >> THEN None ELSE target(c.code, Head(backs))
classify_block(c, b) ==
    IF \E e \in c.back_edges : e[2] = b THEN "loop"
    ELSE IF branching(c.code, b) # None THEN branching(c.code, b)
    ELSE IF flow_back_edge_target(c, b) # None THEN "back_edge"
    ELSE IF has_edge_kind(c.code, b, "jump") THEN "jump" ELSE "linear"
-----------------------------------------------------------------------------
(* st: the blocks emitted, the loops being lifted, what gotos name, what   *)
(* has a label, the regions that became a try, and the report.             *)
Begin == [visited |-> {}, loops |-> << >>, goto_targets |-> {}, labeled |-> {}, unemitted |-> {},
          structured |-> {}, gotos |-> << >>, swept |-> << >>]
visit(st, S) == [st EXCEPT !.visited = @ \cup S]
Lifted(st, nodes, next) == [st |-> st, nodes |-> nodes, next |-> next]
push_goto(st, nodes, b, reason) ==
    Lifted([st EXCEPT !.goto_targets = @ \cup {b}, !.gotos = Append(@, <<b, reason>>),
                      !.unemitted = IF b \in st.visited THEN @ ELSE @ \cup {b}],
           Append(nodes, Goto(b)), None)

(* Through empty blocks that only jump on, eight at most.                  *)
RECURSIVE trampolines_from(_, _, _, _)
trampolines_from(c, st, b, hops) ==
    LET out == Flow(c.code, b)
    IN  IF /\ Len(hops) < 8 /\ b \notin st.visited /\ instruction_count(c, b) = 0
           /\ Len(out) = 1 /\ c.code.kinds[out[1]] = "jump"
        THEN trampolines_from(c, st, target(c.code, out[1]), Append(hops, b))
        ELSE [at |-> b, hops |-> Range(hops)]
through_trampolines(c, st, b) == trampolines_from(c, st, b, << >>)

(* A transfer to a loop's test or past its end is a continue or a break;   *)
(* one that crosses another loop needs a label.                            *)
Registered(context) == {context.continue_target, context.follow}

(* Mutant of resolve_loop_transfer: the label is left out.                 *)
resolve_unlabelled(c, st, b) ==
    LET far_end == through_trampolines(c, st, b)
        places == {p \in DOMAIN st.loops : far_end.at \in Registered(st.loops[p])}
        p == Max(places)
    IN  IF places = {} THEN Lifted(st, << >>, None)
        ELSE Lifted(visit(st, far_end.hops),
                    <<Transfer(IF st.loops[p].continue_target = far_end.at THEN "continue"
                               ELSE "break", None)>>, None)

resolve_loop_transfer(c, st, b) ==
    LET far_end == through_trampolines(c, st, b)
        places == {p \in DOMAIN st.loops : far_end.at \in Registered(st.loops[p])}
        p == Max(places)
        label == IF p = Len(st.loops) THEN None ELSE st.loops[p].header
        passed == visit(st, far_end.hops)
    IN  IF places = {} THEN Lifted(st, << >>, None)
        ELSE Lifted(IF label = None THEN passed ELSE [passed EXCEPT !.loops[p].labeled = TRUE],
                    <<Transfer(IF st.loops[p].continue_target = far_end.at THEN "continue"
                               ELSE "break", label)>>, None)
TransferOr(c, st, nodes, b, reason) ==
    LET made == resolve_loop_transfer(c, st, b)
    IN  IF made.nodes # << >> THEN Lifted(made.st, nodes \o made.nodes, None)
        ELSE push_goto(st, nodes, b, reason)
-----------------------------------------------------------------------------
(* The shape of a loop: a chain of blocks that ends in a test, a test at   *)
(* its only latch, or neither.                                             *)
Shape(form, links, start, exit, sense) ==
    [form |-> form, links |-> links, start |-> start, exit |-> exit, sense |-> sense]
conditional_targets(g, b) ==
    LET to(kind) == LET out == SelectSeq(incident(g, b, "out"), LAMBDA e : g.kinds[e] = kind)
                    IN  IF out = << >> THEN None ELSE target(g, Last(out))
    IN  IF to("true") = None \/ to("false") = None THEN None ELSE <<to("true"), to("false")>>
RECURSIVE while_chain(_, _, _, _)
while_chain(c, st, k, links) ==
    LET g == c.code
        header == c.forest.loops[k].header
        inside(b) == contains(c.forest, k, b)
        ways == conditional_targets(g, Last(links))
        start == IF inside(ways[1]) THEN ways[1] ELSE ways[2]
        exit == IF inside(ways[1]) THEN ways[2] ELSE ways[1]
        next == flow_successors(g, Last(links))
    IN  IF ways # None
        THEN IF inside(ways[1]) = inside(ways[2]) THEN None
             ELSE IF start # header THEN Shape("while", links, start, exit, ~inside(ways[1]))
             ELSE IF Len(links) = 1 THEN Shape("self", links, start, exit, inside(ways[1]))
             ELSE None
        ELSE IF \/ Len(next) # 1
                \/ next[1] = header \/ ~inside(next[1]) \/ next[1] \in st.visited
                \/ Len(SelectSeq(incident(g, next[1], "in"), LAMBDA e : ~is_exceptional(g, e))) # 1
        THEN None
        ELSE while_chain(c, st, k, Append(links, next[1]))
Endless == Shape("endless", << >>, None, None, FALSE)
latch_test(c, st, k) ==
    LET loop == c.forest.loops[k]
        latch == loop.latches[1]
        ways == conditional_targets(c.code, latch)
        back == ways[1] = loop.header
        exit == IF back THEN ways[2] ELSE ways[1]
    IN  IF /\ Len(loop.latches) = 1 /\ latch # loop.header /\ latch \notin st.visited
           /\ ways # None /\ back # (ways[2] = loop.header) /\ ~contains(c.forest, k, exit)
        THEN Shape("do_while", <<latch>>, None, exit, back) ELSE Endless
classify_loop(c, st, k) ==
    LET pretested == while_chain(c, st, k, <<c.forest.loops[k].header>>)
    IN  IF pretested # None THEN pretested ELSE latch_test(c, st, k)

(* A test that is out of bounds is not the loop's.                         *)
loop_shape(c, st, k, w) ==
    LET shape == classify_loop(c, st, k)
    IN  IF /\ shape.form \in {"while", "do_while"}
           /\ \E b \in Range(shape.links) : ~admits(c.forest, w, b)
        THEN Endless ELSE shape
-----------------------------------------------------------------------------
effective_merge(c, b, w) ==
    LET p == ipdom(c.pdom, b)
    IN  IF p = None \/ p = Exit \/ ~admits(c.forest, w, p[1]) THEN None ELSE p[1]
resume_after(st, node, merge) ==
    IF merge # None /\ merge \in st.visited /\ never_completes(node) THEN None ELSE merge

(* Whether the protected code can stand in one try: it is entered at its   *)
(* anchor only, and none of it is taken or out of bounds.                  *)
fits_one_try(c, st, region, anchor, w) ==
    \A b \in (region.protected \cap c.reached) \ {anchor} :
        /\ \A e \in Range(incident(c.code, b, "in")) :
              \/ is_exceptional(c.code, e)
              \/ c.code.edges[e][1] \notin c.reached
              \/ c.code.edges[e][1] \in region.protected
        /\ \/ instruction_count(c, b) = 0
           \/ b \notin st.visited /\ admits(c.forest, w, b)
complete_handler_bodies(region) ==
    \A h \in Range(region.handlers) : h.extent # None /\ h.entry \in h.extent
select_try(c, st, b, w) ==
    LET regions == c.code.regions
        fit == SelectSeq(c.anchors[b], LAMBDA r :
                 /\ r \notin st.structured /\ fits_one_try(c, st, regions[r], b, w)
                 /\ complete_handler_bodies(regions[r]))
    IN  IF fit = << >> THEN None ELSE Head(fit)
region_continuation(g, region) ==
    LET inside == region.protected \cup HandlerBlocks(region)
        exits(S) == UNION {Range(flow_successors(g, b)) : b \in S} \ inside
        only(S) == IF Cardinality(S) = 1 THEN CHOOSE b \in S : TRUE ELSE None
    IN  IF only(exits(region.protected)) # None THEN only(exits(region.protected))
        ELSE only(exits(inside))
try_continuation(c, region, b, w) ==
    LET merge == effective_merge(c, b, w)
    IN  IF region_continuation(c.code, region) # None THEN region_continuation(c.code, region)
        ELSE IF merge \in region.protected \cup HandlerBlocks(region) THEN None ELSE merge
awaits_its_handler(c, st, r, b) ==
    \E q \in DOMAIN c.code.regions : /\ b \in HandlerBlocks(c.code.regions[q])
                                     /\ q # r /\ q \notin st.structured
handler_bound(c, h, w) ==
    SetBound({b \in h.extent : admits(c.forest, w, b) \/ b \notin c.reached} \cup {h.entry})
-----------------------------------------------------------------------------
(* The walk.  Each operator adds statements to nodes and says at which     *)
(* block the walk that called it goes on.                                  *)
RECURSIVE step_region(_, _, _, _, _, _), lift_block(_, _, _, _, _, _), lift_try(_, _, _, _, _, _)

RECURSIVE lift_jump(_, _, _, _, _)
lift_jump(c, st, jumps, stop, nodes) ==
    LET to == target(c.code, Head(jumps))
        made == TransferOr(c, st, nodes, to, "ExplicitJump")
    IN  IF jumps = << >> THEN Lifted(st, nodes, None)
        ELSE IF to = stop THEN lift_jump(c, st, Tail(jumps), stop, nodes)
        ELSE IF /\ resolve_loop_transfer(c, st, to).nodes = << >> /\ to \notin st.visited
                /\ HasOneWayIn(c.code, to) /\ to \in c.unclaimed
        THEN Lifted(st, nodes, to)
        ELSE lift_jump(c, made.st, Tail(jumps), stop, made.nodes)

lift_entered(c, st, b, w, stop, nodes) ==
    LET r == select_try(c, st, b, w)
    IN  IF r # None THEN lift_try(c, st, r, b, w, nodes) ELSE lift_block(c, st, b, w, stop, nodes)

(* From one block to the next until the walk may not enter one.  A block   *)
(* out of bounds that has one way in and that no region claims is read     *)
(* where it is met.                                                        *)
step_region(c, st, b, w, stop, nodes) ==
    LET transfer == resolve_loop_transfer(c, st, b)
        entered == lift_entered(c, visit(st, {b}), b, w, stop, nodes)
    IN  IF b = None \/ b = stop THEN Lifted(st, nodes, None)
        ELSE IF transfer.nodes # << >> THEN Lifted(transfer.st, nodes \o transfer.nodes, None)
        ELSE IF b \in st.visited THEN push_goto(st, nodes, b, "RevisitedTarget")
        ELSE IF admits(c.forest, w, b)
        THEN step_region(c, entered.st, entered.next, w, stop, entered.nodes)
        ELSE IF HasOneWayIn(c.code, b) /\ b \in c.unclaimed
        THEN step_region(c, st, b, SetBound(c.unclaimed), stop, nodes)
        ELSE push_goto(st, nodes, b, "BoundaryEscape")

build_conditional(c, st, b, w, nodes) ==
    LET ways == conditional_targets(c.code, b)
        merge == effective_merge(c, b, w)
        then == step_region(c, st, ways[1], w, merge, << >>)
        else == step_region(c, then.st, ways[2], w, merge, << >>)
        node == Branch(whole_span(c, b), then.nodes, else.nodes)
    IN  Lifted(else.st, Append(nodes, node), resume_after(else.st, node, merge))

(* The arms of a dispatch: a target reached first from here is the arm's   *)
(* own, entered before any arm is lifted.                                  *)
switch_arm(c, st, b, entered, w, merge) ==
    LET first == lift_entered(c, st, b, w, merge, << >>)
    IN  IF b = merge THEN Lifted(st, << >>, None)
        ELSE IF ~admits(c.forest, w, b) THEN TransferOr(c, st, << >>, b, "BoundaryEscape")
        ELSE IF ~entered THEN step_region(c, st, b, w, merge, << >>)
        ELSE step_region(c, first.st, first.next, w, merge, first.nodes)
RECURSIVE switch_arms(_, _, _, _, _, _, _)
switch_arms(c, st, targets, owned, w, merge, arms) ==
    LET arm == switch_arm(c, st, Head(targets), Head(targets) \in owned, w, merge)
    IN  IF targets = << >> THEN Lifted(st, arms, None)
        ELSE switch_arms(c, arm.st, Tail(targets), owned \ {Head(targets)}, w, merge,
                         Append(arms, arm.nodes))
build_switch(c, st, b, w, nodes) ==
    LET g == c.code
        merge == effective_merge(c, b, w)
        edges(kinds) == SelectSeq(incident(g, b, "out"), LAMBDA e : g.kinds[e] \in kinds)
        cases == edges({"case"})
        defaults == edges({"fallthrough", "unconditional"})
        to == Firsts([i \in DOMAIN cases |-> target(g, cases[i])])
        default == IF defaults = << >> THEN << >> ELSE <<target(g, Head(defaults))>>
        owned == {d \in Range(to \o default) : /\ d # merge /\ admits(c.forest, w, d)
                                               /\ d \notin st.visited}
        arms == switch_arms(c, visit(st, owned), to \o default, owned, w, merge, << >>)
        node == [kind |-> "switch", span |-> whole_span(c, b),
                 cases |-> [i \in DOMAIN to |-> {e \in Range(cases) : target(g, e) = to[i]}],
                 default |-> IF defaults = << >> THEN None ELSE Head(defaults),
                 bodies |-> arms.nodes \o (IF default = << >> THEN <<<< >>>> ELSE << >>)]
    IN  Lifted(arms.st, Append(nodes, node), resume_after(arms.st, node, merge))

(* A loop's header as the first statement of its body.                     *)
header_body(c, st, header, w, stop) ==
    LET ways == SelectSeq(flow_successors(c.code, header), LAMBDA d : d # header)
        kind == branching(c.code, header)
        branch == IF kind = "conditional" THEN build_conditional(c, st, header, w, << >>)
                  ELSE build_switch(c, st, header, w, << >>)
        on(a, d) == step_region(c, a.st, d, w, stop, a.nodes)
    IN  IF kind # None THEN step_region(c, branch.st, branch.next, w, stop, branch.nodes)
        ELSE FoldLeft(on, Lifted(st, push_block(c, << >>, header), None), ways)
loop_of_header(f, b) == CHOOSE k \in DOMAIN f.loops : f.loops[k].header = b
build_loop(c, st, header, w, nodes) ==
    LET k == loop_of_header(c.forest, header)
        bound == within_loop(c.forest, w, k)
        shape == loop_shape(c, st, k, w)
        test == IF shape.form = "do_while" THEN shape.links[1] ELSE header
        follow == IF shape.form = "endless" THEN endless_follow(c, k, w) ELSE shape.exit
        opened == [visit(st, Range(shape.links)) EXCEPT !.loops = Append(@,
                     [header |-> header, follow |-> follow, continue_target |-> test,
                      labeled |-> FALSE])]
        lifted ==
          CASE shape.form = "while" -> step_region(c, opened, shape.start, bound, None, << >>)
            [] shape.form = "self" -> Lifted(opened, << >>, None)
            [] shape.form = "do_while" -> header_body(c, opened, header, bound, test)
            [] shape.form = "endless" -> header_body(c, opened, header, bound, None)
        inner == IF lifted.nodes # << >> /\ Last(lifted.nodes) = Transfer("continue", None)
                 THEN Front(lifted.nodes) ELSE lifted.nodes
        node == [kind |-> "loop", header |-> header,
                 form |-> IF shape.form = "self" THEN "do_while" ELSE shape.form,
                 spans |-> [i \in DOMAIN shape.links |-> whole_span(c, shape.links[i])],
                 sense |-> shape.sense, bodies |-> <<inner>>]
        labeled == Last(lifted.st.loops).labeled
    IN  Lifted([lifted.st EXCEPT !.loops = Front(@),
                                 !.labeled = IF labeled THEN @ \cup {header} ELSE @],
               Append(nodes, IF labeled THEN Labelled(header, <<node>>) ELSE node), follow)

lift_block(c, st, b, w, stop, nodes) ==
    LET g == c.code
        kind == classify_block(c, b)
        out == flow_successors(g, b)
        coded == push_block(c, nodes, b)
        ended == IF instruction_count(c, b) = 0 THEN nodes
                 ELSE Append(nodes, Leaf("return", whole_span(c, b)))
    IN  CASE kind = "loop" -> build_loop(c, st, b, w, nodes)
          [] kind = "conditional" -> build_conditional(c, st, b, w, nodes)
          [] kind = "switch" -> build_switch(c, st, b, w, nodes)
          [] kind = "back_edge" ->
               TransferOr(c, st, coded, flow_back_edge_target(c, b), "RevisitedTarget")
          [] kind = "jump" ->
               lift_jump(c, st, SelectSeq(incident(g, b, "out"), LAMBDA e : g.kinds[e] = "jump"),
                         stop, coded)
          [] kind = "linear" ->
               IF incident(g, b, "out") = << >> THEN Lifted(st, ended, None)
               ELSE Lifted(st, coded, IF Len(out) = 1 THEN out[1] ELSE None)

(* A handler's body: from its entry, then the blocks of its extent that    *)
(* nothing enters.                                                         *)
lift_handler(c, st, r, h, w, continuation) ==
    LET within == handler_bound(c, h, w)
        first == step_region(c, st, h.entry, within, continuation, << >>)
        on(a, b) ==
          IF b \notin h.extent \/ b \in c.reached \/ b \in a.st.visited
             \/ awaits_its_handler(c, a.st, r, b) THEN a
          ELSE step_region(c, a.st, b, within, continuation, a.nodes)
    IN  [FoldLeft(on, first, handler_blocks_in_order(c.code, c.component, h))
           EXCEPT !.next = Ends(first.nodes)]
lift_try(c, st, r, b, w, nodes) ==
    LET g == c.code
        region == g.regions[r]
        continuation == try_continuation(c, region, b, w)
        within == SetBound({d \in region.protected : admits(c.forest, w, d)})
        taken == [st EXCEPT !.structured = @ \cup {r}]
        inner == select_try(c, taken, b, within)
        anchor == IF inner # None THEN lift_try(c, taken, inner, b, within, << >>)
                  ELSE lift_block(c, taken, b, within, continuation, << >>)
        follow(a, d) == IF d \in region.protected /\ d \notin a.st.visited
                        THEN step_region(c, a.st, d, within, continuation, a.nodes) ELSE a
        succ == incident(g, b, "out")
        tried == FoldLeft(follow,
                          step_region(c, anchor.st, anchor.next, within, continuation, anchor.nodes),
                          [i \in DOMAIN succ |-> target(g, succ[i])])
        handle(a, h) == LET got == lift_handler(c, a.st, r, h, w, continuation)
                        IN  [st |-> got.st, arms |-> Append(a.arms, got.nodes),
                             all |-> a.all /\ got.next]
        handled == FoldLeft(handle, [st |-> tried.st, arms |-> << >>, all |-> TRUE], region.handlers)
        is_finally(i) == region.handlers[i].kind = "finally"
        arms(test(_)) == LET picked == SelectSeq([i \in DOMAIN region.handlers |-> i], test)
                         IN  [i \in DOMAIN picked |-> handled.arms[picked[i]]]
        catches == SelectSeq([i \in DOMAIN region.handlers |-> i], LAMBDA i : ~is_finally(i))
        node == [kind |-> "try", region |-> r,
                 catches |-> [i \in DOMAIN catches |-> region.handlers[catches[i]].entry],
                 bodies |-> <<tried.nodes>> \o arms(LAMBDA i : ~is_finally(i))
                            \o <<FlattenSeq(arms(is_finally))>>]
    IN  Lifted(handled.st, Append(nodes, node),
               IF /\ continuation # None /\ continuation \in handled.st.visited
                  /\ Ends(tried.nodes) /\ handled.all
               THEN None ELSE continuation)
-----------------------------------------------------------------------------
(* What the walk from the entry left over is lifted on its own, under a    *)
(* label: first in the order of flow, then what a goto names.              *)
sweep(c, a, b) ==
    LET lifted == step_region(c, a.st, b, Whole, None, << >>)
    IN  IF b \in a.st.visited THEN a
        ELSE IF lifted.nodes = << >> THEN Lifted(lifted.st, a.nodes, None)
        ELSE Lifted([lifted.st EXCEPT !.swept = Append(@, b), !.labeled = @ \cup {b}],
                    IF b \in lifted.st.labeled THEN a.nodes \o lifted.nodes
                    ELSE Append(a.nodes, Labelled(b, lifted.nodes)), None)
RECURSIVE sweep_targets(_, _)
sweep_targets(c, a) ==
    LET b == Min(a.st.unemitted)
    IN  IF a.st.unemitted = {} THEN a
        ELSE sweep_targets(c, sweep(c, [a EXCEPT !.st.unemitted = @ \ {b}], b))

(* Mutant of sweep_order: only what flow comes to is swept.                *)
sweep_flow(c) == reverse_postorder(c.code, Root, "out")

sweep_order(c) == Firsts(reverse_postorder(c.code, Root, "out") \o c.handler_roots)

(* Each target of a goto gets its label at the first statement it anchors. *)
NodeAnchor(node) ==
    IF node.kind \in {"block", "return", "if", "switch"} THEN node.span.block
    ELSE IF node.kind = "loop" THEN node.header ELSE None
RECURSIVE wrap_anchors(_, _)
wrap_anchors(nodes, pending) ==
    LET wrap_at(a, node) ==
          LET b == NodeAnchor(node)
              child(d, nested) == LET got == wrap_anchors(nested, d.pending)
                                  IN  [nodes |-> Append(d.nodes, got.nodes), pending |-> got.pending]
              children == FoldLeft(child, [nodes |-> << >>, pending |-> a.pending \ {b}], node.bodies)
              inner == [node EXCEPT !.bodies = children.nodes]
          IN  [nodes |-> Append(a.nodes, IF b \in a.pending THEN Labelled(b, <<inner>>) ELSE inner),
               pending |-> children.pending]
    IN  FoldLeft(wrap_at, [nodes |-> << >>, pending |-> pending], nodes)

(* The tree and the report.                                                *)
compute_over(c) ==
    LET walked == step_region(c, Begin, Root, Whole, None, << >>)
        swept == FoldLeft(LAMBDA a, b : sweep(c, a, b), walked, sweep_order(c))
        done == sweep_targets(c, swept)
        applied == wrap_anchors(done.nodes, done.st.goto_targets \ done.st.labeled)
        regions == c.code.regions
    IN  [root |-> IF Len(applied.nodes) = 1 THEN applied.nodes[1] ELSE Sequence(applied.nodes),
         gotos |-> done.st.gotos, swept |-> done.st.swept, unresolved |-> applied.pending,
         unstructured |-> {r \in DOMAIN regions : /\ r \notin done.st.structured
                              /\ (regions[r].protected # {} \/ regions[r].handlers # << >>)}]
compute_with_report_treating_empty(g, empty) == compute_over(new(g, empty))
compute_with_report(g) == compute_with_report_treating_empty(g, {})
is_fully_structured(t) == t.gotos = << >> /\ t.unstructured = {} /\ t.unresolved = {}
-----------------------------------------------------------------------------
(* The predicated tree: the runs of equal predicates of a span each under  *)
(* its guard, except the last run of a branch's condition.                 *)
predicate_runs(g, span) ==
    LET extend(runs, i) ==
          LET p == g.insts[span.block][i]
          IN  IF runs # << >> /\ Last(runs).predicate = p
              THEN [runs EXCEPT ![Len(runs)].span.to = i + 1]
              ELSE Append(runs, [predicate |-> p, span |-> Span(span.block, i, i + 1)])
    IN  FoldLeft(extend, << >>, [i \in 1..(span.to - span.from) |-> span.from + i - 1])
guard_segment(kind, segment) ==
    IF segment.predicate = None THEN Leaf(kind, segment.span)
    ELSE [kind |-> "guarded", predicate |-> <<segment.span.block, segment.span.from>>,
          when_true |-> segment.predicate[2], bodies |-> <<<<Leaf(kind, segment.span)>>>>]
Guarded(runs) == [i \in DOMAIN runs |-> guard_segment("block", runs[i])]
sequence_or_single(nodes) == IF Len(nodes) = 1 THEN nodes[1] ELSE Sequence(nodes)
wrap_block_runs(runs) == sequence_or_single(Guarded(runs))
wrap_return_runs(runs) ==
    sequence_or_single(Guarded(Front(runs)) \o <<guard_segment("return", Last(runs))>>)

splits_header(runs) == \E i \in 1..(Len(runs) - 1) : runs[i].predicate # None
with_prefix(runs, node) ==
    IF splits_header(runs)
    THEN Sequence(Append(Guarded(Front(runs)), [node EXCEPT !.span = Last(runs).span]))
    ELSE node
RECURSIVE wrap_node(_, _)
wrap_node(g, node) ==
    LET children == [i \in DOMAIN node.bodies |->
                       [j \in DOMAIN node.bodies[i] |-> wrap_node(g, node.bodies[i][j])]]
        inner == [node EXCEPT !.bodies = children]
    IN  CASE node.kind = "block" -> wrap_block_runs(predicate_runs(g, node.span))
          [] node.kind = "return" -> wrap_return_runs(predicate_runs(g, node.span))
          [] node.kind \in {"if", "switch"} -> with_prefix(predicate_runs(g, node.span), inner)
          [] OTHER -> inner
finish_root(node) ==
    IF node.kind = "sequence" /\ Len(node.bodies[1]) = 1 THEN node.bodies[1][1] ELSE node
compute_predicated_with_report(g, t) == [t EXCEPT !.root = finish_root(wrap_node(g, @))]
-----------------------------------------------------------------------------
(* walk.rs: the nodes before their children, and the code in the order it  *)
(* is written, a loop's latch after its body.                              *)
RECURSIVE preorder(_)
preorder(node) ==
    <<node>> \o FlattenSeq([i \in DOMAIN node.bodies |->
                   FlattenSeq([j \in DOMAIN node.bodies[i] |-> preorder(node.bodies[i][j])])])
span_points(span) == [i \in 1..(span.to - span.from) |-> <<span.block, span.from + i - 1>>]
RECURSIVE for_each_instruction(_)
for_each_instruction(node) ==
    LET spans == IF node.kind = "loop" THEN FlattenSeq([i \in DOMAIN node.spans |->
                                                          span_points(node.spans[i])])
                 ELSE IF node.kind \in {"block", "return", "if", "switch"}
                 THEN span_points(node.span) ELSE << >>
        children == FlattenSeq([i \in DOMAIN node.bodies |->
                      FlattenSeq([j \in DOMAIN node.bodies[i] |->
                                    for_each_instruction(node.bodies[i][j])])])
    IN  IF node.kind = "loop" /\ node.form = "do_while" THEN children \o spans
        ELSE spans \o children
=============================================================================

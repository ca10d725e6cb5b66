---------------------------- MODULE MCStructuring ----------------------------
(***************************************************************************)
(* Every graph of a few families, each structured when it is complete, and *)
(* two machines that run the graph and its tree side by side: the graph a  *)
(* block at a time, the tree a statement at a time, with the same outcome  *)
(* of every condition, dispatch and raise.                                 *)
(***************************************************************************)
EXTENDS Structuring

VARIABLE family   \* the kind of graphs being written, None when one is done

vars == <<graph, family>>
-----------------------------------------------------------------------------
(* What runs next, a statement at a time: a configuration is the sequence  *)
(* of what is left to run, innermost first; End closes a body, Again       *)
(* stands for another turn of a loop.                                      *)
End == [kind |-> "end"]
Again(node) == [kind |-> "again", node |-> node]
Into(nodes, rest) == nodes \o <<End>> \o rest
Turn(node, rest) == node.bodies[1] \o <<Again(node)>> \o rest

(* The configuration from the label of b on, or from the first statement   *)
(* of the handler entered at b.                                            *)
RECURSIVE Located(_, _, _, _)
Located(what, b, nodes, rest) ==
    LET node == Head(nodes)
        after == Tail(nodes) \o rest
        arm == CHOOSE i \in DOMAIN node.catches : node.catches[i] = b
        inside(i) == Located(what, b, node.bodies[i],
                             IF node.kind = "loop" THEN <<Again(node)>> \o after
                             ELSE <<End>> \o after)
        holds == {i \in DOMAIN node.bodies : inside(i) # None}
    IN  IF nodes = << >> THEN None
        ELSE IF what = "label" /\ node.kind = "label" /\ node.label = b THEN nodes \o rest
        ELSE IF what = "handler" /\ node.kind = "try" /\ b \in Range(node.catches)
        THEN Into(node.bodies[arm + 1], after)
        ELSE IF holds # {} THEN inside(Min(holds))
        ELSE Located(what, b, Tail(nodes), rest)

(* The statements that follow one another: the main ones, and each swept   *)
(* block's on their own.                                                   *)
Units(t) ==
    LET nodes == IF t.root.kind = "sequence" THEN t.root.bodies[1] ELSE <<t.root>>
        swept(i) == nodes[i].kind = "label" /\ nodes[i].label \in Range(t.swept)
        split == IF t.root.kind # "sequence" THEN Len(nodes)
                 ELSE Max({0} \cup {i \in DOMAIN nodes : ~swept(i)})
    IN  <<SubSeq(nodes, 1, split)>> \o [i \in 1..(Len(nodes) - split) |-> <<nodes[split + i]>>]
LocatedIn(t, what, b) ==
    LET units == Units(t)
        found == {i \in DOMAIN units : Located(what, b, units[i], << >>) # None}
    IN  IF found = {} THEN None ELSE Located(what, b, units[Min(found)], << >>)

(* Where control can go from a block, and the blocks at which it shows.    *)
Raises(g, b) ==
    IF g.insts[b] = << >> THEN {}
    ELSE {<<"raise", target(g, e), e>> :
            e \in {d \in Range(incident(g, b, "out")) : is_exceptional(g, d)}}
Ways(g, b) ==
    LET edges == Range(Flow(g, b))
    IN  CASE branching(g, b) # None ->
               {<<g.kinds[e], target(g, e), e>> : e \in edges}
          [] OTHER -> IF edges = {} THEN {}
                      ELSE {<<"next", flow_successors(g, b)[1], Flow(g, b)[1]>>}
Outcomes(g, b) ==
    IF Ways(g, b) = {} /\ Raises(g, b) = {} THEN {<<"next", None, None>>}
    ELSE Ways(g, b) \cup Raises(g, b)
Shows(g, b) == g.insts[b] # << >> \/ Cardinality(Ways(g, b)) > 1

Spin == -1
Lost == -2      \* a goto without a label, or a handler without an arm
RECURSIVE GraphStop(_, _, _)
GraphStop(g, b, fuel) ==
    IF fuel = 0 THEN Spin
    ELSE IF b = None \/ Shows(g, b) THEN b
    ELSE GraphStop(g, (CHOOSE o \in Outcomes(g, b) : TRUE)[2], fuel - 1)

(* What is left to run once o happened at the first thing of k.            *)
After(t, k, o) ==
    LET node == Head(k)
        rest == Tail(k)
        case == {i \in DOMAIN node.cases : o[3] \in node.cases[i]}
        handler == LocatedIn(t, "handler", o[2])
        label == LocatedIn(t, "label", o[2])
    IN  IF o[1] = "raise" THEN IF handler # None THEN handler ELSE label
        ELSE CASE node.kind = "block" -> rest
          [] node.kind = "return" -> << >>
          [] node.kind = "if" -> Into(node.bodies[IF o[1] = "true" THEN 1 ELSE 2], rest)
          [] node.kind = "switch" ->
               Into(node.bodies[IF o[3] = node.default THEN Len(node.bodies)
                                ELSE CHOOSE i \in case : TRUE], rest)
          [] node.kind = "test" ->
               IF (o[1] = "true") = node.loop.sense
               THEN IF node.loop.form = "while" THEN rest ELSE Turn(node.loop, rest)
               ELSE IF node.loop.form = "while" THEN Turn(node.loop, rest) ELSE rest

DropTo(k, stops(_)) ==
    LET found == {i \in DOMAIN k : stops(k[i])}
    IN  IF found = {} THEN << >> ELSE SubSeq(k, Min(found), Len(k))
RECURSIVE TreeStop(_, _, _, _)
TreeStop(g, t, k, fuel) ==
    LET node == Head(k)
        rest == Tail(k)
        on(next) == TreeStop(g, t, next, fuel - 1)
        tests(loop) ==
          LET n == Len(loop.spans)
          IN  [i \in 1..(n - 1) |-> Leaf("block", loop.spans[i])]
              \o <<[kind |-> "test", span |-> loop.spans[n], loop |-> loop]>>
        is_loop(item) == /\ item.kind = "again"
                         /\ node.label = None \/ item.node.header = node.label
        label == LocatedIn(t, "label", node.target)
        anchor == IF node.kind = "test" THEN node.span.block ELSE
                  IF node.kind = "label" THEN NodeAnchor(node.bodies[1][1])
                  ELSE NodeAnchor(node)
    IN  IF fuel = 0 THEN [block |-> Spin, place |-> << >>]
        ELSE IF k = None THEN [block |-> Lost, place |-> << >>]
        ELSE IF k = << >> THEN [block |-> None, place |-> << >>]
        ELSE CASE node.kind = "end" -> on(rest)
          [] node.kind = "again" ->
               on(IF node.node.form = "endless" THEN Turn(node.node, rest)
                  ELSE tests(node.node) \o rest)
          [] /\ node.kind \notin {"end", "again"}
             /\ anchor # None /\ anchor \notin Range(compute(g, Root).order) ->
               on(DropTo(k, LAMBDA item : item.kind \in {"end", "again"}))
          [] node.kind \in {"sequence", "label", "guarded", "try"} -> on(Into(node.bodies[1], rest))
          [] node.kind = "loop" -> on(IF node.form = "while" THEN <<Again(node)>> \o rest
                                      ELSE Turn(node, rest))
          [] node.kind = "break" -> on(Tail(DropTo(rest, is_loop)))
          [] node.kind = "continue" -> on(DropTo(rest, is_loop))
          [] node.kind = "goto" -> on(label)
          [] OTHER -> IF Shows(g, node.span.block) THEN [block |-> node.span.block, place |-> k]
                      ELSE on(After(t, k, CHOOSE o \in Outcomes(g, node.span.block) : TRUE))
Fuel == 30
-----------------------------------------------------------------------------
(* The graphs: each block is given a terminator, of the kinds its family   *)
(* allows, and its code; the blocks of some families are then guarded.     *)
Family(blocks, kinds, switches, self, code, guards) ==
    [blocks |-> blocks, kinds |-> kinds, switches |-> switches, self |-> self,
     code |-> code, guards |-> guards]
Plain == <<None>>
P == <<"p", TRUE>>
Q == <<"p", FALSE>>
Handler(entry, extent, kind, filter) ==
    [entry |-> entry, extent |-> extent, kind |-> kind, filter |-> filter]
Catch(entry, extent) == Handler(entry, extent, "catch", None)
Protecting(protected, handlers) == [protected |-> protected, handlers |-> handlers]
Guards ==
    {<<Protecting({0}, <<Catch(3, {3})>>)>>,
     <<Protecting({0, 1}, <<Catch(3, {2, 3})>>)>>,
     <<Protecting({1}, <<Handler(3, {2, 3}, "finally", None)>>)>>,
     <<Protecting({0, 1}, <<Catch(3, None)>>)>>,
     <<Protecting({1}, <<Handler(3, {3}, "filter", 2)>>)>>,
     <<Protecting({1}, <<Catch(2, {2}), Handler(3, {3}, "finally", None)>>)>>,
     <<Protecting({0, 1}, <<Catch(3, {3})>>), Protecting({1}, <<Catch(2, {2})>>)>>}
Families ==
    {Family(3, {"fallthrough", "jump", "back"}, TRUE, TRUE, {Plain}, {}),
     Family(4, {"fallthrough"}, FALSE, FALSE, {Plain}, {}),
     Family(3, {"jump"}, FALSE, TRUE, {<< >>, Plain}, {}),
     Family(2, {"fallthrough"}, TRUE, TRUE, {<<P>>, <<P, Q, None>>, <<None, P, None>>, << >>}, {}),
     Family(4, {"fallthrough"}, FALSE, FALSE, {Plain}, Guards)}
Terminators(f, b) ==
    LET to == 0..(f.blocks - 1)
        pairs == {p \in to \X to : f.self \/ p[1] < p[2] \/ (f.guards = {} /\ p[1] # p[2])}
        case(S) == LET ordered == Sorted(S) IN [i \in DOMAIN ordered |-> <<ordered[i], "case">>]
        cases == {case(S) : S \in {S \in SUBSET to : Cardinality(S) > 1}}
        one == {<<<<d, k>>>> : d \in {d \in to : f.self \/ d # b}, k \in f.kinds}
        more == {<<<<p[1], "true">>, <<p[2], "false">>>> : p \in pairs}
                \cup (IF ~f.switches THEN {}
                      ELSE cases \cup {Append(s, <<d, "fallthrough">>) : s \in cases, d \in to})
    IN  CASE b = 0 /\ f.blocks > 1 -> one \cup more
          [] b > 0 /\ (b = 3 /\ f.guards = {}) -> {<< >>}
          [] b = f.blocks - 1 \/ (b = 2 /\ f.guards # {}) -> {<< >>} \cup one
          [] OTHER -> {<< >>} \cup one \cup more

Init ==
    /\ graph = [live |-> {}, edges |-> << >>, kinds |-> << >>, insts |-> << >>, regions |-> << >>]
    /\ family \in Families

Write ==
    /\ Cardinality(graph.live) < family.blocks
    /\ \E t \in Terminators(family, Cardinality(graph.live)), code \in family.code :
         LET b == Cardinality(graph.live)
         IN  graph' = [graph EXCEPT !.live = @ \cup {b},
                         !.edges = @ \o [i \in DOMAIN t |-> <<b, t[i][1]>>],
                         !.kinds = @ \o [i \in DOMAIN t |-> t[i][2]],
                         !.insts = [d \in 0..b |-> IF d = b THEN code ELSE @[d]]]
    /\ UNCHANGED family

(* The regions with the raises into their pads, which flow from elsewhere  *)
(* does not enter.                                                         *)
Guarding(g, regions, live) ==
    LET handlers == FlattenSeq([r \in DOMAIN regions |-> regions[r].handlers])
        into(h) == LET r == CHOOSE r \in DOMAIN regions : h \in Range(regions[r].handlers)
                       from == Sorted(regions[r].protected)
                   IN  [i \in DOMAIN from |-> <<from[i], h.entry>>]
        raising == IF live THEN FlattenSeq([i \in DOMAIN handlers |-> into(handlers[i])]) ELSE << >>
        pads == {claimed_blocks(h) : h \in Range(handlers)}
                \cup {{h.filter} : h \in {i \in Range(handlers) : i.filter # None}}
        kept == SelectSeq([i \in DOMAIN g.edges |-> i], LAMBDA i :
                  \A pad \in pads : g.edges[i][2] \in pad => g.edges[i][1] \in pad)
    IN  [g EXCEPT !.edges = [i \in DOMAIN kept |-> @[kept[i]]] \o raising,
                  !.kinds = [i \in DOMAIN kept |-> @[kept[i]]]
                              \o [i \in DOMAIN raising |-> "handler"],
                  !.regions = regions]
Guard ==
    /\ Cardinality(graph.live) = family.blocks /\ graph.regions = << >>
    /\ \E regions \in family.guards, live \in BOOLEAN : graph' = Guarding(graph, regions, live)
    /\ UNCHANGED family
Complete(g, f) == f # None /\ Cardinality(g.live) = f.blocks /\ (f.guards # {} => g.regions # << >>)
Done == Complete(graph, family) /\ family' = None /\ UNCHANGED graph
Next == (family # None /\ (Write \/ Guard)) \/ Done
Spec == Init /\ [][Next]_vars
-----------------------------------------------------------------------------
(* The pairs of a block at which the graph stops and what the tree runs    *)
(* there that the same decisions lead both to.                             *)
RECURSIVE Pairs(_, _, _, _)
Pairs(g, t, todo, seen) ==
    LET on(p) == IF p[1] \notin g.live \/ p[2].block # p[1] THEN {}
                 ELSE {<<GraphStop(g, o[2], Fuel), TreeStop(g, t, After(t, p[2].place, o), Fuel)>> :
                         o \in Outcomes(g, p[1])}
        known == seen \cup todo
    IN  IF todo = {} THEN seen ELSE Pairs(g, t, UNION {on(p) : p \in todo} \ known, known)
SameRuns(g, t) ==
    \A p \in Pairs(g, t, {<<GraphStop(g, Root, Fuel), TreeStop(g, t, Units(t)[1], Fuel)>>}, {}) :
        p[2].block = p[1] \/ p[2].block = Lost

(* Whatever the conditions, dispatches and raises do, the tree runs the    *)
(* blocks of the graph in the graph's order: a break, a continue, a goto   *)
(* and the end of every body lead where the edges lead.  It may lose its   *)
(* way only at a goto whose target the report calls unresolved, or at a    *)
(* raise into a handler that no try carries (structure.rs, branches.rs,    *)
(* loops.rs, try_catch.rs).                                                *)
RunsAlike ==
    [][Complete(graph, family) => \A t \in {compute_with_report(graph)} : SameRuns(graph, t)]_vars
-----------------------------------------------------------------------------
Count(seq, test(_)) == Len(SelectSeq(seq, test))
Points(g, S) == UNION {{<<b, i>> : i \in DOMAIN g.insts[b]} : b \in S}
Handlers(g) == UNION {Range(g.regions[r].handlers) : r \in DOMAIN g.regions}
HandlerOwned(g) ==
    UNION {claimed_blocks(h) \cup ({h.filter} \ {None}) : h \in Handlers(g)}
RegionExits(g) ==
    UNION {LET inside == g.regions[r].protected \cup HandlerBlocks(g.regions[r])
           IN  UNION {Range(flow_successors(g, b)) : b \in inside} \ inside :
             r \in DOMAIN g.regions}
Tests(nodes) == UNION {{s.block : s \in Range(n.spans)} : n \in {m \in nodes : m.kind = "loop"}}
Covered(nodes) == {p[1] : p \in UNION {Range(for_each_instruction(n)) : n \in Range(nodes)}}

(* Every instruction that can run or that a handler owns is in the tree    *)
(* once and no other is, every goto is reported and has its one label      *)
(* unless it is reported unresolved, and what raises into an arm of a try  *)
(* is in that try.                                                         *)
TreeSound(g, t) ==
    LET nodes == preorder(t.root)
        points == for_each_instruction(t.root)
        labels == SelectSeq(nodes, LAMBDA n : n.kind = "label")
        labelled == {n.label : n \in Range(labels)}
        reported == {goto[1] : goto \in Range(t.gotos)}
        tries == {n \in Range(nodes) : n.kind = "try"}
    IN  /\ Cardinality(Range(points)) = Len(points)
        /\ Points(g, Reach(g, {Root}, {}) \cup HandlerOwned(g)) \subseteq Range(points)
        /\ Range(points) \subseteq
              Points(g, Reach(g, {Root} \cup HandlerOwned(g) \cup reported \cup RegionExits(g), {}))
        /\ \A b \in g.live : Count(nodes, LAMBDA n : n.kind = "goto" /\ n.target = b)
                              = Count(t.gotos, LAMBDA goto : goto[1] = b)
        /\ Cardinality(labelled) = Len(labels)
        /\ \A b \in reported : (b \in labelled) # (b \in t.unresolved)
        /\ \A b \in t.unresolved :
              b \in reported /\ (g.insts[b] = << >> \/ b \in Tests(Range(nodes)))
        /\ Range(t.swept) \subseteq labelled
        /\ \A n \in tries :
             /\ n.region \notin t.unstructured
             /\ \A b \in Reach(g, {Root}, {}) : \A o \in Raises(g, b) :
                   o[2] \in Range(n.catches) => b \in Covered(n.bodies[1])

(* Whether every instruction of the predicated tree runs under its guard,  *)
(* or in the last run of a condition.                                      *)
GuardsRight(g, plain, t) ==
    LET predicate(p) == g.insts[p[1]][p[2]]
        guards == {n \in Range(preorder(t.root)) : n.kind = "guarded"}
        under == UNION {Range(for_each_instruction(n)) : n \in guards}
        leaves == {n \in Range(preorder(t.root)) : n.kind \in {"block", "return"}}
    IN  /\ for_each_instruction(t.root) = for_each_instruction(plain.root)
        /\ \A n \in guards : \A p \in Range(for_each_instruction(n)) :
              predicate(p) = predicate(n.predicate) /\ predicate(p)[2] = n.when_true
        /\ \A n \in leaves : \A p \in Range(span_points(n.span)) :
              (p \in under) <=> (predicate(p) # None)
        /\ \A n \in Range(preorder(t.root)) : n.kind \in {"if", "switch"} =>
              LET runs == predicate_runs(g, n.span)
              IN  \A i \in DOMAIN runs : runs[i].predicate = None \/ i = Len(runs)

(* The answers prepared for all loops at once are those of a scan of each. *)
FollowsAgree(c) ==
    \A k \in DOMAIN c.forest.loops :
        LET up == c.forest.enclosing[k]
            around == within_loop(c.forest, Whole, up)
        IN  is_nested(c.forest.loops[k]) =>
              /\ endless_follow(c, k, Whole) = scan_endless_follow(c, k, Whole)
              /\ up # None =>
                   endless_follow(c, k, around) = scan_endless_follow(c, k, around)
KeepsCode(g, t) ==
    /\ TreeSound(g, t)
    /\ \A p \in {compute_predicated_with_report(g, t)} : GuardsRight(g, t, p)
    /\ \A c \in {new(g, {})} : FollowsAgree(c)

(* Structuring loses no code, writes none twice and reports what it could  *)
(* not express; guarding it by predicates moves none of it, and the exits  *)
(* of loops prepared in one pass are what a scan of the loop finds         *)
(* (structure.rs, exits.rs, labels.rs, predicated.rs, walk.rs).            *)
CodeKept ==
    [][Complete(graph, family) => \A t \in {compute_with_report(graph)} : KeepsCode(graph, t)]_vars
=============================================================================

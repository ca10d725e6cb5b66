------------------------------ MODULE DomTrees ------------------------------
(***************************************************************************)
(* What is built on dominator trees: frontiers, the forest that covers     *)
(* unreached nodes, post-dominators with their virtual exit, and control   *)
(* dependence (src/crates/cfglib/src/graph/dominator, virtual_root.rs and  *)
(* cdg.rs).  A tree is a value here: the immediate dominators, which the   *)
(* paths determine and Dominators constructs, and their preorder.          *)
(***************************************************************************)
EXTENDS Traverse

Sorted(S) == SetToSortSeq(S, <)
ReachedFrom(g, S, d) == reachable(g, Sorted(S), d)

(* Pairs x, n of which the root does not reach n without x.                *)
DominatorsOf(g, root) ==
    LET R == ReachedFrom(g, {root}, "out")
        past(x) == IF x = root THEN {} ELSE reachable_in(g, <<root>>, "out", g.live \ {x})
    IN  UNION {{<<x, n>> : n \in {x} \cup (R \ past(x))} : x \in R}
immediate_of(g, root) ==
    LET dom == DominatorsOf(g, root)
        above(n) == {d[1] : d \in {e \in dom : e[2] = n}} \ {n}
    IN  [n \in g.live |-> IF above(n) = {} THEN None
                          ELSE CHOOSE x \in above(n) : \A y \in above(n) : <<y, x>> \in dom]

(* Children in the order of their numbers, below each of the roots.        *)
RECURSIVE walk(_, _)
walk(idom, n) ==
    <<n>> \o FlattenSeq(LET kids == Sorted({m \in DOMAIN idom : idom[m] = n})
                        IN  [i \in DOMAIN kids |-> walk(idom, kids[i])])
from_forest_parts(idom, roots) ==
    [idom |-> idom,
     order |-> IF idom = [n \in DOMAIN idom |-> None] THEN roots
               ELSE FlattenSeq([i \in DOMAIN roots |-> walk(idom, roots[i])])]
compute(g, root) == from_forest_parts(immediate_of(g, root), <<root>>)

is_reachable(t, n) == n \in Range(t.order)
idom(t, n) == IF n \in DOMAIN t.idom THEN t.idom[n] ELSE None
RECURSIVE ancestry(_, _)
ancestry(t, n) == IF idom(t, n) = None THEN <<n>> ELSE <<n>> \o ancestry(t, idom(t, n))
dominates(t, a, n) == a = n \/ (is_reachable(t, n) /\ a \in Range(ancestry(t, n)))
strictly_dominates(t, a, n) == a # n /\ dominates(t, a, n)
level(t, n) == Len(ancestry(t, n)) - 1
subtree(t, n) == SelectSeq(t.order, LAMBDA m : dominates(t, n, m))
by_preorder(t, S) == SelectSeq(t.order, LAMBDA m : m \in S)
-----------------------------------------------------------------------------
(* frontier: successors of the subtree that are not strictly inside it.    *)
frontier(t, g, n) ==
    IF ~is_reachable(t, n) THEN << >>
    ELSE by_preorder(t, {s \in UNION {Range(successors(g, m)) : m \in Range(subtree(t, n))} :
                            ~strictly_dominates(t, n, s)})

(* iterated_frontier: a pile for each level, deepest first.  The walk of a *)
(* root leaves out the subtrees of nodes that were queued before.          *)
enqueue(st, n, lvl) ==
    IF n \in st.queued THEN st
    ELSE [st EXCEPT !.queued = @ \cup {n}, !.bucket[lvl] = <<n>> \o @]

(* Mutant of judge: a node on the root's own level is left out.            *)
judge_below(t, accepts, root_level, st, s) ==
    IF ~is_reachable(t, s) \/ level(t, s) >= root_level \/ s \in st.judged THEN st
    ELSE LET seen == [st EXCEPT !.judged = @ \cup {s}]
         IN  IF s \notin accepts THEN seen
             ELSE enqueue([seen EXCEPT !.out = @ \cup {s}], s, level(t, s))

judge(t, accepts, root_level, st, s) ==
    IF ~is_reachable(t, s) \/ level(t, s) > root_level \/ s \in st.judged THEN st
    ELSE LET seen == [st EXCEPT !.judged = @ \cup {s}]
         IN  IF s \notin accepts THEN seen
             ELSE enqueue([seen EXCEPT !.out = @ \cup {s}], s, level(t, s))

walk_node(t, g, accepts, root_level, st, n) ==
    FoldLeft(LAMBDA a, s : judge(t, accepts, root_level, a, s), st, successors(g, n))
RECURSIVE walk_root(_, _, _, _, _, _)
walk_root(t, g, accepts, root, rest, st) ==
    IF rest = << >> THEN st
    ELSE LET n == Head(rest)
         IN  IF n # root /\ n \in st.queued
             THEN walk_root(t, g, accepts, root, Without(rest, Range(subtree(t, n))), st)
             ELSE walk_root(t, g, accepts, root, Tail(rest),
                            walk_node(t, g, accepts, level(t, root), st, n))
RECURSIVE piggyback(_, _, _, _, _)
piggyback(t, g, accepts, lvl, st) ==
    IF lvl < 0 THEN st
    ELSE IF st.bucket[lvl] = << >> THEN piggyback(t, g, accepts, lvl - 1, st)
    ELSE LET root == Head(st.bucket[lvl])
         IN  piggyback(t, g, accepts, lvl,
               walk_root(t, g, accepts, root, subtree(t, root),
                         [st EXCEPT !.bucket[lvl] = Tail(@)]))
iterated_frontier(t, g, defs, accepts) ==
    LET top == Cardinality(g.live)
        begin == [queued |-> {}, judged |-> {}, out |-> {},
                  bucket |-> [l \in 0..top |-> << >>]]
        seeded == FoldLeft(LAMBDA a, n : IF is_reachable(t, n) THEN enqueue(a, n, level(t, n))
                                         ELSE a, begin, defs)
    IN  by_preorder(t, piggyback(t, g, accepts, top, seeded).out)

(* The frontier as it is defined, and what it closes to.                   *)
FrontierOf(t, g, n) ==
    {s \in g.live : /\ is_reachable(t, s) /\ ~strictly_dominates(t, n, s)
                    /\ \E p \in Range(predecessors(g, s)) :
                          is_reachable(t, p) /\ dominates(t, n, p)}
ClosedFrontier(t, g, defs, accepts) ==
    LET more(S) == {s \in accepts : \E n \in S \cup defs :
                       is_reachable(t, n) /\ s \in FrontierOf(t, g, n)}
        after[k \in 0..Cardinality(g.live)] ==
            IF k = 0 THEN {} ELSE LET before == after[k - 1] IN more(before)
    IN  after[Cardinality(g.live)]
-----------------------------------------------------------------------------
(* Components, which Scc finds: nodes that reach each other within S.      *)
ComponentsIn(g, S) ==
    {{m \in S : m \in reachable_in(g, <<n>>, "out", S) /\ n \in reachable_in(g, <<m>>, "out", S)} :
        n \in S}

(* A view with one more node, that precedes the roots.                     *)
virtual_root(g, roots) ==
    LET v == IF g.live = {} THEN 0 ELSE Max(g.live) + 1
    IN  [live |-> g.live \cup {v},
         edges |-> [i \in DOMAIN roots |-> <<v, roots[i]>>] \o g.edges]

(* Where the unreached part can be entered: the first node of each of its  *)
(* components that nothing enters.                                         *)
forest_roots(g, root, t) ==
    {root} \cup {Min(C) : C \in {X \in ComponentsIn(g, g.live) :
        /\ ~is_reachable(t, Min(X))
        /\ \A n \in X : Range(predecessors(g, n)) \subseteq X}}
complete_dominator_forest(g, root, t) ==
    IF \A n \in g.live : is_reachable(t, n) THEN None
    ELSE LET roots == Sorted(forest_roots(g, root, t))
             view == virtual_root(g, roots)
             v == Max(view.live)
             up == immediate_of(view, v)
             parents == [n \in g.live |-> IF up[n] = v THEN None ELSE up[n]]
         IN  from_forest_parts(parents, Sorted({n \in g.live : up[n] = v}))
-----------------------------------------------------------------------------
(* analyze: what reaches an exit, and the nodes of regions without one     *)
(* that are given an edge to the virtual exit: in a component that nothing *)
(* leaves, those with an edge to a node through which it is entered.       *)

(* Mutant of entries_of: the root is not an entry of its own.              *)
entries_from_outside(g, root, live, C) ==
    {n \in C : \E p \in Range(predecessors(g, n)) : p \in live \ C}

entries_of(g, root, live, C) ==
    {n \in C : n = root \/ \E p \in Range(predecessors(g, n)) : p \in live \ C}
cut_roots_of(g, root, live, reaches) ==
    LET sinks == {C \in ComponentsIn(g, live \ reaches) :
                    \A n \in C : Range(successors(g, n)) \subseteq C}
    IN  UNION {{n \in C : Range(successors(g, n)) \cap entries_of(g, root, live, C) # {}} :
                 C \in sinks}
analyze(g, root) ==
    LET live == ReachedFrom(g, {root}, "out")
        exits == {n \in live : successors(g, n) = << >>}
        reaches == reachable_in(g, Sorted(exits), "in", live)
    IN  [live |-> live, exits |-> exits, reaches |-> reaches,
         cut_roots |-> cut_roots_of(g, root, live, reaches)]

(* The reversed graph of what is reached, from the exit one past the rest. *)
AugmentedReverse(g, structure, exit) ==
    LET kept == SelectSeq(g.edges, LAMBDA e : e[1] \in structure.live)
        ends == Sorted(structure.exits) \o Sorted(structure.cut_roots)
    IN  [live |-> structure.live \cup {exit},
         edges |-> [i \in DOMAIN kept |-> <<kept[i][2], kept[i][1]>>]
                   \o [i \in DOMAIN ends |-> <<exit, ends[i]>>]]
compute_post(g, root) ==
    LET structure == analyze(g, root)
        exit == Max(g.live) + 1
        up == immediate_of(AugmentedReverse(g, structure, exit), exit)
        parents == [n \in g.live |-> IF n \notin structure.live \/ up[n] = exit THEN None
                                     ELSE up[n]]
    IN  [structure |-> structure,
         tree |-> from_forest_parts(parents, Sorted({n \in structure.live : up[n] = exit}))]
Exit == <<None>>
ipdom(p, n) ==
    IF ~is_reachable(p.tree, n) THEN None
    ELSE IF p.tree.idom[n] = None THEN Exit ELSE <<p.tree.idom[n]>>
post_dominates(p, a, n) == dominates(p.tree, a, n)
satisfies_parent_property(p, g) ==
    \A n \in Range(p.tree.order) : ipdom(p, n) # Exit =>
        \A s \in Range(successors(g, n)) : post_dominates(p, ipdom(p, n)[1], s)

(* Up from the target until the source's immediate post-dominator.         *)
RECURSIVE dependents_up(_, _, _)
dependents_up(p, stop, n) ==
    <<n>> \o (IF ipdom(p, n) \in {Exit, stop} THEN << >>
              ELSE dependents_up(p, stop, ipdom(p, n)[1]))
control_dependents(p, from, to) ==
    LET stop == ipdom(p, from)
    IN  IF /\ is_reachable(p.tree, to) /\ stop # None
           /\ stop = Exit \/ strictly_dominates(p.tree, stop[1], to)
        THEN dependents_up(p, stop, to) ELSE << >>
control_dependence_graph(g, p) ==
    [n \in g.live |->
       IF ~is_reachable(p.tree, n) THEN {}
       ELSE UNION {Range(control_dependents(p, n, s)) : s \in Range(successors(g, n))}]
-----------------------------------------------------------------------------
(* Frontiers of one node and of a set of definitions, with and without a   *)
(* filter, are what their definitions say.                                 *)
FrontierAgrees(g, root, accepts) ==
    LET t == compute(g, root)
    IN  /\ \A n \in g.live : frontier(t, g, n) = by_preorder(t,
              IF is_reachable(t, n) THEN FrontierOf(t, g, n) ELSE {})
        /\ \A n, m \in g.live :
              iterated_frontier(t, g, <<n, m>>, accepts) =
                  by_preorder(t, ClosedFrontier(t, g, {n, m}, accepts))

(* The forest reaches every node, from roots none of which leads to        *)
(* another, the first excepted; and dominates as all its roots together.   *)
ForestAgrees(g, root) ==
    LET t == compute(g, root)
        forest == complete_dominator_forest(g, root, t)
        roots == {n \in g.live : forest.idom[n] = None}
        starts == forest_roots(g, root, t)
    IN  IF forest = None THEN Range(t.order) = g.live
        ELSE /\ IsOrderOf(forest.order, g.live)
             /\ starts \subseteq roots \cup {root}
             /\ \A r \in starts \ {root} :
                   \A s \in starts \ {r} : r \notin ReachedFrom(g, {s}, "out")
             /\ \A a, n \in g.live : dominates(forest, a, n) <=>
                   a = n \/ n \notin reachable_in(g, Sorted(starts \ {a}), "out", g.live \ {a})

(* Every reached node is in the post-dominator tree, though some never get *)
(* to an exit; post-dominance is what the paths to the exits say where all *)
(* paths get there; and a node depends on exactly the branches that decide *)
(* whether it runs.                                                        *)
PostAgrees(g, root) ==
    LET p == compute_post(g, root)
        st == p.structure
        controls == control_dependence_graph(g, p)
        leads(n, x) == reachable_in(g, <<n>>, "out", g.live \ {x}) \cap st.exits
    IN  /\ IsOrderOf(p.tree.order, st.live)
        /\ st.cut_roots \cap st.reaches = {}
        /\ (st.cut_roots = {}) <=> (st.reaches = st.live)
        /\ satisfies_parent_property(p, g)
        /\ \A n, x \in st.live :
              n # x /\ ReachedFrom(g, {n}, "out") \subseteq st.reaches =>
                  (post_dominates(p, x, n) <=> leads(n, x) = {})
        /\ \A n \in st.live : controls[n] =
              {x \in st.live : /\ \E s \in Range(successors(g, n)) : post_dominates(p, x, s)
                               /\ ~strictly_dominates(p.tree, x, n)}
=============================================================================

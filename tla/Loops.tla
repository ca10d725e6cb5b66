-------------------------------- MODULE Loops --------------------------------
(***************************************************************************)
(* Loops of a rooted graph (src/crates/cfglib/src/graph/structure.rs,      *)
(* loop_forest.rs, loop_nest.rs, interval.rs and reducible.rs): back       *)
(* edges, the forest of loops with its interval numbering, the nesting     *)
(* tree, intervals, preheaders, and the splitting of cycles that are       *)
(* entered in several places.                                              *)
(***************************************************************************)
EXTENDS DomTrees

(* Edges are pairs; a back edge is a tail and a header, sorted.            *)
SortedPairs(S) == SetToSortSeq(S, LAMBDA a, b : a[1] < b[1] \/ (a[1] = b[1] /\ a[2] < b[2]))

find_back_edges(g, t) ==
    SortedPairs({e \in Range(g.edges) : is_reachable(t, e[1]) /\ dominates(t, e[2], e[1])})

(* An edge the graph calls a back edge counts when it lies on a cycle.     *)
find_back_edges_tagged(g, tags, t) ==
    LET on_a_cycle(e) == \E C \in ComponentsIn(g, g.live) : {e[1], e[2]} \subseteq C
    IN  SortedPairs(Range(find_back_edges(g, t)) \cup
            {g.edges[i] : i \in {j \in tags : /\ is_reachable(t, g.edges[j][1])
                                              /\ on_a_cycle(g.edges[j])}})

(* The first back edge of a depth-first walk whose header does not         *)
(* dominate its tail.                                                      *)
find_irreducible_entry(g, root, t) ==
    LET backs == SelectSeq(Named(depth_first_events(g, root, "out"), "back"),
                           LAMBDA e : ~dominates(t, e[3], e[2]))
    IN  IF backs = << >> THEN None ELSE backs[1][3]
is_reducible(g, root, t) == find_irreducible_entry(g, root, t) = None
-----------------------------------------------------------------------------
(* A loop's id is its place in the order of headers; None is NONE.  The    *)
(* body of a loop whose header does not dominate its latches: what reaches *)
(* a latch short of the header, cut down to what the header reaches.       *)
walked_back(g, t, header, latches) ==
    reachable_from(g, "in", Range(t.order), Without(latches, {header}),
                   {header} \cup Range(latches))
explicit_body(g, t, header, latches) ==
    reachable_from(g, "out", walked_back(g, t, header, latches), <<header>>,
                   {header} \cup Range(latches))

(* One loop for each header; a family is a tree and its back edges.        *)
find(g, families) ==
    LET rows == UNION {{<<e[2], e[1], f>> : e \in Range(families[f].backs)} :
                          f \in DOMAIN families}
        headers == Sorted({r[1] : r \in rows})
        record(h) ==
          LET f == (CHOOSE r \in rows : r[1] = h)[3]
              latches == Sorted({r[2] : r \in {x \in rows : x[1] = h}})
              t == families[f].tree
          IN  [header |-> h, latches |-> latches, family |-> f,
               explicit |-> IF \A l \in Range(latches) : dominates(t, h, l) THEN None
                            ELSE explicit_body(g, t, h, latches)]
    IN  [k \in DOMAIN headers |-> record(headers[k])]
is_nested(loop) == loop.explicit = None

innermost_first(loops, families) ==
    LET lvl(k) == level(families[loops[k].family].tree, loops[k].header)
        less(a, b) == \/ loops[a].family < loops[b].family
                      \/ /\ loops[a].family = loops[b].family
                         /\ lvl(a) > lvl(b) \/ (lvl(a) = lvl(b) /\ a < b)
    IN  SetToSortSeq({k \in DOMAIN loops : is_nested(loops[k])}, less)

(* The representative of x, each entry on the way moved two up.            *)
RECURSIVE representative(_, _)
representative(rep, x) ==
    IF rep[x] = x THEN [rep |-> rep, top |-> x]
    ELSE LET up == rep[rep[x]] IN representative([rep EXCEPT ![x] = up], up)

(* Back from the latches of loop k.  A block nobody holds is claimed; one  *)
(* that an inner loop holds puts that loop inside, and the walk goes on    *)
(* from its header.                                                        *)
RECURSIVE claim(_, _, _, _, _, _)
claim(g, t, loops, k, stack, st) ==
    IF stack = << >> THEN st
    ELSE LET n == Last(stack)
             held == st.innermost[n]
             up == representative(st.rep, held)
             entering == IF held = None THEN n ELSE loops[up.top].header
             claimed == IF held = None THEN [st EXCEPT !.innermost[n] = k]
                        ELSE [st EXCEPT !.rep = [up.rep EXCEPT ![up.top] = k],
                                        !.enclosing[up.top] = k]
             before == SelectSeq(predecessors(g, entering), LAMBDA p :
                          is_reachable(t, p) /\ claimed.innermost[p] # k)
         IN  IF n = loops[k].header THEN claim(g, t, loops, k, Front(stack), st)
             ELSE IF held # None /\ up.top = k
             THEN claim(g, t, loops, k, Front(stack), [st EXCEPT !.rep = up.rep])
             ELSE claim(g, t, loops, k, Front(stack) \o before, claimed)
claim_blocks(g, families, loops, order) ==
    FoldLeft(LAMBDA st, k : claim(g, families[loops[k].family].tree, loops, k, loops[k].latches,
                                  [st EXCEPT !.innermost[loops[k].header] = k]),
             [innermost |-> [n \in g.live |-> None], rep |-> [k \in DOMAIN loops |-> k],
              enclosing |-> [k \in DOMAIN loops |-> None]], order)

(* Each loop's run of positions, a loop before the loops inside it.        *)
number_subtrees(loops, enclosing, order) ==
    LET sizes == FoldLeft(LAMBDA s, k : IF enclosing[k] = None THEN s
                                        ELSE [s EXCEPT ![enclosing[k]] = @ + s[k]],
                          [k \in DOMAIN loops |-> 1], order)
        place(a, k) ==
          LET up == enclosing[k]
              first == IF up = None THEN a.outermost ELSE a.next[up]
              moved == IF up = None THEN [a EXCEPT !.outermost = @ + sizes[k]]
                       ELSE [a EXCEPT !.next[up] = @ + sizes[k]]
          IN  [moved EXCEPT !.next[k] = first + 1,
                            !.span[k] = <<first, first + sizes[k] - 1>>]
    IN  FoldLeft(place, [outermost |-> 0, next |-> [k \in DOMAIN loops |-> 0],
                         span |-> [k \in DOMAIN loops |-> None]], Reverse(order)).span

(* Mutant of run: the run ends at the loop's own blocks.                   *)
run_of_own(f, k) ==
    LET position(n) == f.span[f.innermost[n]][1]
    IN  {n \in DOMAIN f.innermost : f.innermost[n] # None /\ position(n) = f.span[k][1]}

(* The blocks whose innermost loop lies in the run of k.                   *)
run(f, k) ==
    LET position(n) == f.span[f.innermost[n]][1]
    IN  {n \in DOMAIN f.innermost :
           f.innermost[n] # None /\ f.span[k][1] <= position(n) /\ position(n) <= f.span[k][2]}
body(f, k) == IF is_nested(f.loops[k]) THEN run(f, k) ELSE f.loops[k].explicit
contains(f, k, n) == n \in body(f, k)
encloses(f, outer, inner) ==
    IF outer = inner THEN TRUE
    ELSE IF is_nested(f.loops[outer]) /\ is_nested(f.loops[inner])
    THEN f.span[outer][1] <= f.span[inner][1] /\ f.span[inner][2] <= f.span[outer][2]
    ELSE body(f, inner) \subseteq body(f, outer)

(* The first loop on the chain around the header that is larger, or a      *)
(* smaller explicit one; the lower header among equals.                    *)
RECURSIVE chain(_, _)
chain(f, k) == IF k = None THEN << >> ELSE <<k>> \o chain(f, f.enclosing[k])
parents_among_explicit_loops(f) ==
    LET size == [k \in DOMAIN f.loops |-> Cardinality(body(f, k))]
        larger(k) == SelectSeq(chain(f, f.innermost[f.loops[k].header]),
                               LAMBDA c : size[c] > size[k])
        candidates(k) ==
          (IF larger(k) = << >> THEN {} ELSE {Head(larger(k))}) \cup
          {c \in DOMAIN f.loops : /\ c # k /\ ~is_nested(f.loops[c]) /\ size[c] > size[k]
                                  /\ contains(f, c, f.loops[k].header)}
        best(S) == CHOOSE c \in S : \A x \in S : size[c] < size[x] \/ (size[c] = size[x] /\ c <= x)
    IN  [k \in DOMAIN f.loops |-> IF candidates(k) = {} THEN None ELSE best(candidates(k))]
parents(f) ==
    IF \A k \in DOMAIN f.loops : is_nested(f.loops[k]) THEN f.enclosing
    ELSE parents_among_explicit_loops(f)
RECURSIVE depth_of(_, _)
depth_of(parent, k) == IF parent[k] = None THEN 0 ELSE depth_of(parent, parent[k]) + 1

build(g, families) ==
    LET loops == find(g, families)
        order == innermost_first(loops, families)
        st == claim_blocks(g, families, loops, order)
    IN  [loops |-> loops, innermost |-> st.innermost, enclosing |-> st.enclosing,
         span |-> number_subtrees(loops, st.enclosing, order)]
compute_tagged(g, tags, t) ==
    build(g, <<[tree |-> t, backs |-> find_back_edges_tagged(g, tags, t)]>>)

(* The loops of the unreached code too, by dominance within it.            *)
compute_all_tagged(g, root, tags, t) ==
    LET forest == complete_dominator_forest(g, root, t)
        live == [tree |-> t, backs |-> find_back_edges_tagged(g, tags, t)]
    IN  IF forest = None THEN build(g, <<live>>)
        ELSE build(g, <<live, [tree |-> forest,
               backs |-> SelectSeq(find_back_edges_tagged(g, tags, forest),
                                   LAMBDA e : ~is_reachable(t, e[2]))]>>)

(* The greatest depth along a nested loop's chain, then explicit loops.    *)
node_depths(f) ==
    LET parent == parents(f)
        deepest(k) == Max({depth_of(parent, c) : c \in Range(chain(f, k))})
        nested(n) == IF f.innermost[n] = None THEN 0 ELSE deepest(f.innermost[n]) + 1
    IN  [n \in DOMAIN f.innermost |->
           Max({nested(n)} \cup {depth_of(parent, k) + 1 :
                 k \in {c \in DOMAIN f.loops : ~is_nested(f.loops[c]) /\ contains(f, c, n)}})]
natural_loops(f) ==
    LET parent == parents(f)
        depth == [k \in DOMAIN parent |-> depth_of(parent, k)]
        order == SetToSortSeq(DOMAIN depth, LAMBDA a, b :
                    depth[a] < depth[b] \/ (depth[a] = depth[b] /\ a < b))
        listed(k) == [header |-> f.loops[k].header, body |-> body(f, k),
                      latches |-> Range(f.loops[k].latches), depth |-> depth[k]]
    IN  IF f.loops = << >> THEN << >> ELSE [i \in DOMAIN order |-> listed(order[i])]

(* LoopNestingTree over loops listed in any order: the smallest larger     *)
(* loop around the header, the first listed among equals.                  *)
nesting(loops) ==
    LET size(i) == Cardinality(loops[i].body)
        around(i) == {o \in DOMAIN loops : loops[i].header \in loops[o].body /\ size(o) > size(i)}
        parent == [i \in DOMAIN loops |->
                     IF around(i) = {} THEN None
                     ELSE CHOOSE o \in around(i) : \A x \in around(i) :
                            size(o) < size(x) \/ (size(o) = size(x) /\ o <= x)]
    IN  [parents |-> parent, depths |-> [i \in DOMAIN loops |-> depth_of(parent, i)]]
block_to_loop(loops, depths, n) ==
    FoldLeft(LAMBDA held, i : IF n \notin loops[i].body THEN held
                              ELSE IF held = None \/ depths[i] > depths[held] THEN i
                              ELSE held,
             None, [i \in DOMAIN loops |-> i])
-----------------------------------------------------------------------------
(* What the loops are: a dominated loop is what reaches a latch short of   *)
(* the header; an explicit one is judged by its own walk.                  *)
LoopAgrees(g, f, families) ==
    LET ids == DOMAIN f.loops
        tree(k) == families[f.loops[k].family].tree
        parent == parents(f)
        depths == node_depths(f)
        bodies == [k \in ids |-> body(f, k)]
        size(k) == Cardinality(bodies[k])
        around(k) == {c \in ids : f.loops[k].header \in bodies[c] /\ size(c) > size(k)}
        nested == {k \in ids : is_nested(f.loops[k])}
    IN  /\ \A k \in nested :
              bodies[k] = walked_back(g, tree(k), f.loops[k].header, f.loops[k].latches)
        /\ \A n \in g.live :
              LET around_n == {k \in nested : n \in bodies[k]}
              IN  IF around_n = {} THEN f.innermost[n] = None
                  ELSE /\ f.innermost[n] \in around_n
                       /\ \A k \in around_n : bodies[f.innermost[n]] \subseteq bodies[k]
        /\ \A a, b \in ids : encloses(f, a, b) <=> bodies[b] \subseteq bodies[a]
        /\ \A k \in ids : IF around(k) = {} THEN parent[k] = None
                          ELSE /\ parent[k] \in around(k)
                               /\ \A c \in around(k) : \/ size(parent[k]) < size(c)
                                                       \/ size(parent[k]) = size(c) /\ parent[k] <= c
        /\ \A n \in g.live : depths[n] =
              Max({0} \cup {depth_of(parent, k) + 1 : k \in {c \in ids : n \in bodies[c]}})

(* The nesting tree of the listed loops says what the forest says.         *)
NestAgrees(g, f) ==
    LET listed == natural_loops(f)
        nest == nesting(listed)
        depths == node_depths(f)
    IN  /\ \A i \in DOMAIN listed : nest.depths[i] = listed[i].depth
        /\ \A n \in g.live : LET i == block_to_loop(listed, nest.depths, n)
                             IN  depths[n] = IF i = None THEN 0 ELSE nest.depths[i] + 1
-----------------------------------------------------------------------------
(* Intervals: a header takes in every node whose reached predecessors are  *)
(* all inside; what is left over of an interval's successors are headers.  *)
take_in(a, s) ==
    IF s \in a.assigned \/ a.remaining[s] = 0 THEN a
    ELSE IF a.remaining[s] > 1 THEN [a EXCEPT !.remaining[s] = @ - 1]
    ELSE [a EXCEPT !.remaining[s] = 0, !.assigned = @ \cup {s}, !.interval = @ \cup {s},
                   !.worklist = Append(@, s)]
RECURSIVE grow(_, _)
grow(g, a) ==
    IF a.worklist = << >> THEN a
    ELSE grow(g, FoldLeft(take_in, [a EXCEPT !.worklist = Front(@)],
                          successors(g, Last(a.worklist))))
leave(g, a, b) ==
    LET out == SelectSeq(successors(g, b), LAMBDA s : s \notin a.assigned)
        times(s) == Cardinality({i \in DOMAIN out : out[i] = s})
    IN  [a EXCEPT !.remaining = [s \in DOMAIN @ |-> @[s] + times(s)],
                  !.headers = @ \o Sorted(Range(out))]
RECURSIVE intervals_from(_, _)
intervals_from(g, a) ==
    IF a.headers = << >> THEN a.intervals
    ELSE LET h == Last(a.headers)
             popped == [a EXCEPT !.headers = Front(@)]
             grown == grow(g, [popped EXCEPT !.assigned = @ \cup {h}, !.interval = {h},
                                             !.worklist = <<h>>])
             left == FoldLeft(LAMBDA x, b : leave(g, x, b), grown, Sorted(grown.interval))
         IN  intervals_from(g,
               IF h \in a.assigned THEN popped
               ELSE [left EXCEPT !.intervals = Append(@, [header |-> h, blocks |-> grown.interval])])
compute_intervals(g, root) ==
    LET live == ReachedFrom(g, {root}, "out")
    IN  intervals_from(g,
          [remaining |-> [n \in g.live |->
              Len(SelectSeq(predecessors(g, n), LAMBDA p : p \in live))],
           assigned |-> {}, headers |-> <<root>>, interval |-> {}, worklist |-> << >>,
           intervals |-> << >>])

(* Every reached node is in one interval, which is entered at its header   *)
(* only and takes in all it can.                                           *)
IntervalsAgree(g, root) ==
    LET live == ReachedFrom(g, {root}, "out")
        all == compute_intervals(g, root)
        before(n) == Range(predecessors(g, n)) \cap live
    IN  /\ UNION {all[i].blocks : i \in DOMAIN all} = live
        /\ \A i, j \in DOMAIN all : i # j => all[i].blocks \cap all[j].blocks = {}
        /\ \A i \in DOMAIN all : /\ \A n \in all[i].blocks \ {all[i].header} :
                                       before(n) \subseteq all[i].blocks
                                 /\ \A n \in live \ (all[i].blocks \cup {root}) :
                                       ~(before(n) \subseteq all[i].blocks)
-----------------------------------------------------------------------------
(* The cycle through the witness that is entered in several places: while  *)
(* it has one entry, the cycle that is left without it.                    *)
RECURSIVE multi_entry_cycle(_, _, _, _, _)
multi_entry_cycle(g, root, t, witness, allowed) ==
    LET ahead == reachable_in(g, <<witness>>, "out", allowed)
        member == ahead \cap reachable_in(g, <<witness>>, "in", ahead)
        entries == {n \in member : n = root \/ \E p \in Range(predecessors(g, n)) :
                                       is_reachable(t, p) /\ p \notin member}
    IN  IF Cardinality(entries) = 1
        THEN multi_entry_cycle(g, root, t, witness, allowed \ entries)
        ELSE [member |-> member, entries |-> entries]

(* One entry stays the header; what the others reach without it is copied, *)
(* and the edges that come in from outside go to the copies.               *)
region_without(g, cycle, header) ==
    reachable_in(g, Sorted(cycle.entries \ {header}), "out", cycle.member \ {header})
chosen_header(g, root, cycle) ==
    IF root \in cycle.entries THEN root
    ELSE LET size(h) == Cardinality(region_without(g, cycle, h))
         IN  CHOOSE h \in cycle.entries : \A x \in cycle.entries :
               size(h) < size(x) \/ (size(h) = size(x) /\ h <= x)
split_cycle(g, root, cycle) ==
    LET header == chosen_header(g, root, cycle)
        copied == Sorted(region_without(g, cycle, header))
        bound == Max(g.live \cup Slots) + 1
        copy_of(n) == IF n \in Range(copied) THEN bound + Position(copied, n) - 1 ELSE n
        out(n) == LET s == successors(g, n)
                  IN  [i \in DOMAIN s |-> <<copy_of(n), copy_of(s[i])>>]
        moved(e) == IF e[2] \in cycle.entries \ {header} /\ e[1] \notin cycle.member
                    THEN <<e[1], copy_of(e[2])>> ELSE e
    IN  [graph |-> [live |-> g.live \cup {copy_of(n) : n \in Range(copied)},
                    edges |-> [i \in DOMAIN g.edges |-> moved(g.edges[i])]
                              \o FlattenSeq([i \in DOMAIN copied |-> out(copied[i])])],
         origin |-> [i \in DOMAIN copied |-> copied[i]], bound |-> bound]
RECURSIVE make_reducible(_, _, _)
make_reducible(g, root, origin) ==
    LET t == compute(g, root)
        witness == find_irreducible_entry(g, root, t)
        split == split_cycle(g, root, multi_entry_cycle(g, root, t, witness, g.live))
    IN  IF witness = None THEN [graph |-> g, origin |-> origin]
        ELSE make_reducible(split.graph, root,
               [n \in split.graph.live |->
                  IF n < split.bound THEN origin[n]
                  ELSE origin[split.origin[n - split.bound + 1]]])

(* Splitting ends in a graph without such cycles in which every node does  *)
(* what the node it copies did.                                            *)
ReducibleAgrees(g, root) ==
    LET made == make_reducible(g, root, [n \in g.live |-> n])
        r == made.graph
        bag(s) == [x \in Range(s) |-> Cardinality({i \in DOMAIN s : s[i] = x})]
        was(s) == [i \in DOMAIN s |-> made.origin[s[i]]]
        t == compute(g, root)
    IN  /\ is_reducible(r, root, compute(r, root))
        /\ is_reducible(g, root, t) <=> Acyclic(
              [g EXCEPT !.edges = SelectSeq(@, LAMBDA e : is_reachable(t, e[1])
                                                          /\ ~dominates(t, e[2], e[1]))])
        /\ \A n \in r.live : bag(was(successors(r, n))) = bag(successors(g, made.origin[n]))
-----------------------------------------------------------------------------
(* A block before the header that every way in from outside goes through.  *)
outside(g, loop) == {i \in Edges(g) : g.edges[i][2] = loop.header /\ g.edges[i][1] \notin loop.body}

(* Mutant of needs_preheader: one way in is enough, wherever else its      *)
(* source leads.                                                           *)
several_ways_in(g, loop) == Cardinality(outside(g, loop)) > 1

(* No way in, or one from a block that leads nowhere else, is left alone.  *)
needs_preheader(g, loop) ==
    LET in == outside(g, loop)
    IN  in # {} /\ ~(Cardinality(in) = 1 /\
                     \A i \in in : Len(successors(g, g.edges[i][1])) = 1)
insert_preheader(g, loop) ==
    LET p == Max(g.live \cup Slots) + 1
    IN  [live |-> g.live \cup {p},
         edges |-> Append([i \in DOMAIN g.edges |->
                             IF i \in outside(g, loop) THEN <<g.edges[i][1], p>> ELSE g.edges[i]],
                          <<p, loop.header>>)]
canonicalize_loop(a, k) ==
    LET loop == a.loops[k]
        fresh == insert_preheader(a.graph, loop)
        p == Max(fresh.live)
        joins(o) == /\ o # k /\ loop.header \in a.loops[o].body
                    /\ Range(predecessors(fresh, p)) \cap a.loops[o].body # {}
        old == SelectSeq(predecessors(a.graph, loop.header), LAMBDA n : n \notin loop.body)
    IN  IF needs_preheader(a.graph, loop)
        THEN [graph |-> fresh, preheaders |-> Append(a.preheaders, p),
              loops |-> [o \in DOMAIN a.loops |->
                 IF joins(o) THEN [a.loops[o] EXCEPT !.body = @ \cup {p}] ELSE a.loops[o]]]
        ELSE [a EXCEPT !.preheaders = Append(@, IF old = << >> THEN None ELSE Head(old))]
canonicalize_loops(g, tags, t) ==
    LET f == compute_tagged(g, tags, t)
        loops == natural_loops(f)
        start == [graph |-> g, preheaders |-> << >>, loops |-> loops]
    IN  IF loops = << >> THEN start
        ELSE FoldLeft(canonicalize_loop, start, [k \in DOMAIN loops |-> k])
loop_exit_blocks(g, loop) == UNION {Range(successors(g, n)) : n \in loop.body} \ loop.body

(* Each loop is entered through its preheader alone, which leads nowhere   *)
(* else, and its body is what the loop of that header is in the new graph. *)
PreheadersAgree(g, root, tags) ==
    LET t == compute(g, root)
        a == canonicalize_loops(g, tags, t)
        u == compute(a.graph, root)
        f == compute_tagged(a.graph, tags, u)
        again == natural_loops(f)
    IN  \A k \in DOMAIN a.loops :
          LET loop == a.loops[k]
              p == a.preheaders[k]
              in == {a.graph.edges[i][1] : i \in outside(a.graph, loop)}
          IN  /\ IF p = None THEN in = {} ELSE in = {p} /\ successors(a.graph, p) = <<loop.header>>
              /\ \A i \in DOMAIN again : again[i].header = loop.header => again[i].body = loop.body
=============================================================================

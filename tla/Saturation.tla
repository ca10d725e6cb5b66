----------------------------- MODULE Saturation -----------------------------
(***************************************************************************)
(* Facts that are pushed until nothing changes: Horn clauses, minimum      *)
(* labels, classes of coldness, summaries of callees, and disjoint sets    *)
(* (src/crates/cfglib/src/graph/horn.rs, relax.rs, coldness.rs,            *)
(* call_graph.rs and src/crates/cfglib/src/union_find.rs).                 *)
(***************************************************************************)
EXTENDS DomTrees

Ids(n) == 0..(n - 1)
Count(s, x) == Cardinality({i \in DOMAIN s : s[i] = x})
-----------------------------------------------------------------------------
(* Clauses are numbered from one; dependents[f] lists a clause once for    *)
(* each time its body names f.                                             *)
new_clauses(n) == [fact_count |-> n, heads |-> << >>, body_lens |-> << >>,
                   dependents |-> [f \in Ids(n) |-> << >>]]

(* Mutant of add_clause: a fact that the body names twice is listed once.  *)
add_clause_once(c, head, body) ==
    [c EXCEPT !.heads = Append(@, head), !.body_lens = Append(@, Len(body)),
              !.dependents = [f \in DOMAIN @ |-> IF f \in Range(body)
                                 THEN Append(@[f], Len(c.heads) + 1) ELSE @[f]]]

add_clause(c, head, body) ==
    LET clause == Len(c.heads) + 1
        times(f) == [i \in 1..Count(body, f) |-> clause]
    IN  [c EXCEPT !.heads = Append(@, head), !.body_lens = Append(@, Len(body)),
                  !.dependents = [f \in DOMAIN @ |-> @[f] \o times(f)]]

derive(a, f) ==
    IF f \in a.derived THEN a
    ELSE [a EXCEPT !.derived = @ \cup {f}, !.worklist = Append(@, f)]

(* One occurrence of a fact that holds now; the last one fires the clause. *)
settle(c, a, clause) ==
    LET left == a.remaining[clause] - 1
        less == [a EXCEPT !.remaining[clause] = left]
    IN  IF left = 0 THEN derive(less, c.heads[clause]) ELSE less
RECURSIVE saturate(_, _)
saturate(c, a) ==
    IF a.worklist = << >> THEN a.derived
    ELSE saturate(c, FoldLeft(LAMBDA x, clause : settle(c, x, clause),
                              [a EXCEPT !.worklist = Front(@)],
                              c.dependents[Last(a.worklist)]))
derivable(c) ==
    LET start == [derived |-> {}, remaining |-> c.body_lens, worklist |-> << >>]
        facts == SelectSeq([k \in DOMAIN c.heads |-> k], LAMBDA k : c.body_lens[k] = 0)
    IN  saturate(c, FoldLeft(LAMBDA a, k : derive(a, c.heads[k]), start, facts))

(* A stored program is taken back when its tables agree.                   *)
accepts_stored(s) ==
    LET mentioned == FlattenSeq([f \in 1..Len(s.dependents) |-> s.dependents[f]])
    IN  /\ Len(s.heads) = Len(s.body_lens) /\ Len(s.dependents) = s.fact_count
        /\ \A k \in DOMAIN s.heads : s.heads[k] \in Ids(s.fact_count)
        /\ Range(mentioned) \subseteq DOMAIN s.heads
        /\ \A k \in DOMAIN s.heads : Count(mentioned, k) = s.body_lens[k]

(* The least set closed under the clauses, given as heads and bodies.      *)
Closed(rules, F) == \A r \in Range(rules) : Range(r.body) \subseteq F => r.head \in F
HornAgrees(c, rules) ==
    LET F == derivable(c)
        stored == [c EXCEPT !.dependents = [f \in 1..c.fact_count |-> @[f - 1]]]
    IN  /\ Closed(rules, F)
        /\ \A G \in SUBSET F : Closed(rules, G) => G = F
        /\ accepts_stored(stored)
-----------------------------------------------------------------------------
(* Labels are numbers; an edge adds its weight or, with None, bars the way.*)
relax(weights, i, label) == IF weights[i] = None THEN None ELSE label + weights[i]
RECURSIVE relaxed_from(_, _, _, _, _)
relaxed_from(g, d, weights, worklist, labels) ==
    IF worklist = << >> THEN labels
    ELSE LET at == Last(worklist)
             known == labels[at[1]]
             way == SelectSeq(incident(g, at[1], d), LAMBDA i : relax(weights, i, at[2]) # None)
         IN  IF known # None /\ known <= at[2]
             THEN relaxed_from(g, d, weights, Front(worklist), labels)
             ELSE relaxed_from(g, d, weights,
                    Front(worklist) \o [k \in DOMAIN way |-> <<far(g, way[k], d),
                                                relax(weights, way[k], at[2])>>],
                    [labels EXCEPT ![at[1]] = at[2]])
min_label_relaxation(g, seeds, d, weights) ==
    relaxed_from(g, d, weights, seeds, [n \in g.live |-> None])

(* No label can be lowered, and each is the end of a way from a seed.      *)
RelaxAgrees(g, seeds, d, weights) ==
    LET labels == min_label_relaxation(g, seeds, d, weights)
        offers(n) == {s[2] : s \in {x \in Range(seeds) : x[1] = n}} \cup
                     {relax(weights, i, labels[near(g, i, d)]) : i \in
                        {j \in Edges(g) : /\ far(g, j, d) = n /\ weights[j] # None
                                          /\ labels[near(g, j, d)] # None}}
        within == Within(g, seeds[1][1], d, Bound, {i \in Edges(g) : weights[i] # None})
    IN  /\ \A n \in g.live : IF offers(n) = {} THEN labels[n] = None
                             ELSE labels[n] = Min(offers(n))
        /\ \A n \in within : labels[n] # None
-----------------------------------------------------------------------------
(* Classes from Never, 0, to Normal, 2.  records is a sequence of sources, *)
(* targets and caps; a slot counts its records of each height.             *)
Never == 0
Rare == 1
Normal == 2
Lower(a, b) == IF a < b THEN a ELSE b
add(tally, value) ==
    [at_least_rare |-> tally.at_least_rare + (IF value >= Rare THEN 1 ELSE 0),
     normal |-> tally.normal + (IF value >= Normal THEN 1 ELSE 0)]
remove_value(tally, value) ==
    [at_least_rare |-> tally.at_least_rare - (IF value >= Rare THEN 1 ELSE 0),
     normal |-> tally.normal - (IF value >= Normal THEN 1 ELSE 0)]
replace(tally, old, new) == add(remove_value(tally, old), new)
hottest(tally) == IF tally.normal > 0 THEN Normal
                  ELSE IF tally.at_least_rare > 0 THEN Rare ELSE Never

NoTally == [at_least_rare |-> 0, normal |-> 0]
new_propagation(records, entry, order, seed, bound) ==
    LET slots == [n \in Ids(bound) |->
                    [class |-> IF n \in Range(order) THEN seed[n] ELSE Never,
                     mark |-> IF n \in Range(order) THEN "queued" ELSE "unreached",
                     has_records |-> FALSE, leaving |-> NoTally, entering |-> NoTally]]
        count(s, r) == [s EXCEPT ![r[1]].has_records = TRUE,
                                 ![r[1]].leaving = add(@, Lower(r[3], s[r[2]].class)),
                                 ![r[2]].entering = add(@, Lower(r[3], s[r[1]].class))]
    IN  [slots |-> FoldLeft(count, slots, SelectSeq(records, LAMBDA r : r[1] \in Range(order))),
         queue |-> order]
push(p, n) ==
    IF p.slots[n].mark # "idle" THEN p
    ELSE [p EXCEPT !.slots[n].mark = "queued", !.queue = Append(@, n)]
bound_of(p, entry, ends, n) ==
    LET slot == p.slots[n]
        hot == hottest(slot.leaving)
        leaving == IF ~slot.has_records THEN Normal
                   ELSE IF hot = Never /\ n \in ends THEN Rare ELSE hot
    IN  IF n = entry THEN leaving ELSE Lower(leaving, hottest(slot.entering))

(* Mutant of lower: the sources of the records are not queued again.       *)
lower_forward(p, records, n, to) ==
    LET from == p.slots[n].class
        falls(cap) == Lower(cap, from) # Lower(cap, to)
        ahead(x, r) == push([x EXCEPT !.slots[r[2]].entering =
                               replace(@, Lower(r[3], from), Lower(r[3], to))], r[2])
        behind(x, r) == [x EXCEPT !.slots[r[1]].leaving =
                               replace(@, Lower(r[3], from), Lower(r[3], to))]
        passed == FoldLeft(ahead, [p EXCEPT !.slots[n].class = to],
                           SelectSeq(records, LAMBDA r : r[1] = n /\ falls(r[3])))
    IN  FoldLeft(behind, passed, SelectSeq(records, LAMBDA r :
          r[2] = n /\ falls(r[3]) /\ p.slots[r[1]].mark # "unreached"))

(* The class falls; every record whose value falls with it is counted      *)
(* anew at its other end, which is looked at again.                        *)
lower(p, records, n, to) ==
    LET from == p.slots[n].class
        falls(cap) == Lower(cap, from) # Lower(cap, to)
        ahead(x, r) == push([x EXCEPT !.slots[r[2]].entering =
                               replace(@, Lower(r[3], from), Lower(r[3], to))], r[2])
        behind(x, r) == push([x EXCEPT !.slots[r[1]].leaving =
                               replace(@, Lower(r[3], from), Lower(r[3], to))], r[1])
        passed == FoldLeft(ahead, [p EXCEPT !.slots[n].class = to],
                           SelectSeq(records, LAMBDA r : r[1] = n /\ falls(r[3])))
    IN  FoldLeft(behind, passed, SelectSeq(records, LAMBDA r :
          r[2] = n /\ falls(r[3]) /\ p.slots[r[1]].mark # "unreached"))
RECURSIVE propagated(_, _, _, _)
propagated(p, records, entry, ends) ==
    IF p.queue = << >> THEN p
    ELSE LET n == Head(p.queue)
             popped == [p EXCEPT !.queue = Tail(@), !.slots[n].mark = "idle"]
             bound == bound_of(popped, entry, ends, n)
         IN  propagated(IF bound < p.slots[n].class THEN lower(popped, records, n, bound)
                        ELSE popped, records, entry, ends)
classes(records, entry, order, seed, ends, bound) ==
    LET p == propagated(new_propagation(records, entry, order, seed, bound),
                        records, entry, ends)
    IN  [n \in Ids(bound) |-> p.slots[n].class]
record_class(class, r) == Lower(Lower(class[r[1]], r[3]), class[r[2]])

(* The greatest assignment that obeys the three bounds.                    *)
Obeys(c, records, entry, reached, seed, ends) ==
    \A n \in reached :
      LET out == {r \in Range(records) : r[1] = n}
          in == {r \in Range(records) : r[2] = n /\ r[1] \in reached}
          best(S, end) == Max({Never} \cup {Lower(r[3], c[r[end]]) : r \in S})
      IN  /\ c[n] <= seed[n]
          /\ out # {} => c[n] <= Max({best(out, 2), IF n \in ends THEN Rare ELSE Never})
          /\ n # entry => c[n] <= best(in, 1)
ColdnessAgrees(records, entry, order, seed, ends, bound) ==
    LET c == classes(records, entry, order, seed, ends, bound)
        reached == Range(order)
    IN  /\ Obeys(c, records, entry, reached, seed, ends)
        /\ \A n \in Ids(bound) \ reached : c[n] = Never
        /\ \A o \in [reached -> Never..Normal] :
              Obeys(o, records, entry, reached, seed, ends) => \A n \in reached : o[n] <= c[n]
-----------------------------------------------------------------------------
(* Summaries, here sets of nodes, over components with callees first.  A   *)
(* function's summary is itself and what its callees' summaries hold.      *)
summary(g, n, s) == {n} \cup UNION {s[m] : m \in Range(successors(g, n))}
RECURSIVE settled(_, _, _, _)
settled(g, component, cyclic, s) ==
    LET pass == FoldLeft(LAMBDA x, n : [x EXCEPT ![n] = summary(g, n, x)], s, component)
    IN  IF ~cyclic \/ pass = s THEN pass ELSE settled(g, component, cyclic, pass)
propagate_summaries(g, components) ==
    LET cyclic(C) == \E n \in C : Range(successors(g, n)) \cap C # {}
    IN  FoldLeft(LAMBDA s, C : settled(g, Sorted(C), cyclic(C), s), [n \in g.live |-> {}],
                 components)

(* Whichever order of components has callees first, each summary is what   *)
(* the function reaches.                                                   *)
SummariesAgree(g) ==
    LET components == ComponentsIn(g, g.live)
        ahead(C) == ReachedFrom(g, C, "out")
        callees_first(o) == /\ Range(o) = components
                            /\ \A i, j \in DOMAIN o : i < j => o[j] \cap ahead(o[i]) = {}
    IN  \A o \in [1..Cardinality(components) -> components] :
          callees_first(o) =>
              propagate_summaries(g, o) = [n \in g.live |-> ReachedFrom(g, {n}, "out")]
-----------------------------------------------------------------------------
(* A forest of parents with ranks; find moves each entry it passes two up. *)
new_sets(n) == [parent |-> [i \in Ids(n) |-> i], rank |-> [i \in Ids(n) |-> 0]]
push_set(d) ==
    LET n == Cardinality(DOMAIN d.parent)
    IN  [parent |-> [i \in Ids(n + 1) |-> IF i = n THEN n ELSE d.parent[i]],
         rank |-> [i \in Ids(n + 1) |-> IF i = n THEN 0 ELSE d.rank[i]]]
RECURSIVE find(_, _)
find(d, i) ==
    IF d.parent[i] = i THEN [sets |-> d, root |-> i]
    ELSE LET up == d.parent[d.parent[i]]
         IN  find([d EXCEPT !.parent[i] = up], up)
RECURSIVE root_of(_, _)
root_of(d, i) == IF d.parent[i] = i THEN i ELSE root_of(d, d.parent[i])

(* Mutant of joined: the smaller root goes under the larger.               *)
joined_toward_max(d, l, r, toward_min) ==
    IF toward_min THEN [d EXCEPT !.parent[Lower(l, r)] = IF l < r THEN r ELSE l]
    ELSE IF d.rank[l] < d.rank[r] THEN [d EXCEPT !.parent[l] = r]
    ELSE IF d.rank[l] > d.rank[r] THEN [d EXCEPT !.parent[r] = l]
    ELSE [d EXCEPT !.parent[r] = l, !.rank[l] = @ + 1]

(* Two roots: by rank, or the larger below the smaller.                    *)
joined(d, l, r, toward_min) ==
    IF toward_min THEN [d EXCEPT !.parent[IF l < r THEN r ELSE l] = Lower(l, r)]
    ELSE IF d.rank[l] < d.rank[r] THEN [d EXCEPT !.parent[l] = r]
    ELSE IF d.rank[l] > d.rank[r] THEN [d EXCEPT !.parent[r] = l]
    ELSE [d EXCEPT !.parent[r] = l, !.rank[l] = @ + 1]
union_of(d, left, right, toward_min) ==
    LET l == find(d, left)
        r == find(l.sets, right)
    IN  IF l.root = r.root THEN [sets |-> r.sets, merged |-> FALSE]
        ELSE [sets |-> joined(r.sets, l.root, r.root, toward_min), merged |-> TRUE]
union(d, left, right) == union_of(d, left, right, FALSE)
union_toward_min(d, left, right) == union_of(d, left, right, TRUE)
-----------------------------------------------------------------------------
(* Inputs within the bounds: programs of clauses, edges with caps and      *)
(* weights, and sequences of operations on disjoint sets.  Each behaviour  *)
(* grows one of the three.                                                 *)
CONSTANTS Facts,         \* how many facts a program is about
          MaxClauses, MaxEdges, MaxOps, MaxSets

VARIABLES rules,         \* the clauses added so far, as heads and bodies
          clauses,       \* and as HornClauses holds them
          caps,          \* the cap of each edge of the graph
          sets,          \* a DisjointSet
          blocks,        \* the partition that the unions so far define
          towards,       \* whether every union so far was toward the minimum
          ops            \* how many operations were called

vars == <<graph, rules, clauses, caps, sets, blocks, towards, ops>>

Bodies == UNION {[1..k -> Ids(Facts)] : k \in 0..2}
Rank(r) == LET at(k) == IF k \in DOMAIN r.body THEN r.body[k] + 1 ELSE 0
           IN  (r.head * (Facts + 1) + at(1)) * (Facts + 1) + at(2)

AddClause ==
    /\ graph.edges = << >> /\ ops = 0 /\ Len(rules) < MaxClauses
    /\ \E h \in Ids(Facts), b \in Bodies :
          LET r == [head |-> h, body |-> b]
          IN  /\ rules # << >> => Rank(Last(rules)) < Rank(r)
              /\ rules' = Append(rules, r) /\ clauses' = add_clause(clauses, h, b)
    /\ UNCHANGED <<graph, caps, sets, blocks, towards, ops>>

Place(e, cap) == (e[1] * Bound + e[2]) * 3 + cap
AddRecord ==
    /\ rules = << >> /\ ops = 0 /\ Len(graph.edges) < MaxEdges
    /\ \E e \in graph.live \X graph.live, cap \in Never..Normal :
          /\ graph.edges # << >> => Place(Last(graph.edges), Last(caps)) < Place(e, cap)
          /\ graph' = [graph EXCEPT !.edges = Append(@, e)] /\ caps' = Append(caps, cap)
    /\ UNCHANGED <<rules, clauses, sets, blocks, towards, ops>>

OnSets == rules = << >> /\ graph.edges = << >> /\ ops < MaxOps /\ ops' = ops + 1
BlockOf(i) == CHOOSE B \in blocks : i \in B
Union(l, r, toward_min) ==
    LET u == union_of(sets, l, r, toward_min)
    IN  /\ OnSets
        /\ sets' = u.sets
        /\ blocks' = (blocks \ {BlockOf(l), BlockOf(r)}) \cup {BlockOf(l) \cup BlockOf(r)}
        /\ towards' = (towards /\ toward_min)
        /\ UNCHANGED <<graph, rules, clauses, caps>>
Find(i) ==
    /\ OnSets
    /\ sets' = find(sets, i).sets
    /\ UNCHANGED <<graph, rules, clauses, caps, blocks, towards>>
Push ==
    /\ OnSets /\ Cardinality(DOMAIN sets.parent) < MaxSets
    /\ sets' = push_set(sets)
    /\ blocks' = blocks \cup {{Cardinality(DOMAIN sets.parent)}}
    /\ UNCHANGED <<graph, rules, clauses, caps, towards>>

MCInit == /\ graph = [live |-> Slots, edges |-> << >>] /\ caps = << >>
          /\ rules = << >> /\ clauses = new_clauses(Facts)
          /\ sets = new_sets(MaxSets - 1) /\ blocks = {{i} : i \in Ids(MaxSets - 1)}
          /\ towards = TRUE /\ ops = 0
MCNext == \/ AddClause \/ AddRecord \/ Push
          \/ \E l, r \in DOMAIN sets.parent, m \in BOOLEAN : Union(l, r, m)
          \/ \E i \in DOMAIN sets.parent : Find(i)
MCSpec == MCInit /\ [][MCNext]_vars
-----------------------------------------------------------------------------
(* A program derives its least model, though a body names a fact twice and *)
(* clauses depend on each other, and its tables are taken back when stored.*)
DerivesLeastModel == HornAgrees(clauses, rules)

(* Labels, classes and summaries of every small graph are the extreme      *)
(* solutions of their equations, whatever the order of the work.           *)
SaturatesFully ==
    LET records == [i \in DOMAIN caps |-> <<graph.edges[i][1], graph.edges[i][2], caps[i]>>]
        weights == [i \in DOMAIN caps |-> IF caps[i] = Never THEN None ELSE caps[i] * i]
        order == depth_first_preorder(graph, 0, "out")
        seeds == {[n \in Slots |-> IF n = k THEN low ELSE Normal] : k \in Slots, low \in {Never, Rare}}
    IN  graph.edges # << >> =>
          /\ \A seed \in seeds, ends \in {{}, {1}} :
                /\ ColdnessAgrees(records, 0, order, seed, ends, Bound)
                /\ ColdnessAgrees(records, 0, Reverse(order), seed, ends, Bound)
          /\ SummariesAgree(graph)
          /\ \A d \in Axis : RelaxAgrees(graph, <<<<0, 3>>, <<1, 0>>>>, d, weights)

(* Finding joins what was united and nothing else, and uniting says whether*)
(* it merged; uniting toward the minimum alone, the root is the least      *)
(* member.                                                                 *)
SetsArePartition ==
    \A i \in DOMAIN sets.parent :
      /\ \A j \in DOMAIN sets.parent :
            /\ root_of(sets, i) = root_of(sets, j) <=> BlockOf(i) = BlockOf(j)
            /\ \A m \in BOOLEAN : union_of(sets, i, j, m).merged <=> BlockOf(i) # BlockOf(j)
      /\ find(sets, i).root = root_of(sets, i)
      /\ towards => root_of(sets, i) = Min(BlockOf(i))
=============================================================================

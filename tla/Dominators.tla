----------------------------- MODULE Dominators -----------------------------
(***************************************************************************)
(* Dominator trees (src/crates/cfglib/src/graph/dominator.rs and its       *)
(* construction.rs and numbering.rs): the simple Lengauer-Tarjan algorithm *)
(* over tables a caller may reuse, the preorder numbering of the tree, and *)
(* the tree's queries.  A depth-first number counts from zero; a table     *)
(* indexed by it is a function whose domain is what the search reached.    *)
(***************************************************************************)
EXTENDS Digraph

ABSENT == -1

VARIABLES phase,        \* "idle", "search", "process", "settled" or "returned"
          root,
          number, vertex, parent, pending,     \* the search
          semi, dominator, forest, bucket,     \* Lengauer and Tarjan's tables
          at,                                  \* the node process comes to
          tree                                 \* the DominatorTree

searchVars == <<number, vertex, parent, pending>>
linkVars == <<semi, dominator, forest, bucket>>
dominatorVars == <<phase, root, number, vertex, parent, pending, semi, dominator,
                   forest, bucket, at, tree>>

NoTree == [idom |-> << >>, pre |-> << >>, last |-> << >>, level |-> << >>,
           order |-> << >>]

(* A vector, and one element more.                                         *)
size(v) == Cardinality(DOMAIN v)
push(v, x) == [i \in 0..size(v) |-> IF i = size(v) THEN x ELSE v[i]]
reached == size(vertex)

DominatorInit ==
    /\ phase = "idle"
    /\ root = ABSENT
    /\ number = << >> /\ vertex = << >> /\ parent = << >> /\ pending = << >>
    /\ semi = << >> /\ dominator = << >>
    /\ forest = [ancestor |-> << >>, label |-> << >>]
    /\ bucket = [head |-> << >>, next |-> << >>]
    /\ at = 0
    /\ tree = NoTree
-----------------------------------------------------------------------------
(* A call on a graph and one of its nodes.  The tables may hold what an    *)
(* earlier call left in them: the search starts its own afresh.            *)
compute_from_in(r) ==
    /\ phase \in {"idle", "returned"}
    /\ r \in graph.live
    /\ root' = r
    /\ phase' = "search"
    /\ number' = [n \in Slots |-> ABSENT]
    /\ vertex' = << >> /\ parent' = << >>
    /\ pending' = <<[node |-> r, parent |-> ABSENT]>>
    /\ UNCHANGED <<graph, linkVars, at, tree>>

(* Mutant of search: a node reached in two ways is numbered twice.         *)
search_again ==
    /\ phase = "search" /\ pending # << >>
    /\ LET p == Last(pending)
           num == reached
           numbered == [number EXCEPT ![p.node] = num]
           fresh == SelectSeq(successors(graph, p.node), LAMBDA s : numbered[s] = ABSENT)
       IN  /\ number' = numbered
           /\ vertex' = push(vertex, p.node)
           /\ parent' = push(parent, p.parent)
           /\ pending' = Front(pending) \o
                 [i \in DOMAIN fresh |-> [node |-> fresh[i], parent |-> num]]
    /\ UNCHANGED <<graph, phase, root, linkVars, at, tree>>

(* Pop a node; number it, unless another way to it came first, and push    *)
(* its successors above everything pending.                                *)
search ==
    /\ phase = "search" /\ pending # << >>
    /\ LET p == Last(pending)
           num == reached
           numbered == [number EXCEPT ![p.node] = num]
           fresh == SelectSeq(successors(graph, p.node), LAMBDA s : numbered[s] = ABSENT)
       IN  IF number[p.node] # ABSENT
           THEN /\ pending' = Front(pending)
                /\ UNCHANGED <<number, vertex, parent>>
           ELSE /\ number' = numbered
                /\ vertex' = push(vertex, p.node)
                /\ parent' = push(parent, p.parent)
                /\ pending' = Front(pending) \o
                      [i \in DOMAIN fresh |-> [node |-> fresh[i], parent |-> num]]
    /\ UNCHANGED <<graph, phase, root, linkVars, at, tree>>

(* The relative dominators begin as the parents, so that a node whose      *)
(* semidominator is its parent is settled.                                 *)
prepare ==
    /\ phase = "search" /\ pending = << >>
    /\ phase' = "process"
    /\ at' = reached - 1
    /\ semi' = [i \in DOMAIN vertex |-> i]
    /\ forest' = [ancestor |-> [i \in DOMAIN vertex |-> ABSENT],
                  label |-> [i \in DOMAIN vertex |-> i]]
    /\ dominator' = [i \in DOMAIN vertex |-> IF i = 0 THEN 0 ELSE parent[i]]
    /\ bucket' = [head |-> [i \in DOMAIN vertex |-> ABSENT],
                  next |-> [i \in DOMAIN vertex |-> ABSENT]]
    /\ UNCHANGED <<graph, root, searchVars, tree>>
-----------------------------------------------------------------------------
(* The nodes from n up to the one below the tree's root's child.           *)
path(f, n) ==
    LET up[k \in DOMAIN f.ancestor] ==
          IF f.ancestor[f.ancestor[k]] = ABSENT THEN << >>
          ELSE <<k>> \o up[f.ancestor[k]]
    IN  up[n]

(* Mutant of compress_node: the label above is not carried down.           *)
compress_node_without_label(s, f, n) ==
    [f EXCEPT !.ancestor[n] = f.ancestor[f.ancestor[n]]]

(* Point n past its ancestor, with the label of the two that has the lower *)
(* semidominator.                                                          *)
compress_node(s, f, n) ==
    LET above == f.label[f.ancestor[n]]
    IN  [f EXCEPT !.label[n] = IF s[above] < s[@] THEN above ELSE @,
                  !.ancestor[n] = f.ancestor[f.ancestor[n]]]

compress(s, f, n) ==
    FoldLeft(LAMBDA acc, k : compress_node(s, acc, k), f, Reverse(path(f, n)))

(* The forest after an evaluation of n, and what it returns.               *)
evaluate(s, f, n) ==
    IF f.ancestor[n] = ABSENT THEN [forest |-> f, least |-> n]
    ELSE LET g == compress(s, f, n) IN [forest |-> g, least |-> g.label[n]]

(* The semidominator of n, a minimum over its predecessors, each of which  *)
(* is evaluated; those the root does not reach have no number.             *)
semidominator(n) ==
    FoldLeft(LAMBDA acc, p :
                IF number[p] = ABSENT THEN acc
                ELSE LET e == evaluate(semi, acc.forest, number[p])
                     IN  [forest |-> e.forest,
                          semi |-> IF semi[e.least] < acc.semi THEN semi[e.least]
                                   ELSE acc.semi],
             [forest |-> forest, semi |-> semi[n]],
             predecessors(graph, vertex[n]))

(* The nodes waiting in a bucket, first to last.                           *)
waiting(b, n) ==
    LET from[k \in DOMAIN b.next \cup {ABSENT}] ==
          IF k = ABSENT THEN << >> ELSE <<k>> \o from[b.next[k]]
    IN  from[b.head[n]]

(* Mutant of settle: each waiting node goes to the parent.                 *)
settle_at_parent(s, acc, w, up) ==
    LET e == evaluate(s, acc.forest, w)
    IN  [forest |-> e.forest, dominator |-> [acc.dominator EXCEPT ![w] = up]]

(* Give waiting node w its relative dominator.                             *)
settle(s, acc, w, up) ==
    LET e == evaluate(s, acc.forest, w)
    IN  [forest |-> e.forest,
         dominator |-> [acc.dominator EXCEPT ![w] =
                           IF s[e.least] < s[w] THEN e.least ELSE up]]

(* Find the semidominator of the node process comes to, link the node      *)
(* below its parent and settle what waits for the parent.                  *)
process ==
    /\ phase = "process" /\ at > 0
    /\ LET found == semidominator(at)
           low == found.semi
           up == parent[at]
           s == [semi EXCEPT ![at] = low]
           queued == IF low = up THEN bucket
                     ELSE [bucket EXCEPT !.next[at] = bucket.head[low], !.head[low] = at]
           linked == [found.forest EXCEPT !.ancestor[at] = up]
           settled == FoldLeft(LAMBDA acc, w : settle(s, acc, w, up),
                               [forest |-> linked, dominator |-> dominator],
                               waiting(queued, up))
       IN  /\ semi' = s
           /\ forest' = settled.forest
           /\ dominator' = settled.dominator
           /\ bucket' = [queued EXCEPT !.head[up] = ABSENT]
    /\ at' = at - 1
    /\ UNCHANGED <<graph, phase, root, searchVars, tree>>

(* A node whose dominator is not its semidominator has that of its         *)
(* relative dominator, which an earlier turn of the pass settled.          *)
immediate(d, n) == IF d[n] # semi[n] THEN [d EXCEPT ![n] = d[d[n]]] ELSE d

(* The forward pass over the numbers, and the parent table it fills.       *)
immediate_dominators ==
    /\ phase = "process" /\ at = 0
    /\ phase' = "settled"
    /\ dominator' = FoldLeft(immediate, dominator, [i \in 1..(reached - 1) |-> i])
    /\ tree' = [tree EXCEPT !.idom =
          [n \in Slots |-> IF number[n] \in {ABSENT, 0} THEN ABSENT
                           ELSE vertex[dominator'[number[n]]]]]
    /\ UNCHANGED <<graph, root, searchVars, semi, forest, bucket, at>>
-----------------------------------------------------------------------------
(* The chains of children: a node's first child, and the next sibling.     *)
children(up, n) == {c \in Slots : up[c] = n}
first_child(up, n) == IF children(up, n) = {} THEN ABSENT ELSE Min(children(up, n))
next_sibling(up, n) ==
    LET later == {c \in Slots : c > n /\ up[c] # ABSENT /\ up[c] = up[n]}
    IN  IF later = {} THEN ABSENT ELSE Min(later)

(* Number n, the next in preorder.                                         *)
entered(t, n, depth) ==
    [t EXCEPT !.pre[n] = Len(t.order), !.level[n] = depth, !.order = Append(@, n)]

(* The subtree of n ends at the node numbered last.                        *)
left(t, n) == [t EXCEPT !.last[n] = Len(t.order) - 1]

(* One turn of the walk below r: down to a first child, else up until a    *)
(* sibling is waiting.                                                     *)
turn(w, r) ==
    LET n == w.node
        idom == w.tree.idom
        down == first_child(idom, n)
        side == next_sibling(idom, n)
        t == left(w.tree, n)
    IN  IF w.entering /\ down # ABSENT
        THEN [w EXCEPT !.tree = entered(@, down, @.level[n] + 1), !.node = down]
        ELSE IF n = r THEN [w EXCEPT !.tree = t, !.node = ABSENT]
        ELSE IF side # ABSENT
        THEN [tree |-> entered(t, side, t.level[n]), node |-> side, entering |-> TRUE]
        ELSE [tree |-> t, node |-> idom[n], entering |-> FALSE]

(* Every node is entered and left once, so 2 * Bound turns see the end.    *)
walk(idom, r) ==
    LET blank == [n \in Slots |-> ABSENT]
        fresh == [idom |-> idom, pre |-> blank, last |-> blank, level |-> blank,
                  order |-> << >>]
        after[k \in 0..(2 * Bound)] ==
          IF k = 0 THEN [tree |-> entered(fresh, r, 0), node |-> r, entering |-> TRUE]
          ELSE LET w == after[k - 1] IN IF w.node = ABSENT THEN w ELSE turn(w, r)
    IN  after[2 * Bound].tree

number_tree ==
    /\ phase = "settled"
    /\ phase' = "returned"
    /\ tree' = walk(tree.idom, root)
    /\ UNCHANGED <<graph, root, searchVars, linkVars, at>>

DominatorNext ==
    search \/ prepare \/ process \/ immediate_dominators \/ number_tree
-----------------------------------------------------------------------------
is_reachable(t, n) == t.pre[n] # ABSENT

dominates(t, d, n) ==
    \/ d = n
    \/ is_reachable(t, d) /\ is_reachable(t, n) /\ t.pre[n] \in t.pre[d]..t.last[d]

(* Climb from the deeper of the two, from both where they are level; two   *)
(* roots share no tree.                                                    *)
nearest_common_dominator(t, first, second) ==
    LET common[k \in 0..Bound, a \in Slots, b \in Slots] ==
          IF a = b THEN a
          ELSE IF k = 0 THEN ABSENT
          ELSE IF t.level[a] > t.level[b] THEN common[k - 1, t.idom[a], b]
          ELSE IF t.level[a] < t.level[b] THEN common[k - 1, a, t.idom[b]]
          ELSE IF t.idom[a] = ABSENT THEN ABSENT
          ELSE common[k - 1, t.idom[a], t.idom[b]]
    IN  IF is_reachable(t, first) /\ is_reachable(t, second)
        THEN common[Bound, first, second] ELSE ABSENT

(* The children of n by its span of the preorder: each one's subtree is    *)
(* skipped.                                                                *)
span_children(t, n) ==
    LET from[p \in 0..Bound] ==
          IF p > t.last[n] THEN << >>
          ELSE <<t.order[p + 1]>> \o from[t.last[t.order[p + 1]] + 1]
    IN  IF is_reachable(t, n) THEN from[t.pre[n] + 1] ELSE << >>
-----------------------------------------------------------------------------
DominatorTypeOK ==
    /\ phase \in {"idle", "search", "process", "settled", "returned"}
    /\ root \in Slots \cup {ABSENT}
    /\ phase # "idle" =>
          /\ number \in [Slots -> Slots \cup {ABSENT}]
          /\ vertex \in [0..(reached - 1) -> graph.live]
          /\ \A i \in DOMAIN vertex : number[vertex[i]] = i
          /\ parent \in [DOMAIN vertex -> DOMAIN vertex \cup {ABSENT}]
          /\ pending \in Seq([node : graph.live, parent : DOMAIN vertex \cup {ABSENT}])
    /\ phase \in {"process", "settled"} =>
          /\ semi \in [DOMAIN vertex -> DOMAIN vertex]
          /\ dominator \in [DOMAIN vertex -> DOMAIN vertex]
          /\ forest.ancestor \in [DOMAIN vertex -> DOMAIN vertex \cup {ABSENT}]
          /\ forest.label \in [DOMAIN vertex -> DOMAIN vertex]
          /\ at \in DOMAIN vertex

(* Pairs of a node and one that every way from the root to it passes.      *)
Dominance ==
    UNION {{d} \X (Reach(graph, {root}, {}) \ Reach(graph, {root}, {d})) : d \in Slots}

(* Node j, as a number, begins a way to i whose other nodes are numbered   *)
(* above i.                                                                *)
LeadsAbove(j, i) ==
    LET low == {n \in Slots : number[n] < i}
        next == {e[2] : e \in {d \in Range(graph.edges) : d[1] = vertex[j]}}
    IN  vertex[i] \in Reach(graph, next, low)

(* The numbers from n up the search tree to the one below the node top.    *)
TreePath(n, top) ==
    {k \in DOMAIN vertex :
        LET up[i \in DOMAIN vertex] ==
              IF i = top THEN {} ELSE {i} \cup (IF i = 0 THEN {} ELSE up[parent[i]])
        IN  k \in up[n]}

(* While the nodes are processed from the last number down, those done     *)
(* have their true semidominators; a label is the node of least            *)
(* semidominator between its node and the node's ancestor, however paths   *)
(* were compressed; and a node waits in the bucket of its semidominator,   *)
(* once, until the child that leads there is linked.                       *)
LinkEvalHolds ==
    phase = "process" =>
        /\ \A i \in DOMAIN vertex : i > at =>
              semi[i] = Min({j \in DOMAIN vertex : LeadsAbove(j, i)})
        /\ \A i \in DOMAIN vertex : forest.ancestor[i] # ABSENT =>
              LET between == TreePath(i, forest.ancestor[i])
              IN  /\ forest.label[i] \in between
                  /\ \A k \in between : semi[forest.label[i]] <= semi[k]
        /\ \A i \in DOMAIN vertex :
              Range(waiting(bucket, i)) =
                 {k \in DOMAIN vertex :
                    /\ k > at /\ semi[k] = i /\ parent[k] # i
                    /\ \A c \in TreePath(k, i) : parent[c] = i => c <= at}

(* The immediate dominator of a node the root reaches is the strict        *)
(* dominator that every other one dominates; the root and the nodes it     *)
(* does not reach have none.  Whatever the tables held before the call.    *)
ImmediateDominatorsRight ==
    phase \in {"settled", "returned"} =>
        LET dominance == Dominance
            Strict(n) == {d \in Slots \ {n} : <<d, n>> \in dominance}
        IN  \A n \in Slots :
               IF Strict(n) = {} THEN tree.idom[n] = ABSENT
               ELSE /\ tree.idom[n] \in Strict(n)
                    /\ \A d \in Strict(n) : <<d, tree.idom[n]>> \in dominance

(* The returned tree answers as the paths do: the interval test is         *)
(* dominance, a level counts strict dominators, the nearest common         *)
(* dominator is the deepest shared one, the preorder lists each reached    *)
(* node once and a node's span yields its children in ascending order.     *)
QueriesRight ==
    phase = "returned" =>
        LET dominance == Dominance
            Strict(n) == {d \in Slots \ {n} : <<d, n>> \in dominance}
            all == {n \in Slots : <<root, n>> \in dominance}
        IN  /\ {n \in Slots : is_reachable(tree, n)} = all
            /\ Range(tree.order) = all /\ Len(tree.order) = Cardinality(all)
            /\ \A n \in all :
                  tree.order[tree.pre[n] + 1] = n /\ tree.level[n] = Cardinality(Strict(n))
            /\ \A d, n \in Slots :
                  /\ dominates(tree, d, n) <=> d = n \/ <<d, n>> \in dominance
                  /\ LET c == nearest_common_dominator(tree, d, n)
                         shared == {m \in all : {<<m, d>>, <<m, n>>} \subseteq dominance}
                     IN  IF shared = {} THEN c = ABSENT
                         ELSE c \in shared /\ \A m \in shared : <<m, c>> \in dominance
            /\ \A n \in Slots :
                  span_children(tree, n) =
                     SetToSortSeq({c \in all : tree.idom[c] = n}, <)

(* The tree that is returned and the answers read off its numbering are    *)
(* what the paths from the root say.                                       *)
TreeRight == ImmediateDominatorsRight /\ QueriesRight
=============================================================================

------------------------------- MODULE Search -------------------------------
(***************************************************************************)
(* Searches with a visitor: src/crates/cfglib/src/graph/search.rs over the *)
(* reusable marks of epoch.rs, and graph/open over marks of its own, for   *)
(* graphs known only by the successors of a node.  A visitor is the set of *)
(* nodes it does not descend from and the node it stops at, if any.        *)
(***************************************************************************)
EXTENDS Traverse

CONSTANTS MaxEpoch,      \* u32::MAX: the last epoch before the stamps are cleared
          Inline         \* INLINE_NODES: marks held in a list before a set

Visitors == [skip : SUBSET Slots, stop : Slots \cup {None}]
Configs == [order : {"depth", "breadth"}, visited : {"global", "path"},
            direction : Axis, max_depth : Nat \cup {None}]

may_expand(max_depth, depth) == max_depth = None \/ depth < max_depth

(* EpochMarks: an index is marked when its stamp is the current epoch.     *)
new_marks == [stamps |-> [i \in Slots |-> 0], epoch |-> 1]

(* Mutant of reset: the counter wraps and old stamps stay.                 *)
reset_without_fill(m) ==
    IF m.epoch = MaxEpoch THEN [m EXCEPT !.epoch = 1] ELSE [m EXCEPT !.epoch = @ + 1]

reset(m) == IF m.epoch = MaxEpoch THEN new_marks ELSE [m EXCEPT !.epoch = @ + 1]
is_marked(m, i) == m.stamps[i] = m.epoch
mark(m, i) == [m EXCEPT !.stamps[i] = m.epoch]
unmark(m, i) == [m EXCEPT !.stamps[i] = 0]
MarkedIn(m) == {i \in Slots : is_marked(m, i)}
-----------------------------------------------------------------------------
(* What a search is in the middle of: its frontier, its marks, the visits  *)
(* made so far, and whether the visitor stopped it.                        *)
At(depth, s) == [i \in DOMAIN s |-> <<s[i], depth>>]
Visited(st, v, n, depth) ==
    [st EXCEPT !.visits = Append(@, <<n, depth>>), !.broke = (n = v.stop)]
Descends(st, v, c, n, depth) ==
    ~st.broke /\ n \notin v.skip /\ may_expand(c.max_depth, depth)

RECURSIVE depth_first_global(_, _, _, _)
depth_first_global(g, c, v, st) ==
    IF st.frontier = << >> \/ st.broke THEN st
    ELSE LET n == Last(st.frontier)[1]
             depth == Last(st.frontier)[2]
             popped == [st EXCEPT !.frontier = Front(@)]
             seen == Visited([popped EXCEPT !.marks = mark(@, n)], v, n, depth)
             next == Reverse(Without(neighbors(g, n, c.direction), MarkedIn(seen.marks)))
         IN  depth_first_global(g, c, v,
               IF is_marked(st.marks, n) THEN popped
               ELSE IF Descends(seen, v, c, n, depth)
               THEN [seen EXCEPT !.frontier = @ \o At(depth + 1, next)]
               ELSE seen)

(* A step with depth None leaves the node; entering pushes its leaving.    *)
RECURSIVE depth_first_path(_, _, _, _)
depth_first_path(g, c, v, st) ==
    IF st.frontier = << >> \/ st.broke THEN st
    ELSE LET n == Last(st.frontier)[1]
             depth == Last(st.frontier)[2]
             popped == [st EXCEPT !.frontier = Front(@)]
             seen == Visited([st EXCEPT !.marks = mark(@, n),
                                        !.frontier[Len(st.frontier)] = <<n, None>>],
                             v, n, depth)
         IN  depth_first_path(g, c, v,
               IF depth = None THEN [popped EXCEPT !.marks = unmark(@, n)]
               ELSE IF is_marked(st.marks, n) THEN popped
               ELSE IF Descends(seen, v, c, n, depth)
               THEN [seen EXCEPT !.frontier =
                       @ \o At(depth + 1, Reverse(neighbors(g, n, c.direction)))]
               ELSE seen)

mark_all(m, s) == FoldLeft(LAMBDA acc, i : mark(acc, i), m, s)
RECURSIVE breadth_first_global(_, _, _, _)
breadth_first_global(g, c, v, st) ==
    IF st.frontier = << >> \/ st.broke THEN st
    ELSE LET n == Head(st.frontier)[1]
             depth == Head(st.frontier)[2]
             seen == Visited([st EXCEPT !.frontier = Tail(@)], v, n, depth)
             next == Firsts(Without(neighbors(g, n, c.direction), MarkedIn(st.marks)))
         IN  breadth_first_global(g, c, v,
               IF Descends(seen, v, c, n, depth)
               THEN [seen EXCEPT !.frontier = @ \o At(depth + 1, next),
                                 !.marks = mark_all(@, next)]
               ELSE seen)

(* search_with_marks: the marks come back as the search left them.         *)
search_in(g, seeds, c, marks, v) ==
    LET m == reset(marks)
        start(frontier, held) ==
            [frontier |-> frontier, marks |-> held, visits |-> << >>, broke |-> FALSE]
        firsts == Firsts(seeds)
    IN  IF c.order = "breadth"
        THEN breadth_first_global(g, c, v, start(At(0, firsts), mark_all(m, firsts)))
        ELSE IF c.visited = "path"
        THEN depth_first_path(g, c, v, start(At(0, Reverse(seeds)), m))
        ELSE depth_first_global(g, c, v, start(At(0, Reverse(seeds)), m))
search(g, seeds, c, v) == search_in(g, seeds, c, new_marks, v).visits
-----------------------------------------------------------------------------
(* What paths say of a visit.  Under the path policy the visits are the    *)
(* preorder of the tree of simple paths.                                   *)
RECURSIVE PathVisits(_, _, _, _)
PathVisits(g, c, v, path) ==
    LET n == Last(path)
        next == IF n \in v.skip \/ ~may_expand(c.max_depth, Len(path) - 1) THEN << >>
                ELSE Without(neighbors(g, n, c.direction), Range(path))
    IN  <<<<n, Len(path) - 1>>>>
        \o FlattenSeq([i \in DOMAIN next |-> PathVisits(g, c, v, Append(path, next[i]))])

UpTo(visits, stop) ==
    LET hits == {i \in DOMAIN visits : visits[i][1] = stop}
    IN  IF hits = {} THEN visits ELSE SubSeq(visits, 1, Min(hits))

(* The nodes a visitor that skips lets a search come to in k steps.        *)
Entered(g, seeds, d, k, skip) ==
    UNION {Within(g, s, d, k, {e \in Edges(g) : near(g, e, d) \notin skip}) : s \in seeds}

(* A search that is not stopped visits what its policy says, at the depth  *)
(* it says; one that is stopped has made a prefix of those visits.         *)
SearchRight(g, seeds, c, v) ==
    LET visits == search(g, seeds, c, v)
        whole == search(g, seeds, c, [v EXCEPT !.stop = None])
        nodes == [i \in DOMAIN whole |-> whole[i][1]]
        k == IF c.max_depth = None THEN Bound ELSE c.max_depth
        nearest(n) == Min({j \in 0..k : n \in Entered(g, Range(seeds), c.direction, j, v.skip)})
        entered == Entered(g, Range(seeds), c.direction, k, v.skip)
    IN  /\ visits = UpTo(whole, v.stop)
        /\ IF c.visited = "path"
           THEN whole = FlattenSeq([i \in DOMAIN seeds |-> PathVisits(g, c, v, <<seeds[i]>>)])
           ELSE /\ IsOrderOf(nodes, Range(nodes)) /\ Range(nodes) \subseteq entered
                /\ c.order = "breadth" \/ c.max_depth = None => Range(nodes) = entered
                /\ c.order = "breadth" => \A i \in DOMAIN whole :
                      whole[i][2] = nearest(nodes[i]) /\ \A j \in 1..i : whole[j][2] <= whole[i][2]
-----------------------------------------------------------------------------
(* Marks of an open search: few in a list, many in a set.                  *)
no_marks == [few |-> << >>, many |-> {}, spilled |-> FALSE]
contains(m, n) == IF m.spilled THEN n \in m.many ELSE n \in Range(m.few)
insert_mark(m, n) ==
    IF contains(m, n) THEN m
    ELSE IF m.spilled THEN [m EXCEPT !.many = @ \cup {n}]
    ELSE IF Len(m.few) < Inline THEN [m EXCEPT !.few = Append(@, n)]
    ELSE [few |-> << >>, many |-> Range(m.few) \cup {n}, spilled |-> TRUE]

(* Mutant of remove: the list keeps the place of the last mark.            *)
remove_first(m, n) ==
    IF m.spilled THEN [m EXCEPT !.many = @ \ {n}]
    ELSE IF n \notin Range(m.few) THEN m
    ELSE [m EXCEPT !.few = Tail(@)]

remove(m, n) ==
    IF m.spilled THEN [m EXCEPT !.many = @ \ {n}]
    ELSE IF n \notin Range(m.few) THEN m
    ELSE [m EXCEPT !.few = Front([@ EXCEPT ![Position(m.few, n)] = Last(m.few)])]
Contents(m) == {n \in Slots : contains(m, n)}
-----------------------------------------------------------------------------
Succ(g, n) == neighbors(g, n, "out")

RECURSIVE open_depth_first_global(_, _, _, _)
open_depth_first_global(g, c, v, st) ==
    IF st.frontier = << >> \/ st.broke THEN st
    ELSE LET n == Last(st.frontier)[1]
             depth == Last(st.frontier)[2]
             popped == [st EXCEPT !.frontier = Front(@)]
             seen == Visited([popped EXCEPT !.marks = insert_mark(@, n)], v, n, depth)
             next == Reverse(Without(Succ(g, n), Contents(seen.marks)))
         IN  open_depth_first_global(g, c, v,
               IF contains(st.marks, n) THEN popped
               ELSE IF Descends(seen, v, c, n, depth)
               THEN [seen EXCEPT !.frontier = @ \o At(depth + 1, next)]
               ELSE seen)

RECURSIVE open_depth_first_path(_, _, _, _)
open_depth_first_path(g, c, v, st) ==
    IF st.frontier = << >> \/ st.broke THEN st
    ELSE LET n == Last(st.frontier)[1]
             depth == Last(st.frontier)[2]
             popped == [st EXCEPT !.frontier = Front(@)]
             seen == Visited([st EXCEPT !.marks = insert_mark(@, n),
                                        !.frontier[Len(st.frontier)] = <<n, None>>],
                             v, n, depth)
         IN  open_depth_first_path(g, c, v,
               IF depth = None THEN [popped EXCEPT !.marks = remove(@, n)]
               ELSE IF contains(st.marks, n) THEN popped
               ELSE IF Descends(seen, v, c, n, depth)
               THEN [seen EXCEPT !.frontier = @ \o At(depth + 1, Reverse(Succ(g, n)))]
               ELSE seen)

insert_all(m, s) == FoldLeft(LAMBDA acc, n : insert_mark(acc, n), m, s)

(* Level by level; a level is read to its end before the next.             *)
RECURSIVE open_breadth_first_global(_, _, _, _, _, _)
open_breadth_first_global(g, c, v, st, following, depth) ==
    IF st.broke \/ (st.frontier = << >> /\ following = << >>) THEN st
    ELSE IF st.frontier = << >>
    THEN open_breadth_first_global(g, c, v, [st EXCEPT !.frontier = following], << >>,
                                   depth + 1)
    ELSE LET n == Head(st.frontier)
             seen == Visited([st EXCEPT !.frontier = Tail(@)], v, n, depth)
             next == IF Descends(seen, v, c, n, depth)
                     THEN Firsts(Without(Succ(g, n), Contents(st.marks))) ELSE << >>
         IN  open_breadth_first_global(g, c, v, [seen EXCEPT !.marks = insert_all(@, next)],
                                       following \o next, depth)

open_search(g, seeds, c, v) ==
    LET start(frontier, held) ==
            [frontier |-> frontier, marks |-> held, visits |-> << >>, broke |-> FALSE]
        firsts == Firsts(seeds)
        end == IF c.order = "breadth"
               THEN open_breadth_first_global(g, c, v,
                      start(firsts, insert_all(no_marks, firsts)), << >>, 0)
               ELSE IF c.visited = "path"
               THEN open_depth_first_path(g, c, v, start(At(0, Reverse(seeds)), no_marks))
               ELSE open_depth_first_global(g, c, v, start(At(0, Reverse(seeds)), no_marks))
    IN  end.visits
-----------------------------------------------------------------------------
(* enter!: discover and push the frame, or refuse.                         *)
enter(g, c, v, st, n, depth) ==
    LET found == [st EXCEPT !.marks = insert_mark(@, n),
                            !.events = Append(@, <<"discover", n, depth>>),
                            !.broke = (n = v.stop)]
        next == IF n \notin v.skip /\ may_expand(c.max_depth, depth) THEN Succ(g, n) ELSE << >>
    IN  IF contains(st.marks, n)
        THEN [st EXCEPT !.events = Append(@, <<"refused", n, depth>>)]
        ELSE IF found.broke THEN found
        ELSE [found EXCEPT !.frontier = Append(@, [node |-> n, depth |-> depth, rest |-> next])]
RECURSIVE open_depth_first_events(_, _, _, _, _)
open_depth_first_events(g, seeds, c, v, st) ==
    IF st.broke THEN st.events
    ELSE IF st.frontier = << >>
    THEN IF seeds = << >> THEN st.events
         ELSE open_depth_first_events(g, Tail(seeds), c, v, enter(g, c, v, st, Head(seeds), 0))
    ELSE LET f == Last(st.frontier)
             at == Len(st.frontier)
             done == [st EXCEPT !.frontier = Front(@),
                                !.marks = IF c.visited = "path" THEN remove(@, f.node) ELSE @,
                                !.events = Append(@, <<"finish", f.node>>)]
         IN  open_depth_first_events(g, seeds, c, v,
               IF f.rest = << >> THEN done
               ELSE enter(g, c, v, [st EXCEPT !.frontier[at].rest = Tail(@)],
                          Head(f.rest), f.depth + 1))

discover(c, v, st, n, depth) ==
    IF st.broke THEN st
    ELSE IF contains(st.marks, n)
    THEN [st EXCEPT !.events = Append(@, <<"refused", n, depth>>)]
    ELSE [st EXCEPT !.marks = insert_mark(@, n), !.broke = (n = v.stop),
                    !.events = Append(@, <<"discover", n, depth>>),
                    !.frontier = IF n \in v.skip \/ ~may_expand(c.max_depth, depth) THEN @
                                 ELSE Append(@, <<n, depth>>)]
discover_all(c, v, st, s, depth) == FoldLeft(LAMBDA a, n : discover(c, v, a, n, depth), st, s)
RECURSIVE open_breadth_first_events(_, _, _, _)
open_breadth_first_events(g, c, v, st) ==
    IF st.broke \/ st.frontier = << >> THEN st.events
    ELSE LET n == Head(st.frontier)
         IN  open_breadth_first_events(g, c, v,
               discover_all(c, v, [st EXCEPT !.frontier = Tail(@)], Succ(g, n[1]), n[2] + 1))

NoEvents == [frontier |-> << >>, marks |-> no_marks, events |-> << >>, broke |-> FALSE]

(* Every simple route, shortest first, and the extensions refused.  The    *)
(* visitor of routes decides by their last node.                           *)
extend(c, v, st, route, n) ==
    LET longer == Append(route, n)
    IN  IF st.broke THEN st
        ELSE IF n \in Range(route)
        THEN [st EXCEPT !.events = Append(@, <<"refused", route, n>>)]
        ELSE [st EXCEPT !.events = Append(@, <<"route", longer>>), !.broke = (n = v.stop),
                        !.frontier = IF n \in v.skip \/ ~may_expand(c.max_depth, Len(route))
                                     THEN @ ELSE Append(@, longer)]
RECURSIVE open_breadth_first_paths(_, _, _, _)
open_breadth_first_paths(g, c, v, st) ==
    IF st.broke \/ st.frontier = << >> THEN st.events
    ELSE LET route == Head(st.frontier)
         IN  open_breadth_first_paths(g, c, v,
               FoldLeft(LAMBDA a, n : extend(c, v, a, route, n),
                        [st EXCEPT !.frontier = Tail(@)], Succ(g, Last(route))))
open_paths(g, seeds, c, v) ==
    open_breadth_first_paths(g, c, v,
      FoldLeft(LAMBDA a, s : extend(c, v, a, << >>, s), NoEvents, seeds))

(* A chain of single steps, at most max_hops, that never comes back.       *)
RECURSIVE chase(_, _, _, _)
chase(step, seed, hops, max_hops) ==
    LET current == IF hops = << >> THEN seed ELSE Last(hops)
    IN  IF Len(hops) = max_hops \/ current \notin DOMAIN step
           \/ step[current] \in Range(hops) \cup {seed}
        THEN hops
        ELSE chase(step, seed, Append(hops, step[current]), max_hops)
follow_path(step, seed, max_hops) == <<seed>> \o chase(step, seed, << >>, max_hops)
follow(step, seed, max_hops) == Last(follow_path(step, seed, max_hops))
-----------------------------------------------------------------------------
(* The fold.  Its client is four sets: nodes entered as leaves, nodes with *)
(* marks of their own, nodes without a mark, and children after which the  *)
(* parent reads no more.  A value is the record of what was absorbed.      *)
Absorbed(frame, client, child, value) ==
    [frame EXCEPT !.value = Append(@, <<child, value>>),
                  !.broke = (child \in client.last) \/ @]

(* Mutant of push_frame: an isolated node's own mark outlives it.          *)
push_frame_keeping_key(g, client, w, n, entry_marks) ==
    [w EXCEPT !.stack = Append(@,
       [node |-> n, value |-> << >>, rest |-> Succ(g, n), broke |-> FALSE,
        entry |-> Len(w.log), with_key |-> Len(w.log)])]

push_frame(g, client, w, n, entry_marks) ==
    [w EXCEPT !.stack = Append(@,
       [node |-> n, value |-> << >>, rest |-> Succ(g, n), broke |-> FALSE,
        entry |-> entry_marks, with_key |-> Len(w.log)])]
keyed(client, log, n) == IF n \in client.unmarked THEN log ELSE Append(log, n)

RECURSIVE fold_from(_, _, _, _)
fold_from(g, client, max_depth, w) ==
    IF w.stack = << >> THEN w.result
    ELSE LET f == Last(w.stack)
             top == Len(w.stack)
             isolated == f.node \in client.isolated
             child == Head(f.rest)
             up == Front(w.stack)
             left == IF isolated THEN SubSeq(w.log, 1, f.entry) ELSE w.log
             log == IF isolated THEN SubSeq(w.log, 1, f.with_key) ELSE w.log
             read == [w EXCEPT !.stack[top].rest = Tail(@), !.log = log]
             refused == ~may_expand(max_depth, top - 1)
                        \/ (child \notin client.unmarked /\ child \in Range(log))
             entered == [read EXCEPT !.log = keyed(client, @, child)]
         IN  fold_from(g, client, max_depth,
               IF f.broke \/ f.rest = << >>
               THEN IF up = << >> THEN [w EXCEPT !.stack = up, !.log = left, !.result = f.value]
                    ELSE [w EXCEPT !.log = left, !.stack = [up EXCEPT ![Len(up)] =
                            Absorbed(@, client, f.node, f.value)]]
               ELSE IF refused
               THEN [read EXCEPT !.stack[top] = Absorbed(@, client, child, None)]
               ELSE IF child \in client.leaves
               THEN [entered EXCEPT !.stack[top] = Absorbed(@, client, child, <<"leaf">>)]
               ELSE push_frame(g, client, entered, child, Len(log)))
open_fold_post_order(g, client, max_depth, root) ==
    IF root \in client.leaves THEN <<"leaf">>
    ELSE fold_from(g, client, max_depth,
           push_frame(g, client, [stack |-> << >>, log |-> keyed(client, << >>, root),
                                  result |-> None], root, 0))
-----------------------------------------------------------------------------
(* The fold as a recursion: a node's marks are its parent's and its own,   *)
(* and what is marked below an isolated node is forgotten.                 *)
RECURSIVE Folded(_, _, _, _, _, _)
Folded(g, client, max_depth, n, level, marks) ==
    LET own(S, m) == IF m \in client.unmarked THEN S ELSE S \cup {m}
        inner == own(marks, n)
        absorb(a, m) ==
          LET base == IF n \in client.isolated THEN inner ELSE a.marks
              stopping == m \in client.last
              below == Folded(g, client, max_depth, m, level + 1, base)
          IN  IF a.broke THEN a
              ELSE IF ~may_expand(max_depth, level) \/ (m \notin client.unmarked /\ m \in base)
              THEN [value |-> Append(a.value, <<m, None>>), marks |-> base, broke |-> stopping]
              ELSE IF m \in client.leaves
              THEN [value |-> Append(a.value, <<m, <<"leaf">>>>), marks |-> own(base, m),
                    broke |-> stopping]
              ELSE [value |-> Append(a.value, <<m, below.value>>), marks |-> below.marks,
                    broke |-> stopping]
        end == FoldLeft(absorb, [value |-> << >>, marks |-> inner, broke |-> FALSE], Succ(g, n))
    IN  [value |-> end.value, marks |-> IF n \in client.isolated THEN marks ELSE end.marks]

FoldAgrees(g, client, max_depth, root) ==
    open_fold_post_order(g, client, max_depth, root) =
        IF root \in client.leaves THEN <<"leaf">>
        ELSE Folded(g, client, max_depth, root, 0, {}).value

(* An open search visits what the search of the whole graph does; its      *)
(* events discover the same, and finish every node after what it entered.  *)
OpenRight(g, seeds, c, v) ==
    LET visits == search(g, seeds, c, v)
        deep == open_depth_first_events(g, seeds, c, v, NoEvents)
        wide == open_breadth_first_events(g, c, v, discover_all(c, v, NoEvents, seeds, 0))
        found(events) == LET s == Named(events, "discover")
                         IN  [i \in DOMAIN s |-> <<s[i][2], s[i][3]>>]
        ends(n) == Cardinality({i \in DOMAIN deep : deep[i] = <<"finish", n>>})
        opens(n) == Cardinality({i \in DOMAIN deep : deep[i][1] = "discover" /\ deep[i][2] = n})
    IN  /\ open_search(g, seeds, c, v) = visits
        /\ c.order = "breadth" => found(wide) = visits
        /\ c.order = "depth" => found(deep) = visits
        /\ v.stop = None => \A n \in Slots : ends(n) = opens(n)

(* Routes are the simple paths, one for each choice of edges, shortest     *)
(* first.                                                                  *)
RoutesRight(g, start, c, v) ==
    LET routes == Named(open_paths(g, <<start>>, c, v), "route")
        lens == [i \in DOMAIN routes |-> Len(routes[i][2])]
        visits == PathVisits(g, c, v, <<start>>)
    IN  /\ \A i, j \in DOMAIN routes : i < j => lens[i] <= lens[j]
        /\ \A i \in DOMAIN routes : \A k \in 1..lens[i] - 1 :
              <<routes[i][2][k], routes[i][2][k + 1]>> \in Range(g.edges)
        /\ \A n \in Slots, k \in 0..Bound :
              Cardinality({i \in DOMAIN routes : Last(routes[i][2]) = n /\ lens[i] = k + 1})
                <= Cardinality({i \in DOMAIN visits : visits[i] = <<n, k>>})
        /\ v.stop = None => Len(routes) = Len(visits)

(* A chain is simple, follows the steps, and stops only where it must.     *)
ChainRight(step, seed, max_hops) ==
    LET chain == follow_path(step, seed, max_hops)
        last == follow(step, seed, max_hops)
    IN  /\ IsOrderOf(chain, Range(chain)) /\ Len(chain) <= max_hops + 1
        /\ \A i \in 1..Len(chain) - 1 : step[chain[i]] = chain[i + 1]
        /\ \/ Len(chain) = max_hops + 1
           \/ last \notin DOMAIN step
           \/ step[last] \in Range(chain)
=============================================================================

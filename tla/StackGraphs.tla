----------------------------- MODULE StackGraphs ----------------------------
(***************************************************************************)
(* Stack graphs: their storage by file, the paths that push and pop        *)
(* symbols and scopes, direct and linear search, and search by summaries   *)
(* of each file (src/crates/cfglib/src/graph/stack/storage.rs, path.rs,    *)
(* search.rs, partial.rs, stitching.rs).                                   *)
(*   nodes   what was stored of every node, removed ones too; root and     *)
(*           jump-to-scope are the first two                               *)
(*   live, live_edges   the nodes and the edges not removed                *)
(***************************************************************************)
EXTENDS PathBudget

Root == 1
Jump == 2
Node(file, kind, symbol, flag, scope) ==
    [file |-> file, kind |-> kind, symbol |-> symbol, flag |-> flag, scope |-> scope]

is_reference(n) == n.kind \in {"push", "push_scoped"} /\ n.flag
is_definition(n) == n.kind \in {"pop", "pop_scoped"} /\ n.flag
is_exported_scope(n) == n.kind = "scope" /\ n.flag

new_stack_graph(files) ==
    [nodes |-> <<Node(None, "root", None, FALSE, None), Node(None, "jump", None, FALSE, None)>>,
     live |-> {Root, Jump}, edges |-> << >>, live_edges |-> {},
     file_nodes |-> [f \in 1..files |-> << >>]]
add_local_node(g, n) ==
    LET id == Len(g.nodes) + 1
    IN  [g EXCEPT !.nodes = Append(@, n), !.live = @ \cup {id},
                  !.file_nodes[n.file] = Append(@, id)]
contains_scope(g, s) == s \in g.live /\ is_exported_scope(g.nodes[s])
require_attachable_scope(g, file, s) == is_exported_scope(g.nodes[s]) /\ g.nodes[s].file = file
may_add_node(g, n) ==
    /\ n.file \in DOMAIN g.file_nodes
    /\ n.kind = "push_scoped" => n.scope \in g.live /\ require_attachable_scope(g, n.file, n.scope)

require_joinable(g, source, target) ==
    /\ g.nodes[source].kind # "jump"
    /\ \/ None \in {g.nodes[source].file, g.nodes[target].file}
       \/ g.nodes[source].file = g.nodes[target].file
may_add_edge(g, source, target) ==
    {source, target} \subseteq g.live /\ require_joinable(g, source, target)
add_stack_edge(g, source, target, precedence) ==
    [g EXCEPT !.edges = Append(@, [source |-> source, target |-> target,
                                   precedence |-> precedence]),
              !.live_edges = @ \cup {Len(g.edges) + 1}]
remove_stack_edge(g, e) == [g EXCEPT !.live_edges = @ \ {e}]
clear_file(g, file) ==
    LET retired == Range(g.file_nodes[file])
    IN  [g EXCEPT !.live = @ \ retired, !.file_nodes[file] = << >>,
                  !.live_edges = {e \in @ : {g.edges[e].source, g.edges[e].target} \cap retired = {}}]
outgoing(g, n) == SelectSeq([e \in DOMAIN g.edges |-> e],
                            LAMBDA e : e \in g.live_edges /\ g.edges[e].source = n)
reference_nodes(g) == SelectSeq([n \in DOMAIN g.nodes |-> n],
                                LAMBDA n : n \in g.live /\ is_reference(g.nodes[n]))

(* What a stored graph is checked for when it is read.                     *)
check_stack_graph(g) ==
    LET expected(f) == SelectSeq([n \in DOMAIN g.nodes |-> n],
                                 LAMBDA n : n \in g.live /\ g.nodes[n].file = f)
    IN  /\ {Root, Jump} \subseteq g.live
        /\ \A n \in DOMAIN g.nodes \ {Root, Jump} :
             /\ g.nodes[n].file \in DOMAIN g.file_nodes /\ g.nodes[n].kind \notin {"root", "jump"}
             /\ g.nodes[n].kind = "push_scoped" =>
                  /\ g.nodes[n].scope \in DOMAIN g.nodes
                  /\ require_attachable_scope(g, g.nodes[n].file, g.nodes[n].scope)
        /\ \A f \in DOMAIN g.file_nodes : g.file_nodes[f] = expected(f)
        /\ \A e \in g.live_edges : require_joinable(g, g.edges[e].source, g.edges[e].target)
-----------------------------------------------------------------------------
(* A path: where it ends, its stacks with their tops last, its steps, each *)
(* with the node it leaves and its precedence, and how many were edges.    *)
(* A result is a path, or an error that is known or not.                   *)
Rejected == [error |-> "rejected"]
Unknown == [error |-> "unknown"]
Extended(p) == [error |-> None, path |-> p]

apply_node(g, p, n) ==
    LET node == g.nodes[n]
        top == Last(p.symbols)
        popped == [p EXCEPT !.symbols = Front(@)]
    IN  CASE node.kind = "push" ->
               Extended([p EXCEPT !.symbols = Append(@, [symbol |-> node.symbol, scopes |-> None])])
          [] node.kind = "push_scoped" ->
               IF ~contains_scope(g, node.scope) THEN Rejected
               ELSE Extended([p EXCEPT !.symbols = Append(@, [symbol |-> node.symbol,
                                 scopes |-> Append(p.scopes, node.scope)])])
          [] node.kind = "pop" ->
               IF p.symbols # << >> /\ top.symbol = node.symbol /\ top.scopes = None
               THEN Extended(popped) ELSE Rejected
          [] node.kind = "pop_scoped" ->
               IF p.symbols # << >> /\ top.symbol = node.symbol /\ top.scopes # None
               THEN Extended([popped EXCEPT !.scopes = top.scopes]) ELSE Rejected
          [] node.kind = "drop" -> Extended([p EXCEPT !.scopes = << >>])
          [] OTHER -> Extended(p)

from_reference(g, n) ==
    IF n \notin g.live \/ ~is_reference(g.nodes[n]) THEN Unknown
    ELSE apply_node(g, [start |-> n, end |-> n, symbols |-> << >>, scopes |-> << >>,
                        steps |-> << >>, taken |-> << >>], n)

append_edge(g, p, e) ==
    LET edge == g.edges[e]
        applied == apply_node(g, p, edge.target)
        moved == [applied.path EXCEPT !.end = edge.target, !.taken = Append(@, e),
                    !.steps = Append(@, <<edge.source, edge.precedence, edge.target>>)]
        scope == Last(moved.scopes)
    IN  IF e \notin g.live_edges THEN Unknown
        ELSE IF edge.source # p.end \/ applied.error # None THEN Rejected
        ELSE IF edge.target # Jump THEN Extended(moved)
        ELSE IF moved.scopes = << >> \/ ~contains_scope(g, scope) THEN Rejected
        ELSE Extended([moved EXCEPT !.end = scope, !.scopes = Front(@),
                                    !.steps = Append(@, <<Jump, 0, scope>>)])

is_complete(g, p) ==
    /\ is_reference(g.nodes[p.start]) /\ is_definition(g.nodes[p.end])
    /\ p.symbols = << >> /\ p.scopes = << >>
path_shadows(l, r) ==
    \E i \in DOMAIN l.steps \cap DOMAIN r.steps :
        /\ \A j \in 1..i : l.steps[j][1] = r.steps[j][1]
        /\ l.steps[i][2] > r.steps[i][2]
-----------------------------------------------------------------------------
(* A search: what it has left, what it may spend, and what it found.       *)
new_search(limits) == [budget |-> new_budget(limits), cuts |-> 0, rejected |-> 0, complete |-> << >>]
record_complete(g, st, p) ==
    LET admitted == admit_complete(st.budget, Len(st.complete))
    IN  IF ~is_complete(g, p) THEN st
        ELSE [st EXCEPT !.budget = admitted.budget,
                        !.complete = IF admitted.ok THEN Append(@, p) ELSE @]
unique(paths) == SelectSeq([i \in DOMAIN paths |-> <<i, paths[i]>>],
                           LAMBDA x : \A j \in 1..(x[1] - 1) : paths[j] # x[2])
from_complete(paths) ==
    LET one == unique(paths)
        stands == SelectSeq(one, LAMBDA x : ~\E y \in Range(one) : y # x /\ path_shadows(y[2], x[2]))
    IN  [i \in DOMAIN stands |-> stands[i][2]]
finish(reference, st) ==
    [error |-> None, reference |-> reference, paths |-> from_complete(st.complete),
     budget |-> st.budget, cuts |-> st.cuts, rejected |-> st.rejected]

(* One edge out of the end of a path that was popped.                      *)
extend_path(g, p, st, e) ==
    LET length == admit_length(st.search.budget, Len(p.taken) + 1)
        next == append_edge(g, p, e)
    IN  IF e \in Range(p.taken) THEN [st EXCEPT !.search.cuts = @ + 1]
        ELSE IF ~length.ok THEN [st EXCEPT !.search.budget = length.budget]
        ELSE IF next.error # None THEN [st EXCEPT !.search.rejected = @ + 1]
        ELSE [frontier |-> push_prefix(st.frontier, next.path),
              search |-> record_complete(g, st.search, next.path)]
RECURSIVE search_paths(_, _)
search_paths(g, st) ==
    IF st.frontier.queue = << >> THEN st.search
    ELSE LET popped == pop_prefix(st.frontier)
             admitted == admit_expansion(st.search.budget)
             taken == [frontier |-> popped.frontier,
                       search |-> [st.search EXCEPT !.budget = admitted.budget]]
         IN  IF ~admitted.ok THEN taken.search
             ELSE search_paths(g, FoldLeft(LAMBDA s, e : extend_path(g, popped.item, s, e), taken,
                                           outgoing(g, popped.item.end)))
try_compute(g, reference, order, limits) ==
    LET initial == from_reference(g, reference)
    IN  IF initial.error # None THEN initial
        ELSE finish(reference, search_paths(g,
               [frontier |-> push_prefix(new_frontier(order), initial.path),
                search |-> new_search(limits)]))

(* Linear search keeps one path and gives up where two go on.              *)
offer_path(g, p, st, e) ==
    LET length == admit_length(st.search.budget, Len(p.taken) + 1)
        next == append_edge(g, p, e)
    IN  IF st.branched THEN st
        ELSE IF e \in Range(p.taken) THEN [st EXCEPT !.search.cuts = @ + 1]
        ELSE IF ~length.ok THEN [st EXCEPT !.search.budget = length.budget]
        ELSE IF next.error # None THEN [st EXCEPT !.search.rejected = @ + 1]
        ELSE IF st.next # None THEN [st EXCEPT !.branched = TRUE]
        ELSE [st EXCEPT !.next = next.path, !.search = record_complete(g, @, next.path)]
RECURSIVE follow_path(_, _, _)
follow_path(g, p, search) ==
    LET admitted == admit_expansion(search.budget)
        offered == FoldLeft(LAMBDA s, e : offer_path(g, p, s, e),
                     [next |-> None, branched |-> FALSE,
                      search |-> [search EXCEPT !.budget = admitted.budget]],
                     outgoing(g, p.end))
    IN  IF ~admitted.ok THEN finish(p.start, [search EXCEPT !.budget = admitted.budget])
        ELSE IF offered.branched THEN [error |-> "edges", node |-> p.end]
        ELSE IF offered.next = None THEN finish(p.start, offered.search)
        ELSE follow_path(g, offered.next, offered.search)
try_compute_linear(g, reference, limits) ==
    LET initial == from_reference(g, reference)
    IN  IF initial.error # None THEN initial
        ELSE follow_path(g, initial.path, new_search(limits))

(* The references to each definition; one is listed once for a definition, *)
(* however many paths lead there.                                          *)
add_reverse_references(rows, resolution) ==
    FoldLeft(LAMBDA st, p : IF p.end \in st.seen THEN st
               ELSE [seen |-> st.seen \cup {p.end},
                     rows |-> Append(st.rows, <<p.end, resolution.reference>>)],
             [seen |-> {}, rows |-> rows], resolution.paths).rows
from_resolutions(resolutions) ==
    FoldLeft(LAMBDA rows, r : add_reverse_references(rows, r), << >>, resolutions)
-----------------------------------------------------------------------------
(* Summaries of a file: routes between the nodes where files meet, along   *)
(* edges that belong to the file.                                          *)
edge_belongs_to_file(g, e, file) == file \in {g.nodes[g.edges[e].source].file, g.nodes[g.edges[e].target].file}
is_endpoint(n) == n.kind \in {"root", "jump"} \/ is_exported_scope(n) \/ is_definition(n)
start_nodes(g, file) ==
    <<Root>> \o SelectSeq(g.file_nodes[file], LAMBDA n : \/ is_reference(g.nodes[n])
                                                       \/ is_exported_scope(g.nodes[n]))

(* Mutant of extend_route: a route ends where it first meets an endpoint.  *)
extend_route_once(g, file, route, st, e) ==
    LET length == admit_length(st.budget, Len(route.edges) + 1)
        target == g.edges[e].target
        edges == Append(route.edges, e)
    IN  IF e \in Range(route.edges) THEN [st EXCEPT !.cuts = @ + 1]
        ELSE IF ~length.ok THEN [st EXCEPT !.budget = length.budget]
        ELSE IF is_endpoint(g.nodes[target])
        THEN [st EXCEPT !.paths = Append(@, [file |-> file, start |-> route.start,
                                             end |-> target, edges |-> edges])]
        ELSE [st EXCEPT !.frontier = push_prefix(@, [start |-> route.start, current |-> target,
                                                     edges |-> edges])]

(* An endpoint is recorded, and the route goes on past it.                 *)
extend_route(g, file, route, st, e) ==
    LET length == admit_length(st.budget, Len(route.edges) + 1)
        target == g.edges[e].target
        edges == Append(route.edges, e)
        summary == [file |-> file, start |-> route.start, end |-> target, edges |-> edges]
    IN  IF e \in Range(route.edges) THEN [st EXCEPT !.cuts = @ + 1]
        ELSE IF ~length.ok THEN [st EXCEPT !.budget = length.budget]
        ELSE [st EXCEPT !.paths = IF is_endpoint(g.nodes[target]) THEN Append(@, summary) ELSE @,
                        !.frontier = push_prefix(@, [start |-> route.start, current |-> target,
                                                     edges |-> edges])]
RECURSIVE search_routes(_, _, _)
search_routes(g, file, st) ==
    IF st.frontier.queue = << >> THEN st
    ELSE LET popped == pop_prefix(st.frontier)
             admitted == admit_expansion(st.budget)
             taken == [st EXCEPT !.frontier = popped.frontier, !.budget = admitted.budget]
             own == SelectSeq(outgoing(g, popped.item.current),
                              LAMBDA e : edge_belongs_to_file(g, e, file))
         IN  IF ~admitted.ok THEN taken
             ELSE search_routes(g, file,
                    FoldLeft(LAMBDA s, e : extend_route(g, file, popped.item, s, e), taken, own))
partial_paths(g, file, order, limits) ==
    search_routes(g, file,
      [frontier |-> FoldLeft(LAMBDA f, n : push_prefix(f, [start |-> n, current |-> n,
                                                           edges |-> << >>]),
                             new_frontier(order), start_nodes(g, file)),
       budget |-> new_budget(limits), cuts |-> 0, paths |-> << >>])

(* The database: every summary installed, None where one was replaced, and *)
(* the summaries of each start and of each file.                           *)
new_database(g) == [paths |-> << >>, by_start |-> [n \in DOMAIN g.nodes |-> << >>],
                    by_file |-> [f \in DOMAIN g.file_nodes |-> << >>]]
resized(rows, bound) == [n \in 1..bound |-> IF n \in DOMAIN rows THEN rows[n] ELSE << >>]
install(db, g, paths) ==
    FoldLeft(LAMBDA d, p : LET id == Len(d.paths) + 1
                           IN  [d EXCEPT !.paths = Append(@, p),
                                         !.by_start[p.start] = Append(@, id),
                                         !.by_file[p.file] = Append(@, id)],
             [db EXCEPT !.by_start = resized(@, Len(g.nodes)),
                        !.by_file = resized(@, Len(g.file_nodes))], paths)
remove_file(db, file) ==
    LET removed == Range(db.by_file[file])
    IN  [db EXCEPT !.by_file[file] = << >>,
                   !.paths = [i \in DOMAIN @ |-> IF i \in removed THEN None ELSE @[i]],
                   !.by_start = [n \in DOMAIN @ |-> SelectSeq(@[n], LAMBDA i : i \notin removed)]]
replace_file(db, g, file, order) ==
    install(remove_file(db, file), g, partial_paths(g, file, order, Unlimited).paths)
compute_database(g, order) ==
    FoldLeft(LAMBDA d, f : install(d, g, partial_paths(g, f, order, Unlimited).paths),
             new_database(g), [f \in DOMAIN g.file_nodes |-> f])
paths_from(db, n) ==
    IF n \notin DOMAIN db.by_start THEN << >>
    ELSE SelectSeq(db.by_start[n], LAMBDA i : db.paths[i] # None)

(* What a stored database is checked for when it is read.                  *)
check_database(db) ==
    LET alive == SelectSeq([i \in DOMAIN db.paths |-> i], LAMBDA i : db.paths[i] # None)
    IN  /\ \A i \in Range(alive) : /\ db.paths[i].edges # << >>
                                   /\ \A j, k \in DOMAIN db.paths[i].edges :
                                        j # k => db.paths[i].edges[j] # db.paths[i].edges[k]
                                   /\ db.paths[i].start \in DOMAIN db.by_start
                                   /\ db.paths[i].file \in DOMAIN db.by_file
        /\ \A n \in DOMAIN db.by_start :
              db.by_start[n] = SelectSeq(alive, LAMBDA i : db.paths[i].start = n)
        /\ \A f \in DOMAIN db.by_file :
              db.by_file[f] = SelectSeq(alive, LAMBDA i : db.paths[i].file = f)
-----------------------------------------------------------------------------
(* A summary is replayed edge by edge.                                     *)
append_to(g, partial, p) ==
    FoldLeft(LAMBDA x, e : IF x.error # None THEN x ELSE append_edge(g, x.path, e),
             IF p.end # partial.start THEN Rejected ELSE Extended(p), partial.edges)
stitch_one(g, db, work, st, id) ==
    LET partial == db.paths[id]
        length == admit_length(st.search.budget, Len(work.path.taken) + Len(partial.edges))
        next == append_to(g, partial, work.path)
    IN  IF st.unknown THEN st
        ELSE IF id \in work.partials \/ Range(partial.edges) \cap Range(work.path.taken) # {}
        THEN [st EXCEPT !.search.cuts = @ + 1]
        ELSE IF ~length.ok THEN [st EXCEPT !.search.budget = length.budget]
        ELSE IF next.error = "unknown" THEN [st EXCEPT !.unknown = TRUE]
        ELSE IF next.error # None THEN [st EXCEPT !.search.rejected = @ + 1]
        ELSE [st EXCEPT !.search = record_complete(g, @, next.path),
                        !.frontier = push_prefix(@, [path |-> next.path,
                                                     partials |-> work.partials \cup {id}])]
RECURSIVE stitch(_, _, _)
stitch(g, db, st) ==
    IF st.frontier.queue = << >> \/ st.unknown THEN st
    ELSE LET popped == pop_prefix(st.frontier)
             admitted == admit_expansion(st.search.budget)
             taken == [st EXCEPT !.frontier = popped.frontier, !.search.budget = admitted.budget]
         IN  IF ~admitted.ok THEN taken
             ELSE stitch(g, db, FoldLeft(LAMBDA s, i : stitch_one(g, db, popped.item, s, i), taken,
                                         paths_from(db, popped.item.path.end)))
try_compute_from_partials(g, db, reference, order, limits) ==
    LET initial == from_reference(g, reference)
        done == stitch(g, db, [frontier |-> push_prefix(new_frontier(order),
                                  [path |-> initial.path, partials |-> {}]),
                               search |-> new_search(limits), unknown |-> FALSE])
    IN  IF initial.error # None THEN initial
        ELSE IF done.unknown THEN Unknown ELSE finish(reference, done.search)
-----------------------------------------------------------------------------
(* Every path that the stacks admit and that takes no edge twice.          *)
RECURSIVE Closure(_, _)
Closure(g, paths) ==
    LET next == {append_edge(g, pe[1], pe[2]) :
                   pe \in {x \in paths \X g.live_edges :
                              /\ g.edges[x[2]].source = x[1].end /\ x[2] \notin Range(x[1].taken)}}
        longer == {r.path : r \in {x \in next : x.error = None}}
    IN  paths \cup IF longer = {} THEN {} ELSE Closure(g, longer)
AllPaths(g, reference) == Closure(g, {from_reference(g, reference).path})
Unshadowed(paths) == {p \in paths : ~\E q \in paths : path_shadows(q, p)}
Parallel(g) == \E d, e \in g.live_edges :
    d # e /\ g.edges[d].source = g.edges[e].source /\ g.edges[d].target = g.edges[e].target

(* Search finds the complete paths that none shadows, whatever its order;  *)
(* without parallel edges some complete path stands when there is one; a   *)
(* limit is reported when it cut something and only then; linear search    *)
(* answers alike or names a branching.                                     *)
StackSearchRight(g, reference, bounds) ==
    LET all == AllPaths(g, reference)
        complete == {p \in all : is_complete(g, p)}
        full == try_compute(g, reference, "breadth", Unlimited)
        deep == try_compute(g, reference, "depth", Unlimited)
        short(k) == {p \in all : bounds[k].length = None \/ Len(p.taken) <= bounds[k].length}
        limited(k) == try_compute(g, reference, "depth", bounds[k])
        linear(limits) == try_compute_linear(g, reference, limits)
    IN  /\ Range(full.paths) = Unshadowed(complete) /\ Range(deep.paths) = Range(full.paths)
        /\ Len(full.paths) = Cardinality(Range(full.paths))
        /\ full.budget.expanded = Cardinality(all) /\ full.budget.completed = Cardinality(complete)
        /\ ~is_truncated(full.budget)
        /\ complete # {} /\ ~Parallel(g) => full.paths # << >>
        /\ \A k \in DOMAIN bounds :
             /\ is_truncated(limited(k).budget) <=>
                  \/ /\ bounds[k].length # None
                     /\ \E p \in all, e \in g.live_edges :
                          /\ Len(p.taken) = bounds[k].length
                          /\ g.edges[e].source = p.end /\ e \notin Range(p.taken)
                  \/ bounds[k].paths # None /\ Cardinality(short(k)) > bounds[k].paths
                  \/ bounds[k].complete # None /\ Cardinality(complete) > bounds[k].complete
             /\ ~is_truncated(limited(k).budget) => Range(limited(k).paths) = Range(full.paths)
             /\ linear(bounds[k]).error = None =>
                  linear(bounds[k]) = try_compute(g, reference, "breadth", bounds[k])
        /\ linear(Unlimited).error # None =>
             \E p, q, r \in all : /\ q # r /\ Len(q.taken) > 0 /\ Len(r.taken) > 0
                                 /\ Front(q.taken) = p.taken /\ Front(r.taken) = p.taken
StackIndexRight(g) ==
    LET refs == reference_nodes(g)
        index == from_resolutions([i \in DOMAIN refs |-> try_compute(g, refs[i], "breadth", Unlimited)])
        binds(r, d) == \E p \in Range(try_compute(g, r, "breadth", Unlimited).paths) : p.end = d
    IN  /\ Range(index) = {x \in g.live \X Range(refs) : binds(x[2], x[1])}
        /\ Len(index) = Cardinality(Range(index))

(* Summaries of the graph as it is give the paths that search gives; old   *)
(* ones never give a path that the graph does not have.                    *)
StitchRight(g, db, reference, order, fresh) ==
    LET stitched == try_compute_from_partials(g, db, reference, order, Unlimited)
        direct == try_compute(g, reference, order, Unlimited)
    IN  /\ fresh => stitched.error = None /\ Range(stitched.paths) = Range(direct.paths)
        /\ stitched.error = None => Range(stitched.paths) \subseteq AllPaths(g, reference)
=============================================================================

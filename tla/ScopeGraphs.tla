----------------------------- MODULE ScopeGraphs ----------------------------
(***************************************************************************)
(* Name resolution over a scope graph                                      *)
(* (src/crates/cfglib/src/graph/scope/storage.rs, query.rs).  A query is   *)
(* the policy that a language supplies:                                    *)
(*   start   the state of its path language at the first scope             *)
(*   moves   the state that each label leads to, by state and label        *)
(*   final   the states in which a datum of the sought name is accepted    *)
(*   order   the pairs of labels of which the first is more specific       *)
(*   stops   whether a path that accepted something is not extended        *)
(***************************************************************************)
EXTENDS PathBudget

Declaration == "decl"    \* the label of the end of a path

new_scopes(n) == [scopes |-> 1..n, edges |-> << >>, live |-> {}, data |-> << >>,
                  references |-> << >>]
add_scope_edge(g, source, target, label) ==
    [g EXCEPT !.edges = Append(@, [source |-> source, target |-> target, label |-> label]),
              !.live = @ \cup {Len(g.edges) + 1}]
remove_scope_edge(g, e) == [g EXCEPT !.live = @ \ {e}]
add_datum(g, scope, name) == [g EXCEPT !.data = Append(@, [scope |-> scope, name |-> name])]
add_reference(g, scope, name) ==
    [g EXCEPT !.references = Append(@, [scope |-> scope, name |-> name])]
scope_data(g, scope) == SelectSeq([d \in DOMAIN g.data |-> d], LAMBDA d : g.data[d].scope = scope)
scope_outgoing(g, scope) ==
    SelectSeq([e \in DOMAIN g.edges |-> e], LAMBDA e : e \in g.live /\ g.edges[e].source = scope)

(* A path is its scopes and the edges between them.                        *)
new_path(start) == [scopes |-> <<start>>, edges |-> << >>]
extended(g, p, e) == [scopes |-> Append(p.scopes, g.edges[e].target), edges |-> Append(p.edges, e)]

step(query, state, label) ==
    IF <<state, label>> \in DOMAIN query.moves THEN query.moves[<<state, label>>] ELSE None
accepted_data(g, query, name, p, state) ==
    SelectSeq(scope_data(g, Last(p.scopes)),
              LAMBDA d : state \in query.final /\ g.data[d].name = name)
should_extend(query, accepted) == ~(query.stops /\ accepted > 0)
compare_labels(query, l, r) ==
    IF l = r THEN "equal" ELSE IF <<l, r>> \in query.order THEN "less"
    ELSE IF <<r, l>> \in query.order THEN "greater" ELSE "none"
-----------------------------------------------------------------------------
label_at(g, p, i) == IF i \in DOMAIN p.edges THEN g.edges[p.edges[i]].label ELSE Declaration
RECURSIVE shadows_from(_, _, _, _, _)
shadows_from(g, query, l, r, i) ==
    LET compared == compare_labels(query, label_at(g, l, i), label_at(g, r, i))
    IN  \/ compared = "less"
        \/ /\ compared = "equal" /\ i \in DOMAIN l.edges /\ i \in DOMAIN r.edges
           /\ shadows_from(g, query, l, r, i + 1)
label_path_shadows(g, query, l, r) == shadows_from(g, query, l, r, 1)

(* Candidates, pairs of a datum and its path, that no other one shadows.   *)
visible_candidates(g, query, reachable) ==
    IF Len(reachable) < 2 THEN reachable
    ELSE LET stands(i) == ~\E j \in DOMAIN reachable \ {i} :
                             label_path_shadows(g, query, reachable[j][2], reachable[i][2])
         IN  [k \in 1..Cardinality({i \in DOMAIN reachable : stands(i)}) |->
                reachable[CHOOSE i \in DOMAIN reachable :
                   stands(i) /\ Cardinality({j \in 1..i : stands(j)}) = k]]

from_reachable(g, query, reachable, budget) ==
    [error |-> None, candidates |-> visible_candidates(g, query, reachable),
     found |-> Len(reachable), budget |-> budget]

(* Mutant of admit_edge: the length is spent before the edge is admitted.  *)
admit_edge_eager(g, query, work, st, e) ==
    LET next == step(query, work.state, g.edges[e].label)
        length == admit_length(st.budget, Len(work.path.edges) + 1)
    IN  IF ~length.ok THEN [st EXCEPT !.budget = length.budget]
        ELSE IF g.edges[e].target \in Range(work.path.scopes) \/ next = None THEN st
        ELSE [st EXCEPT !.frontier = push_prefix(@, [path |-> extended(g, work.path, e),
                                                     state |-> next])]

(* One admissible edge after another joins the work, within the length.    *)
admit_edge(g, query, work, st, e) ==
    LET next == step(query, work.state, g.edges[e].label)
        length == admit_length(st.budget, Len(work.path.edges) + 1)
    IN  IF g.edges[e].target \in Range(work.path.scopes) \/ next = None THEN st
        ELSE IF ~length.ok THEN [st EXCEPT !.budget = length.budget]
        ELSE [st EXCEPT !.frontier = push_prefix(@, [path |-> extended(g, work.path, e),
                                                     state |-> next])]
RECURSIVE explore(_, _, _, _)
explore(g, query, name, st) ==
    IF st.frontier.queue = << >> THEN st
    ELSE LET popped == pop_prefix(st.frontier)
             work == popped.item
             admitted == admit_expansion(st.budget)
             accepted == accepted_data(g, query, name, work.path, work.state)
             taken == [st EXCEPT !.frontier = popped.frontier, !.budget = admitted.budget,
                                 !.reachable = @ \o [k \in DOMAIN accepted |->
                                                       <<accepted[k], work.path>>]]
         IN  IF ~admitted.ok THEN [st EXCEPT !.budget = admitted.budget]
             ELSE explore(g, query, name,
                    IF ~should_extend(query, Len(accepted)) THEN taken
                    ELSE FoldLeft(LAMBDA s, e : admit_edge(g, query, work, s, e), taken,
                                  scope_outgoing(g, Last(work.path.scopes))))
compute_query(g, scope, name, query, limits) ==
    LET initial == [path |-> new_path(scope), state |-> query.start]
        done == explore(g, query, name,
                  [frontier |-> push_prefix(new_frontier("breadth"), initial),
                   budget |-> new_budget(limits), reachable |-> << >>])
    IN  from_reachable(g, query, done.reachable, done.budget)
-----------------------------------------------------------------------------
(* Linear resolution keeps one path, and gives up where it branches.       *)
offer_edge(g, query, path, state, st, e) ==
    LET next == step(query, state, g.edges[e].label)
        length == admit_length(st.budget, Len(path.edges) + 1)
    IN  IF st.branched \/ g.edges[e].target \in Range(path.scopes) \/ next = None THEN st
        ELSE IF ~length.ok THEN [st EXCEPT !.budget = length.budget]
        ELSE IF st.next # None THEN [st EXCEPT !.branched = TRUE]
        ELSE [st EXCEPT !.next = [path |-> extended(g, path, e), state |-> next]]
RECURSIVE follow(_, _, _, _, _, _)
follow(g, query, name, work, reachable, budget) ==
    LET admitted == admit_expansion(budget)
        accepted == accepted_data(g, query, name, work.path, work.state)
        found == reachable \o [k \in DOMAIN accepted |-> <<accepted[k], work.path>>]
        offered == FoldLeft(LAMBDA s, e : offer_edge(g, query, work.path, work.state, s, e),
                     [next |-> None, branched |-> FALSE, budget |-> admitted.budget],
                     scope_outgoing(g, Last(work.path.scopes)))
    IN  IF ~admitted.ok THEN from_reachable(g, query, reachable, admitted.budget)
        ELSE IF Len(accepted) > 1 THEN [error |-> "candidates", scope |-> Last(work.path.scopes)]
        ELSE IF ~should_extend(query, Len(accepted))
        THEN from_reachable(g, query, found, admitted.budget)
        ELSE IF offered.branched THEN [error |-> "edges", scope |-> Last(work.path.scopes)]
        ELSE IF offered.next = None THEN from_reachable(g, query, found, offered.budget)
        ELSE follow(g, query, name, offered.next, found, offered.budget)
try_compute_linear_query(g, scope, name, query, limits) ==
    follow(g, query, name, [path |-> new_path(scope), state |-> query.start], << >>,
           new_budget(limits))

(* The resolutions of all references, and the references to each datum: a  *)
(* reference that sees a datum on several paths is listed once.            *)
list_reference(rows, r, resolution) ==
    FoldLeft(LAMBDA st, c : IF c[1] \in st.seen THEN st
                            ELSE [seen |-> st.seen \cup {c[1]}, rows |-> Append(st.rows, <<c[1], r>>)],
             [seen |-> {}, rows |-> rows], resolution.candidates).rows
compute_index(g, query, limits) ==
    LET resolved == [r \in DOMAIN g.references |->
                       compute_query(g, g.references[r].scope, g.references[r].name, query, limits)]
    IN  [resolutions |-> resolved,
         rows |-> FoldLeft(LAMBDA rows, r : list_reference(rows, r, resolved[r]), << >>,
                           [r \in DOMAIN g.references |-> r])]
references_to(index, d) == SelectSeq(index.rows, LAMBDA row : row[1] = d)
-----------------------------------------------------------------------------
(* The calculus: words of labels along paths without a repeated scope.     *)
RECURSIVE PathsOf(_, _, _, _)
PathsOf(g, query, name, works) ==
    LET open == {w \in works : should_extend(query,
                                 Len(accepted_data(g, query, name, w.path, w.state)))}
        longer == UNION {{[path |-> extended(g, w.path, e),
                           state |-> step(query, w.state, g.edges[e].label)] :
                             e \in {x \in g.live :
                                      /\ g.edges[x].source = Last(w.path.scopes)
                                      /\ g.edges[x].target \notin Range(w.path.scopes)
                                      /\ step(query, w.state, g.edges[x].label) # None}} : w \in open}
    IN  works \cup IF longer = {} THEN {} ELSE PathsOf(g, query, name, longer)
Word(g, p) == Append([i \in DOMAIN p.edges |-> g.edges[p.edges[i]].label], Declaration)
MoreSpecific(g, query, l, r) ==
    \E i \in DOMAIN Word(g, l) \cap DOMAIN Word(g, r) :
        /\ <<Word(g, l)[i], Word(g, r)[i]>> \in query.order
        /\ \A j \in 1..(i - 1) : Word(g, l)[j] = Word(g, r)[j]
Reachable(g, query, name, works) ==
    {<<d, w.path>> : <<d, w>> \in {x \in (DOMAIN g.data) \X works :
        x[1] \in Range(accepted_data(g, query, name, x[2].path, x[2].state))}}
Visible(g, query, reachable) ==
    {c \in reachable : ~\E o \in reachable : MoreSpecific(g, query, o[2], c[2])}

(* The search finds what the calculus says; a limit that is met exactly    *)
(* is not reported and one that cut something is; a decisive match may be  *)
(* left unextended; linear resolution answers alike or names a branching.  *)
ScopeResolutionRight(g, scope, name, query, bounds) ==
    LET works == PathsOf(g, query, name, {[path |-> new_path(scope), state |-> query.start]})
        reachable == Reachable(g, query, name, works)
        full == compute_query(g, scope, name, query, Unlimited)
        limited(k) == compute_query(g, scope, name, query, bounds[k])
        patient == compute_query(g, scope, name, [query EXCEPT !.stops = FALSE], Unlimited)
        linear(limits) == try_compute_linear_query(g, scope, name, query, limits)
    IN  /\ Range(full.candidates) = Visible(g, query, reachable)
        /\ Len(full.candidates) = Cardinality(Range(full.candidates))
        /\ full.found = Cardinality(reachable) /\ full.budget.expanded = Cardinality(works)
        /\ ~is_truncated(full.budget)
        /\ \A k \in DOMAIN bounds :
             /\ is_truncated(limited(k).budget) <=>
                  \/ \E w \in works : bounds[k].length # None /\ Len(w.path.edges) > bounds[k].length
                  \/ /\ bounds[k].paths # None
                     /\ bounds[k].paths < Cardinality({w \in works :
                          bounds[k].length = None \/ Len(w.path.edges) <= bounds[k].length})
             /\ ~is_truncated(limited(k).budget) => limited(k).candidates = full.candidates
             /\ linear(bounds[k]).error = None => linear(bounds[k]) = limited(k)
        /\ (\A l \in {g.edges[e].label : e \in g.live} : <<Declaration, l>> \in query.order) =>
               Range(patient.candidates) = Range(full.candidates)
        /\ linear(Unlimited).error # None =>
             \E w \in works : \/ Cardinality({c \in reachable : c[2] = w.path}) > 1
                              \/ Cardinality({o \in works : Len(o.path.edges) > 0 /\
                                                Front(o.path.edges) = w.path.edges}) > 1
ScopeIndexRight(g, query) ==
    LET index == compute_index(g, query, Unlimited)
        sees(r, d) == \E c \in Range(index.resolutions[r].candidates) : c[1] = d
    IN  \A d \in DOMAIN g.data :
          /\ Range(references_to(index, d)) = {<<d, r>> : r \in {x \in DOMAIN g.references : sees(x, d)}}
          /\ Len(references_to(index, d)) = Cardinality(Range(references_to(index, d)))
=============================================================================

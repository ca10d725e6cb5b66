----------------------------- MODULE PathBudget -----------------------------
(***************************************************************************)
(* The limits and the frontier that the searches for paths share           *)
(* (src/crates/cfglib/src/graph/search/path_budget.rs, path_frontier.rs).  *)
(* A limit is a number or None.                                            *)
(***************************************************************************)
EXTENDS Integers, Sequences, FiniteSets, SequencesExt

CONSTANT None            \* Option::None

Unlimited == [length |-> None, paths |-> None, complete |-> None]

new_budget(limits) ==
    [limits |-> limits, expanded |-> 0, completed |-> 0, path_length_limited |-> FALSE,
     path_count_limited |-> FALSE, complete_path_count_limited |-> FALSE]

(* Mutant of admit_expansion: the last path that fits the limit already    *)
(* counts as one too many.                                                 *)
admit_expansion_early(b) ==
    IF b.limits.paths # None /\ b.expanded + 1 >= b.limits.paths
    THEN [ok |-> FALSE, budget |-> [b EXCEPT !.path_count_limited = TRUE]]
    ELSE [ok |-> TRUE, budget |-> [b EXCEPT !.expanded = @ + 1]]

admit_expansion(b) ==
    IF b.limits.paths # None /\ b.expanded >= b.limits.paths
    THEN [ok |-> FALSE, budget |-> [b EXCEPT !.path_count_limited = TRUE]]
    ELSE [ok |-> TRUE, budget |-> [b EXCEPT !.expanded = @ + 1]]

admit_length(b, extended_len) ==
    IF b.limits.length # None /\ extended_len > b.limits.length
    THEN [ok |-> FALSE, budget |-> [b EXCEPT !.path_length_limited = TRUE]]
    ELSE [ok |-> TRUE, budget |-> b]

admit_complete(b, retained) ==
    LET counted == [b EXCEPT !.completed = @ + 1]
    IN  IF b.limits.complete = None \/ retained < b.limits.complete
        THEN [ok |-> TRUE, budget |-> counted]
        ELSE [ok |-> FALSE, budget |-> [counted EXCEPT !.complete_path_count_limited = TRUE]]

is_truncated(b) ==
    b.path_length_limited \/ b.path_count_limited \/ b.complete_path_count_limited
-----------------------------------------------------------------------------
(* Prefixes pushed since the last pop are popped in the order pushed,      *)
(* depth first too.                                                        *)
new_frontier(order) == [order |-> order, queue |-> << >>, pending |-> 0]
push_prefix(f, x) == [f EXCEPT !.queue = Append(@, x), !.pending = @ + 1]
pop_prefix(f) ==
    LET turned == SubSeq(f.queue, 1, Len(f.queue) - f.pending) \o
                  Reverse(SubSeq(f.queue, Len(f.queue) - f.pending + 1, Len(f.queue)))
    IN  IF f.order = "breadth"
        THEN [item |-> Head(f.queue),
              frontier |-> [f EXCEPT !.queue = Tail(@), !.pending = 0]]
        ELSE [item |-> Last(turned),
              frontier |-> [f EXCEPT !.queue = Front(turned), !.pending = 0]]
=============================================================================

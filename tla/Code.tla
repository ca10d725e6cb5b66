-------------------------------- MODULE Code --------------------------------
(***************************************************************************)
(* Instructions in the blocks of a graph, and what flows between them: the *)
(* points at which an edge leaves its block, the definitions that reach a  *)
(* point, the variables that are live there and the instructions nothing   *)
(* needs (src/crates/cfglib/src/dataflow/unwind.rs, reaching.rs,           *)
(* def_use.rs, liveness.rs; analysis/dead_code.rs, transform/dce.rs).      *)
(***************************************************************************)
EXTENDS DomTrees

(* A graph with a kind for each edge and instructions for each block.  An  *)
(* instruction reads uses, then writes defs; when it throws, control       *)
(* leaves by an unwind edge before it has written anything.                *)
Root == 0
Inst(c, p) == c.insts[p[1]][p[2]]
End(c, b) == <<b, Len(c.insts[b]) + 1>>
Points(c) == UNION {{<<b, i>> : i \in DOMAIN c.insts[b]} : b \in c.live}
Variables(c) == UNION {Range(Inst(c, p).uses) \cup Range(Inst(c, p).defs) : p \in Points(c)}
Indices(c, b) == [i \in DOMAIN c.insts[b] |-> i]
-----------------------------------------------------------------------------
is_unwind_edge(c, e) == c.kinds[e] = "unwind"
unwind_edges(c, b) == SelectSeq(incident(c, b, "out"), LAMBDA e : is_unwind_edge(c, e))
Throwing(c, b) == SelectSeq(Indices(c, b), LAMBDA i : c.insts[b][i].throws)
departs_before_throws(c, e) == is_unwind_edge(c, e) /\ Throwing(c, c.edges[e][1]) # << >>
first_unwind_point(c, b) ==
    IF unwind_edges(c, b) = << >> \/ Throwing(c, b) = << >> THEN None ELSE Head(Throwing(c, b))
unwound(c, p) == first_unwind_point(c, p[1]) # None /\ p[2] >= first_unwind_point(c, p[1])
unwind_reach(c, b) ==
    LET targets == [k \in DOMAIN unwind_edges(c, b) |-> c.edges[unwind_edges(c, b)[k]][2]]
    IN  reachable_in(c, Without(targets, {b}), "out", c.live \ {b})

(* Where an edge leaves its source, and where the edges into b come from.  *)
departures(c, e) ==
    LET b == c.edges[e][1]
    IN  IF departs_before_throws(c, e)
        THEN [k \in DOMAIN Throwing(c, b) |-> <<b, Throwing(c, b)[k]>>]
        ELSE <<End(c, b)>>
arrivals(c, b) ==
    FlattenSeq([k \in DOMAIN incident(c, b, "in") |-> departures(c, incident(c, b, "in")[k])])
-----------------------------------------------------------------------------
(* Reaching definitions, pairs of a variable and the point that wrote it,  *)
(* as the least solution that EdgeFixpoint finds over reached blocks.      *)

(* Mutant of define: nothing is killed.                                    *)
define_keeping(set, site, defs) == set \cup {<<x, site>> : x \in Range(defs)}

define(set, site, defs) ==
    {d \in set : d[1] \notin Range(defs)} \cup {<<x, site>> : x \in Range(defs)}

reaching_before(c, p, input) ==
    FoldLeft(LAMBDA s, i : define(s, <<p[1], i>>, c.insts[p[1]][i].defs), input,
             [i \in 1..(p[2] - 1) |-> i])
reaching_along(c, e, input) ==
    UNION {reaching_before(c, p, input) : p \in Range(departures(c, e))}
RECURSIVE reaching_from(_, _, _)
reaching_from(c, reached, fact) ==
    LET next == [b \in c.live |->
                   UNION {reaching_along(c, e, fact[c.edges[e][1]]) :
                            e \in {d \in Range(incident(c, b, "in")) : c.edges[d][1] \in reached}}]
    IN  IF next = fact THEN fact ELSE reaching_from(c, reached, next)
reaching_in(c) ==
    LET reached == reachable(c, <<Root>>, "out")
        fact == reaching_from(c, reached, [b \in c.live |-> {}])
    IN  [b \in c.live |-> IF b \in reached THEN fact[b] ELSE {}]

(* Def-use chains: for each instruction that reads, what may have written. *)
defs_of(c, reaching, p) ==
    {d[2] : d \in {r \in reaching_before(c, p, reaching[p[1]]) : r[1] \in Range(Inst(c, p).uses)}}
uses_of(c, reaching, site) == {p \in Points(c) : site \in defs_of(c, reaching, p)}
dead_defs(c, reaching) ==
    {p \in Points(c) : Inst(c, p).defs # << >> /\ uses_of(c, reaching, p) = {}}
-----------------------------------------------------------------------------
(* Liveness: what each block reads, writes, and writes before it can throw,*)
(* and a stack of blocks whose successors have changed.                    *)
reads_of(c, b) ==
    FoldRight(LAMBDA i, r : (r \ Range(i.defs)) \cup Range(i.uses), c.insts[b], {})
writes_of(c, b) == UNION {Range(i.defs) : i \in Range(c.insts[b])}
before_unwind(c, b) ==
    LET first == IF Throwing(c, b) = << >> THEN Len(c.insts[b]) + 1 ELSE Head(Throwing(c, b))
    IN  UNION {Range(c.insts[b][i].defs) : i \in 1..(first - 1)}
block_rows(c) ==
    [b \in c.live |-> [reads |-> reads_of(c, b), writes |-> writes_of(c, b),
                       before_unwind |-> before_unwind(c, b)]]

flowing_out(c, live_in, b) ==
    UNION {live_in[c.edges[e][2]] : e \in {d \in Range(incident(c, b, "out")) :
                                             ~departs_before_throws(c, d)}}
unwind_out(c, live_in, b) ==
    UNION {live_in[c.edges[e][2]] : e \in {d \in Range(incident(c, b, "out")) :
                                             departs_before_throws(c, d)}}

(* Mutant of live_row: what an unwind target reads is taken as written by  *)
(* any instruction of the block.                                           *)
live_row_at_end(c, rows, seeds, live_in, b) ==
    ((flowing_out(c, live_in, b) \cup unwind_out(c, live_in, b) \cup seeds[b]) \ rows[b].writes)
        \cup rows[b].reads

live_row(c, rows, seeds, live_in, b) ==
    ((flowing_out(c, live_in, b) \cup seeds[b]) \ rows[b].writes) \cup rows[b].reads
        \cup (unwind_out(c, live_in, b) \ rows[b].before_unwind)
RECURSIVE live_from(_, _, _, _, _)
live_from(c, rows, seeds, live_in, worklist) ==
    IF worklist = << >> THEN live_in
    ELSE LET b == Last(worklist)
             rest == Front(worklist)
             next == live_row(c, rows, seeds, live_in, b)
         IN  IF next = live_in[b] THEN live_from(c, rows, seeds, live_in, rest)
             ELSE live_from(c, rows, seeds, [live_in EXCEPT ![b] = next],
                            rest \o Without(Firsts(predecessors(c, b)), Range(rest)))
solve(c, seeds) ==
    LET live_in == live_from(c, block_rows(c), seeds, [b \in c.live |-> {}], Sorted(c.live))
    IN  [live_in |-> live_in,
         live_out |-> [b \in c.live |-> flowing_out(c, live_in, b) \cup seeds[b]]]

step_backward(live, i, on_unwind) ==
    (live \ Range(i.defs)) \cup Range(i.uses) \cup (IF i.throws THEN on_unwind ELSE {})
live_on_unwind(c, facts, b) == unwind_out(c, facts.live_in, b)
(* What is live before point p of its block.                               *)
live_point(c, facts, p) ==
    FoldRight(LAMBDA i, live : step_backward(live, i, live_on_unwind(c, facts, p[1])),
              SubSeq(c.insts[p[1]], p[2], Len(c.insts[p[1]])), facts.live_out[p[1]])
-----------------------------------------------------------------------------
(* Dead code: an instruction is needed for its effect, because it throws,  *)
(* or because something needed reads what it writes.                       *)
forced(i) == i.effect \/ i.throws
exits_of(c, live_in, seeds, b) == flowing_out(c, live_in, b) \cup seeds[b]

needed(i, live) == forced(i) \/ i.defs = << >> \/ Range(i.defs) \cap live # {}

(* Backwards through a block: what is live, and the instructions nothing   *)
(* needs.                                                                  *)
replay(c, live_in, seeds, b) ==
    FoldRight(LAMBDA k, a :
                IF needed(c.insts[b][k], a.live)
                THEN [a EXCEPT !.live = step_backward(@, c.insts[b][k], unwind_out(c, live_in, b))]
                ELSE [a EXCEPT !.dead = @ \cup {<<b, k>>}],
              Indices(c, b), [live |-> exits_of(c, live_in, seeds, b), dead |-> {}])
RECURSIVE needed_live_in(_, _, _, _)
needed_live_in(c, seeds, live_in, worklist) ==
    IF worklist = << >> THEN live_in
    ELSE LET b == Last(worklist)
             rest == Front(worklist)
             live == live_in[b] \cup replay(c, live_in, seeds, b).live
         IN  IF live = live_in[b] THEN needed_live_in(c, seeds, live_in, rest)
             ELSE needed_live_in(c, seeds, [live_in EXCEPT ![b] = live],
                                 rest \o Without(Firsts(predecessors(c, b)), Range(rest)))
dead_code(c, seeds) ==
    LET live_in == needed_live_in(c, seeds, [b \in c.live |-> {}], Sorted(c.live))
    IN  [instructions |-> UNION {replay(c, live_in, seeds, b).dead : b \in c.live},
         unreachable_blocks |-> c.live \ reachable(c, <<Root>>, "out")]

(* A code with points taken out, and which of the old ones each block has. *)
retain(c, dead) ==
    LET kept == [b \in c.live |-> SelectSeq(Indices(c, b), LAMBDA i : <<b, i>> \notin dead)]
    IN  [code |-> [c EXCEPT !.insts = [b \in c.live |->
                     [k \in DOMAIN kept[b] |-> c.insts[b][kept[b][k]]]]],
         kept |-> kept]
dead_code_elimination(c, seeds) == retain(c, dead_code(c, seeds).instructions)
=============================================================================

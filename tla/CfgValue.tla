------------------------------ MODULE CfgValue ------------------------------
(***************************************************************************)
(* The value of a `Cfg`, the control-flow graph of                         *)
(* src/crates/cfglib/src/cfg: blocks of instructions over the graph store, *)
(* an entry, exception regions and cleanup records.                        *)
(*                                                                         *)
(* A value of the struct is a record c; a mutation is an operator from c   *)
(* to the new value, so that passes can compose mutations.  Slots count    *)
(* from 1 and 0 is the code's None.  Every instruction carries a tag no    *)
(* other has.  The order in which a block lists its edges is the subject   *)
(* of OrderedMultigraph and is left out here.                              *)
(***************************************************************************)
EXTENDS Integers, Sequences, FiniteSets, Rewrite

EdgeKind ==
    {"fallthrough", "true", "false", "unconditional", "back", "call",
     "call_return", "case", "jump", "indirect_jump", "indirect_call",
     "handler", "unwind", "leave", "resume", "continue_exception"}

EdgeRecord == [source : Nat, target : Nat, kind : EdgeKind]
HandlerType == [entry : Nat, body : Seq(SUBSET Nat), filter : Nat]
RegionType == [id : Nat, protected_blocks : SUBSET Nat,
               handlers : Seq(HandlerType), parent : Nat]
CleanupType == [handler : [region : Nat, index : Nat], resume_from : Nat,
                continuations : SUBSET [reason : STRING, resume : Nat]]
CfgType == [instructions : Seq(Seq(Nat)), edges : Seq(EdgeRecord),
            live_blocks : SUBSET Nat, live_edges : SUBSET Nat, entry : Nat,
            regions : Seq(RegionType), cleanups : Seq(CleanupType)]

Slots(c) == DOMAIN c.instructions
EdgeSlots(c) == DOMAIN c.edges
contains_block(c, b) == b \in c.live_blocks

outgoing(c, b) == {e \in c.live_edges : c.edges[e].source = b}
incoming(c, b) == {e \in c.live_edges : c.edges[e].target = b}
Incident(c, b) == outgoing(c, b) \cup incoming(c, b)
successors(c, b) == {c.edges[e].target : e \in outgoing(c, b)}

is_exceptional(kind) ==
    kind \in {"handler", "unwind", "resume", "continue_exception"}

(* The blocks reachable from S: the least set of blocks that contains S    *)
(* and the successors of its members.                                      *)
reachable(c, S) ==
    {b \in Slots(c) :
        \A T \in SUBSET Slots(c) :
            S \subseteq T /\ (\A a \in T : successors(c, a) \subseteq T)
                => b \in T}

(* The code `with_edge_payload` builds: one empty block, the entry.        *)
with_edge_payload ==
    [instructions |-> <<<<>>>>, edges |-> <<>>,
     live_blocks |-> {1}, live_edges |-> {}, entry |-> 1,
     regions |-> <<>>, cleanups |-> <<>>]
-----------------------------------------------------------------------------
(* Exception metadata.  A handler is [entry, body, filter]: a known body   *)
(* is <<its blocks>>, an unknown one <<>>; filter is the filter block of a *)
(* Filter handler and 0 in a handler of another kind.                      *)
Handlers(c) ==
    UNION {{c.regions[r].handlers[h] : h \in DOMAIN c.regions[r].handlers} :
              r \in DOMAIN c.regions}
Cleanups(c) == {c.cleanups[i] : i \in DOMAIN c.cleanups}

(* The blocks that exception metadata names by a single reference.         *)
anchors(c) ==
    ({h.entry : h \in Handlers(c)} \cup {h.filter : h \in Handlers(c)}
       \cup {k.resume_from : k \in Cleanups(c)}
       \cup UNION {{t.resume : t \in k.continuations} : k \in Cleanups(c)})
    \ {0}

dangling_anchors(c) == anchors(c) \ c.live_blocks
is_anchor(c, b) == b \in anchors(c)

Bodies(c) == {h.body[1] : h \in {g \in Handlers(c) : g.body # <<>>}}
ProtectedSets(c) == {c.regions[r].protected_blocks : r \in DOMAIN c.regions}

(* Mutant of can_fold_into: only the anchor rule.                          *)
can_fold_into_any_region(c, source, target) == ~is_anchor(c, target)

can_fold_into(c, source, target) ==
    /\ ~is_anchor(c, target)
    /\ \A S \in ProtectedSets(c) \cup Bodies(c) : source \in S <=> target \in S

(* S with `tail` wherever it holds `head`.                                 *)
Extended(S, head, tail) == IF head \in S THEN S \cup {tail} ELSE S

extend_handler(h, head, tail) ==
    [h EXCEPT !.body = [i \in DOMAIN @ |-> Extended(@[i], head, tail)]]

extend_region(region, head, tail) ==
    [region EXCEPT
       !.protected_blocks = Extended(@, head, tail),
       !.handlers = [h \in DOMAIN @ |-> extend_handler(@[h], head, tail)]]

extend_cleanup(k, head, tail) ==
    [k EXCEPT !.resume_from = IF @ = head THEN tail ELSE @]

(* Mutant: the head stays the block a cleanup resumes from.                *)
extend_leaving_resume(c, head, tail) ==
    [c EXCEPT !.regions = [r \in DOMAIN @ |-> extend_region(@[r], head, tail)]]

extend_exception_metadata_to_tail(c, head, tail) ==
    [c EXCEPT
       !.regions = [r \in DOMAIN @ |-> extend_region(@[r], head, tail)],
       !.cleanups = [i \in DOMAIN @ |-> extend_cleanup(@[i], head, tail)]]
-----------------------------------------------------------------------------
(* Structural mutation of the value c.                                     *)
new_block(c) ==
    [c EXCEPT !.instructions = Append(@, <<>>),
              !.live_blocks = @ \cup {Len(c.instructions) + 1}]

add_edge(c, source, target, kind) ==
    [c EXCEPT !.edges = Append(@, [source |-> source, target |-> target,
                                   kind |-> kind]),
              !.live_edges = @ \cup {Len(c.edges) + 1}]

remove_edges(c, E) == [c EXCEPT !.live_edges = @ \ E]

(* Mutant of remove_block: edges into the block survive it.                *)
remove_block_keeping_incoming(c, b) ==
    [c EXCEPT !.live_blocks = @ \ {b}, !.live_edges = @ \ outgoing(c, b)]

remove_block(c, b) ==
    [c EXCEPT !.live_blocks = @ \ {b}, !.live_edges = @ \ Incident(c, b)]

redirect_edges_to(c, old, target) ==
    [c EXCEPT !.edges = [e \in DOMAIN @ |->
        IF e \in incoming(c, old) THEN [@[e] EXCEPT !.target = target]
                                  ELSE @[e]]]

move_outgoing_edges(c, old, source) ==
    [c EXCEPT !.edges = [e \in DOMAIN @ |->
        IF e \in outgoing(c, old) THEN [@[e] EXCEPT !.source = source]
                                  ELSE @[e]]]

(* What a mapped mutation returns: the graph and what became of whom.      *)
Mapped(c, r) == [cfg |-> c, rewrite |-> r]

remove_block_mapped(c, b) ==
    Mapped(remove_block(c, b),
           record_block(record_removed_edges(new, Incident(c, b)), b, {}))

remove_edge_mapped(c, e) ==
    Mapped(remove_edges(c, {e}), record_removed_edges(new, {e}))

redirect_edges_to_mapped(c, old, target) ==
    Mapped(redirect_edges_to(c, old, target),
           record_kept_edges(new, incoming(c, old)))

redirect_edge_mapped(c, e, end, b) ==
    Mapped([c EXCEPT !.edges[e][end] = b], record_kept_edges(new, {e}))

(* Instructions [at..] move to a new block, and with them the exits and    *)
(* every exception role that is not a single entry point.                  *)
split_block_mapped(c, b, at) ==
    LET tail == Len(c.instructions) + 1
        fallthrough == Len(c.edges) + 1
        code == c.instructions[b]
        cut == [new_block(c) EXCEPT
                  !.instructions[b] = SubSeq(code, 1, at),
                  !.instructions[tail] = SubSeq(code, at + 1, Len(code))]
        moved == move_outgoing_edges(cut, b, tail)
        covered == extend_exception_metadata_to_tail(moved, b, tail)
        r == record_kept_edges(record_block(new, b, {b, tail}),
                               outgoing(c, b))
    IN  Mapped(add_edge(covered, b, tail, "fallthrough"),
               record_created_edge(record_created_block(r, tail), fallthrough))

(* Points are offsets in the original block, validated before anything is  *)
(* changed; every later point splits the tail the previous one made.       *)
SplitPointsValid(c, b, points) ==
    /\ \A i \in DOMAIN points : points[i] <= Len(c.instructions[b])
    /\ \A i \in 2..Len(points) : points[i - 1] < points[i]

split_block_at_two_points(c, b, p, q) ==
    LET first == split_block_mapped(c, b, p)
        second == split_block_mapped(first.cfg, Len(first.cfg.instructions),
                                     q - p)
    IN  Mapped(second.cfg,
               compose(compose(new, first.rewrite), second.rewrite))

CanContract(c, source, target, e) ==
    /\ source # target /\ target # c.entry
    /\ outgoing(c, source) = {e} /\ incoming(c, target) = {e}
    /\ ~is_exceptional(c.edges[e].kind)
    /\ can_fold_into(c, source, target)

contract_edge(c, source, target, e) ==
    LET filled == [c EXCEPT
                     !.instructions[source] = @ \o c.instructions[target],
                     !.instructions[target] = <<>>]
    IN  remove_block(move_outgoing_edges(remove_edges(filled, {e}),
                                         target, source), target)

contract_edge_rewrite(r, c, source, target, e) ==
    record_block(record_kept_edges(record_removed_edges(r, {e}),
                                   outgoing(c, target)),
                 target, {source})
-----------------------------------------------------------------------------
(* Compaction.  The survivors keep their order; a set loses the blocks     *)
(* that did not survive, and a single reference must not.                  *)
Rank(S, s) == Cardinality({t \in S : t <= s})
Slot(S, k) == CHOOSE s \in S : Rank(S, s) = k

renumbering(n, S) == [s \in 1..n |-> IF s \in S THEN Rank(S, s) ELSE 0]
BlockNumbers(c) == renumbering(Len(c.instructions), c.live_blocks)
EdgeNumbers(c) == renumbering(Len(c.edges), c.live_edges)

retain_surviving(S, nodes) == Renumbered(S, nodes)

renumber_handler(h, nodes) ==
    [h EXCEPT !.entry = nodes[@],
              !.body = [i \in DOMAIN @ |-> retain_surviving(@[i], nodes)],
              !.filter = IF @ = 0 THEN 0 ELSE nodes[@]]

renumber_region(region, nodes) ==
    [region EXCEPT
       !.protected_blocks = retain_surviving(@, nodes),
       !.handlers = [h \in DOMAIN @ |-> renumber_handler(@[h], nodes)]]

renumber_cleanup(k, nodes) ==
    [k EXCEPT !.resume_from = IF @ = 0 THEN 0 ELSE nodes[@],
              !.continuations = {[t EXCEPT !.resume = nodes[@]] : t \in @}]

compact(c) ==
    LET nodes == BlockNumbers(c)
        kept == [k \in 1..Cardinality(c.live_edges) |->
                    c.edges[Slot(c.live_edges, k)]]
    IN  [instructions |-> [k \in 1..Cardinality(c.live_blocks) |->
                              c.instructions[Slot(c.live_blocks, k)]],
         edges |-> [k \in DOMAIN kept |->
                      [kept[k] EXCEPT !.source = nodes[@],
                                      !.target = nodes[@]]],
         live_blocks |-> 1..Cardinality(c.live_blocks),
         live_edges |-> 1..Cardinality(c.live_edges),
         entry |-> nodes[c.entry],
         regions |-> [r \in DOMAIN c.regions |->
                        renumber_region(c.regions[r], nodes)],
         cleanups |-> [i \in DOMAIN c.cleanups |->
                        renumber_cleanup(c.cleanups[i], nodes)]]

(* `require` finds no number for a block it is asked about.                *)
CompactPanics(c) ==
    LET n == compact(c)
        Lost(before, after) == before # 0 /\ after = 0
    IN  \/ n.entry = 0
        \/ \E r \in DOMAIN c.regions : \E h \in DOMAIN c.regions[r].handlers :
              LET old == c.regions[r].handlers[h]
                  now == n.regions[r].handlers[h]
              IN  now.entry = 0 \/ Lost(old.filter, now.filter)
        \/ \E i \in DOMAIN c.cleanups :
              \/ Lost(c.cleanups[i].resume_from, n.cleanups[i].resume_from)
              \/ \E t \in n.cleanups[i].continuations : t.resume = 0
-----------------------------------------------------------------------------
(* Regions and cleanups.                                                   *)
add_region(c, region) ==
    [c EXCEPT !.regions = Append(@, [region EXCEPT !.id = Len(c.regions) + 1])]

(* Mutant of remove_region: cleanups keep naming the handlers that went.   *)
remove_region_keeping_cleanups(c, id) ==
    [c EXCEPT !.regions[id] = [id |-> id, protected_blocks |-> {},
                               handlers |-> <<>>, parent |-> 0]]

(* The entries of s at the positions I, in their order.                    *)
retain(s, I) == [k \in 1..Cardinality(I) |-> s[Slot(I, k)]]

(* The slot stays, blank, and the cleanups of its handlers go.             *)
remove_region(c, id) ==
    LET stays == {i \in DOMAIN c.cleanups : c.cleanups[i].handler.region # id}
    IN  [c EXCEPT !.regions[id] = [id |-> id, protected_blocks |-> {},
                                   handlers |-> <<>>, parent |-> 0],
                  !.cleanups = retain(@, stays)]

Unenterable(c) ==
    {id \in DOMAIN c.regions :
       /\ c.regions[id].handlers # <<>>
       /\ \A h \in DOMAIN c.regions[id].handlers :
             c.regions[id].handlers[h].entry \notin reachable(c, {c.entry})}

remove_unreachable_regions(c) ==
    LET doomed == Unenterable(c)
        stays == {i \in DOMAIN c.cleanups :
                     c.cleanups[i].handler.region \notin doomed}
    IN  [c EXCEPT !.regions = [id \in DOMAIN @ |->
                     IF id \in doomed
                     THEN [id |-> id, protected_blocks |-> {},
                           handlers |-> <<>>, parent |-> 0]
                     ELSE @[id]],
                  !.cleanups = retain(@, stays)]

HandlerRefs(c) ==
    UNION {{[region |-> r, index |-> h] : h \in DOMAIN c.regions[r].handlers} :
              r \in DOMAIN c.regions}

(* c with a cleanup record for `handler`, and that record's position.      *)
cleanup_entry(c, handler) ==
    IF \E k \in Cleanups(c) : k.handler = handler THEN c
    ELSE [c EXCEPT !.cleanups = Append(@,
            [handler |-> handler, resume_from |-> 0, continuations |-> {}])]

CleanupAt(c, handler) ==
    CHOOSE i \in DOMAIN c.cleanups : c.cleanups[i].handler = handler

set_cleanup_resume(c, handler, b) ==
    LET d == cleanup_entry(c, handler)
    IN  [d EXCEPT !.cleanups[CleanupAt(d, handler)].resume_from = b]

add_continuation(c, handler, reason, b) ==
    LET d == cleanup_entry(c, handler)
    IN  [d EXCEPT !.cleanups[CleanupAt(d, handler)].continuations =
            @ \cup {[reason |-> reason, resume |-> b]}]

Tags(c, B) ==
    UNION {{c.instructions[b][i] : i \in DOMAIN c.instructions[b]} : b \in B}

(* No tag is in two places.                                                *)
Once(c) ==
    \A x, y \in Slots(c) :
       \A i \in DOMAIN c.instructions[x], j \in DOMAIN c.instructions[y] :
          c.instructions[x][i] = c.instructions[y][j] => x = y /\ i = j
=============================================================================

--------------------------- MODULE AddressBuilder ---------------------------
(***************************************************************************)
(* The builder of a Cfg from instructions with addresses: the flows of     *)
(* instructions and their transfers (src/crates/cfglib/src/flow/           *)
(* transfer.rs), leaders, blocks, edges and regions (builder/address.rs    *)
(* and its parts), and the unwind routes that are added to a built graph   *)
(* (builder/address/route).                                                *)
(*                                                                         *)
(* An instruction is [address, end, flow, retains]; an address is a number *)
(* from 1 on, and 0 is None.  In the graph it is its position in the       *)
(* stream.  The payload of an edge is what edge_payload is told of it.     *)
(***************************************************************************)
EXTENDS CfgValue, SequencesExt

Flow(op, target, cases) == [op |-> op, target |-> target, cases |-> cases]
flow_ends_block(f) == f.op # "next"
is_call(f) == f.op \in {"call", "indirect_call"}
direct_target(f) ==
    IF f.op \in {"jump", "conditional", "call", "exceptional"} THEN f.target ELSE 0

(* The role of an edge; `of` is a call site, or the index of a switch      *)
(* case, a handler or a route.                                             *)
EdgeRole(name, of) == [name |-> name, of |-> of]
Transfer(target, role) == [target |-> target, role |-> role]

transfers(f, source, next) ==
    LET continuation(role) == IF next = 0 THEN << >> ELSE <<Transfer(next, role)>>
        sequential == continuation(EdgeRole("sequential", 0))
        fall_through == continuation(EdgeRole("conditional_fall_through", 0))
        call_continuation == continuation(EdgeRole("call_continuation", source))
        named(name) == <<Transfer(f.target, EdgeRole(name, 0))>>
        computed(name) == <<Transfer(0, EdgeRole(name, 0))>>
    IN  CASE f.op \in {"return", "throw"} -> << >>
          [] f.op = "next" -> sequential
          [] f.op = "indirect" -> computed("jump")
          [] f.op = "jump" -> named("jump")
          [] f.op = "trap" -> computed("exceptional")
          [] f.op = "indirect_call" -> computed("call") \o call_continuation
          [] f.op = "call" -> named("call") \o call_continuation
          [] f.op = "conditional" -> named("conditional_taken") \o fall_through
          [] f.op = "conditional_indirect" -> computed("conditional_taken") \o fall_through
          [] f.op = "exceptional" -> named("exceptional") \o sequential
          [] f.op = "conditional_trap" -> computed("exceptional") \o sequential
          [] f.op = "switch" -> named("switch_default") \o
                [i \in DOMAIN f.cases |-> Transfer(f.cases[i], EdgeRole("switch_case", i))]

kind(role) ==
    CASE role.name = "sequential" -> "fallthrough"
      [] role.name = "conditional_taken" -> "true"
      [] role.name = "conditional_fall_through" -> "false"
      [] role.name = "jump" -> "jump"
      [] role.name \in {"switch_default", "switch_case"} -> "case"
      [] role.name = "call" -> "call"
      [] role.name = "call_continuation" -> "call_return"
      [] role.name \in {"exceptional", "unwind", "route"} -> "unwind"

(* The role a transfer is reported with when nothing is known at its       *)
(* target; a continuation has none.                                        *)
Computed == [jump |-> "indirect", call |-> "indirect_call",
             conditional_taken |-> "conditional_indirect", exceptional |-> "trap"]
unresolved_role(t) ==
    IF t.target # 0 THEN t.role ELSE [t.role EXCEPT !.name = Computed[@]]
is_reported(t) ==
    IF t.target = 0 THEN t.role.name \in DOMAIN Computed
    ELSE t.role.name \in {"conditional_taken", "jump", "switch_default", "switch_case",
                          "call", "exceptional"}
-----------------------------------------------------------------------------
(* Errors: the first one found ends the build.                             *)
Failure(error, address) == [error |-> error, address |-> address]
NoError == Failure("none", 0)
FirstError(errors) ==
    LET found == SelectSeq(errors, LAMBDA e : e # NoError)
    IN  IF found = << >> THEN NoError ELSE found[1]

Starts(code, a) == {p \in DOMAIN code : code[p].address = a}
Position(code, a) == CHOOSE p \in Starts(code, a) : TRUE
IsStart(code, a) == Starts(code, a) # {}
code_end(code) == IF code = << >> THEN 0 ELSE Max({code[p].end : p \in DOMAIN code})

inspect_instructions(code) ==
    FirstError([p \in DOMAIN code |->
        LET i == code[p]
        IN  IF i.end = 0 THEN Failure("AddressOverflow", i.address)
            ELSE IF i.end <= i.address THEN Failure("ZeroSizeInstruction", i.address)
            ELSE IF p > 1 /\ i.address <= code[p - 1].address
                 THEN Failure("UnorderedInstruction", i.address)
            ELSE NoError])

check_entry(code, entry) ==
    IF entry # 0 /\ ~IsStart(code, entry) THEN Failure("MissingEntry", entry) ELSE NoError

ends_block(f, policy) == flow_ends_block(f) /\ ~(policy = "flatten" /\ is_call(f))

collect_call_sites(code) ==
    LET calls == SelectSeq(code, LAMBDA i : is_call(i.flow))
    IN  [k \in DOMAIN calls |-> [source |-> calls[k].address,
                                 target |-> direct_target(calls[k].flow)]]
-----------------------------------------------------------------------------
(* Leaders are sets of positions.  A leader past the last one is dropped.  *)
mark_target(code, target) == Starts(code, target)
After(code, p) == {p + 1} \cap DOMAIN code
Targets(code, p) ==
    LET ts == transfers(code[p].flow, code[p].address, code[p].end)
    IN  UNION {mark_target(code, ts[k].target) : k \in DOMAIN ts}

(* Mutant of collect_sequence_leaders: code that overlaps is taken to run  *)
(* into the next instruction.                                              *)
collect_sequence_leaders_gaps_only(code) ==
    UNION {After(code, p) \cup mark_target(code, code[p].end) :
              p \in {q \in DOMAIN code : \A n \in After(code, q) :
                        code[q].end < code[n].address}}

collect_sequence_leaders(code) ==
    UNION {After(code, p) \cup mark_target(code, code[p].end) :
              p \in {q \in DOMAIN code : \A n \in After(code, q) :
                        code[q].end # code[n].address}}

collect_flow_leaders(code, policy) ==
    collect_sequence_leaders(code) \cup
    UNION {Targets(code, p) \cup After(code, p)
             \cup (IF code[p].flow.op = "exceptional" THEN {p} ELSE {}) :
              p \in {q \in DOMAIN code : ends_block(code[q].flow, policy)}}

(* Given edges are a function from addresses to sequences of               *)
(* [target, kind].                                                         *)
GivenAt(code, given, p) == code[p].address \in DOMAIN given

mark_given_leaders(code, given, p) ==
    LET edges == given[code[p].address]
    IN  [error |-> FirstError([k \in DOMAIN edges |->
                      IF IsStart(code, edges[k].target) THEN NoError
                      ELSE Failure("MissingGivenTarget", code[p].address)]),
         leaders |-> UNION {mark_target(code, edges[k].target) : k \in DOMAIN edges}
                     \cup (IF code[p].flow.op = "exceptional" THEN {p} ELSE {})
                     \cup After(code, p)]

mark_flow_leaders(code, policy, p) ==
    [error |-> IF is_call(code[p].flow) THEN NoError
               ELSE Failure("TransferWithoutGivenEdges", code[p].address),
     leaders |-> IF ends_block(code[p].flow, policy)
                 THEN Targets(code, p) \cup After(code, p) ELSE {}]

collect_given_leaders(code, given, policy) ==
    LET missing == {a \in DOMAIN given : ~IsStart(code, a)}
        marked == [p \in DOMAIN code |->
                     IF GivenAt(code, given, p) THEN mark_given_leaders(code, given, p)
                     ELSE IF flow_ends_block(code[p].flow)
                          THEN mark_flow_leaders(code, policy, p)
                     ELSE [error |-> NoError, leaders |-> {}]]
    IN  [error |-> IF missing # {} THEN Failure("MissingGivenSource", Min(missing))
                   ELSE FirstError([p \in DOMAIN code |-> marked[p].error]),
         leaders |-> collect_sequence_leaders(code) \cup
                     UNION {marked[p].leaders : p \in DOMAIN code}]

(* A protected range [start, end) as positions.                            *)
range_error(code, range) ==
    IF range.end <= range.start THEN Failure("EmptyProtectedRange", range.start)
    ELSE IF ~IsStart(code, range.start) THEN Failure("MissingRangeStart", range.start)
    ELSE IF range.end # code_end(code) /\ ~IsStart(code, range.end)
         THEN Failure("MissingRangeEnd", range.end)
    ELSE NoError
range_end(code, range) ==
    IF range.end = code_end(code) THEN Len(code) + 1 ELSE Position(code, range.end)
range_positions(code, range) == Position(code, range.start)..(range_end(code, range) - 1)

validate_handlers(code, handlers) ==
    LET H == DOMAIN handlers
        error == FirstError([h \in H |->
            FirstError(<<range_error(code, handlers[h].protected),
                         IF IsStart(code, handlers[h].entry) THEN NoError
                         ELSE Failure("MissingHandlerEntry", handlers[h].entry)>>)])
        start(h) == Position(code, handlers[h].protected.start)
        end(h) == range_end(code, handlers[h].protected)
        active(p) == Cardinality({h \in H : start(h) <= p}) - Cardinality({h \in H : end(h) <= p})
    IN  [error |-> error,
         leaders |-> IF error # NoError THEN {}
                     ELSE {start(h) : h \in H} \cup ({end(h) : h \in H} \cap DOMAIN code)
                          \cup {Position(code, handlers[h].entry) : h \in H}
                          \cup {p \in DOMAIN code : active(p) # 0}]
-----------------------------------------------------------------------------
(* A route is [protected, paths], a path [steps, end]: a step enters a     *)
(* funclet or makes a call, an end names a handler, propagates or resumes. *)
Step(what, at) == [step |-> what, at |-> at]
End(what, at) == [end |-> what, at |-> at]

Funclets(steps) == {k \in DOMAIN steps : steps[k].step = "funclet"}
Named(path) ==
    LET entered == SelectSeq(path.steps, LAMBDA s : s.step = "funclet")
    IN  [k \in DOMAIN entered |-> entered[k].at]
        \o (IF path.end.end = "handler" THEN <<path.end.at>> ELSE << >>)

ends_funclet(code, f) ==
    f.op = "return" \/ (f.op = "jump" /\ ~IsStart(code, f.target))

check_resume(index, route) ==
    IF \E path \in Range(route.paths) : path.end.end = "resume" /\ Funclets(path.steps) # {}
    THEN Failure("ResumeAfterFunclet", index) ELSE NoError

validate_routes(code, routes) ==
    LET named(r) == FoldLeft(LAMBDA s, path : s \o Named(path), << >>, routes[r].paths)
        error == FirstError([r \in DOMAIN routes |->
            FirstError(<<range_error(code, routes[r].protected), check_resume(r, routes[r])>> \o
                [k \in DOMAIN named(r) |-> IF IsStart(code, named(r)[k]) THEN NoError
                                          ELSE Failure("MissingRouteEntry", named(r)[k])])])
    IN  [error |-> error,
         leaders |->
            IF error # NoError THEN {}
            ELSE UNION {range_positions(code, routes[r].protected)
                          \cup ({range_end(code, routes[r].protected)} \cap DOMAIN code)
                          \cup {Position(code, a) : a \in Range(named(r))} : r \in DOMAIN routes}
                 \cup (IF routes = << >> THEN {}
                       ELSE {p \in DOMAIN code : ends_funclet(code, code[p].flow)})]
-----------------------------------------------------------------------------
(* Blocks: one begins at every leader.                                     *)
BlockOf(leaders, p) == 1 + Cardinality({q \in leaders : 1 < q /\ q <= p})

populate_blocks(code, leaders) ==
    LET last == IF code = << >> THEN 1 ELSE BlockOf(leaders, Len(code))
        held(b) == SetToSortSeq({p \in DOMAIN code : BlockOf(leaders, p) = b}, <)
    IN  [with_edge_payload EXCEPT !.instructions = [b \in 1..last |-> held(b)],
                                  !.live_blocks = 1..last]

(* An AddressGraph: the Cfg, the payload of each edge, the block of each   *)
(* address, and what was left over.                                        *)
add_edge_with_payload(g, source, target, k, payload) ==
    [g EXCEPT !.cfg = add_edge(@, source, target, k), !.payloads = Append(@, payload)]

AddressEdgeInfo(source, target, role) == [source |-> source, target |-> target, role |-> role]

add_given(g, code, block, p, edge) ==
    add_edge_with_payload(g, block, g.instruction_blocks[edge.target], edge.kind,
                          AddressEdgeInfo(code[p].address, edge.target, EdgeRole("given", 0)))

add_transfer(g, code, block, p, t) ==
    IF t.target # 0 /\ IsStart(code, t.target)
    THEN add_edge_with_payload(g, block, g.instruction_blocks[t.target], kind(t.role),
                               AddressEdgeInfo(code[p].address, t.target, t.role))
    ELSE IF is_reported(t)
         THEN [g EXCEPT !.unresolved = Append(@, [source |-> code[p].address,
                               target |-> t.target, role |-> unresolved_role(t)])]
    ELSE g

(* What leaves the block that ends at p.                                   *)
Leaves(code, p, policy) ==
    IF ends_block(code[p].flow, policy)
    THEN transfers(code[p].flow, code[p].address, code[p].end)
    ELSE <<Transfer(code[p].end, EdgeRole("sequential", 0))>>

continuation_error(code, p, t) ==
    IF t.role.name \in {"sequential", "call_continuation"} /\ ~IsStart(code, t.target)
    THEN Failure("MissingContinuation", code[p].address) ELSE NoError

emit(g, code, block, p, policy, strict) ==
    LET ts == Leaves(code, p, policy)
        error == FirstError([k \in DOMAIN ts |-> continuation_error(code, p, ts[k])])
    IN  IF strict /\ error # NoError THEN [g EXCEPT !.error = FirstError(<<@, error>>)]
        ELSE FoldLeft(LAMBDA h, t : add_transfer(h, code, block, p, t), g, ts)

(* Given edges are <<a function>>, or << >> when flows are used.           *)
add_normal_edges(g, code, policy, given) ==
    LET end_of(h, b) ==
            LET p == Last(h.cfg.instructions[b])
            IN  IF given # << >> /\ GivenAt(code, given[1], p)
                THEN FoldLeft(LAMBDA i, edge : add_given(i, code, b, p, edge), h,
                              given[1][code[p].address])
                ELSE emit(h, code, b, p, policy, given # << >>)
    IN  IF code = << >> THEN g
        ELSE FoldLeft(end_of, g, [b \in DOMAIN g.cfg.instructions |-> b])

add_exception_edges(g, code, handlers) ==
    LET unwind(h, k, p) ==
            IF code[Head(h.cfg.instructions[h.instruction_blocks[code[p].address]])].retains
            THEN add_edge_with_payload(h, h.instruction_blocks[code[p].address],
                     h.instruction_blocks[handlers[k].entry], "unwind",
                     AddressEdgeInfo(code[p].address, handlers[k].entry, EdgeRole("unwind", k)))
            ELSE h
        of_handler(h, k) ==
            FoldLeft(LAMBDA i, p : unwind(i, k, p), h,
                     SetToSortSeq(range_positions(code, handlers[k].protected), <))
    IN  FoldLeft(of_handler, g, [k \in DOMAIN handlers |-> k])

strictly_contains(outer, inner) ==
    outer # inner /\ outer.start <= inner.start /\ inner.end <= outer.end
Span(range) == range.end - range.start

(* Mutant of Drafts: the regions in the order of the table.                *)
Drafts_in_table_order(handlers) ==
    LET first == {k \in DOMAIN handlers : \A j \in 1..(k - 1) :
                     handlers[j].protected # handlers[k].protected}
    IN  SetToSortSeq(first, <)

(* The first handler of each region: wider regions first, then in the      *)
(* order of the table.                                                     *)
Drafts(handlers) ==
    LET first == {k \in DOMAIN handlers : \A j \in 1..(k - 1) :
                     handlers[j].protected # handlers[k].protected}
        span(k) == Span(handlers[k].protected)
    IN  SetToSortSeq(first, LAMBDA a, b : span(a) > span(b) \/ (span(a) = span(b) /\ a < b))

add_regions(g, code, handlers) ==
    LET drafts == Drafts(handlers)
        range(d) == handlers[drafts[d]].protected
        sharing(d) == SetToSortSeq({k \in DOMAIN handlers : handlers[k].protected = range(d)}, <)
        around(d) == {o \in 1..(d - 1) : strictly_contains(range(o), range(d))}
        parent(d) == IF around(d) = {} THEN 0
                     ELSE CHOOSE o \in around(d) : \A x \in around(d) :
                             Span(range(o)) < Span(range(x)) \/ (Span(range(o)) = Span(range(x)) /\ o <= x)
        region(d) ==
            [id |-> d,
             protected_blocks |-> {g.instruction_blocks[code[p].address] :
                                      p \in range_positions(code, range(d))},
             handlers |-> [i \in DOMAIN sharing(d) |->
                 [entry |-> g.instruction_blocks[handlers[sharing(d)[i]].entry],
                  body |-> << >>, filter |-> 0]],
             parent |-> parent(d)]
        ref(k) == CHOOSE r \in [region : DOMAIN drafts, index : DOMAIN handlers] :
                     r.index \in DOMAIN sharing(r.region) /\ sharing(r.region)[r.index] = k
    IN  [g EXCEPT !.cfg.regions = [d \in DOMAIN drafts |-> region(d)],
                  !.handler_refs = [k \in DOMAIN handlers |-> ref(k)]]

(* A request is [entry, calls, handlers, routes, given]; routes and given  *)
(* edges are << >> for None.  The result is an error or an AddressGraph.   *)
normal_leaders(code, request) ==
    IF request.given = << >>
    THEN [error |-> NoError, leaders |-> collect_flow_leaders(code, request.calls)]
    ELSE collect_given_leaders(code, request.given[1], request.calls)
route_leaders(code, request) ==
    IF request.routes = << >> THEN [error |-> NoError, leaders |-> {}]
    ELSE validate_routes(code, request.routes[1])
leaders_found(code, request, normal, handlers, routes) ==
    [error |-> FirstError(<<inspect_instructions(code), check_entry(code, request.entry),
                            normal.error, handlers.error, routes.error>>),
     leaders |-> (IF request.entry = 0 THEN {} ELSE Starts(code, request.entry))
                   \cup normal.leaders \cup handlers.leaders \cup routes.leaders]
populated(code, request, leaders) ==
    LET cfg == populate_blocks(code, leaders)
    IN  [error |-> NoError, payloads |-> << >>,
         cfg |-> IF request.entry = 0 THEN cfg
                 ELSE [cfg EXCEPT !.entry = BlockOf(leaders, Position(code, request.entry))],
         instruction_blocks |-> [a \in {code[p].address : p \in DOMAIN code} |->
                                    BlockOf(leaders, Position(code, a))],
         handler_refs |-> << >>, unresolved |-> << >>,
         calls |-> IF request.calls = "flatten" THEN collect_call_sites(code) ELSE << >>]
unwound_graph(g, code, request) ==
    IF g.error # NoError THEN [error |-> g.error]
    ELSE add_regions(IF request.routes = << >> THEN add_exception_edges(g, code, request.handlers)
                     ELSE g, code, request.handlers)
build_from(code, request, found) ==
    IF found.error # NoError THEN [error |-> found.error]
    ELSE unwound_graph(add_normal_edges(populated(code, request, found.leaders), code,
                                        request.calls, request.given), code, request)
build_address_graph(code, request) ==
    build_from(code, request,
               leaders_found(code, request, normal_leaders(code, request),
                             validate_handlers(code, request.handlers), route_leaders(code, request)))
-----------------------------------------------------------------------------
(* The tries of routes: a node is what may follow one funclet, a trie the  *)
(* sequence of distinct nodes.                                             *)
calls(steps) ==
    LET called == SelectSeq(steps, LAMBDA s : s.step = "call")
    IN  [k \in DOMAIN called |-> called[k].at]

Precedes(s, t) ==
    \E k \in 1..Len(t) : /\ k - 1 <= Len(s) /\ SubSeq(s, 1, k - 1) = SubSeq(t, 1, k - 1)
                         /\ (k <= Len(s) => s[k] < t[k])
KeyPrecedes(x, y) ==
    Precedes(x.calls, y.calls) \/ (x.calls = y.calls /\ x.address < y.address)

RECURSIVE intern(_, _, _)
intern(tries, funclet, paths) ==
    LET ending == {path \in paths : Funclets(path.steps) = {}}
        at(path) == Min(Funclets(path.steps))
        key(path) == [calls |-> calls(SubSeq(path.steps, 1, at(path) - 1)),
                      address |-> path.steps[at(path)].at]
        rest(path) == [path EXCEPT !.steps = SubSeq(@, at(path) + 1, Len(@))]
        child(acc, k) ==
            LET done == intern(acc.tries, k.address,
                            {rest(path) : path \in {q \in paths \ ending : key(q) = k}})
            IN  [tries |-> done.tries,
                 edges |-> acc.edges \cup {[calls |-> k.calls, child |-> done.id]}]
        grown == FoldLeft(child, [tries |-> tries, edges |-> {}],
                          SetToSortSeq({key(path) : path \in paths \ ending}, KeyPrecedes))
        node == [funclet |-> funclet, edges |-> grown.edges,
                 ends |-> {[calls |-> calls(path.steps), end |-> path.end] : path \in ending}]
        known == {n \in DOMAIN grown.tries : grown.tries[n] = node}
    IN  IF known # {} THEN [tries |-> grown.tries, id |-> CHOOSE n \in known : TRUE]
        ELSE [tries |-> Append(grown.tries, node), id |-> Len(grown.tries) + 1]

build_tries(routes) ==
    FoldLeft(LAMBDA acc, route :
                LET done == intern(acc.nodes, 0, Range(route.paths))
                IN  [nodes |-> done.tries, roots |-> Append(acc.roots, done.id)],
             [nodes |-> << >>, roots |-> << >>], routes)

RECURSIVE NodesUnder(_, _)
NodesUnder(nodes, n) == {n} \cup UNION {NodesUnder(nodes, e.child) : e \in nodes[n].edges}

first_routes(tries) ==
    [n \in DOMAIN tries.nodes |->
        Min({r \in DOMAIN tries.roots : n \in NodesUnder(tries.nodes, tries.roots[r])})]
-----------------------------------------------------------------------------
(* The blocks a funclet runs through, and those that return from it.       *)
Followed(c, e) == c.edges[e].kind \notin {"unwind", "call"}

RECURSIVE RunsThrough(_, _, _)
RunsThrough(c, seen, entries) ==
    LET next == {c.edges[e].target : e \in {x \in c.live_edges :
                    c.edges[x].source \in seen /\ Followed(c, x)}} \ (entries \cup seen)
    IN  IF next = {} THEN seen ELSE RunsThrough(c, seen \cup next, entries)

returns_to_runtime(c, code, b) ==
    /\ c.instructions[b] # << >>
    /\ LET f == code[Last(c.instructions[b])].flow
       IN  \/ f.op = "return"
           \/ f.op = "jump" /\ \A e \in outgoing(c, b) : ~Followed(c, e)

region_of(c, code, entry, entries) ==
    LET seen == RunsThrough(c, {entry}, entries)
    IN  [blocks |-> seen, returns |-> {b \in seen : returns_to_runtime(c, code, b)}]

clone_region(g, region, entry) ==
    LET c == g.cfg
        blocks == SetToSortSeq(region.blocks, <)
        copy(b) == Len(c.instructions) + (CHOOSE i \in DOMAIN blocks : blocks[i] = b)
        moved(b) == IF b \in region.blocks THEN copy(b) ELSE b
        es == SetToSortSeq({e \in c.live_edges : c.edges[e].source \in region.blocks},
                  LAMBDA x, y : \/ c.edges[x].source < c.edges[y].source
                                \/ c.edges[x].source = c.edges[y].source /\ x < y)
    IN  [graph |-> [g EXCEPT
            !.cfg.instructions = @ \o [i \in DOMAIN blocks |-> c.instructions[blocks[i]]],
            !.cfg.live_blocks = @ \cup {copy(b) : b \in region.blocks},
            !.cfg.edges = @ \o [i \in DOMAIN es |->
                [c.edges[es[i]] EXCEPT !.source = moved(@), !.target = moved(@)]],
            !.cfg.live_edges = @ \cup {Len(c.edges) + i : i \in DOMAIN es},
            !.payloads = @ \o [i \in DOMAIN es |-> g.payloads[es[i]]]],
         instance |-> [entry |-> copy(entry), returns |-> {copy(b) : b \in region.returns}]]

leading_block(g, code, a) ==
    IF a \notin DOMAIN g.instruction_blocks THEN Failure("MissingRouteEntry", a)
    ELSE IF code[Head(g.cfg.instructions[g.instruction_blocks[a]])].address # a
         THEN Failure("RouteAddressNotBlockStart", a)
    ELSE NoError

(* The blocks of a route whose instructions keep their exception edges, in *)
(* order.                                                                  *)
protected_error(g, code, routes) ==
    FirstError([r \in DOMAIN routes |->
        LET early == FirstError(<<range_error(code, routes[r].protected),
                                  check_resume(r, routes[r])>>)
        IN  IF early # NoError THEN early
            ELSE FirstError([p \in DOMAIN code |->
                    IF p \in range_positions(code, routes[r].protected)
                    THEN leading_block(g, code, code[p].address) ELSE NoError])])
protected_blocks(g, code, route) ==
    LET kept == SetToSortSeq({p \in range_positions(code, route.protected) : code[p].retains}, <)
    IN  [k \in DOMAIN kept |-> g.instruction_blocks[code[kept[k]].address]]

(* The funclet and the handlers of a node must lead their blocks.          *)
entry_error(g, code, node) ==
    LET handled == SetToSortSeq({[calls |-> e.calls, address |-> e.end.at] :
                                    e \in {x \in node.ends : x.end.end = "handler"}}, KeyPrecedes)
    IN  FirstError((IF node.funclet = 0 THEN << >> ELSE <<leading_block(g, code, node.funclet)>>)
                   \o [k \in DOMAIN handled |-> leading_block(g, code, handled[k].address)])

(* One way out of a block: a hop, and an edge unless this call already     *)
(* added one from the block to the same block.  A hop that leaves the      *)
(* function ends at 0.                                                     *)
way(em, code, source, route, calling, end) ==
    LET hop == [source |-> source, end |-> end, calls |-> calling]
        hopped == [em EXCEPT !.hops = @ \cup {hop}]
        c == em.graph.cfg
    IN  IF end = 0 \/ <<source, end>> \in em.added THEN hopped
        ELSE [hopped EXCEPT
                !.added = @ \cup {<<source, end>>},
                !.graph = add_edge_with_payload(@, source, end, "unwind",
                    AddressEdgeInfo(code[Last(c.instructions[source])].address,
                                    code[Head(c.instructions[end])].address,
                                    EdgeRole("route", route)))]

ways(em, code, instances, source, route, node) ==
    LET to(end) == CASE end.end = "handler" -> em.graph.instruction_blocks[end.at]
                     [] end.end = "propagate" -> 0
                     [] end.end = "resume" -> source
        all == {[calls |-> e.calls, end |-> instances[e.child].entry] : e \in node.edges}
               \cup {[calls |-> e.calls, end |-> to(e.end)] : e \in node.ends}
    IN  FoldLeft(LAMBDA acc, w : way(acc, code, source, route, w.calls, w.end), em, SetToSeq(all))

(* Mutant of Instances: every node uses the blocks themselves.             *)
Instances_shared(g, code, nodes) ==
    LET instance(node) ==
            LET a == node.funclet
            IN  IF a = 0 THEN [entry |-> 0, returns |-> {}]
                ELSE [entry |-> g.instruction_blocks[a],
                      returns |-> region_of(g.cfg, code, g.instruction_blocks[a], {}).returns]
    IN  [graph |-> g, instances |-> [n \in DOMAIN nodes |-> instance(nodes[n])]]

(* An instance of its funclet for every node: the first uses the blocks    *)
(* themselves, every other one copies.                                     *)
Instances(g, code, nodes) ==
    LET funclets == {nodes[n].funclet : n \in DOMAIN nodes} \ {0}
        entries == {g.instruction_blocks[a] : a \in funclets}
        regions == [a \in funclets |-> region_of(g.cfg, code, g.instruction_blocks[a], entries)]
        instance(acc, node) ==
            LET a == node.funclet
                entry == g.instruction_blocks[a]
                cloned == clone_region(acc.graph, regions[a], entry)
            IN  IF a = 0 THEN [acc EXCEPT !.instances = Append(@, [entry |-> 0, returns |-> {}])]
                ELSE IF a \notin acc.used
                THEN [acc EXCEPT !.used = @ \cup {a}, !.instances =
                         Append(@, [entry |-> entry, returns |-> regions[a].returns])]
                ELSE [acc EXCEPT !.graph = cloned.graph,
                                 !.instances = Append(@, cloned.instance)]
    IN  FoldLeft(instance, [graph |-> g, used |-> {}, instances |-> << >>], nodes)

(* The ways out of every protected block, then out of every return from an *)
(* instance.                                                               *)
emit_ways(g, code, routes, tries, first, made) ==
    LET nodes == tries.nodes
        from_protected(em, r) ==
            FoldLeft(LAMBDA acc, b : ways(acc, code, made.instances, b, r, nodes[tries.roots[r]]),
                     em, protected_blocks(g, code, routes[r]))
        from_returns(em, n) ==
            FoldLeft(LAMBDA acc, b : ways(acc, code, made.instances, b, first[n], nodes[n]),
                     em, SetToSortSeq(made.instances[n].returns, <))
    IN  FoldLeft(from_returns,
                 FoldLeft(from_protected, [graph |-> made.graph, added |-> {}, hops |-> {}],
                          [r \in DOMAIN routes |-> r]),
                 [n \in DOMAIN nodes |-> n])
routed_graph(emitted, made) ==
    [error |-> NoError, graph |-> emitted.graph, hops |-> emitted.hops, instances |-> made.instances]
add_instances(g, code, routes, tries, made) ==
    routed_graph(emit_ways(g, code, routes, tries, first_routes(tries), made), made)
add_tries(g, code, routes, tries) ==
    LET error == FirstError(<<protected_error(g, code, routes)>> \o
                            [n \in DOMAIN tries.nodes |-> entry_error(g, code, tries.nodes[n])])
    IN  IF error # NoError THEN [error |-> error]
        ELSE add_instances(g, code, routes, tries, Instances(g, code, tries.nodes))
add_unwind_routes(g, code, routes) == add_tries(g, code, routes, build_tries(routes))
-----------------------------------------------------------------------------
(* What a built graph must be.                                             *)
Block(g, code, p) == g.instruction_blocks[code[p].address]
Leading(g, b) == Head(g.cfg.instructions[b])

(* Whether p only runs on to its end address, and what leaves it.          *)
IsGiven(code, request, p) == request.given # << >> /\ GivenAt(code, request.given[1], p)
RunsOn(code, request, p) ==
    ~IsGiven(code, request, p) /\ ~ends_block(code[p].flow, request.calls)
Expected(code, request, p) ==
    IF IsGiven(code, request, p) THEN request.given[1][code[p].address]
    ELSE LET ts == SelectSeq(Leaves(code, p, request.calls), LAMBDA t : IsStart(code, t.target))
         IN  [k \in DOMAIN ts |-> [target |-> ts[k].target, kind |-> kind(ts[k].role)]]

(* The edges of a block that stem from no handler and no route.            *)
NormalEdges(g, b) ==
    {e \in outgoing(g.cfg, b) : g.payloads[e].role.name \notin {"unwind", "route"}}

(* Control runs through the blocks as it runs through the instructions:    *)
(* inside a block each one ends where the next begins, and from its end as *)
(* many edges of a kind lead to a block that begins with an instruction as *)
(* the last instruction has transfers to it.                               *)
RunsAsWritten(g, code, request) ==
    /\ FlattenSeq(g.cfg.instructions) = [p \in DOMAIN code |-> p]
    /\ code # << >> =>
          /\ Leading(g, g.cfg.entry) =
                IF request.entry = 0 THEN 1 ELSE Position(code, request.entry)
          /\ \A b \in Slots(g.cfg) :
                LET held == g.cfg.instructions[b]
                    last == Last(held)
                    expected == Expected(code, request, last)
                    edge(e) == [target |-> code[Leading(g, g.cfg.edges[e].target)].address,
                                kind |-> g.cfg.edges[e].kind]
                IN  /\ \A i \in 1..(Len(held) - 1) :
                          RunsOn(code, request, held[i])
                            /\ code[held[i]].end = code[held[i + 1]].address
                    /\ Cardinality(NormalEdges(g, b)) = Len(expected)
                    /\ \A x \in Range(expected) :
                          Cardinality({e \in NormalEdges(g, b) : edge(e) = x})
                            = Cardinality({k \in DOMAIN expected : expected[k] = x})

(* Transfers to nowhere are reported, once each and no others.             *)
ReportsAsWritten(g, code, request) ==
    LET lost(p) == IF IsGiven(code, request, p) THEN << >>
                   ELSE SelectSeq(Leaves(code, p, request.calls), LAMBDA t :
                            ~IsStart(code, t.target) /\ t.role.name \notin
                                {"sequential", "call_continuation", "conditional_fall_through"})
    IN  /\ Len(g.unresolved) = FoldLeft(LAMBDA n, p : n + Len(lost(p)), 0,
                                        [p \in DOMAIN code |-> p])
        /\ \A u \in Range(g.unresolved) : \A p \in Starts(code, u.source) :
              Cardinality({k \in DOMAIN g.unresolved : g.unresolved[k] = u}) =
              Cardinality({k \in DOMAIN lost(p) : lost(p)[k].target = u.target
                                                  /\ unresolved_role(lost(p)[k]) = u.role})

(* Every protected instruction is a block of its own, with one edge to     *)
(* each handler around it unless it keeps none or routes are used; a       *)
(* region is inside the narrowest one that contains it.                    *)
ProtectsAsWritten(g, code, request) ==
    LET covered(k) == range_positions(code, request.handlers[k].protected)
        region(k) == g.cfg.regions[g.handler_refs[k].region]
        to(k) == g.instruction_blocks[request.handlers[k].entry]
    IN  \A k \in DOMAIN request.handlers :
          /\ region(k).protected_blocks = {Block(g, code, p) : p \in covered(k)}
          /\ region(k).handlers[g.handler_refs[k].index].entry = to(k)
          /\ Leading(g, to(k)) = Position(code, request.handlers[k].entry)
          /\ \A p \in covered(k) : g.cfg.instructions[Block(g, code, p)] = <<p>>
          /\ \A p \in DOMAIN code :
                Cardinality({e \in outgoing(g.cfg, Block(g, code, p)) :
                                g.payloads[e].role = EdgeRole("unwind", k)
                                /\ g.payloads[e].source = code[p].address
                                /\ g.cfg.edges[e].target = to(k)})
                  = IF p \in covered(k) /\ code[p].retains /\ request.routes = << >> THEN 1 ELSE 0
          /\ LET around == {j \in DOMAIN request.handlers :
                                covered(k) \subseteq covered(j) /\ covered(k) # covered(j)}
                 inside(j) == region(k).parent = region(j).id
             IN  IF around = {} THEN region(k).parent = 0
                 ELSE \E j \in around : inside(j) /\ \A i \in around :
                         Span(request.handlers[j].protected) <= Span(request.handlers[i].protected)
(* A request is refused exactly when the stream is out of order, or the    *)
(* request names an address it must not, or leaves a transfer open.        *)
IsRange(code, range) ==
    /\ range.start < range.end /\ IsStart(code, range.start)
    /\ IsStart(code, range.end) \/ range.end = code_end(code)
IsSound(code, request) ==
    /\ \A p \in DOMAIN code : code[p].address < code[p].end
    /\ \A p, q \in DOMAIN code : p < q => code[p].address < code[q].address
    /\ request.entry # 0 => IsStart(code, request.entry)
    /\ \A k \in DOMAIN request.handlers :
          IsRange(code, request.handlers[k].protected) /\ IsStart(code, request.handlers[k].entry)
    /\ request.routes # << >> => \A r \in DOMAIN request.routes[1] :
          /\ IsRange(code, request.routes[1][r].protected)
          /\ \A path \in Range(request.routes[1][r].paths) :
                /\ path.end.end = "resume" => Funclets(path.steps) = {}
                /\ \A a \in Range(Named(path)) : IsStart(code, a)
    /\ request.given # << >> =>
          /\ \A a \in DOMAIN request.given[1] :
                IsStart(code, a) /\ \A x \in Range(request.given[1][a]) : IsStart(code, x.target)
          /\ \A p \in DOMAIN code : ~IsGiven(code, request, p) =>
                /\ code[p].flow.op \in {"next", "call", "indirect_call"}
                /\ IsStart(code, code[p].end)
-----------------------------------------------------------------------------
(* What the routes of an instruction say, and what the graph lets the      *)
(* runtime do: sequences of [calls, at], `at` the funclet or handler that  *)
(* is entered, 0 when the exception leaves.  A way ends in a funclet that  *)
(* never returns.                                                          *)
Hop(calling, at) == [calls |-> calling, at |-> at]

RECURSIVE PathWays(_, _, _)
PathWays(steps, last, endless) ==
    IF Funclets(steps) = {} THEN <<Hop(calls(steps), last)>>
    ELSE LET k == Min(Funclets(steps))
             hop == Hop(calls(SubSeq(steps, 1, k - 1)), steps[k].at)
         IN  IF steps[k].at \in endless THEN <<hop>>
             ELSE <<hop>> \o PathWays(SubSeq(steps, k + 1, Len(steps)), last, endless)

StatedWays(code, routes, p, endless) ==
    UNION {{PathWays(path.steps, CASE path.end.end = "handler" -> path.end.at
                                   [] path.end.end = "propagate" -> 0
                                   [] path.end.end = "resume" -> code[p].address, endless) :
               path \in Range(routes[r].paths)} :
              r \in {x \in DOMAIN routes : p \in range_positions(code, routes[x].protected)}}

RECURSIVE WalkedWays(_, _, _, _, _)
WalkedWays(res, code, entries, b, fuel) ==
    LET c == res.graph.cfg
        back(t) == RunsThrough(c, {t}, entries) \cap UNION {i.returns : i \in Range(res.instances)}
        further(t) == UNION {WalkedWays(res, code, entries, r, fuel - 1) : r \in back(t)}
        on(h) == LET hop == Hop(h.calls, IF h.end = 0 THEN 0 ELSE code[Head(c.instructions[h.end])].address)
                 IN  IF fuel = 0 \/ h.end \notin entries THEN {<<hop>>}
                     ELSE IF back(h.end) = {} THEN {<<hop>>}
                     ELSE {<<hop>> \o w : w \in further(h.end)}
    IN  UNION {on(h) : h \in {x \in res.hops : x.source = b}}

(* The runtime can take exactly the ways that are stated where the         *)
(* funclets share no block with each other, with handlers or with          *)
(* protected code, and at least those everywhere; and every hop to a block *)
(* has one edge.                                                           *)
RoutesAsWritten(g, res, code, routes) ==
    LET all == UNION {Range(routes[r].paths) : r \in DOMAIN routes}
        funclets == UNION {{path.steps[k].at : k \in Funclets(path.steps)} : path \in all}
        starts == {g.instruction_blocks[a] : a \in funclets}
        region == [a \in funclets |-> region_of(g.cfg, code, g.instruction_blocks[a], starts)]
        endless == {a \in funclets : region[a].returns = {}}
        kept == {p \in DOMAIN code : code[p].retains /\ \E r \in DOMAIN routes :
                    p \in range_positions(code, routes[r].protected)}
        apart == /\ \A a, b \in funclets : a # b => region[a].blocks \cap region[b].blocks = {}
                 /\ \A a \in funclets : region[a].blocks \cap
                       ({Block(g, code, p) : p \in kept} \cup {g.instruction_blocks[path.end.at] :
                           path \in {x \in all : x.end.end = "handler"}}) = {}
        entries == {i.entry : i \in Range(res.instances)} \ {0}
        routed == {e \in res.graph.cfg.live_edges : res.graph.payloads[e].role.name = "route"}
    IN  /\ \A p \in kept :
              LET walked == WalkedWays(res, code, entries, Block(g, code, p), 3)
                  stated == StatedWays(code, routes, p, endless)
              IN  stated \subseteq walked /\ (apart => walked = stated)
        /\ \A h \in res.hops : h.end # 0 =>
              Cardinality({e \in routed : res.graph.cfg.edges[e].source = h.source
                                         /\ res.graph.cfg.edges[e].target = h.end}) = 1
-----------------------------------------------------------------------------
(* A client reads a stream with gaps and overlaps, builds a graph of it,   *)
(* with an entry, handlers, routes or given edges, and adds unwind routes. *)
CONSTANTS ShortCode,     \* the longest stream of instructions of any flow
          LongCode       \* the longest stream of a few

VARIABLES code,          \* the stream
          request,       \* <<what is asked of the builder>>
          graph,         \* what it returned
          routed         \* <<the routes that were added and the answer>>

address_vars == <<code, request, graph, routed>>

Plain(op) == Flow(op, 0, << >>)
LongFlows ==
    {Plain("next"), Plain("return"), Flow("jump", 1, << >>), Flow("conditional", 3, << >>),
     Flow("call", 2, << >>)}
ShortFlows ==
    LongFlows
    \cup {Plain(op) : op \in {"throw", "indirect", "conditional_indirect", "indirect_call",
                              "trap", "conditional_trap"}}
    \cup {Flow(op, t, << >>) : op \in {"jump", "conditional", "call", "exceptional"},
                               t \in {1, 2, 5}}
    \cup {Flow("switch", 2, cases) : cases \in {<< >>, <<2, 5>>}}

(* A return keeps no exception edge.                                       *)
Instruction(address, end, flow) ==
    [address |-> address, end |-> end, flow |-> flow, retains |-> flow.op # "return"]
Row(flows) == [p \in DOMAIN flows |-> Instruction(p, p + 1, flows[p])]
IsRow == \A p \in DOMAIN code : code[p].address = p /\ code[p].end = p + 1

LastAddress == IF code = << >> THEN 0 ELSE Last(code).address
Append1(i) == code' = Append(code, i) /\ UNCHANGED <<request, graph, routed>>

Read ==
    /\ request = << >> /\ Len(code) < LongCode
    /\ Len(code) >= ShortCode => \A p \in DOMAIN code : code[p].flow \in LongFlows
    /\ \E address \in LastAddress + 1..LastAddress + 2, size \in {1, 2},
          f \in IF Len(code) < ShortCode THEN ShortFlows ELSE LongFlows :
          /\ code = << >> => address = 1
          /\ Append1(Instruction(address, address + size, f))

(* An instruction that is out of order or has no proper end.               *)
ReadMisplaced ==
    /\ request = << >> /\ Len(code) = 1
    /\ \E address \in {LastAddress, LastAddress + 1}, end \in {0, LastAddress + 1} :
          Append1(Instruction(address, end, Plain("next")))
-----------------------------------------------------------------------------
Plainly == [entry |-> 0, calls |-> "edges", handlers |-> << >>, routes |-> << >>, given |-> << >>]

Policies == {"edges", "flatten"}
PlainRequests == {[Plainly EXCEPT !.entry = entry, !.calls = policy] :
                     entry \in {0, 2}, policy \in Policies}

(* Up to three handlers over any ranges of a row, one of them bad.         *)
MCHandlers(entries) == [protected : [start : 1..3, end : 2..5], entry : entries]
Tables == {<<a, b>> : a, b \in MCHandlers({1, 3})}
          \cup {<<[protected |-> [start |-> 1, end |-> 4], entry |-> 2], a, b>> :
                   a, b \in MCHandlers({1})}

HandlerRequests == {[Plainly EXCEPT !.handlers = table] : table \in Tables}

Lists == {<< >>, <<[target |-> 1, kind |-> "jump"]>>, <<[target |-> 5, kind |-> "jump"]>>,
          <<[target |-> 2, kind |-> "true"], [target |-> 3, kind |-> "false"]>>}

GivenRequests ==
    UNION {{[Plainly EXCEPT !.given = <<given>>, !.calls = policy] :
               given \in [sources -> Lists], policy \in Policies} :
              sources \in SUBSET {1, 2, 3} \cup {{7}}}
-----------------------------------------------------------------------------
(* Code with funclets at 3 and 4, that return, jump out, run on into each  *)
(* other or never end, and a handler at 5.                                 *)
RouteRows ==
    {Row(<<Plain("next"), second, third, fourth, Plain("return")>>) :
        second \in {Plain("return"), Plain("next")},
        third \in {Plain("return"), Plain("next"), Flow("jump", 9, << >>), Flow("conditional", 4, << >>),
                   Flow("jump", 3, << >>)},
        fourth \in {Plain("return"), Plain("next")}}

F(a) == Step("funclet", a)
C == Step("call", 1)
MCPaths == [steps : {<< >>, <<C>>, <<F(3)>>, <<F(4)>>, <<C, F(3)>>, <<F(3), C>>, <<F(3), F(4)>>, <<F(4), F(3)>>},
            end : {End("handler", 5), End("propagate", 0), End("resume", 0)}]
MCRoutes ==
    {<<[protected |-> [start |-> 1, end |-> 3], paths |-> <<a, b>>]>> : a, b \in MCPaths}
    \cup {<<[protected |-> [start |-> 1, end |-> 2], paths |-> <<a>>],
            [protected |-> [start |-> 1, end |-> 3], paths |-> <<b>>]>> : a, b \in MCPaths}

RouteRequests == {[Plainly EXCEPT !.routes = <<routes>>] : routes \in MCRoutes}

Requests ==
    PlainRequests
    \cup (IF IsRow /\ Len(code) = LongCode THEN HandlerRequests \cup GivenRequests ELSE {})
    \cup (IF Len(code) = 5 THEN RouteRequests ELSE {})

Build ==
    /\ request = << >>
    /\ \E r \in Requests : request' = <<r>> /\ graph' = build_address_graph(code, r)
    /\ UNCHANGED <<code, routed>>

IsBuilt == request # << >> /\ graph.error = NoError

(* Routes are added to the graph that was built for them; a graph that was *)
(* not may have no block for them.                                         *)
AddRoutes ==
    /\ IsBuilt /\ routed = << >>
    /\ request[1].routes # << >> \/ request[1] = Plainly
    /\ \E routes \in IF request[1].routes # << >> THEN {request[1].routes[1]}
                      ELSE {<<[protected |-> [start |-> 1, end |-> 3],
                               paths |-> <<[steps |-> <<F(3)>>, end |-> End("handler", 2)]>>]>>} :
          routed' = <<routes, add_unwind_routes(graph, code, routes)>>
    /\ UNCHANGED <<code, request, graph>>

AddressInit == /\ code \in {<< >>} \cup RouteRows
          /\ request = << >> /\ graph = << >> /\ routed = << >>
AddressNext == Read \/ ReadMisplaced \/ Build \/ AddRoutes
AddressSpec == AddressInit /\ [][AddressNext]_address_vars
-----------------------------------------------------------------------------
(* The blocks run as the instructions do, lost transfers are reported,     *)
(* handlers are reached and nested, and nothing sound is refused.          *)
AddressesAsWritten ==
    request # << >> =>
        /\ graph.error = NoError <=> IsSound(code, request[1])
        /\ graph.error = NoError => /\ RunsAsWritten(graph, code, request[1])
                                    /\ ReportsAsWritten(graph, code, request[1])
                                    /\ ProtectsAsWritten(graph, code, request[1])

(* The graph lets the runtime take the ways its routes state.              *)
WaysAsWritten ==
    routed # << >> /\ routed[2].error = NoError =>
        RoutesAsWritten(graph, routed[2], code, routed[1])
=============================================================================

----------------------------- MODULE CfgBuilder -----------------------------
(***************************************************************************)
(* `CfgBuilder`, which turns a flat stream of instructions with structured *)
(* markers into a Cfg by keeping a stack of open scopes, and               *)
(* `resolve_jump_edges`, which wires explicit jumps afterwards             *)
(* (src/crates/cfglib/src/builder.rs).                                     *)
(*                                                                         *)
(* An instruction is its flow effect and its token: the label it defines   *)
(* or the target it jumps to, 0 for None.  In the graph it is its position *)
(* in the stream.                                                          *)
(***************************************************************************)
EXTENDS CfgValue

CONSTANTS Effects,     \* the flow effects of the stream
          Tokens,      \* the labels and jump targets, 0 for none
          MaxStream,   \* the longest stream
          MaxResolves  \* calls of resolve_jump_edges

FlowEffect ==
    {"fallthrough", "declaration", "call", "conditional_call", "indirect_call",
     "may_throw", "if", "else", "endif", "switch", "case", "endswitch", "loop",
     "endloop", "break", "conditional_break", "continue",
     "conditional_continue", "return", "terminate", "jump", "indirect_jump",
     "conditional_return", "label", "conditional_jump"}

ASSUME BuilderAssumption ==
    /\ Effects \subseteq FlowEffect /\ Tokens \subseteq Nat
    /\ {MaxStream, MaxResolves} \subseteq Nat

VARIABLES stream,      \* the instructions read so far
          cfg, current, scopes,
          result,      \* "building", "ok" or the error
          resolution   \* what resolve_jump_edges returned, and its calls

vars == <<stream, cfg, current, scopes, result, resolution>>

(* A scope: an If keeps its pre_block and arm_exits, a Switch break_exits  *)
(* too, a Loop its header and break_exits.                                 *)
If(pre) == [scope |-> "if", block |-> pre, arm_exits |-> <<>>,
            break_exits |-> <<>>]
Switch(pre) == [If(pre) EXCEPT !.scope = "switch"]
Loop(header) == [If(header) EXCEPT !.scope = "loop"]

Init ==
    /\ stream = <<>>
    /\ cfg = with_edge_payload
    /\ current = cfg.entry
    /\ scopes = <<>>
    /\ result = "building"
    /\ resolution = [calls |-> 0, resolved |-> 0, unresolved |-> {}]
-----------------------------------------------------------------------------
(* The k-th block created from c on, and the position of the instruction   *)
(* that is being read.                                                     *)
Fresh(c, k) == Len(c.instructions) + k
Here == Len(stream) + 1

push(c, b) == [c EXCEPT !.instructions[b] = Append(@, Here)]
new_blocks(c, n) == IF n = 1 THEN new_block(c) ELSE new_block(new_block(c))

(* An edge of the given kind from every listed block, in order.            *)
add_edges(c, exits, target, kind) ==
    [c EXCEPT !.edges = @ \o [i \in DOMAIN exits |->
                 [source |-> exits[i], target |-> target, kind |-> kind]],
              !.live_edges = @ \cup (Len(c.edges) + 1)..(Len(c.edges) + Len(exits))]

Top == scopes[Len(scopes)]
Outer == SubSeq(scopes, 1, Len(scopes) - 1)
InScope(kind) == scopes # <<>> /\ Top.scope = kind

Built(c, b, s) ==
    /\ cfg' = c /\ current' = b /\ scopes' = s
    /\ UNCHANGED <<result, resolution>>

(* An error ends the build and drops the graph.                            *)
Fail(error) ==
    /\ result' = error
    /\ UNCHANGED <<cfg, current, scopes, resolution>>

Push == Built(push(cfg, current), current, scopes)

end_block == Built(new_block(push(cfg, current)), Fresh(cfg, 1), scopes)

open_conditional ==
    LET true_block == Fresh(cfg, 1)
    IN  Built(add_edge(new_block(push(cfg, current)), current, true_block, "true"),
              true_block, Append(scopes, If(current)))

(* The top scope with the current block as the end of one more arm.        *)
ArmEnded == Append(Outer, [Top EXCEPT !.arm_exits = Append(@, current)])

alternate_conditional ==
    LET alternate == Fresh(cfg, 1)
    IN  IF InScope("if")
        THEN Built(push(add_edge(new_block(cfg), Top.block, alternate, "false"),
                        alternate), alternate, ArmEnded)
        ELSE Fail("UnmatchedElse")

(* Mutant of close_conditional: the false way always goes to the merge.    *)
close_conditional_always_false ==
    LET merge == Fresh(cfg, 1)
        merged == add_edges(new_block(cfg), Append(Top.arm_exits, current),
                            merge, "fallthrough")
    IN  IF InScope("if")
        THEN Built(add_edge(merged, Top.block, merge, "false"), merge, Outer)
        ELSE Fail("UnmatchedEndIf")

close_conditional ==
    LET merge == Fresh(cfg, 1)
        merged == add_edges(new_block(cfg), Append(Top.arm_exits, current),
                            merge, "fallthrough")
        has_alternate == \E e \in outgoing(cfg, Top.block) :
                            cfg.edges[e].kind = "false"
    IN  IF InScope("if")
        THEN Built(IF has_alternate THEN merged
                   ELSE add_edge(merged, Top.block, merge, "false"),
                   merge, Outer)
        ELSE Fail("UnmatchedEndIf")

open_switch ==
    LET first_case == Fresh(cfg, 1)
    IN  Built(add_edge(new_block(push(cfg, current)), current, first_case, "case"),
              first_case, Append(scopes, Switch(current)))

add_switch_case ==
    LET case_block == Fresh(cfg, 1)
    IN  IF InScope("switch")
        THEN Built(push(add_edge(new_block(cfg), Top.block, case_block, "case"),
                        case_block), case_block, ArmEnded)
        ELSE Fail("UnmatchedSwitchCase")

close_switch ==
    LET merge == Fresh(cfg, 1)
        merged == add_edges(new_block(cfg), Append(Top.arm_exits, current),
                            merge, "fallthrough")
    IN  IF InScope("switch")
        THEN Built(add_edges(merged, Top.break_exits, merge, "unconditional"),
                   merge, Outer)
        ELSE Fail("UnmatchedEndSwitch")

open_loop ==
    LET header == Fresh(cfg, 1)
    IN  Built(add_edge(new_block(push(cfg, current)), current, header, "fallthrough"),
              header, Append(scopes, Loop(header)))

close_loop ==
    LET post_loop == Fresh(cfg, 1)
    IN  IF InScope("loop")
        THEN Built(add_edges(new_block(add_edge(cfg, current, Top.block, "back")),
                             Top.break_exits, post_loop, "unconditional"),
                   post_loop, Outer)
        ELSE Fail("UnmatchedEndLoop")

(* Mutant of Innermost: only the top scope is looked at.                   *)
Innermost_top(kinds) ==
    IF scopes # <<>> /\ Top.scope \in kinds THEN Len(scopes) ELSE 0

(* The innermost open scope of one of the given kinds; 0 if there is none. *)
Innermost(kinds) ==
    LET S == {i \in DOMAIN scopes : scopes[i].scope \in kinds}
    IN  IF S = {} THEN 0 ELSE CHOOSE i \in S : \A j \in S : j <= i

record_break(b) ==
    [scopes EXCEPT ![Innermost({"loop", "switch"})].break_exits = Append(@, b)]

add_break ==
    IF Innermost({"loop", "switch"}) = 0 THEN Fail("BreakOutsideScope")
    ELSE Built(new_block(push(cfg, current)), Fresh(cfg, 1), record_break(current))

(* The two ways of a conditional transfer of the current block.            *)
Branch(c, taken, continuation) ==
    add_edge(add_edge(c, current, taken, "true"), current, continuation, "false")

add_conditional_break ==
    LET break_block == Fresh(cfg, 1)
        continuation == Fresh(cfg, 2)
    IN  IF Innermost({"loop", "switch"}) = 0 THEN Fail("BreakOutsideScope")
        ELSE Built(Branch(new_blocks(push(cfg, current), 2), break_block, continuation),
                   continuation, record_break(break_block))

loop_header == scopes[Innermost({"loop"})].block

add_continue ==
    IF Innermost({"loop"}) = 0 THEN Fail("ContinueOutsideLoop")
    ELSE Built(new_block(add_edge(push(cfg, current), current, loop_header, "back")),
               Fresh(cfg, 1), scopes)

(* Mutant of add_conditional_continue: the taken way is tagged a back edge. *)
add_conditional_continue_back ==
    IF Innermost({"loop"}) = 0 THEN Fail("ContinueOutsideLoop")
    ELSE Built(add_edge(add_edge(new_block(push(cfg, current)),
                                 current, loop_header, "back"),
                        current, Fresh(cfg, 1), "false"), Fresh(cfg, 1), scopes)

add_conditional_continue ==
    IF Innermost({"loop"}) = 0 THEN Fail("ContinueOutsideLoop")
    ELSE Built(Branch(new_block(push(cfg, current)), loop_header, Fresh(cfg, 1)),
               Fresh(cfg, 1), scopes)

add_conditional_return ==
    Built(Branch(new_blocks(push(cfg, current), 2), Fresh(cfg, 1), Fresh(cfg, 2)),
          Fresh(cfg, 2), scopes)

add_label ==
    LET label_block == Fresh(cfg, 1)
    IN  Built(push(add_edge(new_block(cfg), current, label_block, "fallthrough"),
                   label_block), label_block, scopes)

add_conditional_jump ==
    LET continuation == Fresh(cfg, 1)
    IN  Built(add_edge(new_block(push(cfg, current)), current, continuation, "false"),
              continuation, scopes)

process(effect) ==
    \/ /\ effect \in {"declaration", "fallthrough", "call", "conditional_call",
                      "indirect_call", "may_throw"}
       /\ Push
    \/ effect = "if" /\ open_conditional
    \/ effect = "else" /\ alternate_conditional
    \/ effect = "endif" /\ close_conditional
    \/ effect = "switch" /\ open_switch
    \/ effect = "case" /\ add_switch_case
    \/ effect = "endswitch" /\ close_switch
    \/ effect = "loop" /\ open_loop
    \/ effect = "endloop" /\ close_loop
    \/ effect = "break" /\ add_break
    \/ effect = "conditional_break" /\ add_conditional_break
    \/ effect = "continue" /\ add_continue
    \/ effect = "conditional_continue" /\ add_conditional_continue
    \/ effect \in {"return", "terminate", "jump", "indirect_jump"} /\ end_block
    \/ effect = "conditional_return" /\ add_conditional_return
    \/ effect = "label" /\ add_label
    \/ effect = "conditional_jump" /\ add_conditional_jump

(* Labels and jumps carry a token; other instructions have none.           *)
Instructions ==
    {i \in [effect : Effects, token : Tokens \cup {0}] :
        i.effect \notin {"label", "jump", "conditional_jump"} => i.token = 0}

Read(instruction) ==
    /\ result = "building" /\ Len(stream) < MaxStream
    /\ stream' = Append(stream, instruction)
    /\ process(instruction.effect)
-----------------------------------------------------------------------------
(* Mutant of TrimLast: the entry is trimmed too.                           *)
TrimLast_entry(c) ==
    LET last == CHOOSE b \in c.live_blocks : \A a \in c.live_blocks : a <= b
    IN  IF c.instructions[last] # <<>> \/ incoming(c, last) # {}
        THEN c ELSE remove_block(c, last)

(* Trailing blocks that are empty and that nothing enters are removed,     *)
(* last first; removing one may leave the one before it without an entry.  *)
TrimLast(c) ==
    LET last == CHOOSE b \in c.live_blocks : \A a \in c.live_blocks : a <= b
    IN  IF last = c.entry \/ c.instructions[last] # <<>> \/ incoming(c, last) # {}
        THEN c ELSE remove_block(c, last)

trim_trailing_empty(c) ==
    LET trimmed[k \in 0..Len(c.instructions)] ==
            IF k = 0 THEN c ELSE TrimLast(trimmed[k - 1])
    IN  trimmed[Len(c.instructions)]

finish ==
    /\ result = "building"
    /\ IF scopes # <<>> THEN Fail("UnclosedScopes")
       ELSE /\ cfg' = trim_trailing_empty(cfg)
            /\ result' = "ok"
            /\ UNCHANGED <<current, scopes, resolution>>
    /\ UNCHANGED stream

(* The block a token's label leads: the last that declares it, or 0.       *)
LabelBlock(c, token) ==
    LET S == {b \in c.live_blocks :
                /\ c.instructions[b] # <<>>
                /\ stream[Head(c.instructions[b])].effect = "label"
                /\ stream[Head(c.instructions[b])].token = token}
    IN  IF S = {} THEN 0 ELSE CHOOSE b \in S : \A a \in S : a <= b

Last(c, b) == stream[c.instructions[b][Len(c.instructions[b])]]

(* The blocks that end in a jump with a target.                            *)
Jumping(c) ==
    {b \in c.live_blocks :
        /\ c.instructions[b] # <<>>
        /\ Last(c, b).effect \in {"jump", "conditional_jump"}
        /\ Last(c, b).token # 0}

JumpEdge(c, b) ==
    [source |-> b, target |-> LabelBlock(c, Last(c, b).token),
     kind |-> IF Last(c, b).effect = "jump" THEN "jump" ELSE "true"]

(* Mutant of Unwired: edges that are there already are added again.        *)
Unwired_all(c) == {b \in Jumping(c) : LabelBlock(c, Last(c, b).token) # 0}

(* The jumps still to be wired; their edges are added in block order.      *)
Unwired(c) ==
    {b \in Jumping(c) :
        /\ LabelBlock(c, Last(c, b).token) # 0
        /\ \A e \in outgoing(c, b) : c.edges[e] # JumpEdge(c, b)}

resolve_jump_edges ==
    LET wired == Unwired(cfg)
        n == Cardinality(wired)
    IN  /\ result = "ok" /\ resolution.calls < MaxResolves
        /\ cfg' = [cfg EXCEPT
             !.edges = @ \o [k \in 1..n |-> JumpEdge(cfg, Slot(wired, k))],
             !.live_edges = @ \cup (Len(cfg.edges) + 1)..(Len(cfg.edges) + n)]
        /\ resolution' = [calls |-> resolution.calls + 1, resolved |-> n,
                          unresolved |-> {b \in Jumping(cfg) :
                                            LabelBlock(cfg, Last(cfg, b).token) = 0}]
        /\ UNCHANGED <<stream, current, scopes, result>>

Next ==
    \/ \E instruction \in Instructions : Read(instruction)
    \/ finish
    \/ resolve_jump_edges

Spec == Init /\ [][Next]_vars
-----------------------------------------------------------------------------
(* What a stream s says, by matching its markers and not by a stack.       *)
Closer == [if |-> "endif", switch |-> "endswitch", loop |-> "endloop"]
Openers == {"if", "switch", "loop"}
Closers == {"endif", "endswitch", "endloop"}

(* Positions i..j of s hold whole scopes, given which ranges further right *)
(* do.                                                                     *)
Whole(s, balanced, i, j) ==
    \/ i > j
    \/ s[i].effect \notin Openers \cup Closers /\ balanced[i + 1][j]
    \/ /\ s[i].effect \in Openers
       /\ \E k \in (i + 1)..j :
             /\ s[k].effect = Closer[s[i].effect]
             /\ balanced[i + 1][k - 1] /\ balanced[k + 1][j]
Balanced(s) ==
    LET balanced[i \in 1..(Len(s) + 1)] ==
            [j \in 0..Len(s) |-> Whole(s, balanced, i, j)]
    IN  balanced

(* The positions that close the scope opened at i; at most one does.       *)
Closings(s, i) ==
    {k \in (i + 1)..Len(s) :
        s[k].effect = Closer[s[i].effect] /\ Balanced(s)[i + 1][k - 1]}
Close(s, i) == CHOOSE k \in Closings(s, i) : TRUE

(* The innermost scope of one of the given kinds around p; 0 if none.      *)
Around(s, p, kinds) ==
    LET S == {i \in 1..(p - 1) : s[i].effect \in kinds /\ p <= Close(s, i)}
    IN  IF S = {} THEN 0 ELSE CHOOSE i \in S : \A j \in S : j <= i

Directly(s, p, kind) ==
    Around(s, p, Openers) # 0 /\ s[Around(s, p, Openers)].effect = kind
InPlace(s, p) ==
    CASE s[p].effect = "else" -> Directly(s, p, "if")
      [] s[p].effect = "case" -> Directly(s, p, "switch")
      [] s[p].effect \in {"break", "conditional_break"} ->
           Around(s, p, {"loop", "switch"}) # 0
      [] s[p].effect \in {"continue", "conditional_continue"} ->
           Around(s, p, {"loop"}) # 0
      [] OTHER -> TRUE
WellNested(s) ==
    Balanced(s)[1][Len(s)] /\ \A p \in DOMAIN s : InPlace(s, p)

(* s with what it leaves open closed, the last first.                      *)
Completed(s) ==
    LET open == {i \in DOMAIN s : s[i].effect \in Openers /\ Closings(s, i) = {}}
        n == Cardinality(open)
    IN  s \o [k \in 1..n |-> [effect |-> Closer[s[Slot(open, n + 1 - k)].effect],
                              token |-> 0]]

(* The builder takes the streams whose scopes nest, and no others; it      *)
(* refuses an instruction only when no way of closing the open scopes      *)
(* would have put it in place.                                             *)
TakesExactlyNestedStreams ==
    CASE result = "building" -> WellNested(Completed(stream))
      [] result = "ok" -> WellNested(stream)
      [] result = "UnclosedScopes" ->
           ~WellNested(stream) /\ WellNested(Completed(stream))
      [] OTHER -> ~WellNested(Completed(stream))

Effect(p) == stream[p].effect
Positions == DOMAIN stream
End == Len(stream) + 1

(* Where control goes that falls onto position p without running it.       *)
Passed(p) ==
    IF p = End THEN {}
    ELSE CASE Effect(p) \in {"endif", "endswitch"} -> {p + 1}
           [] Effect(p) = "endloop" -> {Around(stream, p, {"loop"}) + 1}
           [] Effect(p) \in {"else", "case"} -> {Close(stream, Around(stream, p, Openers)) + 1}
           [] OTHER -> {}
Falls(p) ==
    LET onto[k \in 0..End] ==
          IF k = 0 THEN {p} ELSE onto[k - 1] \cup UNION {Passed(q) : q \in onto[k - 1]}
    IN  {IF q = End THEN 0 ELSE q : q \in {r \in onto[End] : Passed(r) = {}}}

Arms(p, effect) == {q \in Positions : Effect(q) = effect /\ Around(stream, q, Openers) = p}
Label(token) ==
    LET S == {q \in Positions : Effect(q) = "label" /\ stream[q].token = token}
    IN  IF token = 0 \/ S = {} THEN {} ELSE {CHOOSE q \in S : \A r \in S : r <= q}
Target(p) == IF resolution.calls = 0 THEN {} ELSE Label(stream[p].token)

(* The instructions that may run right after position p; 0 when the        *)
(* function may end instead.                                               *)
Following(p) ==
    LET after == Falls(p + 1)
        out == Falls(Close(stream, Around(stream, p, {"loop", "switch"})) + 1)
        again == Falls(Around(stream, p, {"loop"}) + 1)
    IN  CASE Effect(p) = "if" ->
               after \cup (IF Arms(p, "else") = {} THEN Falls(Close(stream, p) + 1)
                           ELSE Arms(p, "else"))
          [] Effect(p) = "switch" -> after \cup Arms(p, "case")
          [] Effect(p) = "break" -> out
          [] Effect(p) = "conditional_break" -> after \cup out
          [] Effect(p) = "continue" -> again
          [] Effect(p) = "conditional_continue" -> after \cup again
          [] Effect(p) \in {"return", "terminate", "indirect_jump"} -> {0}
          [] Effect(p) = "conditional_return" -> after \cup {0}
          [] Effect(p) = "jump" -> IF Target(p) = {} THEN {0} ELSE Target(p)
          [] Effect(p) = "conditional_jump" -> after \cup Target(p)
          [] OTHER -> after

(* The instruction the graph runs first from the blocks B, and after       *)
(* position p.                                                             *)
First(B) ==
    LET through[k \in 0..Len(cfg.instructions)] ==
          IF k = 0 THEN B
          ELSE through[k - 1] \cup
                 UNION {successors(cfg, b) :
                           b \in {a \in through[k - 1] : cfg.instructions[a] = <<>>}}
    IN  UNION {IF cfg.instructions[b] # <<>> THEN {Head(cfg.instructions[b])}
               ELSE IF outgoing(cfg, b) = {} THEN {0} ELSE {} :
                  b \in through[Len(cfg.instructions)]}
BlockOf(p) ==
    CHOOSE b \in cfg.live_blocks : \E i \in DOMAIN cfg.instructions[b] :
                                      cfg.instructions[b][i] = p
Running(p) ==
    LET code == cfg.instructions[BlockOf(p)]
        i == CHOOSE j \in DOMAIN code : code[j] = p
    IN  IF i < Len(code) THEN {code[i + 1]}
        ELSE IF outgoing(cfg, BlockOf(p)) = {} THEN {0}
        ELSE First(successors(cfg, BlockOf(p)))

(* The finished graph runs the instructions of the stream in the orders    *)
(* the structured program does: from its beginning, and after every        *)
(* instruction, dead or not, those follow that the markers say.            *)
FlowsAsWritten ==
    result = "ok" =>
        /\ First({cfg.entry}) = Falls(1)
        /\ \A p \in Positions :
              Effect(p) \notin Closers => Running(p) = Following(p)

(* A branch has both its ways, and no other block has either: consumers    *)
(* tell the taken path from the other by the kind alone.                   *)
Ways(b, kind) == {e \in outgoing(cfg, b) : cfg.edges[e].kind = kind}
BranchesGoBothWays ==
    result = "ok" =>
        \A b \in cfg.live_blocks :
            LET effect == IF cfg.instructions[b] = <<>> THEN "fallthrough"
                          ELSE Last(cfg, b).effect
                fixed == {"if", "conditional_break", "conditional_continue",
                          "conditional_return"}
            IN  /\ effect \in fixed => Cardinality(Ways(b, "true")) = 1
                /\ effect \notin fixed \cup {"conditional_jump"} => Ways(b, "true") = {}
                /\ Cardinality(Ways(b, "true")) <= 1
                /\ (Ways(b, "false") # {}) <=> effect \in fixed \cup {"conditional_jump"}

(* The graph the builder returns is the one the stream was written for:    *)
(* the same instructions follow each other, and every branch is tagged     *)
(* with both its ways (builder.rs, build).                                 *)
GraphAsWritten == FlowsAsWritten /\ BranchesGoBothWays

(* Wiring the jumps again adds nothing and reports the same.               *)
ResolvesOnce ==
    [][resolve_jump_edges /\ resolution.calls > 0 =>
          /\ UNCHANGED cfg /\ resolution'.resolved = 0
          /\ resolution'.unresolved = resolution.unresolved]_vars

TypeOK ==
    /\ stream \in Seq([effect : FlowEffect, token : Nat])
    /\ cfg \in CfgType
    /\ current \in Slots(cfg) /\ cfg.entry \in cfg.live_blocks
    /\ \A i \in DOMAIN scopes :
          /\ scopes[i].scope \in {"if", "switch", "loop"}
          /\ scopes[i].block \in cfg.live_blocks
          /\ scopes[i].arm_exits \in Seq(cfg.live_blocks)
          /\ scopes[i].break_exits \in Seq(cfg.live_blocks)
    /\ \A e \in cfg.live_edges :
          {cfg.edges[e].source, cfg.edges[e].target} \subseteq cfg.live_blocks
    /\ resolution.unresolved \subseteq cfg.live_blocks
=============================================================================

------------------------------- MODULE Lower -------------------------------
(***************************************************************************)
(* Structured statements flattened into blocks and edges                   *)
(* (src/crates/cfglib/src/ir/hlil/lower.rs, lower/control.rs and           *)
(* lower/exception.rs).                                                    *)
(*                                                                         *)
(* A lowerer s is a record of what the code's Lowerer holds, with the      *)
(* blocks, edges <<from, to, role>> and regions its builder was given.  A  *)
(* block is a sequence of instructions [what, op, uses, defs, origin], a   *)
(* source <<block, role>> is an edge that waits for its target.  The steps *)
(* the code keeps on a stack are the operators' recursion; once error is   *)
(* set nothing more is lowered.                                            *)
(***************************************************************************)
EXTENDS Hlil

CONSTANT Throwing    \* the operations the consumer's builder says may throw

EntryBlock == 1
Fresh ==
    [blocks |-> <<<< >>>>, edges |-> << >>, regions |-> << >>, current |-> None,
     pending |-> <<<<EntryBlock, "entry">>>>, frames |-> << >>, tries |-> << >>,
     labels |-> << >>, forward |-> << >>, created |-> << >>, materialized |-> << >>,
     temporaries |-> 0, error |-> None]
Refuse(s, why) == [s EXCEPT !.error = why]

new_block(s) ==
    [s EXCEPT !.blocks = Append(@, << >>), !.created = Append(@, Len(s.blocks) + 1)]
Newest(s) == Len(s.blocks)
Edges(sources, to) == [i \in DOMAIN sources |-> <<sources[i][1], to, sources[i][2]>>]

(* The block that takes the next instruction: the join of what is pending  *)
(* when none is open.                                                      *)
block(s) ==
    IF s.current # None THEN s
    ELSE LET opened == new_block(s)
             b == Newest(opened)
         IN  [opened EXCEPT !.materialized = Append(@, b), !.current = b, !.pending = << >>,
                            !.edges = @ \o Edges(s.pending, b)]
Leaving(s, role) == IF s.current = None THEN << >> ELSE <<<<s.current, role>>>>
Taken(s) == [s EXCEPT !.current = None, !.pending = << >>]
seal(s) == [s EXCEPT !.current = None, !.pending = @ \o Leaving(s, "fallthrough")]
connect_to(s, b) ==
    [Taken(s) EXCEPT !.edges = @ \o Edges(Leaving(s, "jump") \o s.pending, b)]
take_continuation(s) == s.pending \o Leaving(s, "fallthrough")
take_transfer(s) == s.pending \o Leaving(s, "jump")

Instruction(what, op, uses, defs, origin) ==
    [what |-> what, op |-> op, uses |-> uses, defs |-> defs, origin |-> origin]
May_throw(i) == i.what \in {"op", "store"} /\ i.op \in Throwing
emit_innermost_only(s, i) ==
    LET open == block(s)
        b == open.current
        last == Len(open.tries)
    IN  [open EXCEPT !.blocks[b] = Append(@, i),
           !.tries = IF May_throw(i) /\ last > 0 THEN [@ EXCEPT ![last] = @ \cup {b}] ELSE @]
emit(s, i) ==
    LET open == block(s)
        b == open.current
    IN  [open EXCEPT !.blocks[b] = Append(@, i),
           !.tries = IF May_throw(i) THEN [k \in DOMAIN @ |-> @[k] \cup {b}] ELSE @]

temporary(s) == <<"temporary", s.temporaries + 1>>
Defining(s, what, op, uses, origin) ==
    emit([s EXCEPT !.temporaries = @ + 1], Instruction(what, op, uses, <<temporary(s)>>, origin))

(* The tree e evaluated into temporaries, operands first; its value joins  *)
(* values.  A variable is its own value.                                   *)
RECURSIVE flatten_onto(_, _, _)
flatten_onto(s, e, values) ==
    LET each(a, operand) == flatten_onto(a[1], operand, a[2])
        operands == FoldLeft(each, <<s, << >>>>, e[3])
        on == operands[1]
    IN  CASE e[1] = "var" -> <<s, Append(values, e[2])>>
          [] e[1] = "const" ->
               <<Defining(s, "const", e[2], << >>, e), Append(values, temporary(s))>>
          [] e[1] = "op" ->
               <<Defining(on, "op", e[2], operands[2], e), Append(values, temporary(on))>>
flatten_all(s, roots) ==
    FoldLeft(LAMBDA a, e : flatten_onto(a[1], e, a[2]), <<s, << >>>>, roots)
flatten_into(s, target, value, id) ==
    LET operands == flatten_all(s, value[3])
    IN  CASE value[1] = "var" -> emit(s, Instruction("copy", None, <<value[2]>>, <<target>>, id))
          [] value[1] = "const" -> emit(s, Instruction("const", value[2], << >>, <<target>>, id))
          [] value[1] = "op" ->
               emit(operands[1], Instruction("op", value[2], operands[2], <<target>>, id))
-----------------------------------------------------------------------------
(* Statements without bodies.                                              *)
lower_expression_statement(s, stmt) ==
    LET e == stmt.exprs[1]
        operands == flatten_all(s, e[3])
    IN  IF e[1] # "op" THEN s
        ELSE emit(operands[1], Instruction("op", e[2], operands[2], << >>, e))
lower_assign(s, stmt) ==
    LET target == stmt.exprs[1]
        operands == flatten_all(s, target[3])
        stored == flatten_onto(operands[1], stmt.exprs[2], operands[2])
    IN  CASE target[1] = "var" -> flatten_into(s, target[2], stmt.exprs[2], stmt.id)
          [] target[1] = "op" ->
               emit(stored[1], Instruction("store", target[2], stored[2], << >>, stmt.id))
          [] target[1] = "const" -> Refuse(s, "constant place")
lower_return(s, stmt) ==
    LET operands == flatten_all(s, stmt.exprs)
    IN  [emit(operands[1], Instruction("return", None, operands[2], << >>, stmt.id))
           EXCEPT !.current = None]

(* A branch or a dispatch ends its block, which is still current here.     *)
emit_branch(s, what, e, id) ==
    LET value == flatten_onto(s, e, << >>)
    IN  emit(value[1], Instruction(what, None, value[2], << >>, id))

Frame(label, kind, continue) ==
    [label |-> label, kind |-> kind, continue |-> continue, breaks |-> << >>]
push_frame(s, frame) == [s EXCEPT !.frames = Append(@, frame)]
pop_frame(s) == [s EXCEPT !.frames = Front(@)]
Breaks(s) == Last(s.frames).breaks
Innermost(s, test(_)) ==
    LET found == {i \in DOMAIN s.frames : test(s.frames[i])}
    IN  IF found = {} THEN None ELSE Max(found)

lower_break(s, stmt) ==
    LET sources == take_transfer(s)
        frame == Innermost(s, LAMBDA f : IF stmt.label = None THEN f.kind # "block"
                                         ELSE f.label = stmt.label)
    IN  IF sources = << >> THEN s
        ELSE IF frame = None THEN Refuse(s, "untargeted break")
        ELSE [Taken(s) EXCEPT !.frames[frame].breaks = @ \o sources]
lower_continue(s, stmt) ==
    LET sources == take_transfer(s)
        frame == Innermost(s, LAMBDA f : /\ f.kind = "loop"
                                         /\ stmt.label = None \/ f.label = stmt.label)
    IN  IF sources = << >> THEN s
        ELSE IF frame = None THEN Refuse(s, "untargeted continue")
        ELSE [Taken(s) EXCEPT !.edges = @ \o Edges(sources, s.frames[frame].continue)]
lower_goto(s, stmt) ==
    LET sources == take_transfer(s)
        waiting == IF stmt.label \in DOMAIN s.forward THEN s.forward[stmt.label] ELSE << >>
    IN  IF sources = << >> THEN s
        ELSE IF stmt.label \in DOMAIN s.labels
        THEN [Taken(s) EXCEPT !.edges = @ \o Edges(sources, s.labels[stmt.label])]
        ELSE [Taken(s) EXCEPT !.forward = (stmt.label :> (waiting \o sources)) @@ @]

adopt_forward_gotos(s, label) ==
    IF label \notin DOMAIN s.forward THEN s
    ELSE [s EXCEPT !.pending = @ \o s.forward[label],
                   !.forward = [l \in DOMAIN @ \ {label} |-> @[l]]]
register_label(s, label, entry) ==
    IF label = None THEN s ELSE [s EXCEPT !.labels = (label :> entry) @@ @]
-----------------------------------------------------------------------------
(* Statements with bodies.                                                 *)
RECURSIVE lower_body(_, _)
lower_if(s, stmt) ==
    LET opened == emit_branch(s, "branch", stmt.exprs[1], stmt.id)
        branch == opened.current
        on(a, role) == [Taken(a) EXCEPT !.pending = <<<<branch, role>>>>]
        then == lower_body(on(opened, "true"), stmt.bodies[1])
        else == lower_body(on(then, "false"), stmt.bodies[2])
    IN  [Taken(else) EXCEPT !.pending = take_continuation(then) \o take_continuation(else)]

(* After the loop: the breaks out of it, and the ways its test leaves it.  *)
Left(s, exits) == [pop_frame(s) EXCEPT !.pending = Breaks(s) \o exits]
lower_while(s, stmt, label) ==
    LET header == block(adopt_forward_gotos(seal(s), label))
        h == header.current
        tested == emit_branch(header, "branch", stmt.exprs[1], stmt.id)
        framed == push_frame(register_label(tested, label, h), Frame(label, "loop", h))
        inside == lower_body([Taken(framed) EXCEPT !.pending = <<<<h, "true">>>>], stmt.bodies[1])
    IN  Left(connect_to(inside, h), <<<<h, "false">>>>)

(* The latch comes before the blocks of the body; the loop is entered at   *)
(* the first of them that received pending edges.                          *)
lower_do_while(s, stmt, label) ==
    LET opened == new_block(adopt_forward_gotos(seal(s), label))
        latch == Newest(opened)
        mark == Len(opened.materialized) + 1
        inside == lower_body(push_frame(opened, Frame(label, "loop", latch)), stmt.bodies[1])
        entry == IF mark \in DOMAIN inside.materialized THEN inside.materialized[mark] ELSE latch
        left == register_label(pop_frame(connect_to(inside, latch)), label, entry)
        tested == emit_branch([left EXCEPT !.current = latch], "branch", stmt.exprs[1], stmt.id)
    IN  [Taken(tested) EXCEPT !.edges = Append(@, <<latch, entry, "true">>),
                              !.pending = Append(Breaks(inside), <<latch, "false">>)]
lower_loop(s, stmt, label) ==
    LET header == block(adopt_forward_gotos(seal(s), label))
        h == header.current
        framed == push_frame(register_label(header, label, h), Frame(label, "loop", h))
    IN  Left(connect_to(lower_body(framed, stmt.bodies[1]), h), << >>)
lower_for(s, stmt, label) ==
    LET adopted == adopt_forward_gotos(s, label)
        mark == Len(adopted.materialized) + 1
        opened == block(seal(lower_body(adopted, stmt.bodies[1])))
        head == opened.current
        bare == stmt.exprs = << >>
        tested == IF bare THEN opened
                  ELSE [Taken(emit_branch(opened, "branch", stmt.exprs[1], stmt.id))
                          EXCEPT !.pending = <<<<head, "true">>>>]
        labelled == register_label(tested, label, opened.materialized[mark])
        updates == stmt.bodies[3] # << >>
        made == IF updates THEN new_block(labelled) ELSE labelled
        on == IF updates THEN Newest(made) ELSE head
        inside == lower_body(push_frame(made, Frame(label, "loop", on)), stmt.bodies[2])
        updated == IF updates THEN lower_body([connect_to(inside, on) EXCEPT !.current = on],
                                              stmt.bodies[3])
                   ELSE inside
    IN  Left(connect_to(updated, head), IF bare THEN << >> ELSE <<<<head, "false">>>>)

lower_switch(s, stmt) ==
    LET opened == emit_branch(s, "switch", stmt.exprs[1], stmt.id)
        dispatch == opened.current
        values(k) == IF k > Len(stmt.parts) THEN <<<<dispatch, "default">>>>
                     ELSE [i \in DOMAIN stmt.parts[k] |-> <<dispatch, stmt.parts[k][i]>>]
        lower_switch_part(a, k) ==
          LET inside == lower_body([a[1] EXCEPT !.pending = values(k)], stmt.bodies[k])
          IN  <<Taken(inside), a[2] \o take_continuation(inside)>>
        all == FoldLeft(lower_switch_part,
                        <<push_frame(Taken(opened), Frame(None, "switch", None)), << >>>>,
                        [k \in DOMAIN stmt.bodies |-> k])
    IN  [pop_frame(all[1]) EXCEPT !.pending = all[2] \o Breaks(all[1])]

lower_loop_statement(s, stmt, label) ==
    CASE stmt.kind = "while" -> lower_while(s, stmt, label)
      [] stmt.kind = "do" -> lower_do_while(s, stmt, label)
      [] stmt.kind = "loop" -> lower_loop(s, stmt, label)
      [] stmt.kind = "for" -> lower_for(s, stmt, label)
lower_labeled(s, stmt) ==
    LET only == labeled_loop(stmt.bodies[1])
        opened == block(adopt_forward_gotos(seal(s), stmt.label))
        framed == push_frame(register_label(opened, stmt.label, opened.current),
                             Frame(stmt.label, "block", None))
        inside == lower_body(framed, stmt.bodies[1])
    IN  IF only # None THEN lower_loop_statement(s, only, stmt.label)
        ELSE [pop_frame(Taken(inside)) EXCEPT !.pending = take_continuation(inside) \o Breaks(inside)]

lower_region(s, stmt) ==
    LET hold(a, e) ==
          IF e[1] # "var" THEN flatten_onto(a[1], e, a[2])
          ELSE <<Defining(a[1], "copy", None, <<e[2]>>, e), Append(a[2], temporary(a[1]))>>
        held == FoldLeft(hold, <<s, << >>>>, stmt.exprs)
        entered == emit(held[1], Instruction("enter", stmt.parts, held[2], << >>, stmt.id))
        inside == lower_body(entered, stmt.bodies[1])
    IN  emit(inside, Instruction("exit", stmt.parts, held[2], << >>, stmt.id))
-----------------------------------------------------------------------------
(* A try: its body, each handler, entered from every block of the body     *)
(* that may throw, and the finally body, entered from those and from every *)
(* normal end.                                                             *)
Unwinding(s, throwing, entry) ==
    [s EXCEPT !.edges = @ \o [i \in DOMAIN SetToSortSeq(throwing, <) |->
                                <<SetToSortSeq(throwing, <)[i], entry, "unwind">>]]
blocks_from(s, start, entry) == Range(SubSeq(s.created, start + 1, Len(s.created))) \cup {entry}

lower_filter(s, body) ==
    LET opened == new_block(s)
        inside == lower_body([Taken(opened) EXCEPT !.current = Newest(opened)], body)
    IN  IF body = << >> THEN Refuse(s, "empty filter")
        ELSE IF inside.current # None \/ inside.pending # << >> THEN Refuse(inside, "filter completes")
        ELSE [inside EXCEPT !.current = s.current, !.pending = s.pending]
next_handler(a, stmt, throwing, h) ==
    LET handler == stmt.parts[h]
        at == HandlerAt(stmt, h)
        opened == Unwinding(new_block(a.s), throwing, Newest(new_block(a.s)))
        entry == Newest(opened)
        current == [Taken(opened) EXCEPT !.current = entry]
        bound == IF handler.binding = None THEN current
                 ELSE emit(current, Instruction("caught", None, << >>, <<handler.binding>>, stmt.id))
        filtered == IF handler.kind = "filter" THEN lower_filter(bound, stmt.bodies[at - 1]) ELSE bound
        inside == lower_body(filtered, stmt.bodies[at])
        record == [entry |-> entry, kind |-> handler.kind,
                   filter |-> IF handler.kind = "filter" THEN Len(bound.blocks) + 1 ELSE None,
                   blocks |-> blocks_from(inside, Len(filtered.created), entry)]
    IN  IF a.s.error # None THEN a
        ELSE IF filtered.error # None THEN [a EXCEPT !.s = filtered]
        ELSE [s |-> Taken(inside), normal |-> a.normal \o take_continuation(inside),
              handlers |-> Append(a.handlers, record)]
register_region(s, protected, handlers, id) ==
    IF protected = {} THEN s
    ELSE [s EXCEPT !.regions = Append(@, [of |-> id, protected |-> protected, handlers |-> handlers])]
lower_try(s, stmt) ==
    LET opened == [seal(s) EXCEPT !.tries = Append(@, {})]
        inside == lower_body(opened, stmt.bodies[1])
        throwing == Last(inside.tries)
        protected == Range(SubSeq(inside.created, Len(s.created) + 1, Len(inside.created)))
        closed == [Taken(inside) EXCEPT !.tries = Front(@)]
        all == FoldLeft(LAMBDA a, h : next_handler(a, stmt, throwing, h),
                        [s |-> closed, normal |-> take_continuation(inside), handlers |-> << >>],
                        [h \in DOMAIN stmt.parts |-> h])
        finally_body == Last(stmt.bodies)
        made == Unwinding(new_block(all.s), throwing, Newest(new_block(all.s)))
        entry == Newest(made)
        entered == [made EXCEPT !.edges = @ \o Edges(all.normal, entry), !.current = entry]
        ended == lower_body(entered, finally_body)
        record == [entry |-> entry, kind |-> "finally", filter |-> None,
                   blocks |-> blocks_from(ended, Len(entered.created), entry)]
    IN  IF inside.error # None THEN inside
        ELSE IF all.s.error # None THEN all.s
        ELSE IF finally_body = << >>
        THEN register_region([all.s EXCEPT !.pending = all.normal], protected, all.handlers, stmt.id)
        ELSE register_region(ended, protected, Append(all.handlers, record), stmt.id)

lower_statement(s, stmt) ==
    CASE stmt.kind = "expr" -> lower_expression_statement(s, stmt)
      [] stmt.kind = "assign" -> lower_assign(s, stmt)
      [] stmt.kind = "return" -> lower_return(s, stmt)
      [] stmt.kind = "break" -> lower_break(s, stmt)
      [] stmt.kind = "continue" -> lower_continue(s, stmt)
      [] stmt.kind = "goto" -> lower_goto(s, stmt)
      [] stmt.kind = "if" -> lower_if(s, stmt)
      [] stmt.kind = "switch" -> lower_switch(s, stmt)
      [] stmt.kind = "labeled" -> lower_labeled(s, stmt)
      [] stmt.kind = "region" -> lower_region(s, stmt)
      [] stmt.kind = "try" -> lower_try(s, stmt)
      [] stmt.kind \in LoopKinds -> lower_loop_statement(s, stmt, None)
lower_body(s, stmts) ==
    FoldLeft(LAMBDA a, stmt : IF a.error # None THEN a ELSE lower_statement(a, stmt), s, stmts)
lower(stmts) ==
    LET s == lower_body(Fresh, stmts)
    IN  IF s.error # None THEN s
        ELSE IF s.current # None \/ s.pending # << >> THEN Refuse(s, "falls off the end")
        ELSE IF DOMAIN s.forward # {} THEN Refuse(s, "undefined label")
        ELSE s
=============================================================================

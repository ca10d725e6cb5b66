------------------------------- MODULE MCHlil -------------------------------
(***************************************************************************)
(* Every small structured program of a few families, written a statement   *)
(* at a time, each lowered when it is complete; and two machines that run  *)
(* the statements and the blocks side by side, with the same outcome of    *)
(* every condition, dispatch and raise.                                    *)
(***************************************************************************)
EXTENDS Lower

VARIABLES family,   \* which statements are being written, None when done
          open,     \* the statements whose bodies are being written, outermost first
          written   \* how many statements there are

vars == <<family, open, written>>
-----------------------------------------------------------------------------
(* The statements.  What is left to run is a sequence of statements and of *)
(* marks, each the end of a body.                                          *)
Mark(kind, stmt, label) == [kind |-> kind, of |-> stmt, label |-> label]
BodyEnd(stmt, k, label) ==
    CASE stmt.kind = "for" /\ k = 2 -> <<Mark("update", stmt, label)>>
      [] stmt.kind \in LoopKinds /\ ~(stmt.kind = "for" /\ k = 2) -> <<Mark("again", stmt, label)>>
      [] stmt.kind = "switch" -> <<Mark("end", stmt, None)>>
      [] stmt.kind = "labeled" ->
           IF labeled_loop(stmt.bodies[1]) # None THEN << >> ELSE <<Mark("end", stmt, stmt.label)>>
      [] stmt.kind = "region" -> <<Mark("leave", stmt, None)>>
      [] stmt.kind = "try" /\ k = 1 -> <<Mark("tried", stmt, None)>>
      [] stmt.kind = "try" /\ k \in 2..(Len(stmt.bodies) - 1) -> <<Mark("handled", stmt, None)>>
      [] OTHER -> << >>
Inside(stmt, k, label, rest) == stmt.bodies[k] \o BodyEnd(stmt, k, label) \o rest

(* What is left to run from the statement labelled so.                     *)
RECURSIVE Located(_, _, _, _)
Located(label, body, own, rest) ==
    LET stmt == Head(body)
        after == Tail(body) \o rest
        named == IF stmt.kind = "labeled" /\ labeled_loop(stmt.bodies[1]) # None
                 THEN stmt.label ELSE None
        inside(k) == Located(label, stmt.bodies[k], named, BodyEnd(stmt, k, own) \o after)
        holds == {k \in DOMAIN stmt.bodies : inside(k) # None}
    IN  IF body = << >> THEN None
        ELSE IF stmt.kind = "labeled" /\ stmt.label = label THEN body \o rest
        ELSE IF holds # {} THEN inside(Min(holds))
        ELSE Located(label, Tail(body), None, rest)

DropTo(k, stops(_)) ==
    LET found == {i \in DOMAIN k : stops(k[i])}
    IN  SubSeq(k, Min(found), Len(k))
Observable == {"expr", "if", "test", "switch", "return", "region", "leave", "caught"}
Spin == <<Mark("spin", None, None)>>
RECURSIVE Silent(_, _, _, _)
Silent(program, k, label, fuel) ==
    LET stmt == Head(k)
        rest == Tail(k)
        on(next) == Silent(program, next, None, fuel - 1)
        test(loop, name) == <<Mark("test", loop, name)>>
        ends(item) == IF stmt.label = None
                      THEN item.kind \in {"again", "update"}
                           \/ (item.kind = "end" /\ item.of.kind = "switch")
                      ELSE item.kind \in {"again", "update", "end"} /\ item.label = stmt.label
        turns(item) == /\ item.kind \in {"again", "update"}
                       /\ stmt.label = None \/ item.label = stmt.label
    IN  IF fuel = 0 THEN Spin
        ELSE IF k = << >> \/ stmt.kind \in Observable THEN k
        ELSE CASE stmt.kind \in {"end"} -> on(rest)
          [] stmt.kind \in {"tried", "handled"} -> on(Last(stmt.of.bodies) \o rest)
          [] stmt.kind = "labeled" ->
               IF labeled_loop(stmt.bodies[1]) # None
               THEN Silent(program, stmt.bodies[1] \o rest, stmt.label, fuel - 1)
               ELSE on(Inside(stmt, 1, None, rest))
          [] stmt.kind = "try" -> on(Inside(stmt, 1, None, rest))
          [] stmt.kind = "while" -> on(test(stmt, label) \o rest)
          [] stmt.kind \in {"do", "loop", "for"} -> on(Inside(stmt, 1, label, rest))
          [] stmt.kind = "update" -> on(Inside(stmt.of, 3, stmt.label, rest))
          [] stmt.kind = "again" ->
               IF stmt.of.kind = "loop" THEN on(Inside(stmt.of, 1, stmt.label, rest))
               ELSE IF stmt.of.exprs = << >> THEN on(Inside(stmt.of, 2, stmt.label, rest))
               ELSE on(test(stmt.of, stmt.label) \o rest)
          [] stmt.kind = "break" -> on(Tail(DropTo(rest, ends)))
          [] stmt.kind = "continue" -> on(DropTo(rest, turns))
          [] stmt.kind = "goto" -> on(Located(stmt.label, program, None, << >>))

(* What shows when the first thing of k runs, the ways on from it, and     *)
(* what is left to run on each.                                            *)
Shown(k) ==
    IF k = << >> THEN <<"end">>
    ELSE LET stmt == Head(k)
         IN  CASE stmt.kind = "spin" -> <<"spin">>
               [] stmt.kind = "expr" -> <<"op", stmt.exprs[1][2]>>
               [] stmt.kind = "if" -> <<"branch", stmt.id>>
               [] stmt.kind = "test" -> <<"branch", stmt.of.id>>
               [] stmt.kind = "region" -> <<"enter", stmt.id>>
               [] stmt.kind = "leave" -> <<"exit", stmt.of.id>>
               [] stmt.kind = "caught" -> <<"caught", stmt.of.id>>
               [] OTHER -> <<stmt.kind, stmt.id>>
Raises(k) ==
    UNION {{<<"raise", k[i].of.id, h>> :
              h \in 1..(Len(k[i].of.parts) + (IF Last(k[i].of.bodies) = << >> THEN 0 ELSE 1))} :
            i \in {j \in DOMAIN k : k[j].kind = "tried"}}
Ways(k) ==
    LET stmt == Head(k)
    IN  IF k = << >> THEN {}
        ELSE CASE stmt.kind \in {"spin", "return"} -> {}
          [] stmt.kind \in {"if", "test"} -> {<<"true">>, <<"false">>}
          [] stmt.kind = "switch" ->
               {<<"case", v>> : v \in UNION {Range(stmt.parts[i]) : i \in DOMAIN stmt.parts}}
               \cup {<<"default">>}
          [] stmt.kind = "expr" ->
               {<<"next">>} \cup (IF stmt.exprs[1][2] \in Throwing THEN Raises(k) ELSE {})
          [] OTHER -> {<<"next">>}
After(k, o) ==
    LET stmt == Head(k)
        rest == Tail(k)
        at == CHOOSE i \in DOMAIN k : k[i].kind = "tried" /\ k[i].of.id = o[2]
        try == k[at].of
        beyond == SubSeq(k, at + 1, Len(k))
        arm == CHOOSE i \in DOMAIN stmt.parts : o[2] \in Range(stmt.parts[i])
    IN  CASE o[1] = "raise" ->
               IF o[3] > Len(try.parts) THEN Last(try.bodies) \o beyond
               ELSE (IF try.parts[o[3]].binding = None THEN << >> ELSE <<Mark("caught", try, None)>>)
                    \o Inside(try, HandlerAt(try, o[3]), None, beyond)
          [] stmt.kind = "if" -> Inside(stmt, IF o[1] = "true" THEN 1 ELSE 2, None, rest)
          [] stmt.kind = "test" ->
               IF o[1] = "false" THEN rest
               ELSE Inside(stmt.of, IF stmt.of.kind = "for" THEN 2 ELSE 1, stmt.label, rest)
          [] stmt.kind = "switch" ->
               Inside(stmt, IF o[1] = "case" THEN arm ELSE Len(stmt.bodies), None, rest)
          [] stmt.kind = "region" -> Inside(stmt, 1, None, rest)
          [] OTHER -> rest
-----------------------------------------------------------------------------
(* The blocks.  A place is a block and an instruction of it.               *)
Out(s, b, unwinding) ==
    {s.edges[e] : e \in {d \in DOMAIN s.edges : s.edges[d][1] = b /\ (s.edges[d][3] = "unwind") = unwinding}}
Nowhere == <<0, 0>>
Spinning == <<0, 1>>
RECURSIVE FlatSilent(_, _, _)
FlatSilent(s, place, fuel) ==
    LET out == Out(s, place[1], FALSE)
    IN  IF fuel = 0 THEN Spinning
        ELSE IF place[2] <= Len(s.blocks[place[1]])
        THEN IF s.blocks[place[1]][place[2]].what \in {"copy", "const"}
             THEN FlatSilent(s, <<place[1], place[2] + 1>>, fuel) ELSE place
        ELSE IF Cardinality(out) # 1 THEN Nowhere
        ELSE FlatSilent(s, <<(CHOOSE e \in out : TRUE)[2], 1>>, fuel - 1)
FlatShown(s, place) ==
    IF place = Nowhere THEN <<"nowhere">>
    ELSE IF place = Spinning THEN <<"spin">>
    ELSE LET i == s.blocks[place[1]][place[2]]
         IN  <<i.what, IF i.what = "op" THEN i.op ELSE i.origin>>
FlatWays(s, place) ==
    LET b == place[1]
        i == s.blocks[b][place[2]]
        raised == {w \in UNION {{<<"raise", s.regions[r].of, h, s.regions[r].handlers[h].entry>> :
                            h \in DOMAIN s.regions[r].handlers} : r \in DOMAIN s.regions} :
                     \E e \in Out(s, b, TRUE) : e[2] = w[4]}
        roled(e) == IF e[3] \in {"true", "false", "default"} THEN <<e[3]>> ELSE <<"case", e[3]>>
    IN  IF b = 0 \/ i.what = "return" THEN {}
        ELSE IF i.what \in {"branch", "switch"} THEN {<<roled(e), <<e[2], 1>>>> : e \in Out(s, b, FALSE)}
        ELSE {<<<<"next">>, <<b, place[2] + 1>>>>}
             \cup (IF May_throw(i) THEN {<<SubSeq(w, 1, 3), <<w[4], 1>>>> : w \in raised} ELSE {})

Fuel == 24
RECURSIVE Pairs(_, _, _, _)
Pairs(program, s, todo, seen) ==
    LET on(p) ==
          IF Shown(p[1]) # FlatShown(s, p[2]) THEN {}
          ELSE {<<Silent(program, After(p[1], w[1]), None, Fuel), FlatSilent(s, w[2], Fuel)>> :
                  w \in {v \in FlatWays(s, p[2]) : v[1] \in Ways(p[1])}}
        known == seen \cup todo
    IN  IF todo = {} THEN seen ELSE Pairs(program, s, UNION {on(p) : p \in todo} \ known, known)
SameRuns(program, s) ==
    LET first == <<Silent(program, program, None, Fuel), FlatSilent(s, <<EntryBlock, 1>>, Fuel)>>
    IN  \A p \in Pairs(program, s, {first}, {}) :
          /\ Shown(p[1]) = FlatShown(s, p[2])
          /\ Ways(p[1]) = {w[1] : w \in FlatWays(s, p[2])}
          /\ Cardinality(FlatWays(s, p[2])) = Cardinality(Ways(p[1]))
-----------------------------------------------------------------------------
(* Straight code.  A value is a term; what shows is the sequence of        *)
(* operations with the values they took.                                   *)
X == <<"x">>
Y == <<"y">>
Variables == {X, Y}
Unknown == [v \in Variables |-> <<"before", v>>]
RECURSIVE Evaluate(_, _)
Evaluate(m, e) ==
    LET operands == FoldLeft(LAMBDA a, o : LET r == Evaluate(a[1], o) IN <<r[1], Append(a[2], r[2])>>,
                             <<m, << >>>>, e[3])
    IN  CASE e[1] = "var" -> <<m, m.env[e[2]]>>
          [] e[1] = "const" -> <<m, e>>
          [] e[1] = "op" ->
               <<[operands[1] EXCEPT !.shown = Append(@, <<"op", e[2], operands[2]>>)],
                 <<"result", e[2], operands[2]>>>>
EvaluateAll(m, es) ==
    FoldLeft(LAMBDA a, e : LET r == Evaluate(a[1], e) IN <<r[1], Append(a[2], r[2])>>, <<m, << >>>>, es)
Showing(m, what) == [m EXCEPT !.shown = Append(@, what)]
RECURSIVE Perform(_, _)
Perform(m, body) ==
    LET stmt == Head(body)
        all == EvaluateAll(m, stmt.exprs)
        place == stmt.exprs[1]
        value == Evaluate(m, stmt.exprs[2])
        stored == EvaluateAll(m, Append(place[3], stmt.exprs[2]))
        inside == Perform(Showing(all[1], <<"enter", "lock", all[2]>>), stmt.bodies[1])
        on(next) == Perform(next, Tail(body))
    IN  IF body = << >> \/ m.ended THEN m
        ELSE CASE stmt.kind = "expr" -> on(Evaluate(m, place)[1])
          [] stmt.kind = "assign" /\ place[1] = "var" ->
               on([value[1] EXCEPT !.env[place[2]] = value[2]])
          [] stmt.kind = "assign" /\ place[1] = "op" ->
               on(Showing(stored[1], <<"store", place[2], stored[2]>>))
          [] stmt.kind = "return" -> [Showing(all[1], <<"return", None, all[2]>>) EXCEPT !.ended = TRUE]
          [] stmt.kind = "region" ->
               on(IF inside.ended THEN inside ELSE Showing(inside, <<"exit", "lock", all[2]>>))
RECURSIVE PerformFlat(_, _, _)
PerformFlat(s, m, place) ==
    LET i == s.blocks[place[1]][place[2]]
        taken == [k \in DOMAIN i.uses |-> m.env[i.uses[k]]]
        value == CASE i.what = "copy" -> taken[1] [] i.what = "const" -> <<"const", i.op>>
                   [] OTHER -> <<"result", i.op, taken>>
        silent == i.what \in {"copy", "const"}
        shown == IF silent THEN m ELSE Showing(m, <<i.what, i.op, taken>>)
        assigned == IF i.defs = << >> THEN shown
                    ELSE [shown EXCEPT !.env = (i.defs[1] :> value) @@ @]
        out == Out(s, place[1], FALSE)
    IN  IF place[2] > Len(s.blocks[place[1]])
        THEN PerformFlat(s, m, <<(CHOOSE e \in out : TRUE)[2], 1>>)
        ELSE IF i.what = "return" THEN [shown EXCEPT !.ended = TRUE]
        ELSE PerformFlat(s, assigned, <<place[1], place[2] + 1>>)
Fresh_machine == [env |-> Unknown, shown |-> << >>, ended |-> FALSE]
SameValues(program, s) ==
    \A flat \in {PerformFlat(s, Fresh_machine, <<EntryBlock, 1>>)}, m \in {Perform(Fresh_machine, program)} :
        /\ flat.shown = m.shown
        /\ \A v \in Variables : flat.env[v] = m.env[v]
-----------------------------------------------------------------------------
(* The programs.  A family has the kinds of statements it writes, and how  *)
(* many of them.                                                           *)
F(n) == Simple("expr", n, <<Op(<<"f", n>>, << >>)>>)
G(n) == Simple("expr", n, <<Op(<<"g", n>>, << >>)>>)
Throws == {<<"f", n>> : n \in 1..9}
Ever == Var(<<"c">>)
Maybe(n, transfer) == Wrapping("if", n, None, <<Ever>>, <<<<transfer>>, << >>>>)
Written(kind, n) ==
    LET f(operands) == Op(<<"f", n>>, operands)
        g(operands) == Op(<<"g", n>>, operands)
    IN
    CASE kind = "f" -> F(n)
      [] kind = "g" -> G(n)
      [] kind = "return" -> Simple("return", n, << >>)
      [] kind \in {"break", "continue"} -> Jumping(kind, n, None)
      [] kind = "maybe break" -> Maybe(n, Jumping("break", 0, None))
      [] kind = "maybe continue" -> Maybe(n, Jumping("continue", 0, None))
      [] kind = "break L" -> Maybe(n, Jumping("break", 0, "L"))
      [] kind = "continue L" -> Maybe(n, Jumping("continue", 0, "L"))
      [] kind = "goto L" -> Maybe(n, Jumping("goto", 0, "L"))
      [] kind = "goto M" -> Jumping("goto", n, "M")
      [] kind = "x = f(x, g(y))" -> Simple("assign", n, <<Var(X), f(<<Var(X), g(<<Var(Y)>>)>>)>>)
      [] kind = "y = x" -> Simple("assign", n, <<Var(Y), Var(X)>>)
      [] kind = "x = 1" -> Simple("assign", n, <<Var(X), Const("1")>>)
      [] kind = "x[g(y)] = f(1)" ->
           Simple("assign", n, <<Op(<<"at", n>>, <<Var(X), g(<<Var(Y)>>)>>), f(<<Const("1")>>)>>)
      [] kind = "f(g(x), y)" -> Simple("expr", n, <<f(<<g(<<Var(X)>>), Var(Y)>>)>>)
      [] kind = "return f(x), y" -> Simple("return", n, <<f(<<Var(X)>>), Var(Y)>>)
Handling(kind, binding) == [kind |-> kind, binding |-> binding]
Opened(kind, n) ==
    CASE kind = "if" -> Wrapping("if", n, None, <<Ever>>, << >>)
      [] kind \in {"while", "do"} -> Wrapping(kind, n, None, <<Ever>>, << >>)
      [] kind = "loop" -> Wrapping("loop", n, None, << >>, << >>)
      [] kind = "for" -> Wrapping("for", n, None, <<Ever>>, <<<<G(10 * n)>>>>)
      [] kind = "bare for" -> Wrapping("for", n, None, << >>, <<<< >>>>)
      [] kind \in {"L", "M"} -> Wrapping("labeled", n, kind, << >>, << >>)
      [] kind = "lock x" -> Stmt("region", n, None, <<Op(<<"g", n>>, <<Var(Y)>>), Var(X)>>, << >>, "lock")
      [] kind = "region" -> Stmt("region", n, None, <<Ever>>, << >>, "lock")
      [] kind = "switch" -> Stmt("switch", n, None, <<Ever>>, << >>, <<<<"one", "two">>, <<"three">>>>)
      [] kind = "try catch" -> Stmt("try", n, None, << >>, << >>, <<Handling("catch", "e")>>)
      [] kind = "try finally" -> Stmt("try", n, None, << >>, << >>, << >>)
      [] kind = "try filter" ->
           Stmt("try", n, None, << >>, << >>, <<Handling("filter", None), Handling("catch_all", None)>>)
(* The bodies that remain to be written, and those that follow them.       *)
Arity(stmt) ==
    CASE stmt.kind \in {"if"} -> 2
      [] stmt.kind = "switch" -> 3
      [] stmt.kind = "try" -> IF stmt.parts = << >> THEN 2 ELSE IF Len(stmt.parts) = 2 THEN 4 ELSE 2
      [] OTHER -> 1
Closing(stmt) ==
    CASE stmt.kind = "for" -> <<IF stmt.exprs = << >> THEN << >> ELSE <<G(10 * stmt.id + 1)>>>>
      [] stmt.kind = "try" /\ Len(stmt.parts) > 0 -> <<<< >>>>
      [] OTHER -> << >>
Family(size, leaves, compounds) == [size |-> size, leaves |-> leaves, compounds |-> compounds]
Straight ==
    Family(3, {"x = f(x, g(y))", "y = x", "x = 1", "x[g(y)] = f(1)", "f(g(x), y)", "return f(x), y"},
           {"lock x"})
Families ==
    {Family(4, {"f", "break", "continue", "maybe continue"}, {"do", "loop", "for"}),
     Family(4, {"f", "return", "maybe break"}, {"if", "while"}),
     Family(4, {"f", "goto L", "break L", "continue L"}, {"L", "do", "for"}),
     Family(4, {"goto L", "goto M"}, {"L", "M", "loop"}),
     Family(3, {"f", "maybe break", "maybe continue"}, {"switch", "loop", "bare for"}),
     Straight,
     Family(4, {"f", "g"}, {"try catch", "try finally", "region"}),
     Family(3, {"f", "return", "maybe break"}, {"try filter", "try finally", "region", "loop"})}

Writing(stmt, done, body) == [stmt |-> stmt, done |-> done, body |-> body]
Top == Last(open)
Init ==
    /\ family \in Families
    /\ open = <<Writing(None, 0, << >>)>>
    /\ written = 0
Append_(stmt, stack) == [stack EXCEPT ![Len(stack)].body = Append(@, stmt)]
WriteLeaf ==
    /\ written < family.size
    /\ \E kind \in family.leaves : open' = Append_(Written(kind, written + 1), open)
    /\ written' = written + 1
    /\ UNCHANGED family
Open ==
    /\ written < family.size
    /\ \E kind \in family.compounds : open' = Append(open, Writing(Opened(kind, written + 1), 0, << >>))
    /\ written' = written + 1
    /\ UNCHANGED family
NextBody ==
    /\ Top.stmt # None
    /\ LET stmt == [Top.stmt EXCEPT !.bodies = Append(@, Top.body)]
           closed == [stmt EXCEPT !.bodies = @ \o Closing(stmt)]
       IN  open' = IF Top.done + 1 = Arity(stmt) THEN Append_(closed, Front(open))
                   ELSE Append(Front(open), Writing(stmt, Top.done + 1, << >>))
    /\ UNCHANGED <<family, written>>
Complete == family # None /\ Len(open) = 1 /\ written > 0
Program == Top.body \o <<Simple("return", 0, << >>)>>
Done == Complete /\ family' = None /\ UNCHANGED <<open, written>>
Next == (family # None /\ (WriteLeaf \/ Open \/ NextBody)) \/ Done
Spec == Init /\ [][Next]_vars

(* The lowered loop is entered at the first block its body opened.  That   *)
(* is where the body begins unless the body opens none before it           *)
(* transfers, or begins with a loop whose own latch comes first; the label *)
(* of a for names its initializer; and the label of a do is known only     *)
(* after its body.                                                         *)
RECURSIVE OpensBlock(_)
OpensBlock(body) ==
    LET stmt == Head(body)
    IN  /\ body # << >>
        /\ CASE stmt.kind \in {"break", "continue", "goto"} -> FALSE
             [] stmt.kind \in {"do", "try"} -> OpensBlock(stmt.bodies[1])
             [] stmt.kind = "labeled" ->
                  labeled_loop(stmt.bodies[1]) # None => OpensBlock(stmt.bodies[1])
             [] OTHER -> TRUE
EntersWhereItBegins(program) ==
    LET all == Range(visit_statements(program))
        gotos(body) == {s.label : s \in {t \in Range(visit_statements(body)) : t.kind = "goto"}}
    IN  \A s \in all :
          /\ s.kind = "do" => s.bodies[1] = << >> \/ OpensBlock(s.bodies[1])
          /\ s.kind = "labeled" /\ labeled_loop(s.bodies[1]) # None =>
               /\ s.label \in gotos(program) => s.bodies[1][1].kind # "for"
               /\ s.label \in gotos(s.bodies[1]) => s.bodies[1][1].kind # "do"

(* The blocks a region protects hold the body of its try and nothing else, *)
(* and each handler's blocks its own body; the block that ends a finally   *)
(* body goes on with what follows the try.                                 *)
StatementOf(i) == IF i.what \in {"op", "store"} THEN i.op[2] ELSE i.origin
HeldBy(s, blocks, body, alone) ==
    LET ids == {t.id : t \in Range(visit_statements(body))} \ {0}
    IN  \A b \in DOMAIN s.blocks : \A k \in DOMAIN s.blocks[b] :
          \A i \in {s.blocks[b][k]} :
            i.what \in {"op", "branch", "enter", "exit"} => 
              /\ StatementOf(i) \in ids => b \in blocks
              /\ alone /\ b \in blocks => StatementOf(i) \in ids
RegionsHoldBodies(program, s) ==
    \A r \in Range(s.regions) :
      \A try \in {t \in Range(visit_statements(program)) : t.id = r.of} :
        /\ HeldBy(s, r.protected, try.bodies[1], TRUE)
        /\ \A h \in DOMAIN r.handlers :
             IF h > Len(try.parts) THEN HeldBy(s, r.handlers[h].blocks, Last(try.bodies), FALSE)
             ELSE HeldBy(s, r.handlers[h].blocks, try.bodies[HandlerAt(try, h)], TRUE)
LowersRight(program) ==
    verify(program) /\ EntersWhereItBegins(program) =>
      \A s \in {lower(program)} :
        s.error = None =>
          /\ IF family = Straight THEN SameValues(program, s) ELSE SameRuns(program, s)
          /\ RegionsHoldBodies(program, s)

(* Every transfer verify accepts has a target when it is lowered.          *)
TransfersHaveTargets(program) ==
    verify(program) /\ EntersWhereItBegins(program) =>
      lower(program).error \notin {"undefined label", "untargeted break", "untargeted continue",
                                   "constant place"}

(* The narrowest lexical body with every statement that names a variable,  *)
(* and its first statement with one of them.                               *)
RECURSIVE LexicalBodies(_)
LexicalBodies(body) ==
    {body} \cup UNION {UNION {LexicalBodies(body[i].bodies[k]) : k \in Lexical(body[i])} :
                         i \in DOMAIN body}
Named(body) ==
    UNION {{<<s.id, v>> : v \in OwnExpressions(s)} : s \in Range(visit_statements(body))}
DeclaredRight(program) ==
    \A placed \in {anchor_variables(program)}, all \in {Named(program)},
       parts \in {{[body |-> b, named |-> Named(b), size |-> Len(visit_statements(b))] :
                     b \in LexicalBodies(program)}} :
      /\ DOMAIN placed = collect_body(program)
      /\ \A v \in DOMAIN placed :
           LET holding == {p \in parts : {n \in all : n[2] = v} \subseteq p.named}
               narrowest == CHOOSE p \in holding : \A q \in holding : p.size <= q.size
               naming == {i \in DOMAIN narrowest.body :
                            \E n \in Named(<<narrowest.body[i]>>) : n[2] = v}
           IN  placed[v] = narrowest.body[Min(naming)].id

(* A table is a forest: the walk from the roots meets every node once.     *)
RECURSIVE Walked(_, _, _)
Walked(table, nodes, fuel) ==
    IF fuel = 0 THEN nodes
    ELSE FlattenSeq([i \in DOMAIN nodes |->
           <<nodes[i]>> \o IF nodes[i] \in DOMAIN table THEN Walked(table, table[nodes[i]], fuel - 1)
                           ELSE << >>])
Lists == {<< >>} \cup {<<a>> : a \in 1..4} \cup {<<a, b>> : a, b \in 1..4}
TablesAreForests ==
    \A table \in [1..3 -> Lists], roots \in Lists :
      LET ascending == \A k \in 1..3 : Range(table[k]) \subseteq 1..(k - 1)
          walk == Walked(table, roots, 4)
      IN  verify_table(table, roots) <=> ascending /\ Len(walk) = 3 /\ Range(walk) = 1..3


=============================================================================

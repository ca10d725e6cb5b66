------------------------------ MODULE MCValues ------------------------------
(***************************************************************************)
(* A program that runs beside what the analyses say of it and beside what  *)
(* the rewrites make of it.  A lens is one analysis or rewrite; found is   *)
(* its result, and side what it makes of the run so far.  Values are bits: *)
(* an opaque instruction may write either, so two values that an analysis  *)
(* takes for one differ in some run.  Programs are small: a shape of       *)
(* graph, and instructions put into its blocks one after the other, from a *)
(* menu that suits the lens.                                               *)
(***************************************************************************)
EXTENDS Propagate

CONSTANTS Lenses,        \* the analyses and rewrites to check
          MaxInsts       \* how many instructions a program has

VARIABLES lens,      \* what is checked along this run
          found,     \* its result for graph, None before the run begins
          pc,        \* the point that comes next
          env,       \* the value of each variable
          side       \* what found makes of the run

run_vars == <<graph, lens, found, pc, env, side>>
Bit == {0, 1}
Rewrites == {"dce", "copies", "aliases", "pre"}

(* What is read after the end: variable 0, where nothing follows.          *)
Seeds(c) == [b \in c.live |-> IF incident(c, b, "out") = << >> THEN {0} ELSE {}]

Outcomes(i, args) ==
    CASE i.what = "const" -> {[k \in DOMAIN i.defs |-> i.arg]}
      [] i.what = "op" -> {<<1 - args[1]>>}
      [] i.what \in {"copy", "alias"} -> {args}
      [] OTHER -> [DOMAIN i.defs -> Bit]
Reads(i, values) == [k \in DOMAIN i.uses |-> values[i.uses[k]]]
Written(values, names, out) ==
    FoldLeft(LAMBDA v, k : [v EXCEPT ![names[k]] = out[k]], values, [k \in DOMAIN names |-> k])

(* Memory is two cells.  Locations 0 and 1 are an index that is fixed,     *)
(* location 2 is indexed by variable 0; the oracle answers one way round.  *)
Path(loc) == IF loc = 2 THEN <<None>> ELSE <<loc>>
Oracle == {p \in (0..2) \X (0..2) : p[1] >= p[2] /\ index_paths_may_overlap(Path(p[1]), Path(p[2]))}
CellOf(loc, values) == IF loc = 2 THEN values[0] ELSE loc
RECURSIVE Onto(_, _)
Onto(edges, S) ==
    LET more == S \cup {e[2] : e \in {d \in edges : d[1] \in S}}
    IN  IF more = S THEN S ELSE Onto(edges, more)
MemoryOver(c, m, ssa) ==
    LET flow == memory_value_flow(c, m, ssa)
    IN  [m |-> m, ssa |-> ssa,
         onto |-> IF flow = None THEN None
                  ELSE [n \in UNION {{e[1], e[2]} : e \in flow} |-> Onto(flow, {n})]]
-----------------------------------------------------------------------------
AnalyseFrom(c, l, facts, ssa) ==
        CASE l = "ssa" -> [ssa |-> ssa, copies |-> eliminate_phis(ssa),
                           webs |-> webs_of(ssa.phis), needed |-> webs_of(live_phis(ssa))]
          [] l = "flow" -> [reaching |-> reaching_in(c), facts |-> facts]
          [] l = "dce" -> dead_code_elimination(c, Seeds(c))
          [] l \in {"copies", "aliases"} -> propagate(c, l, Seeds(c))
          [] l = "pre" -> eliminate_pre(c)
          [] l = "consts" -> [ssa |-> ssa, facts |-> constants_in(c),
                              sparse |-> compute_seeded(c, ssa, [x \in {} |-> 0]),
                              seeded |-> compute_seeded(c, ssa, [x \in {1} |-> 0])]
          [] l = "numbers" -> numbering(c)
          [] l = "colors" -> [facts |-> facts,
                              color |-> color_graph(interfering(c, facts),
                                                    interference_graph(c, facts))]
          [] l = "memory" -> MemoryOver(c, memory_ssa(c, Oracle), ssa)
Analyse(c, l) == AnalyseFrom(c, l, solve(c, Seeds(c)), ssa_form(c))

AllValues(c, ssa) == Values(ssa) \cup {live_in_value(x) : x \in Variables(c)}
(* Copies that happen together, from the values before any of them.        *)
Copied(vals, copies) ==
    FoldSet(LAMBDA copy, v : [v EXCEPT ![copy.phi.result] = vals[copy.source]], vals, copies)
WebStore(webs, vs) == {web_of(webs, v) : v \in vs}

(* Along a run of memory: the last write of each class and of each cell,   *)
(* the writes that a class depends on through updates, and the nodes that  *)
(* the values of variables and classes came from.                          *)
MemoryBegun(c, f) ==
    LET classes == Range(f.m.class_of)
    IN  [last |-> [k \in classes |-> None], cell |-> [k \in Bit |-> None],
         chained |-> [k \in classes |-> {}], held |-> [k \in classes |-> {State(<<k, 0>>)}],
         from |-> [x \in Variables(c) |-> {Value(live_in_value(x))}],
         got |-> [x \in Variables(c) |-> {}]]
MemoryAfter(c, f, s, site) ==
    LET ev == event_at(c, site)
        class == f.m.class_of[ev.loc]
        given == UNION {s.from[x] : x \in (Range(ev.address) \cup Range(ev.stored)) \cap DOMAIN s.from}
        all == {Event(site)} \cup given \cup (IF reads(ev) THEN s.held[class] ELSE {})
        read == [s EXCEPT !.got = [x \in DOMAIN @ |-> IF x \in Range(ev.loaded) THEN @[x] \cup all ELSE @[x]]]
    IN  IF is_fence(ev) THEN s
        ELSE IF ~writes(ev) THEN read
        ELSE [read EXCEPT !.last[class] = site, !.cell[CellOf(ev.loc, env)] = site, !.held[class] = all,
                          !.chained[class] = {site} \cup (IF reads(ev) THEN @ ELSE {})]
(* After the first n events of the instruction at p.                       *)
MemoryDuring(c, f, s, p, n) ==
    FoldLeft(LAMBDA a, k : MemoryAfter(c, f, a, <<p, k>>), s, [k \in 1..n |-> k])
MemoryRan(c, f, s, p) ==
    LET i == Inst(c, p)
        done == MemoryDuring(c, f, s, p, Len(i.mem))
        read == UNION {s.from[x] : x \in Range(i.uses)}
        fresh(x) == {Value(def_of(f.ssa.insts[p[1]][p[2]], x))} \cup read \cup done.got[x]
    IN  [done EXCEPT !.from = [x \in DOMAIN @ |-> IF x \in Range(i.defs) THEN fresh(x) ELSE @[x]],
                     !.got = [x \in DOMAIN @ |-> {}]]

Begun(c, l, f, e) ==
    CASE l = "ssa" ->
           LET first == [v \in AllValues(c, f.ssa) |-> e[v[1]]]
           IN  [vals |-> Copied(first, copies_by_predecessor(f.copies, Start, Root)),
                webs |-> [w \in WebStore(f.webs, AllValues(c, f.ssa)) |-> e[(CHOOSE v \in w : TRUE)[1]]],
                needed |-> [w \in WebStore(f.needed, AllValues(c, f.ssa)) |->
                              e[(CHOOSE v \in w : TRUE)[1]]]]
      [] l = "flow" -> [last |-> [x \in Variables(c) |-> None], stale |-> {}]
      [] l \in Rewrites -> e
      [] l = "consts" -> [zero |-> 1 \in DOMAIN e => e[1] = 0, before |-> None]
      [] l = "numbers" -> [n \in 0..f.tables.next |-> None]
      [] l = "memory" -> MemoryBegun(c, f)
      [] l = "colors" -> LET held(k) == {x \in f.facts.live_in[Root] : f.color[x] = k}
                         IN  [k \in Range(f.color) |-> IF held(k) = {} THEN 0
                                                       ELSE e[CHOOSE x \in held(k) : TRUE]]

(* The instruction as the rewrite left it, None when it took it out.       *)
Kept(f, p) ==
    LET k == SelectInSeq(f.kept[p[1]], LAMBDA i : i = p[2])
    IN  IF k = 0 THEN None ELSE f.code.insts[p[1]][k]
RanBeside(f, p, values, out) ==
    LET i == Kept(f, p)
    IN  IF i = None THEN values
        ELSE Written(values, i.defs, IF i.what \in {"const", "op", "copy", "alias"}
                                     THEN CHOOSE o \in Outcomes(i, Reads(i, values)) : TRUE
                                     ELSE out)

(* What the instruction at p, having written out, does to the side.        *)
Ran(c, l, f, s, p, out) ==
    CASE l = "ssa" ->
           LET new == f.ssa.insts[p[1]][p[2]].defs
           IN  [vals |-> Written(s.vals, new, out),
                webs |-> Written(s.webs, [k \in DOMAIN new |-> web_of(f.webs, new[k])], out),
                needed |-> Written(s.needed, [k \in DOMAIN new |-> web_of(f.needed, new[k])], out)]
      [] l = "flow" ->
           [last |-> [x \in DOMAIN s.last |-> IF x \in Range(Inst(c, p).defs) THEN p ELSE s.last[x]],
            stale |-> (s.stale \cup (Variables(c) \ live_point(c, f.facts, p)))
                        \ Range(Inst(c, p).defs)]
      [] l \in Rewrites -> RanBeside(f, p, s, out)
      [] l = "consts" -> [s EXCEPT !.before = None]
      [] l = "numbers" -> IF f.vn[p] = None \/ p \in f.redundant THEN s
                          ELSE [s EXCEPT ![f.vn[p]] = out[1]]
      [] l = "memory" -> MemoryRan(c, f, s, p)
      [] l = "colors" -> Written(s, [k \in DOMAIN Inst(c, p).defs |-> f.color[Inst(c, p).defs[k]]], out)

(* What leaving p along edge e does to it.                                 *)
Moved(c, l, f, s, p, e) ==
    CASE l = "ssa" -> [s EXCEPT !.vals =
                         Copied(@, copies_by_predecessor(f.copies, p, c.edges[e][2]))]
      [] l = "consts" -> [s EXCEPT !.before = e]
      [] l = "flow" -> [s EXCEPT !.stale = @ \cup (Variables(c) \ live_point(c, f.facts, p))]
      [] OTHER -> s
-----------------------------------------------------------------------------
(* An instruction runs to its end.                                         *)
Execute ==
    /\ found # None /\ pc[2] \in DOMAIN graph.insts[pc[1]]
    /\ \E out \in Outcomes(Inst(graph, pc), Reads(Inst(graph, pc), env)) :
          /\ env' = Written(env, Inst(graph, pc).defs, out)
          /\ side' = Ran(graph, lens, found, side, pc, out)
    /\ pc' = <<pc[1], pc[2] + 1>>
    /\ UNCHANGED <<graph, lens, found>>

(* Control leaves the block: at its end, as its branch decides, or before  *)
(* an instruction that throws.                                             *)
Decided(e) ==
    LET body == graph.insts[pc[1]]
    IN  body # << >> /\ Last(body).what = "branch" /\ graph.kinds[e] \in {"true", "false"}
          => (graph.kinds[e] = "true") = (env[Last(body).uses[1]] = 1)
Leave ==
    /\ found # None
    /\ \E e \in Range(incident(graph, pc[1], "out")) :
          /\ pc \in Range(departures(graph, e))
          /\ Decided(e)
          /\ pc' = <<graph.edges[e][2], 1>>
          /\ side' = Moved(graph, lens, found, side, pc, e)
    /\ UNCHANGED <<graph, lens, found, env>>
-----------------------------------------------------------------------------
Running(l) == found # None /\ lens = l
AtInstruction == pc[2] \in DOMAIN graph.insts[pc[1]]

(* Static single assignment keeps every variable: wherever control is,     *)
(* however it came there, the value that value_at names holds what the     *)
(* variable holds; an instruction's uses are those values; and with one    *)
(* place for each web and no copies at all they are still right, be the    *)
(* webs those of all phis or of the needed ones.                           *)
SsaKeepsVariables ==
    Running("ssa") =>
        /\ \A x \in Variables(graph) : side.vals[value_at(found.ssa, pc, x)] = env[x]
        /\ AtInstruction =>
              LET i == Inst(graph, pc)
                  named == found.ssa.insts[pc[1]][pc[2]].uses
              IN  \A k \in DOMAIN named :
                     /\ named[k] = value_at(found.ssa, pc, i.uses[k])
                     /\ side.webs[web_of(found.webs, named[k])] = env[i.uses[k]]
                     /\ side.needed[web_of(found.needed, named[k])] = env[i.uses[k]]

(* The definition that a variable holds is among those that reach the      *)
(* point and among the suppliers of an instruction that reads it; and a    *)
(* variable that was dead at some point of the run is not read, nor left   *)
(* as the result, before it is written again.                              *)
FlowCoversRuns ==
    Running("flow") =>
        /\ \A x \in Variables(graph) : side.last[x] # None =>
              <<x, side.last[x]>> \in reaching_before(graph, pc, found.reaching[pc[1]])
        /\ AtInstruction =>
              \A x \in Range(Inst(graph, pc).uses) :
                 /\ x \notin side.stale
                 /\ side.last[x] # None =>
                       /\ side.last[x] \in defs_of(graph, found.reaching, pc)
                       /\ side.last[x] \notin dead_defs(graph, found.reaching)
        /\ pc = End(graph, pc[1]) => side.stale \cap Seeds(graph)[pc[1]] = {}

(* From point to point, what it is to be live and to be reached.           *)
Onward(c, p) == {<<c.edges[e][2], 1>> : e \in {d \in Range(incident(c, p[1], "out")) :
                                                 p \in Range(departures(c, d))}}
AllPoints(c) == Points(c) \cup {End(c, b) : b \in c.live}
RECURSIVE LivePoints(_, _, _)
LivePoints(c, x, S) ==
    LET more == {p \in AllPoints(c) :
                   \/ p \in Points(c) /\ (\/ x \in Range(Inst(c, p).uses)
                                          \/ x \notin Range(Inst(c, p).defs) /\ <<p[1], p[2] + 1>> \in S)
                   \/ p = End(c, p[1]) /\ x \in Seeds(c)[p[1]]
                   \/ Onward(c, p) \cap S # {}}
    IN  IF more = S THEN S ELSE LivePoints(c, x, more)
RECURSIVE HeldPoints(_, _, _, _)
HeldPoints(c, x, site, S) ==
    LET step(p) == (IF p \in Points(c) /\ x \notin Range(Inst(c, p).defs)
                    THEN {<<p[1], p[2] + 1>>} ELSE {}) \cup Onward(c, p)
        more == {<<site[1], site[2] + 1>>} \cup S \cup UNION {step(p) : p \in S}
    IN  IF more = S THEN S ELSE HeldPoints(c, x, site, more)

(* Liveness and reaching definitions say no more than the paths do: each   *)
(* variable is live exactly where some path reads it before writing it, and*)
(* each definition reaches exactly the points a path carries it to.        *)
FlowIsExact ==
    Running("flow") /\ pc = <<Root, 1>> /\ side.stale = {} =>
        /\ \A x \in Variables(graph) : LivePoints(graph, x, {}) =
              {p \in AllPoints(graph) : x \in live_point(graph, found.facts, p)}
        /\ \A site \in {p \in Points(graph) : p[1] \in reachable(graph, <<Root>>, "out")} :
              \A x \in Range(Inst(graph, site).defs) : HeldPoints(graph, x, site, {}) =
                 {p \in AllPoints(graph) : <<x, site>> \in
                     reaching_before(graph, p, found.reaching[p[1]])}

(* With one place for each colour, every instruction reads what it should. *)
ColorsHold ==
    Running("colors") =>
        /\ AtInstruction => \A x \in Range(Inst(graph, pc).uses) : side[found.color[x]] = env[x]
        /\ pc = End(graph, pc[1]) =>
              \A x \in Seeds(graph)[pc[1]] \cap DOMAIN env : side[found.color[x]] = env[x]
(* What is said of definitions, of live variables and of places to keep    *)
(* them in covers every run, and of definitions and liveness it is exact   *)
(* (reaching.rs, def_use.rs, liveness.rs, coloring.rs).                    *)
FlowRight == FlowCoversRuns /\ FlowIsExact /\ ColorsHold

(* Beside a rewrite: every instruction that is left reads what it read     *)
(* before, and the result is the same, which pre is not told of.           *)
ReadsTheSame(l) ==
    Running(l) =>
        /\ AtInstruction /\ Kept(found, pc) # None =>
              Reads(Kept(found, pc), side) = Reads(Inst(graph, pc), env)
        /\ pc = End(graph, pc[1]) /\ l # "pre" =>
              \A x \in Seeds(graph)[pc[1]] \cap DOMAIN env : side[x] = env[x]

(* Removing a redundant computation changes nothing that the rest reads,   *)
(* as a reader "runs only after" the computation it read from.             *)
RedundantReadsTheSame == ReadsTheSame("pre")

(* Removing dead code, copies and, where nothing throws, redundant         *)
(* computations changes nothing that the rest reads, and one sweep leaves  *)
(* no dead instruction behind (dce.rs, copy_propagation.rs, pre.rs).       *)
RewritesReadTheSame ==
    /\ \A l \in {"dce", "copies", "aliases"} : ReadsTheSame(l)
    /\ (\A p \in Points(graph) : ~Inst(graph, p).throws) => RedundantReadsTheSame
    /\ Running("dce") /\ pc = <<Root, 1>> => dead_code(found.code, Seeds(graph)).instructions = {}

(* What is said to be constant is, block by block and value by value, when *)
(* nothing or one variable is known at the start; control only takes edges *)
(* said to be executable; and no constant of a block is lost sparsely.     *)
ConstantsHold ==
    Running("consts") =>
        LET fact == found.facts[pc[1]]
            here == [x \in Variables(graph) |-> value_at(found.ssa, pc, x)]
            holds(r) == /\ pc[1] \in r.reachable
                        /\ side.before # None => side.before \in r.executable
                        /\ \A x \in Variables(graph) :
                              here[x] \in DOMAIN r.values /\ is_const(r.values[here[x]])
                                 => r.values[here[x]][1] = env[x]
            sharper(x) == here[x] \in DOMAIN found.sparse.values
                             => found.sparse.values[here[x]] = fact[x]
        IN  /\ fact # None
            /\ pc[2] = 1 => \A x \in Variables(graph) :
                  is_const(fact[x]) => fact[x][1] = env[x] /\ sharper(x)
            /\ holds(found.sparse)
            /\ side.zero => holds(found.seeded)

(* An instruction that is said to compute a value that has been computed   *)
(* computes the value that its leader computed last.                       *)
NumbersHold ==
    Running("numbers") /\ AtInstruction /\ pc \in found.redundant =>
        side[found.vn[pc]] = (CHOOSE o \in Outcomes(Inst(graph, pc), Reads(Inst(graph, pc), env)) :
                                TRUE)[1]

(* What an analysis knows of values before the code runs holds when it     *)
(* does: constants, the edges taken, and computations said to be redundant *)
(* (constant_propagation.rs, sccp.rs, value_numbering.rs).                 *)
FactsHold == ConstantsHold /\ NumbersHold
-----------------------------------------------------------------------------
(* The events of an instruction, each with what the run did before it.     *)
EventsHere == {<<pc, k>> : k \in DOMAIN Inst(graph, pc).mem}
ReadsHere == {site \in EventsHere : reads(event_at(graph, site))}
Before(site) == MemoryDuring(graph, found, side, pc, site[2] - 1)
Wrote(site, class) == IF site = None THEN <<"live_in", class>> ELSE <<"event", site>>

(* What a read reads: the last write of its class is among the definitions *)
(* said to reach it, it is among the readers of each write that the class  *)
(* depends on, and what last wrote its cell is of its class.               *)
MemoryCoversRuns ==
    Running("memory") /\ AtInstruction =>
        \A site \in ReadsHere :
            LET s == Before(site)
                loc == event_at(graph, site).loc
                class == found.m.class_of[loc]
                writer == s.cell[CellOf(loc, env)]
            IN  /\ Wrote(s.last[class], class) \in reaching_definitions(found.m, site)
                /\ \A w \in s.chained[class] : site \in transitive_readers(found.m, w)
                /\ writer # None => may_alias(found.m.class_of, event_at(graph, writer).loc, loc)

(* Whatever the value of a variable came from, by instructions or through  *)
(* memory, the graph of values and memory leads from there to the value    *)
(* that the variable has.                                                  *)
ValuesFlow ==
    Running("memory") /\ found.onto # None =>
        \A x \in Variables(graph) : \A n \in side.from[x] :
            LET v == Value(value_at(found.ssa, pc, x))
            IN  v = n \/ v \in found.onto[n]

(* Places between events: before event k of an instruction, or after all.  *)
RECURSIVE Spread(_, _, _, _)
Spread(c, m, class, S) ==
    LET n(p) == IF p \in Points(c) THEN Len(Inst(c, p).mem) ELSE 0
        kills(p, k) == /\ writes(Inst(c, p).mem[k])
                       /\ m.class_of[Inst(c, p).mem[k].loc] = class
        step(q) == (IF q[2] <= n(q[1])
                    THEN IF kills(q[1], q[2]) THEN {} ELSE {<<q[1], q[2] + 1>>}
                    ELSE IF q[1] \in Points(c) THEN {<<<<q[1][1], q[1][2] + 1>>, 1>>} ELSE {})
                   \cup (IF q[2] = 1 THEN {<<p, 1>> : p \in Onward(c, q[1])} ELSE {})
        more == S \cup UNION {step(q) : q \in S}
    IN  IF more = S THEN S ELSE Spread(c, m, class, more)

(* Where every block is reached, the definitions said to reach a read are  *)
(* those that some path carries to it, throws between two instructions and *)
(* an entry that is jumped back to included.                               *)
MemoryIsExact ==
    Running("memory") /\ pc = <<Root, 1>> /\ reachable(graph, <<Root>>, "out") = graph.live =>
        LET sites == {e.site : e \in found.m.events}
            class(site) == found.m.class_of[event_at(graph, site).loc]
            written == {s \in sites : writes(event_at(graph, s))}
        IN  \A site \in {s \in sites : reads(event_at(graph, s))} :
              reaching_definitions(found.m, site) =
                {<<"event", w>> : w \in {u \in written : class(u) = class(site) /\
                    site \in Spread(graph, found.m, class(site), {<<u[1], u[2] + 1>>})}}
                \cup (IF site \in Spread(graph, found.m, class(site), {<<<<Root, 1>>, 1>>})
                      THEN {<<"live_in", class(site)>>} ELSE {})


(* The write that a read reads, or the start when there is none, is among  *)
(* the "concrete writes and live-ins that can reach the read", and saying  *)
(* that locations may overlap "is always safe and may only reduce          *)
(* precision".                                                             *)
ReadsWhatReaches ==
    Running("memory") /\ AtInstruction =>
        \A site \in ReadsHere :
            LET loc == event_at(graph, site).loc
            IN  Wrote(Before(site).cell[CellOf(loc, env)], found.m.class_of[loc])
                   \in reaching_definitions(found.m, site)
-----------------------------------------------------------------------------
Shape(n, edges, kinds) ==
    [live |-> 0..n, edges |-> edges, kinds |-> kinds, insts |-> [b \in 0..n |-> << >>]]
Branching == Shape(3, <<<<0, 1>>, <<0, 2>>, <<1, 3>>, <<2, 3>>>>, <<"true", "false", "flow", "flow">>)
Looping == Shape(3, <<<<0, 1>>, <<1, 2>>, <<1, 3>>, <<2, 1>>>>, <<"flow", "true", "false", "flow">>)
Handled == Shape(3, <<<<0, 1>>, <<0, 2>>, <<1, 3>>, <<2, 3>>>>, <<"flow", "unwind", "flow", "flow">>)
Retried == Shape(2, <<<<0, 1>>, <<1, 2>>, <<1, 0>>>>, <<"flow", "flow", "unwind">>)
Again == Shape(2, <<<<0, 0>>, <<0, 1>>, <<0, 1>>, <<2, 1>>>>, <<"unwind", "flow", "unwind", "flow">>)
Shapes == {Branching, Looping, Handled, Retried, Again}

I(what, defs, uses, arg, throws) ==
    [what |-> what, defs |-> defs, uses |-> uses, arg |-> arg, throws |-> throws,
     effect |-> what \in {"use", "branch"}]
Get(x) == I("get", <<x>>, << >>, 0, FALSE)
Call(x) == I("get", <<x>>, << >>, 0, TRUE)
Throw == I("use", << >>, << >>, 0, TRUE)
Use(x) == I("use", << >>, <<x>>, 0, FALSE)
Branch(x) == I("branch", << >>, <<x>>, 0, FALSE)
Set(x, v) == I("const", <<x>>, << >>, v, FALSE)
Copy(x, y) == I("copy", <<x>>, <<y>>, 0, FALSE)
Not(x, y) == I("op", <<x>>, <<y>>, 0, FALSE)
Swap == I("alias", <<0, 1>>, <<1, 0>>, 0, FALSE)
Both(x, y) == I("alias", <<x, y>>, <<y, 2>>, 0, FALSE)

(* Instructions with memory events; of values only the index matters, so   *)
(* the others are all 0.                                                   *)
E(kind, loc, stored, loaded) ==
    [kind |-> kind, loc |-> loc, address |-> IF loc = 2 THEN <<0>> ELSE << >>,
     stored |-> stored, loaded |-> loaded]
M(defs, uses, throws, mem) ==
    I(IF defs = <<0>> THEN "get" ELSE "const", defs, uses, 0, throws) @@ [mem |-> mem]
Load(x, l) == M(<<x>>, << >>, FALSE, <<E("read", l, << >>, <<x>>)>>)
Store(x, l, throws) == M(<< >>, IF l = 2 THEN <<x, 0>> ELSE <<x>>, throws, <<E("write", l, <<x>>, << >>)>>)
Through == M(<<1>>, <<1>>, TRUE, <<E("write", 0, <<1>>, << >>), E("read", 0, << >>, <<1>>)>>)
Update(l) == M(<< >>, << >>, FALSE, <<E("update", l, << >>, << >>), E("fence", 0, << >>, << >>)>>)
Misdeclared == M(<< >>, << >>, TRUE, <<E("write", 1, <<1>>, << >>)>>)
Quiet == M(<<0>>, << >>, TRUE, << >>)

Menu ==
    CASE lens = "ssa" -> {Get(0), Call(0), Use(0), Swap}
      [] lens = "flow" -> {Get(0), Call(0), Use(0), Copy(1, 0)}
      [] lens = "dce" -> {Get(0), Call(0), Use(0), Not(1, 0), Copy(0, 1)}
      [] lens = "copies" -> {Get(0), Throw, Copy(1, 0), Copy(2, 1), Use(1), Use(2)}
      [] lens = "aliases" -> {Get(0), Throw, Both(1, 0), Copy(2, 1), Use(1), Use(2)}
      [] lens = "pre" -> {Not(0, 1), Not(2, 1), Get(1), Throw, Use(2)}
      [] lens = "numbers" -> {Not(0, 1), Not(2, 1), Get(1), Call(1), Set(1, 0)}
      [] lens = "consts" -> {Set(0, 0), Set(0, 1), Set(1, 0), Call(0), Not(1, 0), Branch(0)}
      [] lens = "memory" -> {Load(1, 0), Store(1, 0, FALSE), Store(1, 2, TRUE), Through,
                             Update(0), Misdeclared, Quiet}
      [] lens = "colors" -> {Get(0), Call(1), Use(0), Use(1), Copy(1, 0)}

Size(c) == FoldSet(LAMBDA b, n : n + Len(c.insts[b]), 0, c.live)
(* Instructions come in the order of their blocks.                         *)
AddInst ==
    /\ found = None /\ Size(graph) < MaxInsts
    /\ \E b \in graph.live, i \in Menu :
          /\ \A a \in graph.live : a > b => graph.insts[a] = << >>
          /\ graph.insts[b] # << >> => Last(graph.insts[b]).what # "branch"
          /\ graph' = [graph EXCEPT !.insts[b] = Append(@, i)]
    /\ UNCHANGED <<lens, found, pc, env, side>>

(* A rewrite that changes nothing and a numbering without a redundant      *)
(* instruction leave nothing to check, nor does memory that is not both    *)
(* written and read.                                                       *)
Telling(f) ==
    /\ lens \in Rewrites => f.code # graph
    /\ lens = "numbers" => f.redundant # {}
    /\ lens = "memory" => \E e \in f.m.events, d \in f.m.events : e.written # None /\ d.read # None
Begin ==
    /\ found = None /\ Size(graph) = MaxInsts
    /\ \E f \in {Analyse(graph, lens)} :
           /\ Telling(f)
           /\ \E e \in [Variables(graph) \cup {0} -> Bit] :
                 /\ found' = f /\ env' = e /\ side' = Begun(graph, lens, f, e)
    /\ pc' = <<Root, 1>>
    /\ UNCHANGED <<graph, lens>>

MCInit ==
    /\ lens \in Lenses /\ graph \in (IF lens = "memory" THEN {Handled, Retried, Again} ELSE Shapes)
    /\ found = None /\ pc = None /\ env = None /\ side = None
MCNext == AddInst \/ Begin \/ Execute \/ Leave
MCSpec == MCInit /\ [][MCNext]_run_vars
=============================================================================

----------------------------- MODULE CfgPasses -----------------------------
(***************************************************************************)
(* The structural passes of src/crates/cfglib/src/transform: unreachable   *)
(* blocks, empty blocks, linear chains, critical edges, and `simplify`,    *)
(* which repeats the first three until a round changes nothing.            *)
(*                                                                         *)
(* A pass takes its list of blocks or edges before it starts to mutate the *)
(* graph and then works through the list, one element a step.              *)
(***************************************************************************)
EXTENDS Cfg

CONSTANTS Inputs,    \* the graphs a pass is started on
          Passes     \* the passes that are started

ASSUME PassAssumption ==
    /\ Passes \subseteq {"simplify", "unreachable", "empty", "merge", "critical"}
    /\ \A c \in Inputs :
          /\ Once(c)
          /\ \A h \in Handlers(c) : h.entry # 0
          /\ \A k \in Cleanups(c) : \A t \in k.continuations : t.resume # 0

VARIABLE pass

passVars == <<cfg, origin, rewrite, pass>>

SimplifyRound == <<"unreachable", "empty", "merge">>

(* The phases a call of each pass runs.                                    *)
PhasesOf(name) ==
    IF name = "simplify" THEN SimplifyRound ELSE <<name>>

(* begun: the current phase has taken its list; todo: what is left of the  *)
(* list; map: the phase's own record; changed: whether the round did       *)
(* anything.                                                               *)
Started(name) ==
    [name |-> name, phases |-> PhasesOf(name), begun |-> FALSE, todo |-> <<>>,
     map |-> new, changed |-> FALSE]

Roots(c) == {c.entry} \cup (anchors(c) \cap c.live_blocks)
Retained(c) == reachable(c, Roots(c))

WellFormed(c) ==
    /\ c \in CfgType
    /\ c.entry \in c.live_blocks
    /\ c.live_blocks \subseteq Slots(c)
    /\ c.live_edges \subseteq EdgeSlots(c)
    /\ \A e \in c.live_edges :
          c.edges[e].source \in c.live_blocks /\ c.edges[e].target \in c.live_blocks
    /\ dangling_anchors(c) = {}

PassInit ==
    /\ cfg \in Inputs /\ WellFormed(cfg)
    /\ origin = cfg
    /\ rewrite = new
    /\ \E name \in Passes : pass = Started(name)
-----------------------------------------------------------------------------
(* Depth-first preorders from the entry, one for every order the blocks    *)
(* may list their edges in: each block is a successor of the last block    *)
(* listed before it that still had an unlisted one.                        *)
depth_first_preorder(c, order) ==
    /\ order[1] = c.entry
    /\ \A i \in 2..Len(order) :
          LET listed == {order[j] : j \in 1..(i - 1)}
              open == {j \in 1..(i - 1) :
                          ~(successors(c, order[j]) \subseteq listed)}
          IN  \E j \in open : /\ \A k \in open : k <= j
                              /\ order[i] \in successors(c, order[j]) \ listed

Preorders(c) ==
    LET R == reachable(c, {c.entry})
    IN  {order \in [1..Cardinality(R) -> R] : depth_first_preorder(c, order)}

Critical(c) ==
    {e \in c.live_edges :
        /\ Cardinality(outgoing(c, c.edges[e].source)) >= 2
        /\ Cardinality(incoming(c, c.edges[e].target)) >= 2}

CriticalLists(c) ==
    LET C == Critical(c)
    IN  {list \in [1..Cardinality(C) -> C] :
            \A i, j \in DOMAIN list :
               i < j => /\ list[i] # list[j]
                        /\ c.edges[list[i]].source <= c.edges[list[j]].source}

Phase == Head(pass.phases)
In(phase) == pass.phases # <<>> /\ Phase = phase

Begin ==
    /\ pass.phases # <<>> /\ Phase # "unreachable" /\ ~pass.begun
    /\ \E list \in IF Phase = "critical" THEN CriticalLists(cfg)
                                         ELSE Preorders(cfg) :
          pass' = [pass EXCEPT !.begun = TRUE, !.todo = list]
    /\ UNCHANGED <<cfg, origin, rewrite>>

Working(phase) == In(phase) /\ pass.begun /\ pass.todo # <<>>

(* The phase returns its record, which is composed into the caller's.      *)
EndPhase ==
    /\ pass.phases # <<>> /\ pass.begun /\ pass.todo = <<>>
    /\ rewrite' = compose(rewrite, pass.map)
    /\ pass' = [pass EXCEPT !.phases = Tail(@), !.begun = FALSE, !.map = new]
    /\ UNCHANGED <<cfg, origin>>

(* Mutant of NextRound: the total, not the round, decides.                 *)
NextRound_on_total ==
    /\ pass.phases = <<>> /\ pass.name = "simplify" /\ pass.changed
    /\ pass' = [Started("simplify") EXCEPT !.changed = TRUE]
    /\ UNCHANGED <<cfg, origin, rewrite>>

(* `simplify` starts another round unless this one changed nothing.        *)
NextRound ==
    /\ pass.phases = <<>> /\ pass.name = "simplify" /\ pass.changed
    /\ pass' = Started("simplify")
    /\ UNCHANGED <<cfg, origin, rewrite>>

Skip ==
    /\ pass' = [pass EXCEPT !.todo = Tail(@)]
    /\ UNCHANGED <<cfg, origin, rewrite>>

Apply(c, map, todo) ==
    /\ cfg' = c
    /\ pass' = [pass EXCEPT !.map = map, !.todo = todo, !.changed = TRUE]
    /\ UNCHANGED <<origin, rewrite>>
-----------------------------------------------------------------------------
(* Mutant of remove_unreachable: anchors are not roots.                    *)
remove_unreachable_from_entry ==
    LET doomed == cfg.live_blocks \ reachable(cfg, {cfg.entry})
        dead == {e \in cfg.live_edges :
                   {cfg.edges[e].source, cfg.edges[e].target} \cap doomed # {}}
        map == [record_removed_edges(new, dead) EXCEPT
                  !.blocks = [b \in doomed |-> {}]]
    IN  /\ In("unreachable")
        /\ cfg' = [cfg EXCEPT !.live_blocks = @ \ doomed,
                              !.live_edges = @ \ dead]
        /\ rewrite' = compose(rewrite, map)
        /\ pass' = [pass EXCEPT !.phases = Tail(@),
                                !.changed = @ \/ doomed # {}]
        /\ UNCHANGED origin

(* Everything that neither the entry nor an anchor reaches goes at once.   *)
remove_unreachable ==
    LET doomed == cfg.live_blocks \ Retained(cfg)
        dead == {e \in cfg.live_edges :
                   {cfg.edges[e].source, cfg.edges[e].target} \cap doomed # {}}
        map == [record_removed_edges(new, dead) EXCEPT
                  !.blocks = [b \in doomed |-> {}]]
    IN  /\ In("unreachable")
        /\ cfg' = [cfg EXCEPT !.live_blocks = @ \ doomed,
                              !.live_edges = @ \ dead]
        /\ rewrite' = compose(rewrite, map)
        /\ pass' = [pass EXCEPT !.phases = Tail(@),
                                !.changed = @ \/ doomed # {}]
        /\ UNCHANGED origin

Bypassable(c, b, e) ==
    /\ b # c.entry /\ b \in c.live_blocks /\ c.instructions[b] = <<>>
    /\ ~is_anchor(c, b)
    /\ outgoing(c, b) = {e}
    /\ c.edges[e].kind \in {"fallthrough", "unconditional"}
    /\ c.edges[e].target # b

bypass(c, b, e) ==
    remove_block(remove_edges(redirect_edges_to(c, b, c.edges[e].target), {e}),
                 b)

bypass_rewrite(r, c, b, e) ==
    record_block(record_removed_edges(record_kept_edges(r, incoming(c, b)),
                                      {e}), b, {})

remove_empty_blocks ==
    /\ Working("empty")
    /\ LET b == Head(pass.todo)
       IN  IF \E e \in cfg.live_edges : Bypassable(cfg, b, e)
           THEN \E e \in cfg.live_edges :
                   /\ Bypassable(cfg, b, e)
                   /\ Apply(bypass(cfg, b, e),
                            bypass_rewrite(pass.map, cfg, b, e),
                            Tail(pass.todo))
           ELSE Skip

(* Mutant of merge_blocks: a block takes in one successor only.            *)
merge_blocks_once ==
    /\ Working("merge")
    /\ LET b == Head(pass.todo)
           Can(e) == /\ cfg.edges[e].source = b
                     /\ CanContract(cfg, b, cfg.edges[e].target, e)
       IN  IF b \in cfg.live_blocks /\ \E e \in cfg.live_edges : Can(e)
           THEN \E e \in cfg.live_edges :
                   /\ Can(e)
                   /\ Apply(contract_edge(cfg, b, cfg.edges[e].target, e),
                            contract_edge_rewrite(pass.map, cfg, b,
                                                  cfg.edges[e].target, e),
                            Tail(pass.todo))
           ELSE Skip

(* A block takes in its successors for as long as it can.                  *)
merge_blocks ==
    /\ Working("merge")
    /\ LET b == Head(pass.todo)
           Can(e) == /\ cfg.edges[e].source = b
                     /\ CanContract(cfg, b, cfg.edges[e].target, e)
       IN  IF b \in cfg.live_blocks /\ \E e \in cfg.live_edges : Can(e)
           THEN \E e \in cfg.live_edges :
                   /\ Can(e)
                   /\ Apply(contract_edge(cfg, b, cfg.edges[e].target, e),
                            contract_edge_rewrite(pass.map, cfg, b,
                                                  cfg.edges[e].target, e),
                            pass.todo)
           ELSE Skip

(* Mutant of split_edge: the tag of a loop edge stays on its first half.   *)
split_edge_keeping_back(c, e) ==
    LET middle == Len(c.instructions) + 1
        target == c.edges[e].target
    IN  add_edge([new_block(c) EXCEPT !.edges[e].target = middle],
                 middle, target, "fallthrough")

(* Edge e is redirected to a new block, and a second edge leads on.        *)
split_edge(c, e) ==
    LET middle == Len(c.instructions) + 1
        target == c.edges[e].target
        back == c.edges[e].kind = "back"
        first == [new_block(c) EXCEPT
                    !.edges[e].target = middle,
                    !.edges[e].kind = IF back THEN "unconditional" ELSE @]
    IN  add_edge(first, middle, target, IF back THEN "back" ELSE "fallthrough")

(* Mutant of split_edge_rewrite: the new block is not listed.              *)
split_edge_rewrite_unlisted(r, c, e) ==
    LET second == Len(c.edges) + 1
    IN  record_created_edge(record_edge(r, e, {e, second}), second)

split_edge_rewrite(r, c, e) ==
    LET second == Len(c.edges) + 1
        mapped == record_edge(r, e, {e, second})
    IN  record_created_edge(
            record_created_block(mapped, Len(c.instructions) + 1), second)

split_critical_edges ==
    /\ Working("critical")
    /\ LET e == Head(pass.todo)
       IN  Apply(split_edge(cfg, e), split_edge_rewrite(pass.map, cfg, e),
                 Tail(pass.todo))

PassNext ==
    \/ Begin \/ EndPhase \/ NextRound
    \/ remove_unreachable \/ remove_empty_blocks \/ merge_blocks
    \/ split_critical_edges

(* A pass is a function call that runs to its end.                         *)
PassSpec == PassInit /\ [][PassNext]_passVars /\ WF_passVars(PassNext)
-----------------------------------------------------------------------------
Done == pass.phases = <<>> /\ ~(pass.name = "simplify" /\ pass.changed)

(* The graph stays well formed at every step of every pass: live edges     *)
(* join live blocks and no anchor is removed, so that compact() and the    *)
(* exception model stay usable after any sequence of passes.               *)
StaysWellFormed == WellFormed(cfg)

(* An edge tagged Back still enters the block it entered, or a split one's *)
(* second half does.                                                       *)
LoopHeaders(c) == {c.edges[e].target : e \in {f \in c.live_edges :
                                                 c.edges[f].kind = "back"}}
BackEdgesEnterTheirHeaders ==
    pass.name = "critical" => LoopHeaders(cfg) = LoopHeaders(origin)

(* A pass never changes what the code does: from the entry, the handlers   *)
(* and the continuations, the same instructions follow the same ones, none *)
(* is moved across a protection boundary, and a split back edge still      *)
(* enters its loop header.                                                 *)
PassKeepsCode ==
    /\ BackEdgesEnterTheirHeaders
    /\ Flow(cfg, Retained(cfg)) = Flow(origin, Retained(origin))
    /\ \A tag \in Tags(cfg, Retained(cfg)) :
          /\ RegionsOf(cfg, tag) = RegionsOf(origin, tag)
          /\ HandlersOf(cfg, tag) = HandlersOf(origin, tag)

(* The record a pass returns, composed over its phases and rounds, leads   *)
(* every block and edge of the input to what became of it.                 *)
PassRecordTruthful == AccountsFor(compose(rewrite, pass.map), cfg)

(* When a pass returns, running it again would find nothing to do: one     *)
(* walk over a list taken beforehand is enough.                            *)
NothingLeft ==
    LET R == reachable(cfg, {cfg.entry})
        NoUnreachable == cfg.live_blocks \subseteq Retained(cfg)
        NoEmpty == ~\E b \in R, e \in cfg.live_edges : Bypassable(cfg, b, e)
        NoChain == ~\E s, t \in R, e \in cfg.live_edges : CanContract(cfg, s, t, e)
    IN  Done => CASE pass.name = "simplify" -> NoUnreachable /\ NoEmpty /\ NoChain
                  [] pass.name = "unreachable" -> NoUnreachable
                  [] pass.name = "empty" -> NoEmpty
                  [] pass.name = "merge" -> NoChain
                  [] pass.name = "critical" -> Critical(cfg) = {}

(* Every pass returns; simplify's rounds come to an end.                   *)
Terminates == <>Done
=============================================================================

-------------------------------- MODULE Cfg --------------------------------
(***************************************************************************)
(* A client of `Cfg` and the mutations it makes, with the record that      *)
(* takes the identities it holds to the present ones.                      *)
(***************************************************************************)
EXTENDS CfgValue

CONSTANTS MaxBlocks,      \* block slots
          MaxEdges,       \* edge slots
          MaxCode,        \* instruction tags are 1..MaxCode
          MaxRegions,     \* region slots
          Kinds,          \* the edge kinds the client uses
          Reasons,        \* the completion reasons the client uses
          RegionInputs    \* the regions the client may add

ASSUME CfgAssumption ==
    /\ MaxBlocks \in Nat \ {0}
    /\ {MaxEdges, MaxCode, MaxRegions} \subseteq Nat
    /\ Kinds \subseteq EdgeKind
    /\ \A region \in RegionInputs :
          /\ region \in RegionType
          /\ \A h \in DOMAIN region.handlers : region.handlers[h].entry # 0

VARIABLES cfg,        \* the graph
          origin,     \* the graph whose identities the client holds
          rewrite     \* the record from those identities to the present ones

vars == <<cfg, origin, rewrite>>
-----------------------------------------------------------------------------
(* A client at work.  It holds the identities of `origin` and composes the *)
(* record of every mutation into `rewrite`.                                *)
Identities(c) ==
    [instructions |-> c.instructions,
     live_blocks |-> c.live_blocks, live_edges |-> c.live_edges]

Init ==
    /\ cfg = with_edge_payload
    /\ origin = Identities(cfg)
    /\ rewrite = new

Do(m) ==
    /\ cfg' = m.cfg
    /\ rewrite' = compose(rewrite, m.rewrite)
    /\ UNCHANGED origin

RoomForBlock == Len(cfg.instructions) < MaxBlocks
RoomForEdge == Len(cfg.edges) < MaxEdges

NewBlock ==
    /\ RoomForBlock
    /\ Do(Mapped(new_block(cfg),
                 record_created_block(new, Len(cfg.instructions) + 1)))

Push(b, tag) ==
    /\ tag \notin Tags(cfg, Slots(cfg))
    /\ Do(Mapped([cfg EXCEPT !.instructions[b] = Append(@, tag)], new))

AddEdge(source, target, kind) ==
    /\ RoomForEdge
    /\ Do(Mapped(add_edge(cfg, source, target, kind),
                 record_created_edge(new, Len(cfg.edges) + 1)))

RemoveBlock(b) == b # cfg.entry /\ Do(remove_block_mapped(cfg, b))

RemoveEdge(e) == Do(remove_edge_mapped(cfg, e))

RedirectEdgesTo(old, target) ==
    old # target /\ Do(redirect_edges_to_mapped(cfg, old, target))

RedirectEdge(e, end, b) ==
    cfg.edges[e][end] # b /\ Do(redirect_edge_mapped(cfg, e, end, b))

SplitBlock(b, at) ==
    /\ RoomForBlock /\ RoomForEdge
    /\ at <= Len(cfg.instructions[b])
    /\ Do(split_block_mapped(cfg, b, at))

SplitBlockAtPoints(b, p, q) ==
    /\ Len(cfg.instructions) + 2 <= MaxBlocks
    /\ Len(cfg.edges) + 2 <= MaxEdges
    /\ SplitPointsValid(cfg, b, <<p, q>>)
    /\ Do(split_block_at_two_points(cfg, b, p, q))

ContractEdge(source, target, e) ==
    /\ CanContract(cfg, source, target, e)
    /\ Do(Mapped(contract_edge(cfg, source, target, e),
                 contract_edge_rewrite(new, cfg, source, target, e)))

SetEntry(b) == cfg.entry # b /\ Do(Mapped([cfg EXCEPT !.entry = b], new))

(* The client's record starts over: after a compaction it no longer speaks *)
(* of the identities it held.                                              *)
Compact ==
    /\ ~CompactPanics(cfg)
    /\ cfg' = compact(cfg)
    /\ origin' = Identities(cfg')
    /\ rewrite' = new

Edit(c) == cfg' = c /\ cfg' # cfg /\ UNCHANGED <<origin, rewrite>>

(* The client names blocks and a parent that are there: the code takes     *)
(* what it is given.                                                       *)
AddRegion(region) ==
    /\ Len(cfg.regions) < MaxRegions
    /\ region.parent \in DOMAIN cfg.regions \cup {0}
    /\ region.protected_blocks \cup anchors(add_region(cfg, region))
         \subseteq cfg.live_blocks
    /\ \A h \in DOMAIN region.handlers : \A i \in DOMAIN region.handlers[h].body :
          region.handlers[h].body[i] \subseteq cfg.live_blocks
    /\ Edit(add_region(cfg, region))

RemoveRegion(id) == Edit(remove_region(cfg, id))
RemoveUnreachableRegions == Edit(remove_unreachable_regions(cfg))
SetCleanupResume(handler, b) == Edit(set_cleanup_resume(cfg, handler, b))
AddContinuation(handler, reason, b) ==
    Edit(add_continuation(cfg, handler, reason, b))

(* The region edits, apart from the code's own structural mutations.       *)
RegionEdit ==
    \/ \E region \in RegionInputs : AddRegion(region)
    \/ \E id \in DOMAIN cfg.regions : RemoveRegion(id)
    \/ RemoveUnreachableRegions
    \/ \E handler \in HandlerRefs(cfg), b \in cfg.live_blocks :
          \/ SetCleanupResume(handler, b)
          \/ \E reason \in Reasons : AddContinuation(handler, reason, b)

(* Mutations that rearrange blocks without changing what the code does.    *)
Rearrange ==
    \/ \E b \in cfg.live_blocks, at \in 0..MaxCode : SplitBlock(b, at)
    \/ \E b \in cfg.live_blocks, p, q \in 0..MaxCode :
          SplitBlockAtPoints(b, p, q)
    \/ \E source, target \in cfg.live_blocks, e \in cfg.live_edges :
          ContractEdge(source, target, e)
    \/ Compact

Build ==
    \/ NewBlock
    \/ \E b \in cfg.live_blocks, tag \in 1..MaxCode : Push(b, tag)
    \/ \E s, t \in cfg.live_blocks, kind \in Kinds : AddEdge(s, t, kind)

Reroute ==
    \/ \E b \in cfg.live_blocks : RemoveBlock(b)
    \/ \E e \in cfg.live_edges : RemoveEdge(e)
    \/ \E old, target \in cfg.live_blocks : RedirectEdgesTo(old, target)
    \/ \E e \in cfg.live_edges, end \in {"source", "target"},
         b \in cfg.live_blocks : RedirectEdge(e, end, b)
    \/ \E b \in cfg.live_blocks : SetEntry(b)

Next == Build \/ Reroute \/ Rearrange \/ RegionEdit

Spec == Init /\ [][Next]_vars
-----------------------------------------------------------------------------
TypeOK ==
    /\ cfg \in CfgType
    /\ Len(cfg.instructions) \in 1..MaxBlocks
    /\ Len(cfg.edges) \in 0..MaxEdges
    /\ cfg.entry \in cfg.live_blocks
    /\ cfg.live_blocks \subseteq Slots(cfg)
    /\ cfg.live_edges \subseteq EdgeSlots(cfg)
    /\ \A e \in cfg.live_edges :
          {cfg.edges[e].source, cfg.edges[e].target} \subseteq cfg.live_blocks

(* What the loader asks of a document.                                     *)
DocumentAccepted(c) ==
    /\ contains_block(c, c.entry)
    /\ dangling_anchors(c) = {}
    /\ \A i \in DOMAIN c.regions :
          /\ c.regions[i].id = i
          /\ c.regions[i].parent \in DOMAIN c.regions \cup {0}
    /\ \A k \in Cleanups(c) : k.handler \in HandlerRefs(c)

(* Dangling anchors, which verify() reports and is_anchor protects, are    *)
(* the only thing that goes wrong: without one a serialized graph is never *)
(* refused, for whatever mutations ran the entry is live, a region sits at *)
(* its own number under an existing parent and a cleanup's handler exists; *)
(* and compact() panics exactly when there is one.                         *)
AnchorsDecide ==
    /\ dangling_anchors(cfg) = {} => DocumentAccepted(cfg)
    /\ CompactPanics(cfg) <=> dangling_anchors(cfg) # {}

(* The regions and handlers a piece of code belongs to.                    *)
RegionsOf(c, tag) ==
    {r \in DOMAIN c.regions :
        tag \in Tags(c, c.regions[r].protected_blocks \cap c.live_blocks)}
HandlersOf(c, tag) ==
    {h \in HandlerRefs(c) :
        LET body == c.regions[h.region].handlers[h.index].body
        IN  body # <<>> /\ tag \in Tags(c, body[1] \cap c.live_blocks)}

(* The code reached first from the blocks B, empty blocks passed through;  *)
(* 0 when the function may end instead.                                    *)
FirstCode(c, B) ==
    LET IsEmpty(b) == c.instructions[b] = <<>>
        onward == {b \in Slots(c) :
                     \A T \in SUBSET Slots(c) :
                        /\ B \subseteq T
                        /\ \A a \in T : IsEmpty(a) => successors(c, a) \subseteq T
                        => b \in T}
    IN  {IF IsEmpty(b) THEN 0 ELSE Head(c.instructions[b]) :
            b \in {a \in onward : IsEmpty(a) => outgoing(c, a) = {}}}

(* The code that may run right after position i of block b.                *)
NextCode(c, b, i) ==
    IF i < Len(c.instructions[b]) THEN {c.instructions[b][i + 1]}
    ELSE IF outgoing(c, b) = {} THEN {0} ELSE FirstCode(c, successors(c, b))

(* Cleanup i ends in a block that all its routes, and nothing else, leave. *)
Dispatches(c, i) ==
    LET k == c.cleanups[i]
    IN  /\ k.resume_from # 0
        /\ successors(c, k.resume_from) = {t.resume : t \in k.continuations}

Exits(c, i) == FirstCode(c, successors(c, c.cleanups[i].resume_from))

(* Who may follow whom, and where the function, its handlers and the       *)
(* cleanups' continuations start.                                          *)
Flow(c, B) ==
    [next |-> UNION {{<<c.instructions[b][i], NextCode(c, b, i)>> :
                        i \in DOMAIN c.instructions[b]} : b \in B},
     start |-> FirstCode(c, {c.entry}),
     handlers |-> {FirstCode(c, {h.entry}) : h \in Handlers(c)},
     resumes |-> UNION {{<<t.reason, FirstCode(c, {t.resume})>> :
                            t \in k.continuations} : k \in Cleanups(c)}]

(* Splitting, contracting and compacting never move code into or out of a  *)
(* protected range or a handler body, and leave every path of instructions *)
(* as it was: from the entry, from each handler, and out of each cleanup.  *)
CodeKeepsItsPlace ==
    [][Rearrange =>
         /\ \A tag \in Tags(cfg, cfg.live_blocks) :
               /\ RegionsOf(cfg', tag) = RegionsOf(cfg, tag)
               /\ HandlersOf(cfg', tag) = HandlersOf(cfg, tag)
         /\ dangling_anchors(cfg) = {} =>
               /\ Flow(cfg', cfg'.live_blocks) = Flow(cfg, cfg.live_blocks)
               /\ \A i \in DOMAIN cfg.cleanups :
                     Dispatches(cfg, i) => /\ Dispatches(cfg', i)
                                           /\ Exits(cfg', i) = Exits(cfg, i)]_vars

(* What the record says became of an identity the client holds.            *)
BlocksNow(r, b) == replacements_of(r.blocks, b)
EdgesNow(r, e) == replacements_of(r.edges, e)

Truthful(r, b, c) ==
    /\ BlocksNow(r, b) \subseteq c.live_blocks
    /\ Tags(origin, {b}) \cap Tags(c, c.live_blocks)
         \subseteq Tags(c, BlocksNow(r, b))

(* However many mutations were composed, the record accounts for every     *)
(* live block and edge, names only live ones, and leads from a block the   *)
(* client holds to the blocks its surviving instructions are in now.       *)
AccountsFor(r, c) ==
    /\ \A b \in origin.live_blocks : Truthful(r, b, c)
    /\ c.live_blocks = r.created_blocks
         \cup UNION {BlocksNow(r, b) : b \in origin.live_blocks}
    /\ c.live_edges = r.created_edges
         \cup UNION {EdgesNow(r, e) : e \in origin.live_edges}

RewriteTruthful == AccountsFor(rewrite, cfg)

Carried == then_renumbered(rewrite, BlockNumbers(cfg), EdgeNumbers(cfg))

(* Carried across a compaction, the record is right about every block it   *)
(* mentions.                                                               *)
CarriedTruthfulWhereItSpeaks ==
    [][Compact => \A b \in origin.live_blocks \cap DOMAIN rewrite.blocks :
                     Truthful(Carried, b, cfg')]_vars

(* The record a client composes is right about what it holds, after every  *)
(* mutation and across a compaction where it speaks (rewrite.rs, compose   *)
(* and then_renumbered).                                                   *)
RecordTruthful == []RewriteTruthful /\ CarriedTruthfulWhereItSpeaks

(* What compact() and the module's documentation say of the carried        *)
(* record: one mapping from the identities the client held to the ones it  *)
(* holds now, a missing entry meaning "unchanged".                         *)
CarriedTruthful ==
    [][Compact => \A b \in origin.live_blocks :
                     Truthful(Carried, b, cfg')]_vars

(* created_blocks() lists blocks "allocated without an old identity".      *)
CreatedAreNew == rewrite.created_blocks \cap origin.live_blocks = {}
=============================================================================

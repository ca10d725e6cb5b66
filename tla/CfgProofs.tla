----------------------------- MODULE CfgProofs -----------------------------
(***************************************************************************)
(* The graph's mutations and passes, for graphs of any size.               *)
(*   - Every pass keeps the graph well formed: live edges join live blocks *)
(*     and no block that exception metadata names is ever removed.         *)
(*   - The records they return lead every block and edge to what became of *)
(*     it, however many are composed: one axis of a record (blocks or      *)
(*     edges) is treated by itself, right records compose, and every       *)
(*     mutation's own record is right.                                     *)
(*   - The anchors alone decide whether compact() panics: the metadata     *)
(*     stays good (lists, slots and handlers that exist) through every     *)
(*     mutation, so only an anchor on a removed block is renumbered to     *)
(*     none.                                                               *)
(*   - A pass that has returned left nothing of what it is for: while it   *)
(*     runs, what is left is in the list it still has to go through.       *)
(*   - The passes, and a client's rearrangements, keep the code: what is   *)
(*     reached first through empty blocks is matched on the two sides of a *)
(*     mutation by sets closed under its edges.  A split is a fold read    *)
(*     backwards, a compaction a renaming.                                 *)
(***************************************************************************)
EXTENDS CfgPasses, FiniteSetTheorems, TLAPS

-----------------------------------------------------------------------------
(* The anchors depend on the metadata alone. *)
LEMMA AnchorsOfMetadata ==
    ASSUME NEW c, NEW d, d.regions = c.regions, d.cleanups = c.cleanups
    PROVE  anchors(d) = anchors(c)
BY DEF anchors, Handlers, Cleanups

(* Two graphs that agree on entry and metadata: the second is well formed  *)
(* when its edges join its blocks and it keeps the entry and the anchors.  *)
LEMMA WellFormedAfter ==
    ASSUME NEW c, WellFormed(c), NEW d \in CfgType,
           d.entry = c.entry, d.regions = c.regions, d.cleanups = c.cleanups,
           d.live_blocks \subseteq Slots(d),
           d.live_edges \subseteq EdgeSlots(d),
           {c.entry} \cup anchors(c) \subseteq d.live_blocks,
           \A e \in d.live_edges : /\ d.edges[e].source \in d.live_blocks
                                   /\ d.edges[e].target \in d.live_blocks
    PROVE  WellFormed(d)
<1>1. anchors(d) = anchors(c)
  BY AnchorsOfMetadata
<1> QED BY <1>1 DEF WellFormed, dangling_anchors

(* A well-formed graph has its entry and its anchors among the live        *)
(* blocks.                                                                 *)
LEMMA AnchorsLive ==
    ASSUME NEW c, WellFormed(c)
    PROVE  {c.entry} \cup anchors(c) \subseteq c.live_blocks
BY DEF WellFormed, dangling_anchors

(* What a mutation that only retires slots yields. *)
LEMMA RetiredFields ==
    ASSUME NEW c \in CfgType, NEW B \in SUBSET Nat, NEW E \in SUBSET Nat
    PROVE  LET d == [c EXCEPT !.live_blocks = B, !.live_edges = E]
           IN  /\ d.live_blocks = B /\ d.live_edges = E
               /\ d.instructions = c.instructions /\ d.edges = c.edges
               /\ d.entry = c.entry
               /\ d.regions = c.regions /\ d.cleanups = c.cleanups
               /\ d \in CfgType
BY DEF CfgType

(* Retiring blocks that are neither the entry nor anchors, along with      *)
(* every edge that touches them, and any other edges.                      *)
LEMMA RetiringKeepsWellFormed ==
    ASSUME NEW c, WellFormed(c), NEW D, NEW F,
           D \cap ({c.entry} \cup anchors(c)) = {},
           \A e \in c.live_edges :
              c.edges[e].source \in D \/ c.edges[e].target \in D => e \in F
    PROVE  WellFormed([c EXCEPT !.live_blocks = c.live_blocks \ D,
                                !.live_edges = c.live_edges \ F])
<1> DEFINE d == [c EXCEPT !.live_blocks = c.live_blocks \ D,
                          !.live_edges = c.live_edges \ F]
<1>1. c \in CfgType /\ c.live_blocks \in SUBSET Nat /\ c.live_edges \in SUBSET Nat
  BY DEF WellFormed, CfgType
<1>2. /\ d.live_blocks = c.live_blocks \ D /\ d.live_edges = c.live_edges \ F
      /\ d.instructions = c.instructions /\ d.edges = c.edges
      /\ d.entry = c.entry
      /\ d.regions = c.regions /\ d.cleanups = c.cleanups
      /\ d \in CfgType
  <2>1. c.live_blocks \ D \in SUBSET Nat /\ c.live_edges \ F \in SUBSET Nat
    BY <1>1
  <2> QED BY <1>1, <2>1, RetiredFields
<1> HIDE DEF d
<1>3. {c.entry} \cup anchors(c) \subseteq d.live_blocks
  BY <1>2, AnchorsLive
<1>4. /\ d.live_blocks \subseteq Slots(d)
      /\ d.live_edges \subseteq EdgeSlots(d)
      /\ \A e \in d.live_edges : /\ d.edges[e].source \in d.live_blocks
                                 /\ d.edges[e].target \in d.live_blocks
  BY <1>2 DEF WellFormed, Slots, EdgeSlots
<1>5. WellFormed(d)
  BY <1>2, <1>3, <1>4, WellFormedAfter
<1> QED BY <1>5 DEF d

(* The blocks a traversal starts from are reached. *)
LEMMA RootsReached ==
    ASSUME NEW c, WellFormed(c)
    PROVE  {c.entry} \cup anchors(c) \subseteq Retained(c)
<1>1. {c.entry} \cup anchors(c) \subseteq Roots(c)
  BY AnchorsLive DEF Roots
<1>2. Roots(c) \subseteq Slots(c)
  BY DEF Roots, WellFormed
<1> QED BY <1>1, <1>2 DEF Retained, reachable

(* Metadata and entry are left alone by every mutation below. *)
SameFrame(c, d) ==
    d.entry = c.entry /\ d.regions = c.regions /\ d.cleanups = c.cleanups

(* A function over a sequence's positions with values in S is a sequence. *)
LEMMA MappedSequence ==
    ASSUME NEW S, NEW T, NEW s \in Seq(T), NEW L \in [DOMAIN s -> S]
    PROVE  L \in Seq(S) /\ DOMAIN L = DOMAIN s
<1>1. DOMAIN s = 1..Len(s) /\ Len(s) \in Nat
  OBVIOUS
<1>2. L \in [1..Len(s) -> S]
  BY <1>1
<1> QED BY <1>1, <1>2

(* remove_edges leaves the blocks and the frame alone. *)
LEMMA RemoveEdgesGood ==
    ASSUME NEW c, WellFormed(c), NEW E
    PROVE  /\ WellFormed(remove_edges(c, E))
           /\ SameFrame(c, remove_edges(c, E))
           /\ remove_edges(c, E).live_blocks = c.live_blocks
<1> DEFINE d == [c EXCEPT !.live_edges = c.live_edges \ E]
<1>1. c \in CfgType /\ c.live_edges \in SUBSET Nat
  BY DEF WellFormed, CfgType
<1>2. c.live_edges \ E \in SUBSET Nat
  BY <1>1
<1>3. /\ d.live_edges = c.live_edges \ E /\ d.live_blocks = c.live_blocks
      /\ d.instructions = c.instructions /\ d.edges = c.edges
      /\ SameFrame(c, d)
      /\ d \in CfgType
  BY <1>1, <1>2 DEF CfgType, SameFrame
<1>4. d = remove_edges(c, E)
  BY DEF remove_edges
<1> HIDE DEF d
<1>5. /\ d.live_blocks \subseteq Slots(d) /\ d.live_edges \subseteq EdgeSlots(d)
      /\ \A e \in d.live_edges : /\ d.edges[e].source \in d.live_blocks
                                 /\ d.edges[e].target \in d.live_blocks
  BY <1>3 DEF WellFormed, Slots, EdgeSlots
<1>6. WellFormed(d)
  BY <1>3, <1>5, WellFormedAfter, AnchorsLive DEF SameFrame
<1> QED BY <1>3, <1>4, <1>6

(* remove_block on a block that is neither the entry nor an anchor. *)
LEMMA RemoveBlockGood ==
    ASSUME NEW c, WellFormed(c), NEW b, b # c.entry, b \notin anchors(c)
    PROVE  WellFormed(remove_block(c, b))
<1>1. \A e \in c.live_edges :
         c.edges[e].source \in {b} \/ c.edges[e].target \in {b}
           => e \in Incident(c, b)
  BY DEF Incident, outgoing, incoming
<1>2. {b} \cap ({c.entry} \cup anchors(c)) = {}
  OBVIOUS
<1>3. WellFormed([c EXCEPT !.live_blocks = c.live_blocks \ {b},
                           !.live_edges = c.live_edges \ Incident(c, b)])
  BY <1>1, <1>2, RetiringKeepsWellFormed
<1> QED BY <1>3 DEF remove_block

(* A graph whose edge records were replaced by records that join the same  *)
(* live blocks.                                                            *)
LEMMA ReplacedEdgesGood ==
    ASSUME NEW c, WellFormed(c), NEW L \in Seq(EdgeRecord),
           DOMAIN L = DOMAIN c.edges,
           \A e \in c.live_edges : /\ L[e].source \in c.live_blocks
                                   /\ L[e].target \in c.live_blocks
    PROVE  LET d == [c EXCEPT !.edges = L]
           IN  /\ WellFormed(d) /\ SameFrame(c, d)
               /\ d.live_blocks = c.live_blocks /\ d.live_edges = c.live_edges
<1> DEFINE d == [c EXCEPT !.edges = L]
<1>1. c \in CfgType
  BY DEF WellFormed
<1>2. /\ d.live_edges = c.live_edges /\ d.live_blocks = c.live_blocks
      /\ d.instructions = c.instructions /\ d.edges = L
      /\ SameFrame(c, d)
      /\ d \in CfgType
  BY <1>1 DEF CfgType, SameFrame
<1> HIDE DEF d
<1>3. /\ d.live_blocks \subseteq Slots(d) /\ d.live_edges \subseteq EdgeSlots(d)
      /\ \A e \in d.live_edges : /\ d.edges[e].source \in d.live_blocks
                                 /\ d.edges[e].target \in d.live_blocks
  BY <1>2 DEF WellFormed, Slots, EdgeSlots
<1>4. WellFormed(d)
  BY <1>2, <1>3, WellFormedAfter, AnchorsLive DEF SameFrame
<1> QED BY <1>2, <1>4 DEF d

(* redirect_edges_to sends edges to a live block. *)
LEMMA RedirectGood ==
    ASSUME NEW c, WellFormed(c), NEW old, NEW target \in c.live_blocks
    PROVE  LET d == redirect_edges_to(c, old, target)
           IN  WellFormed(d) /\ SameFrame(c, d) /\ d.live_blocks = c.live_blocks
<1> DEFINE L == [e \in DOMAIN c.edges |->
                    IF e \in incoming(c, old)
                    THEN [c.edges[e] EXCEPT !.target = target]
                    ELSE c.edges[e]]
<1>1. c.edges \in Seq(EdgeRecord) /\ target \in Nat
  BY DEF WellFormed, CfgType
<1>2. \A e \in DOMAIN c.edges : c.edges[e] \in EdgeRecord
  BY <1>1
<1>3. \A e \in DOMAIN c.edges : /\ L[e] \in EdgeRecord
                                /\ L[e].source = c.edges[e].source
                                /\ L[e].target \in {target, c.edges[e].target}
  BY <1>1, <1>2 DEF EdgeRecord
<1>4. L \in Seq(EdgeRecord) /\ DOMAIN L = DOMAIN c.edges
  <2>1. L \in [DOMAIN c.edges -> EdgeRecord]
    BY <1>3
  <2> HIDE DEF L
  <2> QED BY <1>1, <2>1, MappedSequence
<1>5. \A e \in c.live_edges : /\ L[e].source \in c.live_blocks
                              /\ L[e].target \in c.live_blocks
  BY <1>3 DEF WellFormed, EdgeSlots
<1>6. redirect_edges_to(c, old, target) = [c EXCEPT !.edges = L]
  BY DEF redirect_edges_to
<1> HIDE DEF L
<1> QED BY <1>4, <1>5, <1>6, ReplacedEdgesGood

(* move_outgoing_edges makes edges leave a live block. *)
LEMMA MoveOutgoingGood ==
    ASSUME NEW c, WellFormed(c), NEW old, NEW source \in c.live_blocks
    PROVE  LET d == move_outgoing_edges(c, old, source)
           IN  WellFormed(d) /\ SameFrame(c, d) /\ d.live_blocks = c.live_blocks
<1> DEFINE L == [e \in DOMAIN c.edges |->
                    IF e \in outgoing(c, old)
                    THEN [c.edges[e] EXCEPT !.source = source]
                    ELSE c.edges[e]]
<1>1. c.edges \in Seq(EdgeRecord) /\ source \in Nat
  BY DEF WellFormed, CfgType
<1>2. \A e \in DOMAIN c.edges : c.edges[e] \in EdgeRecord
  BY <1>1
<1>3. \A e \in DOMAIN c.edges : /\ L[e] \in EdgeRecord
                                /\ L[e].target = c.edges[e].target
                                /\ L[e].source \in {source, c.edges[e].source}
  BY <1>1, <1>2 DEF EdgeRecord
<1>4. L \in Seq(EdgeRecord) /\ DOMAIN L = DOMAIN c.edges
  <2>1. L \in [DOMAIN c.edges -> EdgeRecord]
    BY <1>3
  <2> HIDE DEF L
  <2> QED BY <1>1, <2>1, MappedSequence
<1>5. \A e \in c.live_edges : /\ L[e].source \in c.live_blocks
                              /\ L[e].target \in c.live_blocks
  BY <1>3 DEF WellFormed, EdgeSlots
<1>6. move_outgoing_edges(c, old, source) = [c EXCEPT !.edges = L]
  BY DEF move_outgoing_edges
<1> HIDE DEF L
<1> QED BY <1>4, <1>5, <1>6, ReplacedEdgesGood

(* What remove_empty_blocks does to a block it may bypass. *)
LEMMA BypassGood ==
    ASSUME NEW c, WellFormed(c), NEW b, NEW e \in c.live_edges,
           Bypassable(c, b, e)
    PROVE  WellFormed(bypass(c, b, e))
<1> DEFINE t == c.edges[e].target
           r == redirect_edges_to(c, b, t)
           s == remove_edges(r, {e})
<1>1. t \in c.live_blocks
  BY DEF WellFormed
<1>2. WellFormed(r) /\ SameFrame(c, r)
  BY <1>1, RedirectGood
<1>3. WellFormed(s) /\ SameFrame(r, s)
  BY <1>2, RemoveEdgesGood
<1>4. anchors(s) = anchors(c) /\ s.entry = c.entry
  BY <1>2, <1>3, AnchorsOfMetadata DEF SameFrame
<1>5. b # s.entry /\ b \notin anchors(s)
  BY <1>4 DEF Bypassable, is_anchor
<1>6. WellFormed(remove_block(s, b))
  BY <1>3, <1>5, RemoveBlockGood
<1> QED BY <1>6 DEF bypass

(* Moving instructions among blocks touches nothing else. *)
LEMMA ReplacedInstructionsGood ==
    ASSUME NEW c, WellFormed(c), NEW I \in Seq(Seq(Nat)),
           DOMAIN I = DOMAIN c.instructions
    PROVE  LET d == [c EXCEPT !.instructions = I]
           IN  /\ WellFormed(d) /\ SameFrame(c, d)
               /\ d.live_blocks = c.live_blocks
<1> DEFINE d == [c EXCEPT !.instructions = I]
<1>1. c \in CfgType
  BY DEF WellFormed
<1>2. /\ d.live_edges = c.live_edges /\ d.live_blocks = c.live_blocks
      /\ d.instructions = I /\ d.edges = c.edges
      /\ SameFrame(c, d)
      /\ d \in CfgType
  BY <1>1 DEF CfgType, SameFrame
<1> HIDE DEF d
<1>3. /\ d.live_blocks \subseteq Slots(d) /\ d.live_edges \subseteq EdgeSlots(d)
      /\ \A e \in d.live_edges : /\ d.edges[e].source \in d.live_blocks
                                 /\ d.edges[e].target \in d.live_blocks
  BY <1>2 DEF WellFormed, Slots, EdgeSlots
<1>4. WellFormed(d)
  BY <1>2, <1>3, WellFormedAfter, AnchorsLive DEF SameFrame
<1> QED BY <1>2, <1>4 DEF d

(* What merge_blocks does to an edge it may contract. *)
LEMMA ContractGood ==
    ASSUME NEW c, WellFormed(c), NEW source \in c.live_blocks,
           NEW target \in c.live_blocks, NEW e \in c.live_edges,
           CanContract(c, source, target, e)
    PROVE  WellFormed(contract_edge(c, source, target, e))
<1> DEFINE J == [c.instructions EXCEPT
                   ![source] = @ \o c.instructions[target]]
           I == [J EXCEPT ![target] = <<>>]
           filled == [c EXCEPT !.instructions = I]
           r == remove_edges(filled, {e})
           m == move_outgoing_edges(r, target, source)
<1>1. c.instructions \in Seq(Seq(Nat)) /\ {source, target} \subseteq DOMAIN c.instructions
  BY DEF WellFormed, CfgType, Slots
<1>2. c.instructions[source] \o c.instructions[target] \in Seq(Nat)
  <2>1. c.instructions[source] \in Seq(Nat) /\ c.instructions[target] \in Seq(Nat)
    BY <1>1
  <2> QED BY <2>1
<1>3. I \in Seq(Seq(Nat)) /\ DOMAIN I = DOMAIN c.instructions
  <2>1. \A i \in DOMAIN c.instructions : c.instructions[i] \in Seq(Nat)
    BY <1>1
  <2>2. <<>> \in Seq(Nat)
    OBVIOUS
  <2>3. J \in [DOMAIN c.instructions -> Seq(Nat)]
    BY <1>2, <2>1, <1>1
  <2>4. I \in [DOMAIN c.instructions -> Seq(Nat)]
    BY <2>2, <2>3
  <2> HIDE DEF I
  <2> QED BY <1>1, <2>4, MappedSequence
<1>4. WellFormed(filled) /\ SameFrame(c, filled) /\ filled.live_blocks = c.live_blocks
  <2> HIDE DEF I
  <2> QED BY <1>3, ReplacedInstructionsGood
<1>5. WellFormed(r) /\ SameFrame(filled, r) /\ r.live_blocks = c.live_blocks
  <2> HIDE DEF filled
  <2> QED BY <1>4, RemoveEdgesGood
<1>6. WellFormed(m) /\ SameFrame(r, m)
  <2> HIDE DEF r
  <2> QED BY <1>5, MoveOutgoingGood
<1>7. anchors(m) = anchors(c) /\ m.entry = c.entry
  <2> HIDE DEF filled, r, m
  <2> QED BY <1>4, <1>5, <1>6, AnchorsOfMetadata DEF SameFrame
<1>8. target # m.entry /\ target \notin anchors(m)
  <2> HIDE DEF m
  <2> QED BY <1>7 DEF CanContract, can_fold_into, is_anchor
<1>9. WellFormed(remove_block(m, target))
  <2> HIDE DEF m
  <2> QED BY <1>6, <1>8, RemoveBlockGood
<1>10. filled = [c EXCEPT !.instructions[source] = @ \o c.instructions[target],
                          !.instructions[target] = <<>>]
  BY DEF WellFormed, CfgType
<1> QED BY <1>9, <1>10 DEF contract_edge

(* Splitting an edge: the new block is live, and both halves join live     *)
(* blocks.                                                                 *)
LEMMA SplitEdgeGood ==
    ASSUME NEW c, WellFormed(c), NEW e \in c.live_edges
    PROVE  LET d == split_edge(c, e)
               middle == Len(c.instructions) + 1
               second == Len(c.edges) + 1
           IN  /\ WellFormed(d)
               /\ d.instructions = Append(c.instructions, <<>>)
               /\ d.live_blocks = c.live_blocks \cup {middle}
               /\ EdgeSlots(d) = 1..second
               /\ d.live_edges = c.live_edges \cup {second}
               /\ SameFrame(c, d)
               /\ \A x \in EdgeSlots(c) \ {e} : d.edges[x] = c.edges[x]
               /\ d.edges[e].source = c.edges[e].source
               /\ d.edges[e].target = middle
               /\ d.edges[e].kind = IF c.edges[e].kind = "back" THEN "unconditional"
                                    ELSE c.edges[e].kind
               /\ d.edges[second] =
                    [source |-> middle, target |-> c.edges[e].target,
                     kind |-> IF c.edges[e].kind = "back" THEN "back" ELSE "fallthrough"]
<1> DEFINE middle == Len(c.instructions) + 1
           second == Len(c.edges) + 1
           target == c.edges[e].target
           half == IF c.edges[e].kind = "back" THEN "back" ELSE "fallthrough"
           kind == IF c.edges[e].kind = "back" THEN "unconditional"
                                               ELSE c.edges[e].kind
           bent == [c.edges[e] EXCEPT !.target = middle, !.kind = kind]
           rest == [source |-> middle, target |-> target, kind |-> half]
           K == [c.edges EXCEPT ![e] = bent]
           L == Append(K, rest)
           I == Append(c.instructions, <<>>)
           d == [c EXCEPT !.instructions = I, !.edges = L,
                          !.live_blocks = c.live_blocks \cup {middle},
                          !.live_edges = c.live_edges \cup {second}]
<1>1. /\ c \in CfgType
      /\ c.edges \in Seq(EdgeRecord) /\ c.instructions \in Seq(Seq(Nat))
      /\ c.live_blocks \in SUBSET Nat /\ c.live_edges \in SUBSET Nat
      /\ e \in DOMAIN c.edges
      /\ middle \in Nat /\ second \in Nat
  BY DEF WellFormed, CfgType, EdgeSlots
<1>2. c.edges[e] \in EdgeRecord
  BY <1>1
<1>3. /\ bent \in EdgeRecord /\ bent.source = c.edges[e].source
      /\ bent.target = middle /\ bent.kind = kind
      /\ rest \in EdgeRecord /\ rest.source = middle /\ rest.target = target
  <2>1. c.edges[e].kind \in EdgeKind /\ target \in Nat
    BY <1>2 DEF EdgeRecord
  <2>2. kind \in EdgeKind /\ half \in EdgeKind
    BY <2>1 DEF EdgeKind
  <2> HIDE DEF kind, half, target, middle
  <2> QED BY <1>1, <1>2, <2>1, <2>2 DEF EdgeRecord
<1>4. K \in Seq(EdgeRecord) /\ DOMAIN K = DOMAIN c.edges
  <2>1. \A i \in DOMAIN c.edges : c.edges[i] \in EdgeRecord
    BY <1>1
  <2> HIDE DEF bent
  <2>2. K \in [DOMAIN c.edges -> EdgeRecord]
    BY <1>3, <2>1
  <2> HIDE DEF K
  <2> QED BY <1>1, <2>2, MappedSequence
<1>5. Len(K) = Len(c.edges)
  <2> HIDE DEF K
  <2> QED BY <1>1, <1>4
<1>6. /\ L \in Seq(EdgeRecord) /\ DOMAIN L = 1..second /\ L[second] = rest
      /\ \A i \in DOMAIN c.edges : L[i] = K[i]
  <2> HIDE DEF K, rest
  <2> QED BY <1>1, <1>3, <1>4, <1>5
<1>7. /\ \A i \in DOMAIN c.edges \ {e} : L[i] = c.edges[i]
      /\ L[e] = bent
  <2> HIDE DEF L, bent
  <2> QED BY <1>1, <1>6
<1>8. I \in Seq(Seq(Nat)) /\ DOMAIN I = 1..middle
  BY <1>1
<1> HIDE DEF L, I, bent, rest, K
<1>9. /\ d.instructions = I /\ d.edges = L
      /\ d.live_blocks = c.live_blocks \cup {middle}
      /\ d.live_edges = c.live_edges \cup {second}
      /\ SameFrame(c, d) /\ d \in CfgType
  BY <1>1, <1>6, <1>8 DEF CfgType, SameFrame
<1>10. WellFormed(d)
  <2> HIDE DEF d, middle, second
  <2>1. DOMAIN c.instructions \subseteq 1..middle /\ middle \in 1..middle
    BY SMTT(30), <1>1 DEF middle
  <2>2. DOMAIN c.edges \subseteq 1..second
    BY <1>1 DEF second
  <2>3. d.live_blocks \subseteq Slots(d)
    BY <1>8, <1>9, <2>1 DEF WellFormed, Slots
  <2>4. second \in 1..second
    BY <1>1 DEF second
  <2>5. d.live_edges \subseteq EdgeSlots(d)
    BY <1>6, <1>9, <2>2, <2>4 DEF WellFormed, EdgeSlots
  <2>6. ASSUME NEW i \in d.live_edges
        PROVE  d.edges[i].source \in d.live_blocks /\ d.edges[i].target \in d.live_blocks
    <3>1. CASE i = second
      BY <3>1, <1>3, <1>6, <1>9 DEF WellFormed
    <3>2. CASE i = e
      BY <3>2, <1>3, <1>7, <1>9 DEF WellFormed
    <3>3. CASE i \in c.live_edges /\ i # e
      BY <3>3, <1>7, <1>9 DEF WellFormed, EdgeSlots
    <3> QED BY <3>1, <3>2, <3>3, <1>9
  <2>7. {c.entry} \cup anchors(c) \subseteq d.live_blocks
    BY <1>9, AnchorsLive
  <2> QED BY <1>9, <2>3, <2>5, <2>6, <2>7, WellFormedAfter DEF SameFrame
<1>11. split_edge(c, e) = d
  <2> DEFINE n == new_block(c)
             f == [n EXCEPT !.edges[e].target = middle,
                            !.edges[e].kind = IF c.edges[e].kind = "back"
                                              THEN "unconditional" ELSE @]
  <2>1. n = [c EXCEPT !.instructions = I,
                      !.live_blocks = c.live_blocks \cup {middle}]
    BY <1>1 DEF new_block, I, CfgType
  <2>2. n.edges = c.edges /\ n.live_edges = c.live_edges
    BY <1>1, <2>1 DEF CfgType
  <2>3. f = [n EXCEPT !.edges = K]
    BY ZenonT(40), <1>1, <1>2, <2>1, <2>2 DEF CfgType, EdgeRecord, K, bent
  <2>4. f.edges = K /\ f.live_edges = c.live_edges
    BY <1>1, <2>1, <2>2, <2>3 DEF CfgType
  <2>5. split_edge(c, e) = add_edge(f, middle, target, half)
    BY DEF split_edge
  <2>6. add_edge(f, middle, target, half)
           = [f EXCEPT !.edges = L, !.live_edges = c.live_edges \cup {second}]
    <3> HIDE DEF f
    <3> QED BY <1>5, <2>4 DEF add_edge, L, rest
  <2>7. add_edge(f, middle, target, half)
           = [c EXCEPT !.instructions = I,
                       !.live_blocks = c.live_blocks \cup {middle},
                       !.edges = L, !.live_edges = c.live_edges \cup {second}]
    <3>1. f = [c EXCEPT !.instructions = I,
                        !.live_blocks = c.live_blocks \cup {middle},
                        !.edges = K]
      <4> HIDE DEF n, f, middle
      <4> QED BY <2>1, <2>3
    <3> HIDE DEF f, n, middle, second, target, half
    <3> QED BY <1>1, <2>6, <3>1 DEF CfgType
  <2>8. d = [c EXCEPT !.instructions = I,
                      !.live_blocks = c.live_blocks \cup {middle},
                      !.edges = L, !.live_edges = c.live_edges \cup {second}]
    <3> HIDE DEF middle, second
    <3> QED BY <1>1 DEF CfgType
  <2> HIDE DEF d, f
  <2> QED BY <2>5, <2>7, <2>8
<1> HIDE DEF d
<1>12. /\ d.edges[second] = rest /\ d.edges[e] = bent
       /\ \A x \in EdgeSlots(c) \ {e} : d.edges[x] = c.edges[x]
  BY <1>6, <1>7, <1>9 DEF EdgeSlots
<1> QED BY <1>3, <1>6, <1>9, <1>10, <1>11, <1>12 DEF I, EdgeSlots, rest

(* Nothing is removed. *)
LEMMA SplitEdgeKeeps ==
    ASSUME NEW c, WellFormed(c), NEW e \in c.live_edges
    PROVE  /\ WellFormed(split_edge(c, e))
           /\ c.live_edges \subseteq split_edge(c, e).live_edges
<1> DEFINE d == split_edge(c, e)
           second == Len(c.edges) + 1
<1>1. WellFormed(d) /\ d.live_edges = c.live_edges \cup {second}
  BY SplitEdgeGood
<1> HIDE DEF d
<1>2. WellFormed(d) /\ c.live_edges \subseteq d.live_edges
  BY <1>1
<1> QED BY <1>2 DEF d

(* The critical edges are finitely many, so that a list of them is a       *)
(* sequence of live edges.                                                 *)
LEMMA CriticalListsLive ==
    ASSUME NEW c, WellFormed(c), NEW list \in CriticalLists(c)
    PROVE  list \in Seq(c.live_edges)
<1>1. Critical(c) \subseteq c.live_edges
  BY DEF Critical
<1>2. c.edges \in Seq(EdgeRecord) /\ c.live_edges \subseteq DOMAIN c.edges
  BY DEF WellFormed, CfgType, EdgeSlots
<1>3. Len(c.edges) \in Nat /\ DOMAIN c.edges = 1..Len(c.edges)
  BY <1>2
<1>4. IsFiniteSet(1..Len(c.edges))
  <2>1. 1 \in Int /\ Len(c.edges) \in Int
    BY <1>3
  <2> QED BY <2>1, FS_Interval
<1>5. IsFiniteSet(Critical(c))
  <2>1. Critical(c) \subseteq 1..Len(c.edges)
    BY <1>1, <1>2, <1>3
  <2> QED BY <1>4, <2>1, FS_Subset
<1>6. Cardinality(Critical(c)) \in Nat
  BY <1>5, FS_CardinalityType
<1>7. list \in [1..Cardinality(Critical(c)) -> Critical(c)]
  BY DEF CriticalLists
<1>8. list \in [1..Cardinality(Critical(c)) -> c.live_edges]
  BY <1>1, <1>7
<1> QED BY <1>6, <1>8

(* The inductive invariant.  `split_critical_edges` never looks whether an *)
(* edge of its list is still there, so the list must stay a list of live   *)
(* edges while the graph grows; a phase without a list is never begun.     *)
PassShape ==
    pass = [name |-> pass.name, phases |-> pass.phases, begun |-> pass.begun,
            todo |-> pass.todo, map |-> pass.map, changed |-> pass.changed]

ListLive ==
    In("critical") /\ pass.begun => pass.todo \in Seq(cfg.live_edges)

PassInv ==
    /\ WellFormed(cfg)
    /\ PassShape
    /\ pass.begun \in BOOLEAN
    /\ ListLive
    /\ pass.begun => ~In("unreachable")

(* A new call, or a new round, has no list yet. *)
LEMMA StartedShape ==
    ASSUME NEW name, pass = Started(name)
    PROVE  PassShape /\ pass.begun = FALSE
BY DEF Started, PassShape

(* Applying a change in a phase other than "critical". *)
LEMMA ApplyElsewhere ==
    ASSUME PassInv, NEW c, WellFormed(c), NEW map, NEW todo,
           ~In("critical"), Apply(c, map, todo)
    PROVE  PassInv'
<1>1. /\ pass'.phases = pass.phases /\ pass'.begun = pass.begun
      /\ PassShape'
  BY DEF PassInv, PassShape, Apply
<1>2. ~In("critical")' /\ (In("unreachable")' <=> In("unreachable"))
  BY <1>1 DEF In, Phase
<1>3. WellFormed(cfg)'
  BY DEF Apply
<1> QED BY <1>1, <1>2, <1>3 DEF PassInv, ListLive

(* Passing over an element of the list. *)
LEMMA SkipKeeps ==
    ASSUME PassInv, ~In("critical"), Skip
    PROVE  PassInv'
<1>1. /\ pass'.phases = pass.phases /\ pass'.begun = pass.begun
      /\ PassShape' /\ cfg' = cfg
  BY DEF PassInv, PassShape, Skip
<1>2. ~In("critical")' /\ (In("unreachable")' <=> In("unreachable"))
  BY <1>1 DEF In, Phase
<1>3. WellFormed(cfg)'
  BY <1>1 DEF PassInv
<1> QED BY <1>1, <1>2, <1>3 DEF PassInv, ListLive

(* Taking the first element of a list. *)
LEMMA Taken ==
    ASSUME NEW S, NEW s \in Seq(S), s # <<>>
    PROVE  Head(s) \in S /\ Tail(s) \in Seq(S)
OBVIOUS

(* Every step of every pass keeps the invariant. *)
LEMMA PassInvPreserved ==
    ASSUME PassInv, [PassNext]_passVars
    PROVE  PassInv'
<1>1. CASE Begin
  <2>1. PICK list \in IF Phase = "critical" THEN CriticalLists(cfg)
                                            ELSE Preorders(cfg) :
           pass' = [pass EXCEPT !.begun = TRUE, !.todo = list]
    BY <1>1 DEF Begin
  <2>2. /\ pass'.phases = pass.phases /\ pass'.begun = TRUE
        /\ pass'.todo = list /\ PassShape' /\ cfg' = cfg
    BY <1>1, <2>1 DEF PassInv, PassShape, Begin
  <2>3. In("critical")' => list \in CriticalLists(cfg)
    BY <2>1, <2>2 DEF In, Phase
  <2>4. ~In("unreachable")'
    BY <1>1, <2>2 DEF Begin, In, Phase
  <2>5. WellFormed(cfg)'
    BY <2>2 DEF PassInv
  <2>6. ListLive'
    BY <2>2, <2>3, CriticalListsLive DEF PassInv, ListLive
  <2> QED BY <2>2, <2>4, <2>5, <2>6 DEF PassInv
<1>2. CASE EndPhase
  <2>1. pass'.begun = FALSE /\ PassShape' /\ cfg' = cfg
    BY <1>2 DEF PassInv, PassShape, EndPhase
  <2> QED BY <2>1 DEF PassInv, ListLive
<1>3. CASE NextRound
  <2>1. pass'.begun = FALSE /\ PassShape' /\ cfg' = cfg
    BY <1>3 DEF NextRound, Started, PassShape
  <2> QED BY <2>1 DEF PassInv, ListLive
<1>4. CASE remove_unreachable
  <2> DEFINE doomed == cfg.live_blocks \ Retained(cfg)
             dead == {e \in cfg.live_edges :
                   {cfg.edges[e].source, cfg.edges[e].target} \cap doomed # {}}
  <2>1. ~pass.begun
    BY <1>4 DEF PassInv, remove_unreachable
  <2>2. pass'.begun = pass.begun /\ PassShape'
    BY <1>4 DEF PassInv, PassShape, remove_unreachable
  <2>3. cfg' = [cfg EXCEPT !.live_blocks = cfg.live_blocks \ doomed,
                           !.live_edges = cfg.live_edges \ dead]
    BY <1>4 DEF remove_unreachable
  <2>4. doomed \cap ({cfg.entry} \cup anchors(cfg)) = {}
    BY RootsReached DEF PassInv
  <2>5. \A e \in cfg.live_edges :
           cfg.edges[e].source \in doomed \/ cfg.edges[e].target \in doomed
             => e \in dead
    OBVIOUS
  <2>6. WellFormed(cfg)'
    <3> HIDE DEF doomed, dead
    <3> QED BY <2>3, <2>4, <2>5, RetiringKeepsWellFormed DEF PassInv
  <2> QED BY <2>1, <2>2, <2>6 DEF PassInv, ListLive
<1>5. CASE remove_empty_blocks
  <2>1. ~In("critical")
    BY <1>5 DEF remove_empty_blocks, Working, In
  <2>2. CASE Skip
    BY <2>1, <2>2, SkipKeeps
  <2>3. ASSUME NEW e \in cfg.live_edges, Bypassable(cfg, Head(pass.todo), e),
               Apply(bypass(cfg, Head(pass.todo), e),
                     bypass_rewrite(pass.map, cfg, Head(pass.todo), e),
                     Tail(pass.todo))
        PROVE  PassInv'
    <3>1. WellFormed(bypass(cfg, Head(pass.todo), e))
      BY <2>3, BypassGood DEF PassInv
    <3> QED BY <2>1, <2>3, <3>1, ApplyElsewhere
  <2> QED BY <1>5, <2>2, <2>3 DEF remove_empty_blocks
<1>6. CASE merge_blocks
  <2> DEFINE b == Head(pass.todo)
  <2>1. ~In("critical")
    BY <1>6 DEF merge_blocks, Working, In
  <2>2. CASE Skip
    BY <2>1, <2>2, SkipKeeps
  <2>3. ASSUME b \in cfg.live_blocks, NEW e \in cfg.live_edges,
               CanContract(cfg, b, cfg.edges[e].target, e),
               Apply(contract_edge(cfg, b, cfg.edges[e].target, e),
                     contract_edge_rewrite(pass.map, cfg, b,
                                           cfg.edges[e].target, e),
                     pass.todo)
        PROVE  PassInv'
    <3>1. cfg.edges[e].target \in cfg.live_blocks
      BY DEF PassInv, WellFormed
    <3>2. WellFormed(contract_edge(cfg, b, cfg.edges[e].target, e))
      BY <2>3, <3>1, ContractGood DEF PassInv
    <3> QED BY <2>1, <2>3, <3>2, ApplyElsewhere
  <2> QED BY <1>6, <2>2, <2>3 DEF merge_blocks
<1>7. CASE split_critical_edges
  <2> DEFINE e == Head(pass.todo)
             after == split_edge(cfg, e)
             map == split_edge_rewrite(pass.map, cfg, e)
  <2>1. In("critical") /\ pass.begun /\ pass.todo # <<>>
    BY <1>7 DEF split_critical_edges, Working
  <2>2. pass.todo \in Seq(cfg.live_edges)
    BY <2>1 DEF PassInv, ListLive
  <2>3. e \in cfg.live_edges /\ Tail(pass.todo) \in Seq(cfg.live_edges)
    BY <2>1, <2>2, Taken
  <2>4. WellFormed(after) /\ cfg.live_edges \subseteq after.live_edges
    BY <2>3, SplitEdgeKeeps DEF PassInv
  <2>5. Apply(after, map, Tail(pass.todo))
    BY <1>7 DEF split_critical_edges
  <2> HIDE DEF e, after, map
  <2>6. /\ cfg' = after /\ pass'.begun = pass.begun
        /\ pass'.phases = pass.phases /\ pass'.todo = Tail(pass.todo)
        /\ PassShape'
    BY <2>5 DEF Apply, PassInv, PassShape
  <2>7. pass'.todo \in Seq(cfg'.live_edges)
    <3>1. Seq(cfg.live_edges) \subseteq Seq(after.live_edges)
      BY <2>4
    <3> QED BY <2>3, <2>6, <3>1
  <2>8. ~In("unreachable")'
    BY <2>1, <2>6 DEF In, Phase
  <2> QED BY <2>4, <2>6, <2>7, <2>8 DEF PassInv, ListLive
<1>8. CASE UNCHANGED passVars
  BY <1>8 DEF passVars, PassInv, PassShape, ListLive, In, Phase
<1> QED BY <1>1, <1>2, <1>3, <1>4, <1>5, <1>6, <1>7, <1>8 DEF PassNext

(* remove_unreachable, remove_empty_blocks, merge_blocks,                  *)
(* split_critical_edges and simplify, on any graph with any exception      *)
(* metadata, never leave an edge at a removed block and never remove the   *)
(* entry or an anchor, at any step of their work.                          *)
THEOREM PassesKeepGraphsWellFormed == PassSpec => []StaysWellFormed
<1>1. PassInit => PassInv
  <2> SUFFICES ASSUME PassInit PROVE PassInv
    OBVIOUS
  <2>1. PICK name \in Passes : pass = Started(name)
    BY DEF PassInit
  <2>2. PassShape /\ pass.begun = FALSE
    BY <2>1, StartedShape
  <2> QED BY <2>2 DEF PassInit, PassInv, ListLive
<1>2. PassInv /\ [PassNext]_passVars => PassInv'
  BY PassInvPreserved
<1>3. PassInv => StaysWellFormed
  BY DEF PassInv, StaysWellFormed
<1> QED BY <1>1, <1>2, <1>3, PTL DEF PassSpec
-----------------------------------------------------------------------------
(* Code: no instruction that the first graph held anywhere comes back to   *)
(* life, and one of a live block that is still there is in a block its own *)
(* one became.                                                             *)
Carries(map, c, d) ==
    /\ Tags(c, Slots(c)) \subseteq Tags(d, Slots(d))
    /\ Tags(d, d.live_blocks) \cap Tags(c, Slots(c)) \subseteq Tags(c, c.live_blocks)
    /\ \A x \in c.live_blocks :
          Tags(c, {x}) \cap Tags(d, d.live_blocks)
            \subseteq Tags(d, replacements_of(map, x))

(* A record that says what became of c when it became d. *)
Renames(r, c, d) ==
    /\ r = [blocks |-> r.blocks, edges |-> r.edges,
            created_blocks |-> r.created_blocks, created_edges |-> r.created_edges]
    /\ Right(r.blocks, r.created_blocks, c.live_blocks, Slots(d), d.live_blocks)
    /\ Right(r.edges, r.created_edges, c.live_edges, EdgeSlots(d), d.live_edges)
    /\ Carries(r.blocks, c, d)

(* d comes after c, with no compaction between them. *)
Follows(c, d) ==
    /\ Onward(Slots(c), c.live_blocks, Slots(d), d.live_blocks)
    /\ Onward(EdgeSlots(c), c.live_edges, EdgeSlots(d), d.live_edges)

(* The instructions of some blocks are those of each of them. *)
LEMMA TagsOfEach ==
    ASSUME NEW c, NEW B, NEW tag
    PROVE  tag \in Tags(c, B) <=> \E b \in B : tag \in Tags(c, {b})
BY DEF Tags

(* More blocks hold more instructions. *)
LEMMA TagsMonotone ==
    ASSUME NEW c, NEW B, NEW C, B \subseteq C
    PROVE  Tags(c, B) \subseteq Tags(c, C)
BY DEF Tags

(* Code is carried along two records as along the composed one. *)
LEMMA CarriesComposed ==
    ASSUME NEW m1, NEW m2, NEW c, NEW d, NEW e,
           c.live_blocks \subseteq Slots(c),
           \A x \in c.live_blocks : replacements_of(m1, x) \subseteq d.live_blocks,
           Carries(m1, c, d), Carries(m2, d, e)
    PROVE  Carries(compose_axis(m1, m2), c, e)
<1>1. Tags(c, Slots(c)) \subseteq Tags(e, Slots(e))
  BY DEF Carries
<1>2. Tags(e, e.live_blocks) \cap Tags(c, Slots(c)) \subseteq Tags(c, c.live_blocks)
  BY DEF Carries
<1>3. ASSUME NEW x \in c.live_blocks, NEW tag \in Tags(c, {x}),
             tag \in Tags(e, e.live_blocks)
      PROVE  tag \in Tags(e, replacements_of(compose_axis(m1, m2), x))
  <2>1. tag \in Tags(c, Slots(c))
    BY <1>3, TagsMonotone
  <2>2. tag \in Tags(d, d.live_blocks)
    BY <1>3, <2>1 DEF Carries
  <2>3. tag \in Tags(d, replacements_of(m1, x))
    BY <1>3, <2>2 DEF Carries
  <2>4. PICK y \in replacements_of(m1, x) : tag \in Tags(d, {y})
    BY <2>3, TagsOfEach
  <2>5. tag \in Tags(e, replacements_of(m2, y))
    BY <1>3, <2>4 DEF Carries
  <2>6. replacements_of(m2, y) \subseteq replacements_of(compose_axis(m1, m2), x)
    BY <2>4, ComposeChases, ChaseMember
  <2> QED BY <2>5, <2>6, TagsMonotone
<1> QED BY <1>1, <1>2, <1>3 DEF Carries

(* compose(): the record of one change followed by the record of the next  *)
(* is a record of both.  The client of a graph, `simplify` and every pass  *)
(* rest on this.                                                           *)
THEOREM RecordsCompose ==
    ASSUME NEW r, NEW s, NEW c, NEW d, NEW e,
           c.live_blocks \subseteq Slots(c),
           Renames(r, c, d), Renames(s, d, e), Follows(d, e)
    PROVE  Renames(compose(r, s), c, e)
<1> DEFINE blocks == compose_axis(r.blocks, s.blocks)
           edges == compose_axis(r.edges, s.edges)
           t == [blocks |-> blocks, edges |-> edges,
                 created_blocks |-> Chase(blocks, r.created_blocks)
                                      \cup s.created_blocks,
                 created_edges |-> Chase(edges, r.created_edges)
                                      \cup s.created_edges]
<1>1. compose(r, s) = t
  BY DEF compose
<1>2. Right(blocks, t.created_blocks, c.live_blocks, Slots(e), e.live_blocks)
  BY RightComposed DEF Renames, Follows
<1>3. Right(edges, t.created_edges, c.live_edges, EdgeSlots(e), e.live_edges)
  BY RightComposed DEF Renames, Follows
<1>4. Carries(blocks, c, e)
  <2>1. \A x \in c.live_blocks : replacements_of(r.blocks, x) \subseteq d.live_blocks
    BY DEF Renames, Right
  <2> QED BY <2>1, CarriesComposed DEF Renames
<1>5. /\ t.blocks = blocks /\ t.edges = edges
      /\ t = [blocks |-> t.blocks, edges |-> t.edges,
              created_blocks |-> t.created_blocks, created_edges |-> t.created_edges]
  OBVIOUS
<1> HIDE DEF t, blocks, edges
<1> QED BY <1>1, <1>2, <1>3, <1>4, <1>5 DEF Renames

(* What AccountsFor asks of the record from the client's identities to     *)
(* the present ones.                                                       *)
LEMMA RenamesAccount ==
    ASSUME NEW r, NEW c, Renames(r, origin, c)
    PROVE  AccountsFor(r, c)
<1>1. ASSUME NEW b \in origin.live_blocks
      PROVE  Truthful(r, b, c)
  <2>1. BlocksNow(r, b) \subseteq c.live_blocks
    BY DEF Renames, Right, BlocksNow
  <2> QED BY <2>1 DEF Renames, Carries, Truthful, BlocksNow
<1>2. c.live_blocks = r.created_blocks
         \cup UNION {BlocksNow(r, b) : b \in origin.live_blocks}
  BY DEF Renames, Right, BlocksNow
<1>3. c.live_edges = r.created_edges
         \cup UNION {EdgesNow(r, e) : e \in origin.live_edges}
  BY DEF Renames, Right, EdgesNow
<1> QED BY <1>1, <1>2, <1>3 DEF AccountsFor
-----------------------------------------------------------------------------
(* Graphs. *)
Shaped(c) ==
    c \in [instructions : Seq(Seq(Nat)), edges : Seq(EdgeRecord),
           live_blocks : SUBSET Nat, live_edges : SUBSET Nat, entry : {c.entry},
           regions : {c.regions}, cleanups : {c.cleanups}]

Graph(c) ==
    /\ Shaped(c)
    /\ c.live_blocks \subseteq Slots(c) /\ c.live_edges \subseteq EdgeSlots(c)
    /\ Once(c)

(* The edges that are there join blocks that are there. *)
Joins(c) ==
    \A e \in c.live_edges : /\ c.edges[e].source \in c.live_blocks
                            /\ c.edges[e].target \in c.live_blocks

(* A change with its record is right: it leads from a graph to a graph, no *)
(* slot is used again, and the record says what became of everything.      *)
RightChange(c, d, r) == Graph(d) /\ Follows(c, d) /\ Renames(r, c, d)

(* Code in blocks that are left alone, of which some may be retired, is    *)
(* carried along.                                                          *)
LEMMA CarriesAlone ==
    ASSUME NEW c, NEW d, NEW map, c.live_blocks \subseteq Slots(c), Once(c),
           Slots(c) \subseteq Slots(d), d.live_blocks \cap Slots(c) \subseteq c.live_blocks,
           d.live_blocks \subseteq Slots(d),
           \A x \in Slots(c) : d.instructions[x] = c.instructions[x],
           \A x \in Slots(d) \ Slots(c) : d.instructions[x] = <<>>,
           \A x \in d.live_blocks \cap c.live_blocks : x \in replacements_of(map, x)
    PROVE  Carries(map, c, d)
<1>1. \A x \in Slots(c) : Tags(d, {x}) = Tags(c, {x})
  BY DEF Tags
<1>2. \A x \in Slots(d) \ Slots(c) : Tags(d, {x}) = {}
  BY DEF Tags
<1>3. ASSUME NEW tag \in Tags(c, Slots(c))
      PROVE  tag \in Tags(d, Slots(d))
  <2>1. PICK x \in Slots(c) : tag \in Tags(c, {x})
    BY <1>3, TagsOfEach
  <2> QED BY <1>1, <2>1, TagsOfEach
<1>4. ASSUME NEW tag \in Tags(d, d.live_blocks)
      PROVE  tag \in Tags(c, c.live_blocks)
  <2>1. PICK x \in d.live_blocks : tag \in Tags(d, {x})
    BY <1>4, TagsOfEach
  <2>2. x \in c.live_blocks /\ tag \in Tags(c, {x})
    BY <1>1, <1>2, <2>1
  <2> QED BY <2>2, TagsOfEach
<1>5. ASSUME NEW x \in c.live_blocks, NEW tag \in Tags(c, {x}),
             tag \in Tags(d, d.live_blocks)
      PROVE  tag \in Tags(d, replacements_of(map, x))
  <2>1. PICK y \in d.live_blocks : tag \in Tags(d, {y})
    BY <1>5, TagsOfEach
  <2>2. y \in Slots(c) /\ tag \in Tags(c, {y})
    BY <1>1, <1>2, <2>1
  <2>3. y = x
    BY <1>5, <2>2 DEF Once, Tags
  <2> QED BY <2>1, <2>3, TagsOfEach
<1> QED BY <1>3, <1>4, <1>5 DEF Carries

(* A change that leaves the blocks alone. *)
LEMMA BlocksAlone ==
    ASSUME NEW c, Graph(c), NEW d,
           d.instructions = c.instructions, d.live_blocks = c.live_blocks
    PROVE  /\ Once(d)
           /\ Right(new.blocks, {}, c.live_blocks, Slots(d), d.live_blocks)
           /\ Onward(Slots(c), c.live_blocks, Slots(d), d.live_blocks)
           /\ Carries(new.blocks, c, d)
<1>1. Slots(d) = Slots(c) /\ Once(d)
  BY DEF Slots, Graph, Once
<1>2. \A x : x \in replacements_of(new.blocks, x)
  <2>1. DOMAIN new.blocks = {}
    BY DEF new
  <2> QED BY <2>1 DEF replacements_of
<1>3. Carries(new.blocks, c, d)
  BY <1>1, <1>2, CarriesAlone DEF Graph
<1> QED BY <1>1, <1>3, RightUnchanged DEF Graph, Onward
(* A change that leaves the edges, or at least their slots, alone. *)
LEMMA EdgesAlone ==
    ASSUME NEW c, Graph(c), NEW d,
           DOMAIN d.edges = DOMAIN c.edges, d.live_edges = c.live_edges
    PROVE  /\ Right(new.edges, {}, c.live_edges, EdgeSlots(d), d.live_edges)
           /\ Onward(EdgeSlots(c), c.live_edges, EdgeSlots(d), d.live_edges)
<1>1. EdgeSlots(d) = EdgeSlots(c)
  BY DEF EdgeSlots
<1> QED BY <1>1, RightUnchanged DEF Graph, Onward

(* Edits that touch neither blocks nor edges record nothing. *)
LEMMA EditRight ==
    ASSUME NEW c, Graph(c), NEW d, Shaped(d),
           d.instructions = c.instructions, d.edges = c.edges,
           d.live_blocks = c.live_blocks, d.live_edges = c.live_edges
    PROVE  RightChange(c, d, new)
<1>1. Graph(d)
  BY BlocksAlone DEF Graph, Slots, EdgeSlots
<1> QED BY <1>1, BlocksAlone, EdgesAlone, NewFields
        DEF RightChange, Follows, Renames, RecordShape

(* The slots of a graph and the next one. *)
LEMMA SlotsOf ==
    ASSUME NEW c, Graph(c)
    PROVE  /\ Len(c.instructions) \in Nat /\ Slots(c) = 1..Len(c.instructions)
           /\ Len(c.edges) \in Nat /\ EdgeSlots(c) = 1..Len(c.edges)
BY DEF Graph, Shaped, Slots, EdgeSlots

(* What Append leaves. *)
LEMMA AppendedFacts ==
    ASSUME NEW S, NEW s \in Seq(S), NEW x \in S
    PROVE  LET t == Append(s, x)
           IN  /\ t \in Seq(S) /\ Len(t) = Len(s) + 1
               /\ DOMAIN t = DOMAIN s \cup {Len(t)}
               /\ Len(t) \notin DOMAIN s /\ t[Len(t)] = x
               /\ \A i \in DOMAIN s : t[i] = s[i]
<1> DEFINE t == Append(s, x)
           n == Len(s)
<1>1. n \in Nat /\ DOMAIN s = 1..n
  OBVIOUS
<1>2. /\ t \in Seq(S) /\ Len(t) = n + 1 /\ DOMAIN t = 1..(n + 1)
      /\ t[n + 1] = x /\ \A i \in 1..n : t[i] = s[i]
  BY <1>1
<1>3. 1..(n + 1) = 1..n \cup {n + 1} /\ n + 1 \notin 1..n
  BY <1>1
<1> HIDE DEF t, n
<1> QED BY <1>1, <1>2, <1>3 DEF t, n

(* new_block. *)
LEMMA NewBlockRight ==
    ASSUME NEW c, Graph(c)
    PROVE  RightChange(c, new_block(c),
                       record_created_block(new, Len(c.instructions) + 1))
<1> DEFINE n == Len(c.instructions) + 1
           d == new_block(c)
           r == record_created_block(new, n)
<1>1. /\ d.instructions = Append(c.instructions, <<>>)
      /\ d.live_blocks = c.live_blocks \cup {n}
      /\ d.edges = c.edges /\ d.live_edges = c.live_edges
      /\ Shaped(d)
  <2> DEFINE I == Append(c.instructions, <<>>)
             B == c.live_blocks \cup {n}
  <2>1. I \in Seq(Seq(Nat)) /\ B \in SUBSET Nat
    BY SlotsOf DEF Graph, Shaped
  <2>2. d = [c EXCEPT !.instructions = I, !.live_blocks = B]
    BY DEF new_block, Graph, Shaped
  <2> HIDE DEF I, B, d
  <2>3. /\ d.instructions = I /\ d.live_blocks = B /\ Shaped(d)
        /\ d.edges = c.edges /\ d.live_edges = c.live_edges
    BY <2>1, <2>2 DEF Graph, Shaped
  <2> QED BY <2>3 DEF I, B
<1>2. /\ RecordShape(r) /\ r.blocks = new.blocks /\ r.edges = new.edges
      /\ r.created_blocks = {n} /\ r.created_edges = {}
  BY NewFields, RecordCreatedFields
<1> HIDE DEF d, r
<1>3. /\ Slots(d) = Slots(c) \cup {n} /\ n \notin Slots(c)
      /\ \A x \in Slots(c) : d.instructions[x] = c.instructions[x]
      /\ d.instructions[n] = <<>>
  <2>1. c.instructions \in Seq(Seq(Nat)) /\ <<>> \in Seq(Nat)
    BY DEF Graph, Shaped
  <2> QED BY <1>1, <2>1, AppendedFacts DEF Slots
<1> HIDE DEF n
<1>4. \A x \in Slots(d) : DOMAIN d.instructions[x] # {} => x \in Slots(c)
  BY <1>3
<1>5. Graph(d)
  <2>1. d.live_blocks \subseteq Slots(d)
    BY <1>1, <1>3 DEF Graph
  <2>2. Once(d)
    <3> SUFFICES ASSUME NEW x \in Slots(d), NEW y \in Slots(d),
                        NEW i \in DOMAIN d.instructions[x],
                        NEW j \in DOMAIN d.instructions[y],
                        d.instructions[x][i] = d.instructions[y][j]
                 PROVE  x = y /\ i = j
      BY DEF Once
    <3>1. x \in Slots(c) /\ y \in Slots(c)
      BY <1>4
    <3> QED BY <1>3, <3>1 DEF Graph, Once
  <2> QED BY <1>1, <1>3, <2>1, <2>2 DEF Graph, EdgeSlots
<1>6. Right(r.blocks, r.created_blocks, c.live_blocks, Slots(d), d.live_blocks)
  <2>1. Right(new.blocks, {}, c.live_blocks, Slots(c), c.live_blocks)
    BY RightUnchanged DEF Graph
  <2>2. Right(new.blocks, {} \cup {n}, c.live_blocks, Slots(d), c.live_blocks \cup {n})
    BY <1>3, <2>1, RightMade
  <2> QED BY <1>1, <1>2, <2>2
<1>7. Carries(r.blocks, c, d)
  <2>1. \A x : x \in replacements_of(r.blocks, x)
    <3>1. DOMAIN r.blocks = {}
      BY <1>2 DEF new
    <3> QED BY <3>1 DEF replacements_of
  <2>2. d.live_blocks \cap Slots(c) \subseteq c.live_blocks /\ d.live_blocks \subseteq Slots(d)
    BY <1>1, <1>3 DEF Graph
  <2> QED BY <1>3, <2>1, <2>2, CarriesAlone DEF Graph
<1>8. Follows(c, d)
  BY <1>1, <1>3, EdgesAlone DEF Follows, Onward
<1>9. Right(r.edges, r.created_edges, c.live_edges, EdgeSlots(d), d.live_edges)
  BY <1>1, <1>2, EdgesAlone
<1> QED BY <1>2, <1>5, <1>6, <1>7, <1>8, <1>9
        DEF RightChange, Renames, RecordShape, d, r, n

(* push: an instruction that was nowhere goes to the end of a block. *)
LEMMA PushRight ==
    ASSUME NEW c, Graph(c), NEW b \in Slots(c), NEW tag \in Nat,
           tag \notin Tags(c, Slots(c))
    PROVE  RightChange(c, [c EXCEPT !.instructions[b] = Append(@, tag)], new)
<1> DEFINE code == Append(c.instructions[b], tag)
           I == [c.instructions EXCEPT ![b] = code]
           d == [c EXCEPT !.instructions = I]
<1>1. c.instructions[b] \in Seq(Nat)
  BY DEF Graph, Shaped, Slots
<1>2. /\ code \in Seq(Nat)
      /\ DOMAIN code = DOMAIN c.instructions[b] \cup {Len(code)}
      /\ Len(code) \notin DOMAIN c.instructions[b] /\ code[Len(code)] = tag
      /\ \A i \in DOMAIN c.instructions[b] : code[i] = c.instructions[b][i]
  <2> DEFINE old == c.instructions[b]
  <2>1. old \in Seq(Nat)
    BY <1>1
  <2> HIDE DEF old
  <2>2. /\ Append(old, tag) \in Seq(Nat)
        /\ DOMAIN Append(old, tag) = DOMAIN old \cup {Len(Append(old, tag))}
        /\ Len(Append(old, tag)) \notin DOMAIN old
        /\ Append(old, tag)[Len(Append(old, tag))] = tag
        /\ \A i \in DOMAIN old : Append(old, tag)[i] = old[i]
    BY SMTT(30), <2>1, AppendedFacts
  <2> QED BY <2>2 DEF old
<1> HIDE DEF code
<1>3. I \in Seq(Seq(Nat)) /\ DOMAIN I = DOMAIN c.instructions
  <2>1. \A i \in DOMAIN c.instructions : c.instructions[i] \in Seq(Nat)
    BY SMTT(30) DEF Graph, Shaped
  <2>2. I \in [DOMAIN c.instructions -> Seq(Nat)]
    BY <1>2, <2>1
  <2> HIDE DEF I
  <2> QED BY SMTT(30), <2>2, MappedSequence DEF Graph, Shaped
<1>4. I[b] = code /\ \A x \in Slots(c) \ {b} : I[x] = c.instructions[x]
  BY DEF Slots
<1> HIDE DEF I
<1>5. /\ d.instructions = I /\ d.live_blocks = c.live_blocks
      /\ d.edges = c.edges /\ d.live_edges = c.live_edges
      /\ Shaped(d)
      /\ [c EXCEPT !.instructions[b] = Append(@, tag)] = d
  <2>1. [c EXCEPT !.instructions[b] = Append(@, tag)] = d
    BY DEF Graph, Shaped, I, code
  <2> QED BY <1>3, <2>1 DEF Graph, Shaped
<1> HIDE DEF d
<1>6. Slots(d) = Slots(c)
  BY <1>3, <1>5 DEF Slots
<1>7. /\ \A x \in Slots(c) \ {b} : Tags(d, {x}) = Tags(c, {x})
      /\ Tags(d, {b}) = Tags(c, {b}) \cup {tag}
  <2>1. \A x \in Slots(c) \ {b} : Tags(d, {x}) = Tags(c, {x})
    BY <1>4, <1>5 DEF Tags
  <2>2. \A t : t \in Tags(c, {b})
                  <=> \E i \in DOMAIN c.instructions[b] : t = c.instructions[b][i]
    BY SMTT(30) DEF Tags
  <2>3. \A t : t \in Tags(d, {b}) <=> \E i \in DOMAIN code : t = code[i]
    BY SMTT(30), <1>4, <1>5 DEF Tags
  <2>4. \A t : t \in Tags(d, {b}) <=> t \in Tags(c, {b}) \/ t = tag
    BY <1>2, <2>2, <2>3
  <2> QED BY <2>1, <2>4
<1>8. ASSUME NEW x \in Slots(c)
      PROVE  tag \notin Tags(c, {x})
  BY TagsOfEach
<1>9. Once(d)
  <2>1. \A x \in Slots(c) : \A i \in DOMAIN c.instructions[x] : c.instructions[x][i] # tag
    BY <1>8 DEF Tags
  <2> SUFFICES ASSUME NEW x \in Slots(c), NEW y \in Slots(c),
                      NEW i \in DOMAIN I[x], NEW j \in DOMAIN I[y],
                      I[x][i] = I[y][j]
               PROVE  x = y /\ i = j
    BY <1>5, <1>6 DEF Once
  <2>2. ASSUME NEW z \in Slots(c), NEW k \in DOMAIN I[z]
        PROVE  \/ k \in DOMAIN c.instructions[z] /\ I[z][k] = c.instructions[z][k]
               \/ z = b /\ k = Len(code) /\ I[z][k] = tag
    <3>1. CASE z = b
      <4>1. I[z] = code
        BY <1>4, <3>1
      <4>2. k \in DOMAIN code
        BY <2>2, <4>1
      <4>3. \/ k = Len(code) /\ code[k] = tag
            \/ k \in DOMAIN c.instructions[b] /\ code[k] = c.instructions[b][k]
        BY <1>2, <4>2, Zenon
      <4> QED BY <3>1, <4>1, <4>3, Zenon
    <3>2. CASE z # b
      <4>1. I[z] = c.instructions[z]
        BY <1>4, <3>2
      <4> QED BY <2>2, <4>1
    <3> QED BY <3>1, <3>2
  <2>3. \/ i \in DOMAIN c.instructions[x] /\ I[x][i] = c.instructions[x][i]
        \/ x = b /\ i = Len(code) /\ I[x][i] = tag
    BY <2>2
  <2>4. \/ j \in DOMAIN c.instructions[y] /\ I[y][j] = c.instructions[y][j]
        \/ y = b /\ j = Len(code) /\ I[y][j] = tag
    BY <2>2
  <2>5. /\ i \in DOMAIN c.instructions[x] => c.instructions[x][i] # tag
        /\ j \in DOMAIN c.instructions[y] => c.instructions[y][j] # tag
    BY <2>1
  <2>6. i \in DOMAIN c.instructions[x] /\ j \in DOMAIN c.instructions[y]
          => (c.instructions[x][i] = c.instructions[y][j] => x = y /\ i = j)
    BY DEF Graph, Once
  <2> QED BY <2>3, <2>4, <2>5, <2>6
<1>10. Graph(d)
  BY <1>3, <1>5, <1>6, <1>9 DEF Graph, EdgeSlots
<1>11. Carries(new.blocks, c, d)
  <2>1. \A x : replacements_of(new.blocks, x) = {x}
    <3>1. DOMAIN new.blocks = {}
      BY DEF new
    <3> QED BY <3>1 DEF replacements_of
  <2>2. \A x \in Slots(c) : Tags(c, {x}) \subseteq Tags(d, {x})
    BY <1>7
  <2>3. ASSUME NEW t \in Tags(c, Slots(c))
        PROVE  t \in Tags(d, Slots(d))
    <3>1. PICK x \in Slots(c) : t \in Tags(c, {x})
      BY <2>3, TagsOfEach
    <3> QED BY <1>6, <2>2, <3>1, TagsOfEach
  <2>4. ASSUME NEW t \in Tags(d, d.live_blocks), t \in Tags(c, Slots(c))
        PROVE  t \in Tags(c, c.live_blocks)
    <3>1. PICK x \in d.live_blocks : t \in Tags(d, {x})
      BY <2>4, TagsOfEach
    <3>2. x \in c.live_blocks /\ x \in Slots(c) /\ t # tag
      BY <1>5, <2>4, <3>1 DEF Graph
    <3>3. t \in Tags(c, {x})
      BY <1>7, <3>1, <3>2
    <3> QED BY <3>2, <3>3, TagsOfEach
  <2>5. \A x \in c.live_blocks : Tags(c, {x}) \subseteq Tags(d, replacements_of(new.blocks, x))
    BY <2>1, <2>2 DEF Graph
  <2> QED BY <2>3, <2>4, <2>5 DEF Carries
<1>12. Right(new.blocks, {}, c.live_blocks, Slots(d), d.live_blocks)
  BY <1>5, <1>6, RightUnchanged DEF Graph
<1>13. Follows(c, d)
  BY <1>5, <1>6, EdgesAlone DEF Follows, Onward
<1> QED BY <1>5, <1>10, <1>11, <1>12, <1>13, EdgesAlone, NewFields
        DEF RightChange, Renames, RecordShape

(* A change of the edges alone is right when its record of the edges is. *)
LEMMA EdgeChange ==
    ASSUME NEW c, Graph(c), NEW d, Shaped(d), NEW r, RecordShape(r),
           d.instructions = c.instructions, d.live_blocks = c.live_blocks,
           r.blocks = new.blocks, r.created_blocks = {},
           Right(r.edges, r.created_edges, c.live_edges, EdgeSlots(d), d.live_edges),
           Onward(EdgeSlots(c), c.live_edges, EdgeSlots(d), d.live_edges)
    PROVE  RightChange(c, d, r)
<1>1. Slots(d) = Slots(c)
  BY DEF Slots
<1>2. d.live_edges \subseteq EdgeSlots(d)
  BY DEF Right
<1>3. Graph(d)
  BY <1>1, <1>2, BlocksAlone DEF Graph
<1> QED BY <1>3, BlocksAlone DEF RightChange, Follows, Renames, RecordShape

(* add_edge. *)
LEMMA AddEdgeRight ==
    ASSUME NEW c, Graph(c), NEW source \in Nat, NEW target \in Nat,
           NEW kind \in EdgeKind
    PROVE  RightChange(c, add_edge(c, source, target, kind),
                       record_created_edge(new, Len(c.edges) + 1))
<1> DEFINE n == Len(c.edges) + 1
           edge == [source |-> source, target |-> target, kind |-> kind]
           L == Append(c.edges, edge)
           E == c.live_edges \cup {n}
           d == add_edge(c, source, target, kind)
           r == record_created_edge(new, n)
<1>1. edge \in EdgeRecord /\ c.edges \in Seq(EdgeRecord) /\ n \in Nat
  BY SlotsOf DEF Graph, Shaped, EdgeRecord
<1>2. d = [c EXCEPT !.edges = L, !.live_edges = E]
  BY DEF add_edge, Graph, Shaped
<1>3. /\ L \in Seq(EdgeRecord) /\ DOMAIN L = DOMAIN c.edges \cup {n}
      /\ n \notin DOMAIN c.edges
  <2> HIDE DEF edge
  <2> QED BY <1>1, AppendedFacts
<1>4. E \in SUBSET Nat
  BY <1>1 DEF Graph, Shaped
<1>5. /\ RecordShape(r) /\ r.blocks = new.blocks /\ r.edges = new.edges
      /\ r.created_edges = {n} /\ r.created_blocks = {}
  BY NewFields, RecordCreatedFields
<1> HIDE DEF d, L, E, r, n
<1>6. /\ d.edges = L /\ d.live_edges = E /\ Shaped(d)
      /\ d.instructions = c.instructions /\ d.live_blocks = c.live_blocks
  BY <1>2, <1>3, <1>4 DEF Graph, Shaped
<1>7. EdgeSlots(d) = EdgeSlots(c) \cup {n} /\ n \notin EdgeSlots(c)
  BY <1>3, <1>6 DEF EdgeSlots
<1>8. Right(r.edges, r.created_edges, c.live_edges, EdgeSlots(d), d.live_edges)
  <2>1. Right(new.edges, {}, c.live_edges, EdgeSlots(c), c.live_edges)
    BY RightUnchanged DEF Graph
  <2>2. Right(new.edges, {} \cup {n}, c.live_edges, EdgeSlots(d), c.live_edges \cup {n})
    BY <1>7, <2>1, RightMade
  <2> QED BY <1>5, <1>6, <2>2 DEF E
<1>9. Onward(EdgeSlots(c), c.live_edges, EdgeSlots(d), d.live_edges)
  BY <1>6, <1>7 DEF Onward, E, Graph
<1> QED BY <1>5, <1>6, <1>8, <1>9, EdgeChange DEF d, r, n

(* remove_edges. *)
LEMMA RemoveEdgesRight ==
    ASSUME NEW c, Graph(c), NEW E \in SUBSET c.live_edges
    PROVE  RightChange(c, remove_edges(c, E), record_removed_edges(new, E))
<1> DEFINE K == c.live_edges \ E
           d == remove_edges(c, E)
           r == record_removed_edges(new, E)
<1>1. /\ RecordShape(r) /\ r.blocks = new.blocks
      /\ r.edges = Inserted(new.edges, [e \in E |-> {}])
      /\ r.created_edges = {} /\ r.created_blocks = {}
  BY NewFields, RecordRemovedFields
<1>2. d = [c EXCEPT !.live_edges = K]
  BY DEF remove_edges
<1>3. K \in SUBSET Nat
  BY DEF Graph, Shaped
<1> HIDE DEF K, d, r
<1>4. /\ d.edges = c.edges /\ d.live_edges = K /\ Shaped(d)
      /\ d.instructions = c.instructions /\ d.live_blocks = c.live_blocks
  BY <1>2, <1>3 DEF Graph, Shaped
<1>5. EdgeSlots(d) = EdgeSlots(c)
  BY <1>4 DEF EdgeSlots
<1>6. Right(r.edges, r.created_edges, c.live_edges, EdgeSlots(d), d.live_edges)
  <2>1. Right(new.edges, {}, c.live_edges, EdgeSlots(c), c.live_edges) /\ Own(new.edges)
    BY RightUnchanged DEF Graph
  <2> QED BY <1>1, <1>4, <1>5, <2>1, RightRemoved DEF K
<1>7. Onward(EdgeSlots(c), c.live_edges, EdgeSlots(d), d.live_edges)
  BY <1>4, <1>5 DEF Onward, K
<1> QED BY <1>1, <1>4, <1>6, <1>7, EdgeChange DEF d, r

(* Edges whose ends were moved are recorded as kept. *)
LEMMA ReplacedEdgesRight ==
    ASSUME NEW c, Graph(c), NEW L \in Seq(EdgeRecord), DOMAIN L = DOMAIN c.edges,
           NEW E \in SUBSET c.live_edges
    PROVE  RightChange(c, [c EXCEPT !.edges = L], record_kept_edges(new, E))
<1> DEFINE d == [c EXCEPT !.edges = L]
           r == record_kept_edges(new, E)
<1>1. /\ RecordShape(r) /\ r.blocks = new.blocks
      /\ r.edges = Inserted(new.edges, [e \in E |-> {e}])
      /\ r.created_edges = {} /\ r.created_blocks = {}
  BY NewFields, RecordKeptFields
<1>2. /\ d.edges = L /\ d.live_edges = c.live_edges /\ Shaped(d)
      /\ d.instructions = c.instructions /\ d.live_blocks = c.live_blocks
  BY DEF Graph, Shaped
<1> HIDE DEF d, r
<1>3. EdgeSlots(d) = EdgeSlots(c)
  BY <1>2 DEF EdgeSlots
<1>4. Right(r.edges, r.created_edges, c.live_edges, EdgeSlots(d), d.live_edges)
  <2>1. Right(new.edges, {}, c.live_edges, EdgeSlots(c), c.live_edges) /\ Own(new.edges)
    BY RightUnchanged DEF Graph
  <2> QED BY <1>1, <1>2, <1>3, <2>1, RightKept
<1>5. Onward(EdgeSlots(c), c.live_edges, EdgeSlots(d), d.live_edges)
  BY <1>2, <1>3 DEF Onward
<1> QED BY <1>1, <1>2, <1>4, <1>5, EdgeChange DEF d, r

(* redirect_edges_to. *)
LEMMA RedirectEdgesRight ==
    ASSUME NEW c, Graph(c), NEW old, NEW target \in Nat
    PROVE  RightChange(c, redirect_edges_to(c, old, target),
                       record_kept_edges(new, incoming(c, old)))
<1> DEFINE L == [e \in DOMAIN c.edges |->
                    IF e \in incoming(c, old)
                    THEN [c.edges[e] EXCEPT !.target = target]
                    ELSE c.edges[e]]
<1>1. \A e \in DOMAIN c.edges : c.edges[e] \in EdgeRecord
  BY DEF Graph, Shaped
<1>2. L \in [DOMAIN c.edges -> EdgeRecord]
  BY <1>1 DEF EdgeRecord
<1>3. redirect_edges_to(c, old, target) = [c EXCEPT !.edges = L]
  BY DEF redirect_edges_to
<1> HIDE DEF L
<1>4. L \in Seq(EdgeRecord) /\ DOMAIN L = DOMAIN c.edges
  BY <1>2, MappedSequence DEF Graph, Shaped
<1>5. incoming(c, old) \subseteq c.live_edges
  BY DEF incoming
<1> QED BY <1>3, <1>4, <1>5, ReplacedEdgesRight

(* redirect_edge, of either end. *)
LEMMA RedirectEdgeRight ==
    ASSUME NEW c, Graph(c), NEW e \in c.live_edges, NEW end \in {"source", "target"},
           NEW b \in Nat
    PROVE  RightChange(c, [c EXCEPT !.edges[e][end] = b], record_kept_edges(new, {e}))
<1> DEFINE edge == [c.edges[e] EXCEPT ![end] = b]
           L == [c.edges EXCEPT ![e] = edge]
<1>1. \A i \in DOMAIN c.edges : c.edges[i] \in EdgeRecord
  BY DEF Graph, Shaped
<1>2. c.edges[e] \in EdgeRecord
  BY <1>1 DEF Graph, EdgeSlots
<1>3. edge \in EdgeRecord
  <2>1. CASE end = "source"
    BY <1>2, <2>1 DEF EdgeRecord
  <2>2. CASE end = "target"
    BY <1>2, <2>2 DEF EdgeRecord
  <2> QED BY <2>1, <2>2
<1> HIDE DEF edge
<1>4. L \in [DOMAIN c.edges -> EdgeRecord]
  BY <1>1, <1>3
<1>5. [c EXCEPT !.edges[e][end] = b] = [c EXCEPT !.edges = L]
  BY DEF edge
<1> HIDE DEF L
<1>6. L \in Seq(EdgeRecord) /\ DOMAIN L = DOMAIN c.edges
  BY <1>4, MappedSequence DEF Graph, Shaped
<1> QED BY <1>5, <1>6, ReplacedEdgesRight

(* remove_block, with the edges at the block. *)
LEMMA RemoveBlockRight ==
    ASSUME NEW c, Graph(c), NEW b \in c.live_blocks
    PROVE  RightChange(c, remove_block(c, b),
                       record_block(record_removed_edges(new, Incident(c, b)), b, {}))
<1> DEFINE E == Incident(c, b)
           q == record_removed_edges(new, E)
           r == record_block(q, b, {})
           B == c.live_blocks \ {b}
           K == c.live_edges \ E
           d == remove_block(c, b)
<1>1. /\ RecordShape(q) /\ q.blocks = new.blocks
      /\ q.edges = Inserted(new.edges, [e \in E |-> {}])
      /\ q.created_edges = {} /\ q.created_blocks = {}
  BY NewFields, RecordRemovedFields
<1> HIDE DEF q, E
<1>2. /\ RecordShape(r) /\ r.blocks = Inserted(new.blocks, Entry(b, {}))
      /\ r.edges = Inserted(new.edges, [e \in E |-> {}])
      /\ r.created_edges = {} /\ r.created_blocks = {}
  <2>1. RecordShape(q)
    BY <1>1
  <2>2. /\ RecordShape(r) /\ r.blocks = Inserted(q.blocks, Entry(b, {}))
        /\ r.edges = q.edges /\ r.created_blocks = q.created_blocks
        /\ r.created_edges = q.created_edges
    BY <2>1, RecordBlockFields
  <2> QED BY <1>1, <2>2
<1>3. d = [c EXCEPT !.live_blocks = B, !.live_edges = K]
  BY DEF remove_block, E
<1>4. B \in SUBSET Nat /\ K \in SUBSET Nat /\ E \subseteq c.live_edges
  BY DEF Graph, Shaped, E, Incident, outgoing, incoming
<1> HIDE DEF d, r, B, K
<1>5. /\ d.instructions = c.instructions /\ d.live_blocks = B
      /\ d.edges = c.edges /\ d.live_edges = K /\ Shaped(d)
  BY <1>3, <1>4 DEF Graph, Shaped
<1>6. Slots(d) = Slots(c) /\ EdgeSlots(d) = EdgeSlots(c)
  BY <1>5 DEF Slots, EdgeSlots
<1>7. Graph(d)
  BY <1>5, <1>6 DEF Graph, Once, Slots, B, K
<1>8. Right(r.blocks, {}, c.live_blocks, Slots(c), B)
  <2>1. Right(new.blocks, {}, c.live_blocks, Slots(c), c.live_blocks) /\ Own(new.blocks)
    BY RightUnchanged DEF Graph
  <2> QED BY <1>2, <2>1, RightRemoved DEF B, Entry
<1>9. Right(r.edges, {}, c.live_edges, EdgeSlots(c), K)
  <2>1. Right(new.edges, {}, c.live_edges, EdgeSlots(c), c.live_edges) /\ Own(new.edges)
    BY RightUnchanged DEF Graph
  <2> QED BY <1>2, <1>4, <2>1, RightRemoved DEF K
<1>10. Carries(r.blocks, c, d)
  <2>1. \A x \in d.live_blocks : x \in replacements_of(r.blocks, x)
    BY <1>5, <1>8 DEF Right
  <2> QED BY <1>5, <1>6, <2>1, CarriesAlone DEF Graph, B
<1>11. Follows(c, d)
  BY <1>5, <1>6 DEF Follows, Onward, B, K
<1> QED BY <1>2, <1>5, <1>6, <1>7, <1>8, <1>9, <1>10, <1>11
        DEF RightChange, Renames, RecordShape, d, r, q, E

(* Cutting a sequence in two. *)
LEMMA CutFacts ==
    ASSUME NEW S, NEW s \in Seq(S), NEW at \in Nat, at <= Len(s)
    PROVE  LET head == SubSeq(s, 1, at)
               tail == SubSeq(s, at + 1, Len(s))
           IN  /\ head \in Seq(S) /\ tail \in Seq(S)
               /\ \A k \in DOMAIN head : /\ k \in DOMAIN s /\ head[k] = s[k]
                                         /\ k \in Nat /\ k <= at
               /\ \A k \in DOMAIN tail : /\ at + k \in DOMAIN s /\ tail[k] = s[at + k]
                                         /\ k \in Nat /\ k > 0
               /\ \A k \in DOMAIN s : \/ k \in DOMAIN head
                                      \/ k - at \in DOMAIN tail /\ at + (k - at) = k
<1> DEFINE head == SubSeq(s, 1, at)
           tail == SubSeq(s, at + 1, Len(s))
           n == Len(s)
<1>1. n \in Nat /\ DOMAIN s = 1..n /\ at <= n
  OBVIOUS
<1>2. head \in Seq(S) /\ DOMAIN head = 1..at /\ \A k \in 1..at : head[k] = s[k]
  BY <1>1
<1>3. /\ tail \in Seq(S) /\ DOMAIN tail = 1..(n - at)
      /\ \A k \in 1..(n - at) : tail[k] = s[at + k]
  BY <1>1
<1> HIDE DEF head, tail, n
<1>4. \A k \in 1..at : k \in 1..n /\ k \in Nat /\ k <= at
  BY <1>1
<1>5. \A k \in 1..(n - at) : at + k \in 1..n /\ k \in Nat /\ k > 0
  BY <1>1
<1>6. \A k \in 1..n : k \in 1..at \/ (k - at \in 1..(n - at) /\ at + (k - at) = k)
  BY <1>1
<1> QED BY <1>1, <1>2, <1>3, <1>4, <1>5, <1>6 DEF head, tail, n

(* Joining two. *)
LEMMA JoinFacts ==
    ASSUME NEW S, NEW s \in Seq(S), NEW t \in Seq(S)
    PROVE  LET u == s \o t
               n == Len(s)
           IN  /\ u \in Seq(S) /\ n \in Nat
               /\ \A k \in DOMAIN s : k \in DOMAIN u /\ u[k] = s[k]
               /\ \A k \in DOMAIN t : n + k \in DOMAIN u /\ u[n + k] = t[k]
               /\ \A k \in DOMAIN u : \/ k \in DOMAIN s /\ u[k] = s[k]
                                      \/ /\ k - n \in DOMAIN t /\ u[k] = t[k - n]
                                         /\ k \in Nat
<1> DEFINE u == s \o t
           n == Len(s)
           m == Len(t)
<1>1. n \in Nat /\ DOMAIN s = 1..n /\ m \in Nat /\ DOMAIN t = 1..m
  OBVIOUS
<1>2. /\ u \in Seq(S) /\ DOMAIN u = 1..(n + m)
      /\ \A k \in 1..(n + m) : u[k] = IF k <= n THEN s[k] ELSE t[k - n]
  BY <1>1
<1> HIDE DEF u, n, m
<1>3. \A k \in 1..n : k \in 1..(n + m) /\ k <= n
  BY <1>1
<1>4. \A k \in 1..m : n + k \in 1..(n + m) /\ ~(n + k <= n) /\ (n + k) - n = k
  BY <1>1
<1>5. \A k \in 1..(n + m) : /\ k <= n => k \in 1..n
                            /\ ~(k <= n) => k - n \in 1..m
                            /\ k \in Nat
  BY <1>1
<1>6. \A k \in DOMAIN s : k \in DOMAIN u /\ u[k] = s[k]
  BY <1>1, <1>2, <1>3
<1>7. \A k \in DOMAIN t : n + k \in DOMAIN u /\ u[n + k] = t[k]
  BY <1>1, <1>2, <1>4
<1>8. ASSUME NEW k \in DOMAIN u
      PROVE  \/ k \in DOMAIN s /\ u[k] = s[k]
             \/ k - n \in DOMAIN t /\ u[k] = t[k - n] /\ k \in Nat
  <2>1. k \in 1..(n + m)
    BY <1>2
  <2>2. CASE k <= n
    BY <1>1, <1>2, <1>5, <2>1, <2>2
  <2>3. CASE ~(k <= n)
    BY <1>1, <1>2, <1>5, <2>1, <2>3
  <2> QED BY <2>2, <2>3
<1> QED BY <1>1, <1>2, <1>6, <1>7, <1>8 DEF u, n

(* The edges after their sources were moved. *)
LEMMA MoveOutgoingFields ==
    ASSUME NEW c, Shaped(c), NEW old, NEW source \in Nat
    PROVE  LET d == move_outgoing_edges(c, old, source)
           IN  /\ Shaped(d) /\ DOMAIN d.edges = DOMAIN c.edges
               /\ \A e \in DOMAIN c.edges :
                     /\ d.edges[e].target = c.edges[e].target
                     /\ d.edges[e].kind = c.edges[e].kind
                     /\ d.edges[e].source = IF e \in outgoing(c, old) THEN source
                                            ELSE c.edges[e].source
               /\ d.instructions = c.instructions
               /\ d.live_blocks = c.live_blocks /\ d.live_edges = c.live_edges
               /\ d.entry = c.entry /\ d.regions = c.regions /\ d.cleanups = c.cleanups
<1> DEFINE L == [e \in DOMAIN c.edges |->
                    IF e \in outgoing(c, old)
                    THEN [c.edges[e] EXCEPT !.source = source]
                    ELSE c.edges[e]]
           d == move_outgoing_edges(c, old, source)
<1>1. \A e \in DOMAIN c.edges : c.edges[e] \in EdgeRecord
  BY DEF Shaped
<1>2. /\ L \in [DOMAIN c.edges -> EdgeRecord]
      /\ \A e \in DOMAIN c.edges :
            /\ L[e].target = c.edges[e].target /\ L[e].kind = c.edges[e].kind
            /\ L[e].source = IF e \in outgoing(c, old) THEN source
                                                        ELSE c.edges[e].source
  BY <1>1 DEF EdgeRecord
<1>3. d = [c EXCEPT !.edges = L]
  BY DEF move_outgoing_edges
<1> HIDE DEF L, d
<1>4. L \in Seq(EdgeRecord) /\ DOMAIN L = DOMAIN c.edges
  BY <1>2, MappedSequence DEF Shaped
<1>5. /\ d.edges = L /\ d.live_edges = c.live_edges /\ Shaped(d)
      /\ d.instructions = c.instructions /\ d.live_blocks = c.live_blocks
      /\ d.entry = c.entry /\ d.regions = c.regions /\ d.cleanups = c.cleanups
  BY <1>3, <1>4 DEF Shaped
<1> QED BY <1>2, <1>4, <1>5 DEF d

(* The instructions of a block cut in two: the second half is in the new   *)
(* block `tail`.                                                           *)
CutOff(c, I, b, tail, at) ==
    /\ I \in Seq(Seq(Nat)) /\ DOMAIN I = Slots(c) \cup {tail} /\ tail \notin Slots(c)
    /\ \A x \in Slots(c) \ {b} : I[x] = c.instructions[x]
    /\ I[b] = SubSeq(c.instructions[b], 1, at)
    /\ I[tail] = SubSeq(c.instructions[b], at + 1, Len(c.instructions[b]))

(* Where an instruction of the cut graph was. *)
LEMMA CutOrigin ==
    ASSUME NEW c, Graph(c), NEW b \in Slots(c), NEW at \in Nat,
           at <= Len(c.instructions[b]), NEW I, NEW tail, CutOff(c, I, b, tail, at),
           NEW x \in DOMAIN I, NEW i \in DOMAIN I[x]
    PROVE  \/ /\ x = tail /\ at + i \in DOMAIN c.instructions[b]
              /\ I[x][i] = c.instructions[b][at + i] /\ i \in Nat /\ i > 0
           \/ /\ x # tail /\ x \in Slots(c) /\ i \in DOMAIN c.instructions[x]
              /\ I[x][i] = c.instructions[x][i]
              /\ x = b => i \in Nat /\ i <= at
<1> DEFINE code == c.instructions[b]
           head == SubSeq(code, 1, at)
           rest == SubSeq(code, at + 1, Len(code))
<1>1. code \in Seq(Nat) /\ at <= Len(code)
  BY DEF Graph, Shaped, Slots
<1>2. I[b] = head /\ I[tail] = rest
  BY DEF CutOff
<1> HIDE DEF code
<1>3. /\ \A k \in DOMAIN head : /\ k \in DOMAIN code /\ head[k] = code[k]
                                /\ k \in Nat /\ k <= at
      /\ \A k \in DOMAIN rest : /\ at + k \in DOMAIN code /\ rest[k] = code[at + k]
                                /\ k \in Nat /\ k > 0
  BY <1>1, CutFacts
<1> HIDE DEF head, rest
<1>4. CASE x = tail
  BY <1>2, <1>3, <1>4, Zenon DEF code
<1>5. CASE x = b /\ x # tail
  BY <1>2, <1>3, <1>5, Zenon DEF code
<1>6. CASE x # b /\ x # tail
  <2>1. x \in Slots(c) /\ I[x] = c.instructions[x]
    BY <1>6 DEF CutOff
  <2> QED BY <1>6, <2>1
<1> QED BY <1>4, <1>5, <1>6

(* Cutting a block keeps every instruction in one place and in the blocks  *)
(* that its own one became.                                                *)
LEMMA CutCarries ==
    ASSUME NEW c, Graph(c), NEW b \in c.live_blocks, NEW at \in Nat,
           at <= Len(c.instructions[b]), NEW d, NEW tail,
           CutOff(c, d.instructions, b, tail, at),
           d.live_blocks = c.live_blocks \cup {tail}, NEW map,
           replacements_of(map, b) = {b, tail},
           \A x \in c.live_blocks \ {b} : replacements_of(map, x) = {x}
    PROVE  Once(d) /\ Carries(map, c, d)
<1> DEFINE I == d.instructions
<1>1. /\ Slots(d) = Slots(c) \cup {tail} /\ tail \notin Slots(c)
      /\ b \in Slots(c) /\ b # tail
  BY DEF Slots, CutOff, Graph
<1>2. Once(d)
  <2> SUFFICES ASSUME NEW x \in DOMAIN I, NEW y \in DOMAIN I,
                      NEW i \in DOMAIN I[x], NEW j \in DOMAIN I[y],
                      I[x][i] = I[y][j]
               PROVE  x = y /\ i = j
    BY DEF Once, Slots
  <2>1. \/ /\ x = tail /\ at + i \in DOMAIN c.instructions[b]
           /\ I[x][i] = c.instructions[b][at + i] /\ i \in Nat /\ i > 0
        \/ /\ x # tail /\ x \in Slots(c) /\ i \in DOMAIN c.instructions[x]
           /\ I[x][i] = c.instructions[x][i]
           /\ x = b => i \in Nat /\ i <= at
    BY <1>1, CutOrigin
  <2>2. \/ /\ y = tail /\ at + j \in DOMAIN c.instructions[b]
           /\ I[y][j] = c.instructions[b][at + j] /\ j \in Nat /\ j > 0
        \/ /\ y # tail /\ y \in Slots(c) /\ j \in DOMAIN c.instructions[y]
           /\ I[y][j] = c.instructions[y][j]
           /\ y = b => j \in Nat /\ j <= at
    BY <1>1, CutOrigin
  <2>3. \A u, v \in Slots(c) : \A k \in DOMAIN c.instructions[u], l \in DOMAIN c.instructions[v] :
           c.instructions[u][k] = c.instructions[v][l] => u = v /\ k = l
    BY DEF Graph, Once
  <2>4. CASE x = tail /\ y = tail
    <3>1. at + i = at + j
      BY <1>1, <2>1, <2>2, <2>3, <2>4
    <3> QED BY <2>1, <2>2, <2>4, <3>1
  <2>5. CASE x = tail /\ y # tail
    <3>1. y = b /\ at + i = j
      BY <1>1, <2>1, <2>2, <2>3, <2>5
    <3> QED BY <2>1, <2>2, <2>5, <3>1
  <2>6. CASE x # tail /\ y = tail
    <3>1. x = b /\ at + j = i
      BY <1>1, <2>1, <2>2, <2>3, <2>6
    <3> QED BY <2>1, <2>2, <2>6, <3>1
  <2>7. CASE x # tail /\ y # tail
    BY <2>1, <2>2, <2>3, <2>7
  <2> QED BY <2>4, <2>5, <2>6, <2>7
<1>3. \A x \in Slots(c) \ {b} : Tags(d, {x}) = Tags(c, {x})
  BY SMTT(30) DEF Tags, CutOff
<1>4. ASSUME NEW t
      PROVE  t \in Tags(c, {b}) <=> t \in Tags(d, {b}) \/ t \in Tags(d, {tail})
  <2> DEFINE code == c.instructions[b]
             head == SubSeq(code, 1, at)
             rest == SubSeq(code, at + 1, Len(code))
  <2>1. code \in Seq(Nat)
    BY <1>1 DEF Graph, Shaped, Slots
  <2>2. /\ \A k \in DOMAIN head : /\ k \in DOMAIN code /\ head[k] = code[k]
                                  /\ k \in Nat /\ k <= at
        /\ \A k \in DOMAIN rest : /\ at + k \in DOMAIN code /\ rest[k] = code[at + k]
                                  /\ k \in Nat /\ k > 0
        /\ \A k \in DOMAIN code : \/ k \in DOMAIN head
                                  \/ k - at \in DOMAIN rest /\ at + (k - at) = k
    <3>1. at <= Len(code)
      OBVIOUS
    <3> HIDE DEF code
    <3> QED BY <2>1, <3>1, CutFacts
  <2>3. I[b] = head /\ I[tail] = rest
    BY DEF CutOff
  <2> HIDE DEF head, rest, code
  <2>4. /\ t \in Tags(d, {b}) <=> \E k \in DOMAIN head : t = head[k]
        /\ t \in Tags(d, {tail}) <=> \E k \in DOMAIN rest : t = rest[k]
    BY <2>3 DEF Tags
  <2>5. t \in Tags(c, {b}) <=> \E k \in DOMAIN code : t = code[k]
    BY DEF Tags, code
  <2>6. ASSUME NEW k \in DOMAIN code, t = code[k]
        PROVE  \/ \E l \in DOMAIN head : t = head[l]
               \/ \E l \in DOMAIN rest : t = rest[l]
    <3>1. CASE k \in DOMAIN head
      BY <2>2, <2>6, <3>1
    <3>2. CASE k - at \in DOMAIN rest /\ at + (k - at) = k
      <4>1. rest[k - at] = code[at + (k - at)]
        BY <2>2, <3>2
      <4> QED BY <2>6, <3>2, <4>1
    <3> QED BY <2>2, <3>1, <3>2
  <2>7. ASSUME NEW l \in DOMAIN rest, t = rest[l]
        PROVE  \E k \in DOMAIN code : t = code[k]
    BY <2>2, <2>7
  <2>8. ASSUME NEW l \in DOMAIN head, t = head[l]
        PROVE  \E k \in DOMAIN code : t = code[k]
    BY <2>2, <2>8
  <2> QED BY <2>4, <2>5, <2>6, <2>7, <2>8
<1>5. ASSUME NEW t, t \in Tags(c, Slots(c))
      PROVE  t \in Tags(d, Slots(d))
  <2>1. PICK x \in Slots(c) : t \in Tags(c, {x})
    BY <1>5, TagsOfEach
  <2>2. CASE x = b
    BY <1>1, <1>4, <2>1, <2>2, TagsOfEach
  <2>3. CASE x # b
    BY <1>1, <1>3, <2>1, <2>3, TagsOfEach
  <2> QED BY <2>2, <2>3
<1>6. ASSUME NEW t, t \in Tags(d, d.live_blocks)
      PROVE  t \in Tags(c, c.live_blocks)
  <2>1. PICK x \in d.live_blocks : t \in Tags(d, {x})
    BY <1>6, TagsOfEach
  <2>2. CASE x \in {b, tail}
    BY <1>4, <2>1, <2>2, TagsOfEach
  <2>3. CASE x \notin {b, tail}
    <3>1. x \in c.live_blocks /\ t \in Tags(c, {x})
      BY <1>3, <2>1, <2>3 DEF Graph
    <3> QED BY <3>1, TagsOfEach
  <2> QED BY <2>2, <2>3
<1>7. ASSUME NEW x \in c.live_blocks, NEW t \in Tags(c, {x})
      PROVE  t \in Tags(d, replacements_of(map, x))
  <2>1. CASE x = b
    BY <1>4, <1>7, <2>1, TagsOfEach
  <2>2. CASE x # b
    BY <1>3, <1>7, <2>2 DEF Graph
  <2> QED BY <2>1, <2>2
<1> QED BY <1>2, <1>5, <1>6, <1>7 DEF Carries

(* The metadata with the tail wherever the head was. *)
ExtendedRegions(R, head, tail) == [r \in DOMAIN R |-> extend_region(R[r], head, tail)]
ExtendedCleanups(K, head, tail) == [i \in DOMAIN K |-> extend_cleanup(K[i], head, tail)]

(* Extending the exception metadata touches nothing else. *)
LEMMA ExtendFields ==
    ASSUME NEW c, Shaped(c), NEW head, NEW tail
    PROVE  LET d == extend_exception_metadata_to_tail(c, head, tail)
           IN  /\ Shaped(d) /\ d.edges = c.edges /\ d.instructions = c.instructions
               /\ d.live_blocks = c.live_blocks /\ d.live_edges = c.live_edges
               /\ d.entry = c.entry
               /\ d.regions = ExtendedRegions(c.regions, head, tail)
               /\ d.cleanups = ExtendedCleanups(c.cleanups, head, tail)
<1> DEFINE R == ExtendedRegions(c.regions, head, tail)
           K == ExtendedCleanups(c.cleanups, head, tail)
           d == extend_exception_metadata_to_tail(c, head, tail)
<1>1. d = [c EXCEPT !.regions = R, !.cleanups = K]
  BY DEF extend_exception_metadata_to_tail, ExtendedRegions, ExtendedCleanups
<1> HIDE DEF R, K, d
<1>2. /\ Shaped(d) /\ d.edges = c.edges /\ d.instructions = c.instructions
      /\ d.live_blocks = c.live_blocks /\ d.live_edges = c.live_edges
      /\ d.entry = c.entry /\ d.regions = R /\ d.cleanups = K
  BY <1>1 DEF Shaped
<1> QED BY <1>2 DEF R, K, d

(* What split_block leaves in each field. *)
LEMMA SplitFields ==
    ASSUME NEW c, Graph(c), NEW b \in c.live_blocks, NEW at \in Nat,
           at <= Len(c.instructions[b])
    PROVE  LET d == split_block_mapped(c, b, at).cfg
               tail == Len(c.instructions) + 1
               n == Len(c.edges) + 1
           IN  /\ Shaped(d) /\ CutOff(c, d.instructions, b, tail, at)
               /\ d.live_blocks = c.live_blocks \cup {tail}
               /\ EdgeSlots(d) = EdgeSlots(c) \cup {n} /\ n \notin EdgeSlots(c)
               /\ d.live_edges = c.live_edges \cup {n}
               /\ Joins(c) => Joins(d)
               /\ d.entry = c.entry
               /\ d.regions = ExtendedRegions(c.regions, b, tail)
               /\ d.cleanups = ExtendedCleanups(c.cleanups, b, tail)
               /\ d.edges[n].source = b /\ d.edges[n].target = tail
               /\ \A x \in c.live_edges :
                     /\ d.edges[x].target = c.edges[x].target
                     /\ d.edges[x].source = IF c.edges[x].source = b THEN tail
                                            ELSE c.edges[x].source
<1> DEFINE tail == Len(c.instructions) + 1
           n == Len(c.edges) + 1
           code == c.instructions[b]
           head == SubSeq(code, 1, at)
           rest == SubSeq(code, at + 1, Len(code))
           I0 == Append(c.instructions, <<>>)
           I1 == [I0 EXCEPT ![b] = head]
           I == [I1 EXCEPT ![tail] = rest]
           B == c.live_blocks \cup {tail}
           cut == [new_block(c) EXCEPT !.instructions[b] = head,
                                       !.instructions[tail] = rest]
           moved == move_outgoing_edges(cut, b, tail)
           covered == extend_exception_metadata_to_tail(moved, b, tail)
           d == add_edge(covered, b, tail, "fallthrough")
<1>1. /\ c.instructions \in Seq(Seq(Nat)) /\ <<>> \in Seq(Nat) /\ code \in Seq(Nat)
      /\ c.edges \in Seq(EdgeRecord) /\ at <= Len(code) /\ b \in DOMAIN c.instructions
      /\ tail \in Nat /\ b \in Nat
  BY SlotsOf DEF Graph, Shaped, Slots
<1>2. head \in Seq(Nat) /\ rest \in Seq(Nat)
  <2> HIDE DEF code
  <2> QED BY <1>1, CutFacts
<1>3. /\ I0 \in Seq(Seq(Nat)) /\ DOMAIN I0 = DOMAIN c.instructions \cup {tail}
      /\ tail \notin DOMAIN c.instructions
      /\ \A x \in DOMAIN c.instructions : I0[x] = c.instructions[x]
  BY <1>1, AppendedFacts
<1>4. B \in SUBSET Nat
  BY <1>1 DEF Graph, Shaped
<1>5. /\ new_block(c) = [c EXCEPT !.instructions = I0, !.live_blocks = B]
  BY DEF new_block, Graph, Shaped
<1> HIDE DEF I0, head, rest, code, tail, B
<1>6. I \in Seq(Seq(Nat)) /\ DOMAIN I = DOMAIN I0
  <2>1. I0 \in Seq(Seq(Nat))
    BY <1>3
  <2>2. \A x \in DOMAIN I0 : I0[x] \in Seq(Nat)
    BY <2>1
  <2>3. I \in [DOMAIN I0 -> Seq(Nat)]
    BY <1>2, <2>2
  <2> HIDE DEF I
  <2> QED BY <2>1, <2>3, MappedSequence
<1>7. /\ I[b] = head /\ I[tail] = rest
      /\ \A x \in DOMAIN c.instructions \ {b} : I[x] = c.instructions[x]
  BY <1>1, <1>3
<1>8. /\ Shaped(cut) /\ cut.instructions = I /\ cut.live_blocks = B
      /\ cut.edges = c.edges /\ cut.live_edges = c.live_edges
      /\ cut.entry = c.entry /\ cut.regions = c.regions /\ cut.cleanups = c.cleanups
  <2> DEFINE p == new_block(c)
  <2>1. /\ Shaped(p) /\ p.instructions = I0 /\ p.live_blocks = B
        /\ p.edges = c.edges /\ p.live_edges = c.live_edges
        /\ p.entry = c.entry /\ p.regions = c.regions /\ p.cleanups = c.cleanups
    BY <1>3, <1>4, <1>5 DEF Graph, Shaped
  <2>2. cut = [p EXCEPT !.instructions = I]
    <3>1. cut = [p EXCEPT !.instructions = [[p.instructions EXCEPT ![b] = head]
                                              EXCEPT ![tail] = rest]]
      <4>1. Shaped(p)
        BY <2>1
      <4> HIDE DEF p
      <4>2. [p EXCEPT !.instructions[b] = head, !.instructions[tail] = rest]
              = [p EXCEPT !.instructions = [[p.instructions EXCEPT ![b] = head]
                                              EXCEPT ![tail] = rest]]
        BY <4>1, Zenon DEF Shaped
      <4> QED BY <4>2 DEF p
    <3>2. p.instructions = I0
      BY <2>1
    <3> QED BY <3>1, <3>2
  <2> HIDE DEF p, I, cut
  <2> QED BY <1>6, <2>1, <2>2 DEF Shaped
<1> HIDE DEF cut, I
<1>9. /\ Shaped(moved) /\ DOMAIN moved.edges = DOMAIN c.edges
      /\ moved.instructions = I /\ moved.live_blocks = B
      /\ moved.live_edges = c.live_edges
      /\ moved.entry = c.entry /\ moved.regions = c.regions /\ moved.cleanups = c.cleanups
      /\ \A x \in DOMAIN c.edges :
            /\ moved.edges[x].target = c.edges[x].target
            /\ moved.edges[x].source = IF x \in outgoing(cut, b) THEN tail
                                       ELSE c.edges[x].source
  <2>1. Shaped(cut)
    BY <1>8
  <2>2. /\ Shaped(moved) /\ DOMAIN moved.edges = DOMAIN cut.edges
        /\ \A x \in DOMAIN cut.edges :
              /\ moved.edges[x].target = cut.edges[x].target
              /\ moved.edges[x].source = IF x \in outgoing(cut, b) THEN tail
                                         ELSE cut.edges[x].source
        /\ moved.instructions = cut.instructions
        /\ moved.live_blocks = cut.live_blocks /\ moved.live_edges = cut.live_edges
        /\ moved.entry = cut.entry /\ moved.regions = cut.regions
        /\ moved.cleanups = cut.cleanups
    BY SMTT(30), <1>1, <2>1, MoveOutgoingFields
  <2> QED BY <1>8, <2>2
<1> HIDE DEF moved
<1>10. /\ Shaped(covered) /\ covered.edges = moved.edges
       /\ covered.instructions = I /\ covered.live_blocks = B
       /\ covered.live_edges = c.live_edges
       /\ covered.entry = c.entry
       /\ covered.regions = ExtendedRegions(c.regions, b, tail)
       /\ covered.cleanups = ExtendedCleanups(c.cleanups, b, tail)
  BY <1>9, ExtendFields
<1> HIDE DEF covered
<1>11. Len(covered.edges) = Len(c.edges) /\ covered.edges \in Seq(EdgeRecord)
  BY <1>1, <1>9, <1>10 DEF Shaped
<1>12. /\ Shaped(d) /\ d.instructions = I /\ d.live_blocks = B
       /\ DOMAIN d.edges = DOMAIN c.edges \cup {n} /\ n \notin DOMAIN c.edges
       /\ d.live_edges = c.live_edges \cup {n}
       /\ d.edges[n].source = b /\ d.edges[n].target = tail
       /\ \A x \in DOMAIN c.edges : d.edges[x] = moved.edges[x]
       /\ SameFrame(covered, d)
  <2> DEFINE edge == [source |-> b, target |-> tail, kind |-> "fallthrough"]
             L == Append(covered.edges, edge)
             E == c.live_edges \cup {n}
  <2>1. edge \in EdgeRecord
    BY <1>1 DEF EdgeRecord, EdgeKind
  <2>2. /\ L \in Seq(EdgeRecord) /\ DOMAIN L = DOMAIN covered.edges \cup {n}
        /\ n \notin DOMAIN covered.edges /\ L[n] = edge
        /\ \A x \in DOMAIN covered.edges : L[x] = covered.edges[x]
    <3> HIDE DEF edge
    <3> QED BY <1>11, <2>1, AppendedFacts
  <2>3. E \in SUBSET Nat
    BY SlotsOf DEF Graph, Shaped
  <2>4. d = [covered EXCEPT !.edges = L, !.live_edges = E]
    BY <1>10, <1>11 DEF add_edge
  <2> HIDE DEF L, E, d
  <2>5. /\ Shaped(d) /\ d.instructions = I /\ d.live_blocks = B
        /\ d.edges = L /\ d.live_edges = E /\ SameFrame(covered, d)
    BY <1>10, <2>2, <2>3, <2>4 DEF Shaped, SameFrame
  <2>6. edge.source = b /\ edge.target = tail
    OBVIOUS
  <2> HIDE DEF edge
  <2> QED BY <1>9, <1>10, <2>2, <2>5, <2>6 DEF E
<1>13. CutOff(c, I, b, tail, at)
  BY <1>3, <1>6, <1>7 DEF CutOff, Slots, head, rest, code
<1>14. split_block_mapped(c, b, at).cfg = d
  BY DEF split_block_mapped, Mapped, d, covered, moved, cut, head, rest, code, tail
<1> HIDE DEF d
<1>15. Joins(c) => Joins(d)
  <2>1. SUFFICES ASSUME Joins(c), NEW x \in d.live_edges
                 PROVE  d.edges[x].source \in B /\ d.edges[x].target \in B
    BY <1>12, <2>1 DEF Joins
  <2>2. b \in B /\ tail \in B /\ c.live_blocks \subseteq B
    BY DEF B
  <2>3. CASE x = n
    BY <1>12, <2>2, <2>3
  <2>4. CASE x \in c.live_edges
    <3>1. x \in DOMAIN c.edges
      BY <2>4 DEF Graph, EdgeSlots
    <3>2. c.edges[x].source \in B /\ c.edges[x].target \in B
      BY <2>1, <2>2, <2>4 DEF Joins
    <3> QED BY <1>9, <1>12, <2>2, <3>1, <3>2
  <2> QED BY <1>12, <2>3, <2>4
<1>16. /\ d.entry = c.entry
       /\ d.regions = ExtendedRegions(c.regions, b, tail)
       /\ d.cleanups = ExtendedCleanups(c.cleanups, b, tail)
  BY <1>10, <1>12 DEF SameFrame
<1>17. ASSUME NEW x \in c.live_edges
       PROVE  /\ d.edges[x].target = c.edges[x].target
              /\ d.edges[x].source = IF c.edges[x].source = b THEN tail
                                     ELSE c.edges[x].source
  <2>1. x \in DOMAIN c.edges
    BY DEF Graph, EdgeSlots
  <2>2. x \in outgoing(cut, b) <=> c.edges[x].source = b
    BY <1>8 DEF outgoing
  <2> QED BY <1>9, <1>12, <2>1, <2>2
<1> QED BY <1>12, <1>13, <1>14, <1>15, <1>16, <1>17 DEF EdgeSlots, B, tail

(* split_block. *)
LEMMA SplitBlockRight ==
    ASSUME NEW c, Graph(c), NEW b \in c.live_blocks, NEW at \in Nat,
           at <= Len(c.instructions[b])
    PROVE  LET m == split_block_mapped(c, b, at)
           IN  RightChange(c, m.cfg, m.rewrite)
<1> DEFINE m == split_block_mapped(c, b, at)
           d == m.cfg
           tail == Len(c.instructions) + 1
           n == Len(c.edges) + 1
           E == outgoing(c, b)
           r0 == record_block(new, b, {b, tail})
           r1 == record_kept_edges(r0, E)
           r2 == record_created_block(r1, tail)
           r == record_created_edge(r2, n)
<1>1. m.rewrite = r
  BY DEF split_block_mapped, Mapped
<1>2. /\ Shaped(d) /\ CutOff(c, d.instructions, b, tail, at)
      /\ d.live_blocks = c.live_blocks \cup {tail}
      /\ EdgeSlots(d) = EdgeSlots(c) \cup {n} /\ n \notin EdgeSlots(c)
      /\ d.live_edges = c.live_edges \cup {n}
  BY SplitFields
<1>3. E \subseteq c.live_edges
  BY DEF outgoing
<1> HIDE DEF m, tail, n, E
<1>4. /\ RecordShape(r0) /\ r0.blocks = Inserted(new.blocks, Entry(b, {b, tail}))
      /\ r0.edges = new.edges /\ r0.created_blocks = {} /\ r0.created_edges = {}
  BY NewFields, RecordBlockFields
<1> HIDE DEF r0
<1>5. /\ RecordShape(r1) /\ r1.blocks = r0.blocks
      /\ r1.edges = Inserted(r0.edges, [e \in E |-> {e}])
      /\ r1.created_blocks = r0.created_blocks /\ r1.created_edges = r0.created_edges
  <2>1. RecordShape(r0)
    BY <1>4
  <2> QED BY <2>1, RecordKeptFields
<1> HIDE DEF r1
<1>6. /\ RecordShape(r2) /\ r2.blocks = r1.blocks /\ r2.edges = r1.edges
      /\ r2.created_blocks = r1.created_blocks \cup {tail}
      /\ r2.created_edges = r1.created_edges
  <2>1. RecordShape(r1)
    BY <1>5
  <2> QED BY <2>1, RecordCreatedFields
<1> HIDE DEF r2
<1>7. /\ RecordShape(r) /\ r.blocks = r2.blocks /\ r.edges = r2.edges
      /\ r.created_blocks = r2.created_blocks
      /\ r.created_edges = r2.created_edges \cup {n}
  <2>1. RecordShape(r2)
    BY <1>6
  <2> QED BY <2>1, RecordCreatedFields
<1> HIDE DEF r
<1>8. /\ RecordShape(r) /\ r.blocks = Inserted(new.blocks, Entry(b, {b, tail}))
      /\ r.edges = Inserted(new.edges, [e \in E |-> {e}])
      /\ r.created_blocks = {tail} /\ r.created_edges = {n}
  BY <1>4, <1>5, <1>6, <1>7
<1>9. Slots(d) = Slots(c) \cup {tail} /\ tail \notin Slots(c)
  BY <1>2 DEF CutOff, Slots
<1>10. Right(r.blocks, r.created_blocks, c.live_blocks, Slots(d), d.live_blocks)
  <2>1. Right(new.blocks, {}, c.live_blocks, Slots(c), c.live_blocks)
    BY RightUnchanged DEF Graph
  <2>2. Listed(new.blocks, {})
    BY DEF Listed, new
  <2>3. Right(Inserted(new.blocks, Entry(b, {b, tail})), {} \cup {tail},
              c.live_blocks, Slots(d), c.live_blocks \cup {tail})
    BY <1>9, <2>1, <2>2, RightDoubled
  <2> QED BY <1>2, <1>8, <2>3
<1>11. Right(r.edges, r.created_edges, c.live_edges, EdgeSlots(d), d.live_edges)
  <2>1. Right(new.edges, {}, c.live_edges, EdgeSlots(c), c.live_edges) /\ Own(new.edges)
    BY RightUnchanged DEF Graph
  <2>2. Right(Inserted(new.edges, [e \in E |-> {e}]), {}, c.live_edges,
              EdgeSlots(c), c.live_edges)
    BY <1>3, <2>1, RightKept
  <2>3. Right(r.edges, {}, c.live_edges, EdgeSlots(c), c.live_edges)
    BY <1>8, <2>2
  <2>4. Right(r.edges, {} \cup {n}, c.live_edges, EdgeSlots(d), c.live_edges \cup {n})
    BY <1>2, <2>3, RightMade
  <2> QED BY <1>2, <1>8, <2>4
<1>12. Once(d) /\ Carries(r.blocks, c, d)
  <2>1. /\ replacements_of(r.blocks, b) = {b, tail}
        /\ \A x \in c.live_blocks \ {b} : replacements_of(r.blocks, x) = {x}
    <3> DEFINE f == Entry(b, {b, tail})
    <3>1. DOMAIN f = {b} /\ f[b] = {b, tail} /\ DOMAIN new.blocks = {}
      BY DEF Entry, new
    <3> HIDE DEF f
    <3>2. r.blocks = Inserted(new.blocks, f)
      BY <1>8 DEF f
    <3>3. ASSUME NEW x
          PROVE  replacements_of(Inserted(new.blocks, f), x)
                   = IF x \in DOMAIN f THEN f[x] ELSE replacements_of(new.blocks, x)
      BY ZenonT(40), InsertedReplacements
    <3> QED BY <3>1, <3>2, <3>3 DEF replacements_of
  <2> QED BY <1>2, <2>1, CutCarries
<1>13. Graph(d)
  BY <1>2, <1>9, <1>12 DEF Graph
<1>14. Follows(c, d)
  BY <1>2, <1>9 DEF Follows, Onward, Graph
<1> QED BY <1>1, <1>8, <1>10, <1>11, <1>12, <1>13, <1>14
        DEF RightChange, Renames, RecordShape, m

(* The instructions of one block moved to the end of another. *)
Joined(c, I, source, target) ==
    /\ I \in Seq(Seq(Nat)) /\ DOMAIN I = Slots(c)
    /\ \A x \in Slots(c) \ {source, target} : I[x] = c.instructions[x]
    /\ I[source] = c.instructions[source] \o c.instructions[target]
    /\ I[target] = <<>>

(* What contract_edge leaves in each field. *)
LEMMA ContractFields ==
    ASSUME NEW c, Graph(c), NEW source \in c.live_blocks, NEW target \in c.live_blocks,
           source # target, NEW e \in c.live_edges,
           outgoing(c, source) = {e}, incoming(c, target) = {e}
    PROVE  LET d == contract_edge(c, source, target, e)
           IN  /\ Shaped(d) /\ Joined(c, d.instructions, source, target)
               /\ d.live_blocks = c.live_blocks \ {target}
               /\ EdgeSlots(d) = EdgeSlots(c)
               /\ d.live_edges = c.live_edges \ {e}
               /\ Joins(c) => Joins(d)
               /\ d.entry = c.entry /\ d.regions = c.regions /\ d.cleanups = c.cleanups
               /\ \A x \in d.live_edges :
                     /\ d.edges[x].target = c.edges[x].target
                     /\ d.edges[x].kind = c.edges[x].kind
                     /\ d.edges[x].source = IF c.edges[x].source = target THEN source
                                            ELSE c.edges[x].source
<1> DEFINE both == c.instructions[source] \o c.instructions[target]
           I == [[c.instructions EXCEPT ![source] = both] EXCEPT ![target] = <<>>]
           filled == [c EXCEPT !.instructions[source] = @ \o c.instructions[target],
                               !.instructions[target] = <<>>]
           cut == remove_edges(filled, {e})
           moved == move_outgoing_edges(cut, target, source)
           d == remove_block(moved, target)
<1>1. /\ c.instructions \in Seq(Seq(Nat)) /\ <<>> \in Seq(Nat)
      /\ source \in DOMAIN c.instructions /\ target \in DOMAIN c.instructions
      /\ source \in Nat
  BY SlotsOf DEF Graph, Shaped, Slots
<1>2. both \in Seq(Nat)
  BY <1>1
<1>3. filled = [c EXCEPT !.instructions = I]
  <2>1. filled = [c EXCEPT !.instructions[source] = both, !.instructions[target] = <<>>]
    BY DEF Graph, Shaped
  <2>2. Shaped(c)
    BY DEF Graph
  <2> HIDE DEF both, filled
  <2>3. [c EXCEPT !.instructions[source] = both, !.instructions[target] = <<>>]
          = [c EXCEPT !.instructions = I]
    BY <2>2, Zenon DEF Shaped
  <2> QED BY <2>1, <2>3
<1> HIDE DEF both, filled
<1>4. Joined(c, I, source, target)
  <2>1. \A x \in DOMAIN c.instructions : c.instructions[x] \in Seq(Nat)
    BY <1>1
  <2>2. I \in [DOMAIN c.instructions -> Seq(Nat)]
    BY <1>1, <1>2, <2>1
  <2>3. /\ \A x \in Slots(c) \ {source, target} : I[x] = c.instructions[x]
        /\ I[source] = both /\ I[target] = <<>> /\ DOMAIN I = Slots(c)
    BY <1>1 DEF Slots
  <2> HIDE DEF I
  <2>4. I \in Seq(Seq(Nat))
    BY <1>1, <2>2, MappedSequence
  <2> QED BY <2>3, <2>4 DEF Joined, both
<1> HIDE DEF I
<1>5. /\ Shaped(filled) /\ filled.instructions = I /\ filled.edges = c.edges
      /\ filled.live_blocks = c.live_blocks /\ filled.live_edges = c.live_edges
      /\ filled.entry = c.entry /\ filled.regions = c.regions /\ filled.cleanups = c.cleanups
  BY <1>3, <1>4 DEF Graph, Shaped, Joined
<1>6. /\ Shaped(cut) /\ cut.instructions = I /\ cut.edges = c.edges
      /\ cut.live_blocks = c.live_blocks /\ cut.live_edges = c.live_edges \ {e}
      /\ cut.entry = c.entry /\ cut.regions = c.regions /\ cut.cleanups = c.cleanups
  BY <1>5 DEF Shaped, remove_edges
<1> HIDE DEF cut
<1>7. /\ Shaped(moved) /\ DOMAIN moved.edges = DOMAIN c.edges
      /\ \A x \in DOMAIN c.edges :
            /\ moved.edges[x].target = c.edges[x].target
            /\ moved.edges[x].kind = c.edges[x].kind
            /\ moved.edges[x].source = IF x \in outgoing(cut, target) THEN source
                                       ELSE c.edges[x].source
      /\ moved.instructions = I /\ moved.live_blocks = c.live_blocks
      /\ moved.live_edges = c.live_edges \ {e} /\ moved.entry = c.entry
      /\ moved.regions = c.regions /\ moved.cleanups = c.cleanups
  <2>1. Shaped(cut)
    BY <1>6
  <2>2. /\ Shaped(moved) /\ DOMAIN moved.edges = DOMAIN cut.edges
        /\ \A x \in DOMAIN cut.edges :
              /\ moved.edges[x].target = cut.edges[x].target
              /\ moved.edges[x].kind = cut.edges[x].kind
              /\ moved.edges[x].source = IF x \in outgoing(cut, target) THEN source
                                         ELSE cut.edges[x].source
        /\ moved.instructions = cut.instructions
        /\ moved.live_blocks = cut.live_blocks /\ moved.live_edges = cut.live_edges
        /\ moved.entry = cut.entry /\ moved.regions = cut.regions /\ moved.cleanups = cut.cleanups
    BY SMTT(30), <2>1, <1>1, MoveOutgoingFields
  <2> QED BY <2>2, <1>6
<1> HIDE DEF moved
<1>8. ASSUME NEW x \in c.live_edges \ {e}
      PROVE  /\ moved.edges[x].source # target /\ moved.edges[x].target # target
             /\ moved.edges[x].source = IF c.edges[x].source = target THEN source
                                        ELSE c.edges[x].source
             /\ moved.edges[x].target = c.edges[x].target
             /\ moved.edges[x].kind = c.edges[x].kind
  <2>2. x \in DOMAIN c.edges
    BY DEF Graph, EdgeSlots
  <2>3. c.edges[x].target # target
    BY <2>2 DEF incoming
  <2>4. x \in outgoing(cut, target) <=> c.edges[x].source = target
    BY <1>6 DEF outgoing
  <2> QED BY <1>7, <2>2, <2>3, <2>4
<1>9. /\ Shaped(d) /\ d.instructions = I /\ d.edges = moved.edges
      /\ d.live_blocks = c.live_blocks \ {target}
      /\ d.live_edges = c.live_edges \ {e} /\ d.entry = c.entry
      /\ d.regions = c.regions /\ d.cleanups = c.cleanups
  <2>0. Incident(moved, target) = {}
    BY <1>7, <1>8 DEF Incident, outgoing, incoming
  <2>1. d = [moved EXCEPT !.live_blocks = @ \ {target}, !.live_edges = @ \ {}]
    BY <2>0 DEF remove_block
  <2> HIDE DEF d
  <2> QED BY <1>7, <2>1 DEF Shaped
<1>10. contract_edge(c, source, target, e) = d
  BY DEF contract_edge, d, moved, cut, filled
<1> HIDE DEF d
<1>11. Joins(c) => Joins(d)
  BY <1>8, <1>9 DEF Joins
<1> QED BY <1>4, <1>7, <1>8, <1>9, <1>10, <1>11 DEF EdgeSlots

(* Where an instruction of the joined graph was. *)
LEMMA JoinOrigin ==
    ASSUME NEW c, Graph(c), NEW source \in Slots(c), NEW target \in Slots(c),
           source # target, NEW I, Joined(c, I, source, target),
           NEW x \in DOMAIN I, NEW i \in DOMAIN I[x]
    PROVE  \/ /\ x = source /\ i - Len(c.instructions[source]) \in DOMAIN c.instructions[target]
              /\ I[x][i] = c.instructions[target][i - Len(c.instructions[source])]
              /\ i \in Nat /\ Len(c.instructions[source]) \in Nat
           \/ /\ x # target /\ x \in Slots(c) /\ i \in DOMAIN c.instructions[x]
              /\ I[x][i] = c.instructions[x][i]
<1> DEFINE s == c.instructions[source]
           t == c.instructions[target]
<1>1. s \in Seq(Nat) /\ t \in Seq(Nat)
  BY DEF Graph, Shaped, Slots
<1>2. I[source] = s \o t /\ I[target] = <<>> /\ x \in Slots(c)
  BY DEF Joined
<1>3. CASE x = source
  <2> HIDE DEF s, t
  <2>1. /\ Len(s) \in Nat
        /\ \/ i \in DOMAIN s /\ (s \o t)[i] = s[i]
           \/ i - Len(s) \in DOMAIN t /\ (s \o t)[i] = t[i - Len(s)] /\ i \in Nat
    BY <1>1, <1>2, <1>3, JoinFacts
  <2> QED BY <1>2, <1>3, <2>1 DEF s, t
<1>4. CASE x = target
  BY <1>2, <1>4
<1>5. CASE x \notin {source, target}
  BY <1>2, <1>5 DEF Joined
<1> QED BY <1>3, <1>4, <1>5

(* Joining two blocks keeps every instruction in one place and in the      *)
(* block that its own one became.                                          *)
LEMMA JoinCarries ==
    ASSUME NEW c, Graph(c), NEW source \in c.live_blocks, NEW target \in c.live_blocks,
           source # target, NEW d, Joined(c, d.instructions, source, target),
           d.live_blocks = c.live_blocks \ {target}, NEW map,
           replacements_of(map, target) = {source},
           \A x \in c.live_blocks \ {target} : replacements_of(map, x) = {x}
    PROVE  Once(d) /\ Carries(map, c, d)
<1> DEFINE I == d.instructions
           n == Len(c.instructions[source])
<1>1. Slots(d) = Slots(c) /\ source \in Slots(c) /\ target \in Slots(c)
  BY DEF Slots, Joined, Graph
<1>2. Once(d)
  <2> SUFFICES ASSUME NEW x \in DOMAIN I, NEW y \in DOMAIN I,
                      NEW i \in DOMAIN I[x], NEW j \in DOMAIN I[y],
                      I[x][i] = I[y][j]
               PROVE  x = y /\ i = j
    BY DEF Once, Slots
  <2> DEFINE P(u, k) == /\ u = source /\ k - n \in DOMAIN c.instructions[target]
                        /\ I[u][k] = c.instructions[target][k - n]
                        /\ k \in Nat /\ n \in Nat
             Q(u, k) == /\ u # target /\ u \in Slots(c) /\ k \in DOMAIN c.instructions[u]
                        /\ I[u][k] = c.instructions[u][k]
  <2>1. P(x, i) \/ Q(x, i)
    BY <1>1, JoinOrigin
  <2>2. P(y, j) \/ Q(y, j)
    BY <1>1, JoinOrigin
  <2>3. \A u, v \in Slots(c) : \A k \in DOMAIN c.instructions[u], l \in DOMAIN c.instructions[v] :
           c.instructions[u][k] = c.instructions[v][l] => u = v /\ k = l
    BY DEF Graph, Once
  <2>4. CASE P(x, i) /\ P(y, j)
    <3>1. i - n = j - n
      BY <1>1, <2>3, <2>4
    <3> QED BY <2>4, <3>1
  <2>5. CASE P(x, i) /\ Q(y, j)
    BY <1>1, <2>3, <2>5
  <2>6. CASE Q(x, i) /\ P(y, j)
    <3>1. c.instructions[x][i] = c.instructions[target][j - n]
      BY <2>6
    <3>2. x = target
      BY <1>1, <2>3, <2>6, <3>1
    <3> QED BY <2>6, <3>2
  <2>7. CASE Q(x, i) /\ Q(y, j)
    <3>1. c.instructions[x][i] = c.instructions[y][j]
      BY <2>7
    <3> QED BY <2>3, <2>7, <3>1
  <2> QED BY <2>1, <2>2, <2>4, <2>5, <2>6, <2>7
<1>3. \A x \in Slots(c) \ {source, target} : Tags(d, {x}) = Tags(c, {x})
  BY DEF Tags, Joined
<1>4. ASSUME NEW t
      PROVE  t \in Tags(d, {source}) <=> t \in Tags(c, {source}) \/ t \in Tags(c, {target})
  <2> DEFINE p == c.instructions[source]
             q == c.instructions[target]
             u == p \o q
  <2>1. p \in Seq(Nat) /\ q \in Seq(Nat) /\ I[source] = u
    BY <1>1 DEF Graph, Shaped, Slots, Joined
  <2>2. /\ t \in Tags(c, {source}) <=> \E k \in DOMAIN p : t = p[k]
        /\ t \in Tags(c, {target}) <=> \E k \in DOMAIN q : t = q[k]
    BY DEF Tags
  <2>4. t \in Tags(d, {source}) <=> \E k \in DOMAIN I[source] : t = I[source][k]
    BY DEF Tags
  <2> HIDE DEF p, q
  <2>3. /\ \A k \in DOMAIN p : k \in DOMAIN u /\ u[k] = p[k]
        /\ \A k \in DOMAIN q : Len(p) + k \in DOMAIN u /\ u[Len(p) + k] = q[k]
        /\ \A k \in DOMAIN u : \/ k \in DOMAIN p /\ u[k] = p[k]
                               \/ k - Len(p) \in DOMAIN q /\ u[k] = q[k - Len(p)]
    BY SMTT(30), <2>1, JoinFacts
  <2> HIDE DEF u, I
  <2>5. t \in Tags(d, {source}) <=> \E k \in DOMAIN u : t = u[k]
    BY <2>1, <2>4
  <2> QED BY <2>2, <2>3, <2>5
<1>5. Tags(d, {target}) = {}
  BY DEF Tags, Joined
<1>6. \A t : t \in Tags(c, Slots(c)) <=> \E x \in Slots(c) : t \in Tags(c, {x})
  BY TagsOfEach
<1>7. \A t : t \in Tags(d, Slots(c)) <=> \E x \in Slots(c) : t \in Tags(d, {x})
  BY TagsOfEach
<1>8. \A t : t \in Tags(c, c.live_blocks) <=> \E x \in c.live_blocks : t \in Tags(c, {x})
  BY TagsOfEach
<1>9. \A t : t \in Tags(d, d.live_blocks) <=> \E x \in d.live_blocks : t \in Tags(d, {x})
  BY TagsOfEach
<1>10. Tags(c, Slots(c)) \subseteq Tags(d, Slots(d))
  BY <1>1, <1>3, <1>4, <1>6, <1>7
<1>11. c.live_blocks \subseteq Slots(c)
  BY DEF Graph
<1>12. Tags(d, d.live_blocks) \subseteq Tags(c, c.live_blocks)
  BY <1>1, <1>3, <1>4, <1>8, <1>9, <1>11
<1>13. ASSUME NEW x \in c.live_blocks
       PROVE  Tags(c, {x}) \subseteq Tags(d, replacements_of(map, x))
  <2>1. CASE x = target
    BY <1>4, <2>1
  <2>2. CASE x = source
    BY <1>4, <2>2
  <2>3. CASE x \notin {source, target}
    BY <1>3, <1>11, <2>3
  <2> QED BY <2>1, <2>2, <2>3
<1> QED BY <1>2, <1>10, <1>12, <1>13 DEF Carries

(* contract_edge. *)
LEMMA ContractRight ==
    ASSUME NEW c, Graph(c), NEW source \in c.live_blocks, NEW target \in c.live_blocks,
           source # target, NEW e \in c.live_edges,
           outgoing(c, source) = {e}, incoming(c, target) = {e}
    PROVE  RightChange(c, contract_edge(c, source, target, e),
                       contract_edge_rewrite(new, c, source, target, e))
<1> DEFINE d == contract_edge(c, source, target, e)
           E == outgoing(c, target)
           r0 == record_removed_edges(new, {e})
           r1 == record_kept_edges(r0, E)
           r == record_block(r1, target, {source})
<1>1. contract_edge_rewrite(new, c, source, target, e) = r
  BY DEF contract_edge_rewrite
<1>2. /\ Shaped(d) /\ Joined(c, d.instructions, source, target)
      /\ d.live_blocks = c.live_blocks \ {target}
      /\ EdgeSlots(d) = EdgeSlots(c)
      /\ d.live_edges = c.live_edges \ {e}
  BY ContractFields
<1>3. E \subseteq c.live_edges \ {e}
  BY DEF outgoing
<1> HIDE DEF d, E
<1>4. /\ RecordShape(r0) /\ r0.blocks = new.blocks
      /\ r0.edges = Inserted(new.edges, [x \in {e} |-> {}])
      /\ r0.created_blocks = {} /\ r0.created_edges = {}
  BY NewFields, RecordRemovedFields
<1> HIDE DEF r0
<1>5. /\ RecordShape(r1) /\ r1.blocks = r0.blocks
      /\ r1.edges = Inserted(r0.edges, [x \in E |-> {x}])
      /\ r1.created_blocks = r0.created_blocks /\ r1.created_edges = r0.created_edges
  <2>1. RecordShape(r0)
    BY <1>4
  <2> QED BY <2>1, RecordKeptFields
<1> HIDE DEF r1
<1>6. /\ RecordShape(r) /\ r.edges = r1.edges
      /\ r.blocks = Inserted(r1.blocks, Entry(target, {source}))
      /\ r.created_blocks = r1.created_blocks /\ r.created_edges = r1.created_edges
  <2>1. RecordShape(r1)
    BY <1>5
  <2> QED BY <2>1, RecordBlockFields
<1> HIDE DEF r
<1>7. Right(r.edges, r.created_edges, c.live_edges, EdgeSlots(d), d.live_edges)
  <2>1. Right(new.edges, {}, c.live_edges, EdgeSlots(c), c.live_edges) /\ Own(new.edges)
    BY RightUnchanged DEF Graph
  <2> DEFINE f == [x \in {e} |-> {}]
  <2>2. /\ Right(Inserted(new.edges, f), {}, c.live_edges, EdgeSlots(c), c.live_edges \ {e})
        /\ Own(Inserted(new.edges, f))
    BY <2>1, RightRemoved
  <2>3. Right(r0.edges, {}, c.live_edges, EdgeSlots(c), c.live_edges \ {e}) /\ Own(r0.edges)
    BY <1>4, <2>2
  <2>4. Right(Inserted(r0.edges, [x \in E |-> {x}]), {}, c.live_edges, EdgeSlots(c),
              c.live_edges \ {e})
    BY <1>3, <2>3, RightKept
  <2> QED BY <1>2, <1>4, <1>5, <1>6, <2>4
<1>8. Right(r.blocks, r.created_blocks, c.live_blocks, Slots(d), d.live_blocks)
  <2>1. /\ Right(new.blocks, {}, c.live_blocks, Slots(c), c.live_blocks)
        /\ DOMAIN new.blocks = {}
    BY RightUnchanged DEF Graph, new
  <2>2. Right(Inserted(new.blocks, Entry(target, {source})), {}, c.live_blocks, Slots(c),
              c.live_blocks \ {target})
    BY <2>1, RightMerged
  <2>3. Slots(d) = Slots(c)
    BY <1>2 DEF Joined, Slots
  <2> QED BY <1>2, <1>4, <1>5, <1>6, <2>2, <2>3
<1>9. Once(d) /\ Carries(r.blocks, c, d)
  <2>1. /\ replacements_of(r.blocks, target) = {source}
        /\ \A x \in c.live_blocks \ {target} : replacements_of(r.blocks, x) = {x}
    <3> DEFINE f == Entry(target, {source})
    <3>1. DOMAIN f = {target} /\ f[target] = {source} /\ DOMAIN new.blocks = {}
      BY DEF Entry, new
    <3> HIDE DEF f
    <3>2. r.blocks = Inserted(new.blocks, f)
      BY <1>4, <1>5, <1>6 DEF f
    <3>3. ASSUME NEW x
          PROVE  replacements_of(Inserted(new.blocks, f), x)
                   = IF x \in DOMAIN f THEN f[x] ELSE replacements_of(new.blocks, x)
      BY ZenonT(40), InsertedReplacements
    <3> QED BY <3>1, <3>2, <3>3 DEF replacements_of
  <2> QED BY <1>2, <2>1, JoinCarries
<1>10. Slots(d) = Slots(c)
  BY <1>2 DEF Joined, Slots
<1>11. Graph(d)
  BY <1>2, <1>9, <1>10 DEF Graph
<1>12. Follows(c, d)
  BY <1>2, <1>10 DEF Follows, Onward, Graph
<1> QED BY <1>1, <1>6, <1>7, <1>8, <1>9, <1>11, <1>12
        DEF RightChange, Renames, RecordShape, d

(* Two changes, one after the other, are a change with the composed record. *)
LEMMA ChangesCompose ==
    ASSUME NEW c, Graph(c), NEW d, NEW e, NEW r, NEW s,
           RightChange(c, d, r), RightChange(d, e, s)
    PROVE  RightChange(c, e, compose(r, s))
<1>1. Follows(c, e)
  BY DEF RightChange, Follows, Onward
<1>2. Renames(compose(r, s), c, e)
  BY RecordsCompose DEF RightChange, Graph
<1> QED BY <1>1, <1>2 DEF RightChange

(* The second point lies in the tail that the first one made. *)
LEMMA SecondPoint ==
    ASSUME NEW c, Graph(c), Joins(c), NEW b \in c.live_blocks, NEW p \in Nat, NEW q \in Nat,
           SplitPointsValid(c, b, <<p, q>>)
    PROVE  LET first == split_block_mapped(c, b, p)
               tail == Len(first.cfg.instructions)
           IN  /\ p <= Len(c.instructions[b]) /\ q - p \in Nat
               /\ tail \in first.cfg.live_blocks
               /\ q - p <= Len(first.cfg.instructions[tail])
<1> DEFINE first == split_block_mapped(c, b, p)
           tail == Len(first.cfg.instructions)
<1>1. p < q /\ q <= Len(c.instructions[b]) /\ Len(c.instructions[b]) \in Nat
  <2>1. c.instructions[b] \in Seq(Nat)
    BY DEF Graph, Shaped, Slots
  <2>2. DOMAIN <<p, q>> = {1, 2} /\ 2 \in 2..Len(<<p, q>>)
    OBVIOUS
  <2> QED BY <2>1, <2>2 DEF SplitPointsValid
<1>2. p <= Len(c.instructions[b]) /\ q - p \in Nat
  BY <1>1
<1>3. RightChange(c, first.cfg, first.rewrite)
  BY <1>2, SplitBlockRight
<1>4. /\ CutOff(c, first.cfg.instructions, b, Len(c.instructions) + 1, p)
      /\ first.cfg.live_blocks = c.live_blocks \cup {Len(c.instructions) + 1}
      /\ Joins(first.cfg)
  BY <1>2, SplitFields
<1> HIDE DEF first
<1>5. tail = Len(c.instructions) + 1
  <2>1. DOMAIN first.cfg.instructions = 1..Len(c.instructions) \cup {Len(c.instructions) + 1}
    BY <1>4, SlotsOf DEF CutOff
  <2>2. first.cfg.instructions \in Seq(Seq(Nat)) /\ Len(c.instructions) \in Nat
    BY <1>4, SlotsOf DEF CutOff
  <2>3. tail \in Nat /\ DOMAIN first.cfg.instructions = 1..tail
    BY <2>2
  <2> HIDE DEF tail
  <2>4. tail \in 1..tail \/ tail = 0
    BY <2>3
  <2>5. Len(c.instructions) + 1 \in 1..tail
    BY <2>1, <2>3
  <2>6. ASSUME NEW k \in 1..tail
        PROVE  k <= Len(c.instructions) + 1
    <3>1. k \in 1..Len(c.instructions) \/ k = Len(c.instructions) + 1
      BY <2>1, <2>3
    <3> QED BY <2>2, <3>1
  <2> QED BY <2>2, <2>3, <2>4, <2>5, <2>6
<1>6. Len(first.cfg.instructions[tail]) = Len(c.instructions[b]) - p
  <2>1. first.cfg.instructions[tail]
          = SubSeq(c.instructions[b], p + 1, Len(c.instructions[b]))
    BY <1>4, <1>5 DEF CutOff
  <2>2. c.instructions[b] \in Seq(Nat)
    BY DEF Graph, Shaped, Slots
  <2> QED BY <1>1, <2>1, <2>2
<1>7. Graph(first.cfg) /\ tail \in first.cfg.live_blocks
  BY <1>3, <1>4, <1>5 DEF RightChange
<1>8. q - p <= Len(first.cfg.instructions[tail])
  BY <1>1, <1>6
<1> QED BY <1>2, <1>7, <1>8 DEF first

(* split_block_at_points: the tail of the first split is split again. *)
LEMMA SplitTwiceRight ==
    ASSUME NEW c, Graph(c), Joins(c), NEW b \in c.live_blocks, NEW p \in Nat, NEW q \in Nat,
           SplitPointsValid(c, b, <<p, q>>)
    PROVE  LET m == split_block_at_two_points(c, b, p, q)
           IN  RightChange(c, m.cfg, m.rewrite) /\ Joins(m.cfg)
<1> DEFINE first == split_block_mapped(c, b, p)
           tail == Len(first.cfg.instructions)
           second == split_block_mapped(first.cfg, tail, q - p)
<1>1. p <= Len(c.instructions[b]) /\ q - p \in Nat
  BY SecondPoint
<1>2. /\ RightChange(c, first.cfg, first.rewrite) /\ Joins(first.cfg)
      /\ tail \in first.cfg.live_blocks /\ q - p <= Len(first.cfg.instructions[tail])
  BY <1>1, SecondPoint, SplitBlockRight, SplitFields
<1> HIDE DEF first, tail
<1>3. RightChange(first.cfg, second.cfg, second.rewrite) /\ Joins(second.cfg)
  BY <1>1, <1>2, SplitBlockRight, SplitFields DEF RightChange
<1> HIDE DEF second
<1>4. RightChange(c, c, new)
  BY EditRight DEF Graph
<1>5. RightChange(c, first.cfg, compose(new, first.rewrite))
  BY <1>2, <1>4, ChangesCompose
<1>6. RightChange(c, second.cfg, compose(compose(new, first.rewrite), second.rewrite))
  BY <1>3, <1>5, ChangesCompose
<1>7. split_block_at_two_points(c, b, p, q)
         = Mapped(second.cfg, compose(compose(new, first.rewrite), second.rewrite))
  BY DEF split_block_at_two_points, second, first, tail
<1> QED BY <1>3, <1>6, <1>7 DEF Mapped
-----------------------------------------------------------------------------
(* The other changes keep every edge between two blocks that are there. *)

(* new_block and push. *)
LEMMA BuildJoins ==
    ASSUME NEW c, Graph(c), Joins(c)
    PROVE  /\ Joins(new_block(c))
           /\ \A b \in Slots(c) : \A tag : Joins([c EXCEPT !.instructions[b] = Append(@, tag)])
BY DEF Joins, Graph, Shaped, new_block

(* add_edge. *)
LEMMA AddEdgeJoins ==
    ASSUME NEW c, Graph(c), Joins(c), NEW source \in c.live_blocks,
           NEW target \in c.live_blocks, NEW kind \in EdgeKind
    PROVE  Joins(add_edge(c, source, target, kind))
<1> DEFINE edge == [source |-> source, target |-> target, kind |-> kind]
           L == Append(c.edges, edge)
           n == Len(c.edges) + 1
           d == add_edge(c, source, target, kind)
<1>1. edge \in EdgeRecord /\ c.edges \in Seq(EdgeRecord)
  BY DEF Graph, Shaped, EdgeRecord
<1>2. edge.source = source /\ edge.target = target
  OBVIOUS
<1>3. d.edges = L /\ d.live_edges = c.live_edges \cup {n} /\ d.live_blocks = c.live_blocks
  BY DEF add_edge, Graph, Shaped
<1> HIDE DEF edge, d
<1>4. L[n] = edge /\ \A e \in DOMAIN c.edges : L[e] = c.edges[e]
  BY <1>1, AppendedFacts
<1>5. c.live_edges \subseteq DOMAIN c.edges
  BY DEF Graph, EdgeSlots
<1> QED BY <1>2, <1>3, <1>4, <1>5 DEF Joins, d

(* remove_edges and remove_block. *)
LEMMA RemoveJoins ==
    ASSUME NEW c, Graph(c), Joins(c)
    PROVE  /\ \A E : Joins(remove_edges(c, E))
           /\ \A b : Joins(remove_block(c, b))
<1>1. ASSUME NEW E
      PROVE  Joins(remove_edges(c, E))
  BY DEF Joins, Graph, Shaped, remove_edges
<1>2. ASSUME NEW b
      PROVE  Joins(remove_block(c, b))
  <2> DEFINE d == remove_block(c, b)
  <2>1. /\ d.edges = c.edges /\ d.live_blocks = c.live_blocks \ {b}
        /\ d.live_edges = c.live_edges \ Incident(c, b)
    BY DEF Graph, Shaped, remove_block
  <2> HIDE DEF d
  <2> QED BY <2>1 DEF Joins, Incident, outgoing, incoming, d
<1> QED BY <1>1, <1>2

(* redirect_edges_to and redirect_edge. *)
LEMMA RedirectJoins ==
    ASSUME NEW c, Graph(c), Joins(c), NEW target \in c.live_blocks
    PROVE  /\ \A old : Joins(redirect_edges_to(c, old, target))
           /\ \A e \in c.live_edges, end \in {"source", "target"} :
                 Joins([c EXCEPT !.edges[e][end] = target])
<1>0. /\ c.live_edges \subseteq DOMAIN c.edges
      /\ \A x \in DOMAIN c.edges : c.edges[x] \in EdgeRecord
  BY DEF Graph, EdgeSlots, Shaped
<1>1. ASSUME NEW old
      PROVE  Joins(redirect_edges_to(c, old, target))
  <2> DEFINE L == [e \in DOMAIN c.edges |->
                     IF e \in incoming(c, old) THEN [c.edges[e] EXCEPT !.target = target]
                     ELSE c.edges[e]]
             d == redirect_edges_to(c, old, target)
  <2>1. d.edges = L /\ d.live_edges = c.live_edges /\ d.live_blocks = c.live_blocks
    BY DEF redirect_edges_to, Graph, Shaped
  <2>2. \A e \in DOMAIN c.edges : /\ L[e].source = c.edges[e].source
                                  /\ L[e].target \in {target, c.edges[e].target}
    BY <1>0 DEF EdgeRecord
  <2> HIDE DEF L, d
  <2> QED BY <1>0, <2>1, <2>2 DEF Joins, d
<1>2. ASSUME NEW e \in c.live_edges, NEW end \in {"source", "target"}
      PROVE  Joins([c EXCEPT !.edges[e][end] = target])
  <2> DEFINE L == [c.edges EXCEPT ![e] = [@ EXCEPT ![end] = target]]
             d == [c EXCEPT !.edges[e][end] = target]
  <2>1. d.edges = L /\ d.live_edges = c.live_edges /\ d.live_blocks = c.live_blocks
    BY DEF Graph, Shaped
  <2>2. \A x \in DOMAIN c.edges : /\ L[x].source \in {target, c.edges[x].source}
                                  /\ L[x].target \in {target, c.edges[x].target}
    BY <1>0 DEF EdgeRecord
  <2> HIDE DEF L, d
  <2> QED BY <1>0, <2>1, <2>2 DEF Joins, d
<1> QED BY <1>1, <1>2
-----------------------------------------------------------------------------
(* Compaction.  The rank numbers the survivors from 1 without a gap, in    *)
(* their order.                                                            *)
LEMMA RankCounts ==
    ASSUME NEW n \in Nat, NEW S \in SUBSET (1..n)
    PROVE  /\ IsFiniteSet(S) /\ Cardinality(S) \in Nat
           /\ \A s \in S : Rank(S, s) \in 1..Cardinality(S)
           /\ \A s, t \in S : Rank(S, s) = Rank(S, t) => s = t
<1>1. IsFiniteSet(S)
  <2>1. 1 \in Int /\ n \in Int
    OBVIOUS
  <2>2. IsFiniteSet(1..n)
    BY <2>1, FS_Interval
  <2> QED BY <2>2, FS_Subset
<1>2. Cardinality(S) \in Nat
  BY <1>1, FS_CardinalityType
<1> DEFINE Upto(s) == {t \in S : t <= s}
<1>3. ASSUME NEW s \in S
      PROVE  /\ IsFiniteSet(Upto(s)) /\ Cardinality(Upto(s)) \in Nat
             /\ Cardinality(Upto(s)) <= Cardinality(S)
  <2>1. Upto(s) \in SUBSET S
    OBVIOUS
  <2> HIDE DEF Upto
  <2> QED BY <1>1, <2>1, FS_Subset, FS_CardinalityType
<1>4. ASSUME NEW s \in S
      PROVE  Cardinality(Upto(s)) # 0
  <2>1. s \in Upto(s)
    OBVIOUS
  <2> HIDE DEF Upto
  <2> QED BY <1>3, <2>1, FS_EmptySet
<1>5. ASSUME NEW s \in S, NEW t \in S, s < t
      PROVE  Cardinality(Upto(s)) # Cardinality(Upto(t))
  <2>0. \A x \in S : x \in Int
    OBVIOUS
  <2>1. t \in Upto(t) /\ t \notin Upto(s)
    BY <1>5, <2>0
  <2>2. \A x \in S : x <= s => x <= t
    BY <1>5, <2>0
  <2>3. Upto(s) \in SUBSET Upto(t)
    BY <2>2
  <2> HIDE DEF Upto
  <2> QED BY <1>3, <2>1, <2>3, FS_Subset
<1>6. \A s \in S : Rank(S, s) = Cardinality(Upto(s))
  BY DEF Rank
<1> HIDE DEF Upto
<1>7. \A s \in S : Rank(S, s) \in 1..Cardinality(S)
  BY <1>2, <1>3, <1>4, <1>6
<1>8. \A s, t \in S : Rank(S, s) = Rank(S, t) => s = t
  BY <1>5, <1>6
<1> QED BY <1>1, <1>2, <1>7, <1>8

(* Every number up to the number of survivors is the rank of one, Slot. *)
LEMMA SlotOfRank ==
    ASSUME NEW n \in Nat, NEW S \in SUBSET (1..n)
    PROVE  /\ \A k \in 1..Cardinality(S) : Slot(S, k) \in S /\ Rank(S, Slot(S, k)) = k
           /\ \A s \in S : Slot(S, Rank(S, s)) = s
<1> DEFINE N == Cardinality(S)
           f == [s \in S |-> Rank(S, s)]
<1>1. /\ IsFiniteSet(S) /\ N \in Nat
      /\ \A s \in S : Rank(S, s) \in 1..N
      /\ \A s, t \in S : Rank(S, s) = Rank(S, t) => s = t
  BY RankCounts
<1>2. f \in Injection(S, 1..N)
  BY <1>1 DEF Injection, IsInjective
<1>3. IsFiniteSet(1..N) /\ Cardinality(1..N) = N
  BY <1>1, FS_Interval
<1>4. f \in Surjection(S, 1..N)
  <2> HIDE DEF f
  <2>1. Cardinality(S) = Cardinality(1..N)
    BY <1>3
  <2> QED BY <1>2, <1>3, <2>1, FS_Injection
<1>5. \A k \in 1..N : \E s \in S : Rank(S, s) = k
  BY <1>4 DEF Surjection
<1>6. ASSUME NEW k \in 1..N
      PROVE  Slot(S, k) \in S /\ Rank(S, Slot(S, k)) = k
  BY <1>5 DEF Slot
<1>7. ASSUME NEW s \in S
      PROVE  Slot(S, Rank(S, s)) = s
  BY <1>1, <1>6
<1> QED BY <1>6, <1>7

(* What compact leaves: a graph without a gap, its blocks in the old order. *)
LEMMA CompactFields ==
    ASSUME NEW c, Graph(c), Joins(c)
    PROVE  LET d == compact(c)
               B == c.live_blocks
               N == Cardinality(B)
           IN  /\ Graph(d) /\ Joins(d)
               /\ d.live_blocks = 1..N /\ Slots(d) = 1..N /\ d.live_edges = EdgeSlots(d)
               /\ \A k \in 1..N : d.instructions[k] = c.instructions[Slot(B, k)]
               /\ d.live_edges = 1..Cardinality(c.live_edges)
               /\ \A k \in d.live_edges :
                     LET edge == c.edges[Slot(c.live_edges, k)]
                     IN  /\ d.edges[k].source = BlockNumbers(c)[edge.source]
                         /\ d.edges[k].target = BlockNumbers(c)[edge.target]
               /\ d.entry = BlockNumbers(c)[c.entry]
<1> DEFINE d == compact(c)
           B == c.live_blocks
           N == Cardinality(B)
           E == c.live_edges
           M == Cardinality(E)
           nodes == BlockNumbers(c)
           kept == [k \in 1..M |-> c.edges[Slot(E, k)]]
           I == [k \in 1..N |-> c.instructions[Slot(B, k)]]
           L == [k \in DOMAIN kept |->
                   [kept[k] EXCEPT !.source = nodes[@], !.target = nodes[@]]]
<1>1. /\ d.instructions = I /\ d.edges = L
      /\ d.live_blocks = 1..N /\ d.live_edges = 1..M
      /\ d = [instructions |-> I, edges |-> L, live_blocks |-> 1..N, live_edges |-> 1..M,
              entry |-> d.entry, regions |-> d.regions, cleanups |-> d.cleanups]
      /\ d.entry = nodes[c.entry]
  BY DEF compact
<1>2. /\ Len(c.instructions) \in Nat /\ B \in SUBSET (1..Len(c.instructions))
      /\ Len(c.edges) \in Nat /\ E \in SUBSET (1..Len(c.edges))
  BY SlotsOf DEF Graph
<1> HIDE DEF d
<1>3. /\ N \in Nat
      /\ \A s \in B : Rank(B, s) \in 1..N
      /\ \A k \in 1..N : Slot(B, k) \in B /\ Rank(B, Slot(B, k)) = k
  BY <1>2, RankCounts, SlotOfRank
<1>4. /\ M \in Nat
      /\ \A k \in 1..M : Slot(E, k) \in E
  BY <1>2, RankCounts, SlotOfRank
<1>5. \A s \in B : nodes[s] \in 1..N
  BY <1>2, <1>3 DEF BlockNumbers, renumbering
<1> HIDE DEF nodes
<1>6. \A k \in 1..M : c.edges[Slot(E, k)] \in EdgeRecord
  BY <1>4 DEF Graph, Shaped, EdgeSlots
<1>7. \A k \in 1..M : /\ c.edges[Slot(E, k)].source \in B
                      /\ c.edges[Slot(E, k)].target \in B
  BY <1>4 DEF Joins
<1>8. ASSUME NEW k \in 1..M
      PROVE  /\ L[k] \in EdgeRecord
             /\ L[k].source \in 1..N /\ L[k].target \in 1..N
             /\ L[k].source = nodes[c.edges[Slot(E, k)].source]
             /\ L[k].target = nodes[c.edges[Slot(E, k)].target]
  <2> DEFINE edge == c.edges[Slot(E, k)]
  <2>1. L[k] = [edge EXCEPT !.source = nodes[@], !.target = nodes[@]]
    OBVIOUS
  <2>2. edge \in EdgeRecord /\ nodes[edge.source] \in 1..N /\ nodes[edge.target] \in 1..N
    BY <1>5, <1>6, <1>7
  <2> DEFINE u == nodes[edge.source]
             v == nodes[edge.target]
  <2>3. u \in Nat /\ v \in Nat /\ u \in 1..N /\ v \in 1..N
    BY <1>3, <2>2
  <2> HIDE DEF edge, L, u, v
  <2>4. edge \in EdgeRecord /\ L[k] = [edge EXCEPT !.source = u, !.target = v]
    BY <2>1, <2>2 DEF EdgeRecord, u, v
  <2>5. L[k] \in EdgeRecord /\ L[k].source = u /\ L[k].target = v
    BY <2>3, <2>4 DEF EdgeRecord
  <2> QED BY <2>3, <2>5 DEF u, v, edge
<1>9. DOMAIN L = 1..M /\ L \in Seq(EdgeRecord)
  <2>1. DOMAIN L = 1..M
    OBVIOUS
  <2>2. L \in [1..M -> EdgeRecord]
    <3>1. L = [k \in 1..M |-> L[k]]
      BY <2>1
    <3> HIDE DEF L
    <3> QED BY <1>8, <3>1
  <2> HIDE DEF L
  <2> QED BY <1>4, <2>1, <2>2
<1>10. DOMAIN I = 1..N /\ I \in Seq(Seq(Nat))
  <2>1. \A k \in 1..N : c.instructions[Slot(B, k)] \in Seq(Nat)
    BY <1>3 DEF Graph, Shaped, Slots
  <2>2. I \in [1..N -> Seq(Nat)] /\ DOMAIN I = 1..N
    BY <2>1
  <2> HIDE DEF I
  <2> QED BY <1>3, <2>2
<1>11. \A k \in 1..N : I[k] = c.instructions[Slot(B, k)]
  OBVIOUS
<1> HIDE DEF I, L, N, M, B, E
<1>12. Shaped(d)
  BY <1>1, <1>3, <1>4, <1>9, <1>10 DEF Shaped
<1>13. Once(d)
  <2> SUFFICES ASSUME NEW x \in 1..N, NEW y \in 1..N,
                      NEW i \in DOMAIN I[x], NEW j \in DOMAIN I[y], I[x][i] = I[y][j]
               PROVE  x = y /\ i = j
    BY <1>1, <1>10 DEF Once, Slots
  <2>1. Slot(B, x) \in Slots(c) /\ Slot(B, y) \in Slots(c)
    BY <1>3 DEF Graph, B
  <2>2. Slot(B, x) = Slot(B, y) /\ i = j
    BY <1>11, <2>1 DEF Graph, Once
  <2> QED BY <1>3, <2>2
<1>14. Graph(d)
  BY <1>1, <1>9, <1>10, <1>12, <1>13 DEF Graph, Slots, EdgeSlots
<1>15. Joins(d)
  BY <1>1, <1>8 DEF Joins
<1> QED BY <1>1, <1>8, <1>9, <1>10, <1>11, <1>14, <1>15
        DEF Slots, EdgeSlots, d, N, B, M, E, nodes

(* The record starts over with nothing to say. *)
LEMMA StartsOver ==
    ASSUME NEW d, Graph(d)
    PROVE  Renames(new, Identities(d), d)
<1> DEFINE o == Identities(d)
<1>1. /\ o.instructions = d.instructions /\ o.live_blocks = d.live_blocks
      /\ o.live_edges = d.live_edges
  BY DEF Identities
<1> HIDE DEF o
<1>2. Tags(o, Slots(o)) = Tags(d, Slots(d)) /\ Tags(o, o.live_blocks) = Tags(d, d.live_blocks)
  BY <1>1 DEF Tags, Slots
<1>3. \A x : replacements_of(new.blocks, x) = {x} /\ Tags(o, {x}) = Tags(d, {x})
  BY <1>1 DEF Tags, replacements_of, new
<1>4. Carries(new.blocks, o, d)
  BY <1>1, <1>2, <1>3 DEF Carries
<1>5. /\ Right(new.blocks, {}, d.live_blocks, Slots(d), d.live_blocks)
      /\ Right(new.edges, {}, d.live_edges, EdgeSlots(d), d.live_edges)
  BY RightUnchanged DEF Graph
<1> QED BY <1>1, <1>4, <1>5, NewFields DEF Renames, RecordShape, o

(* then_renumbered, across a compaction: the record is right about every   *)
(* block it mentions.                                                      *)
LEMMA CarriedWhereItSpeaks ==
    ASSUME NEW c, Graph(c), Joins(c), NEW r, Renames(r, origin, c),
           NEW b \in origin.live_blocks \cap DOMAIN r.blocks
    PROVE  Truthful(then_renumbered(r, BlockNumbers(c), EdgeNumbers(c)), b, compact(c))
<1> DEFINE d == compact(c)
           B == c.live_blocks
           N == Cardinality(B)
           t == then_renumbered(r, BlockNumbers(c), EdgeNumbers(c))
           R == r.blocks[b]
<1>1. BlocksNow(t, b) = {BlockNumbers(c)[x] : x \in R} \ {0}
  BY DEF then_renumbered, BlocksNow, replacements_of, Renumbered
<1>2. R \subseteq B /\ BlocksNow(r, b) = R
  BY DEF Renames, Right, BlocksNow, replacements_of
<1>3. /\ Len(c.instructions) \in Nat /\ B \in SUBSET (1..Len(c.instructions))
  BY SlotsOf DEF Graph
<1>4. /\ N \in Nat
      /\ \A s \in B : Rank(B, s) \in 1..N /\ Slot(B, Rank(B, s)) = s
      /\ \A k \in 1..N : Slot(B, k) \in B
  BY <1>3, RankCounts, SlotOfRank
<1>5. \A x \in B : BlockNumbers(c)[x] = Rank(B, x)
  BY <1>3 DEF BlockNumbers, renumbering
<1>6. /\ d.live_blocks = 1..N
      /\ \A k \in 1..N : d.instructions[k] = c.instructions[Slot(B, k)]
  BY CompactFields
<1>7. AccountsFor(r, c)
  BY RenamesAccount
<1> HIDE DEF d, N, t, R, B
<1>8. ASSUME NEW y
      PROVE  y \in BlocksNow(t, b) <=> \E x \in R : y = Rank(B, x)
  BY <1>1, <1>2, <1>4, <1>5
<1>9. BlocksNow(t, b) \subseteq d.live_blocks
  BY <1>2, <1>4, <1>6, <1>8
<1>10. \A x \in B : Tags(d, {Rank(B, x)}) = Tags(c, {x})
  BY <1>4, <1>6 DEF Tags
<1>11. ASSUME NEW tag \in Tags(origin, {b}), tag \in Tags(d, d.live_blocks)
       PROVE  tag \in Tags(d, BlocksNow(t, b))
  <2>1. PICK k \in 1..N : tag \in Tags(d, {k})
    BY <1>6, <1>11, TagsOfEach
  <2>2. tag \in Tags(c, {Slot(B, k)})
    BY <1>6, <2>1 DEF Tags
  <2>3. tag \in Tags(c, B)
    BY <1>4, <2>2, TagsOfEach
  <2>4. tag \in Tags(c, R)
    BY <1>2, <1>7, <1>11, <2>3 DEF AccountsFor, Truthful, B
  <2>5. PICK x \in R : tag \in Tags(c, {x})
    BY <2>4, TagsOfEach
  <2>6. tag \in Tags(d, {Rank(B, x)}) /\ Rank(B, x) \in BlocksNow(t, b)
    BY <1>2, <1>8, <1>10, <2>5
  <2> QED BY <2>6, TagsOfEach
<1> QED BY <1>9, <1>11 DEF Truthful, t, d
-----------------------------------------------------------------------------
(* The client.  Between two compactions its record leads from the graph    *)
(* whose identities it holds to the present one.                           *)
RecordInv ==
    /\ Graph(cfg) /\ Joins(cfg)
    /\ origin.live_blocks \subseteq Slots(origin)
    /\ Renames(rewrite, origin, cfg)

(* Edits of the exception metadata. *)
SameGraph(c, d) ==
    /\ Shaped(d) /\ d.instructions = c.instructions /\ d.edges = c.edges
    /\ d.live_blocks = c.live_blocks /\ d.live_edges = c.live_edges

(* Writing the regions leaves the graph as it is. *)
LEMMA RegionsWritten ==
    ASSUME NEW c, Shaped(c), NEW R
    PROVE  SameGraph(c, [c EXCEPT !.regions = R])
BY DEF SameGraph, Shaped

(* The region edits do no more than that. *)
LEMMA RegionEditsMetadata ==
    ASSUME Shaped(cfg), RegionEdit
    PROVE  SameGraph(cfg, cfg') /\ UNCHANGED <<origin, rewrite>>
<1>1. ASSUME NEW region, AddRegion(region)
      PROVE  SameGraph(cfg, cfg') /\ UNCHANGED <<origin, rewrite>>
  BY <1>1, RegionsWritten DEF AddRegion, Edit, add_region, Shaped
<1>2. ASSUME NEW id, RemoveRegion(id)
      PROVE  SameGraph(cfg, cfg') /\ UNCHANGED <<origin, rewrite>>
  <2> DEFINE stays == {i \in DOMAIN cfg.cleanups : cfg.cleanups[i].handler.region # id}
             K == retain(cfg.cleanups, stays)
             blank == [id |-> id, protected_blocks |-> {}, handlers |-> <<>>, parent |-> 0]
  <2>1. cfg' = [cfg EXCEPT !.regions[id] = blank, !.cleanups = K]
    BY <1>2, Zenon DEF RemoveRegion, Edit, remove_region
  <2> HIDE DEF K, blank
  <2>2. SameGraph(cfg, cfg')
    BY <2>1 DEF Shaped, SameGraph
  <2> QED BY <1>2, <2>2 DEF RemoveRegion, Edit
<1>3. ASSUME RemoveUnreachableRegions
      PROVE  SameGraph(cfg, cfg') /\ UNCHANGED <<origin, rewrite>>
  <2> DEFINE doomed == Unenterable(cfg)
             stays == {i \in DOMAIN cfg.cleanups :
                          cfg.cleanups[i].handler.region \notin doomed}
             K == retain(cfg.cleanups, stays)
             R == [id \in DOMAIN cfg.regions |->
                     IF id \in doomed
                     THEN [id |-> id, protected_blocks |-> {},
                           handlers |-> <<>>, parent |-> 0]
                     ELSE cfg.regions[id]]
  <2>1. cfg' = [cfg EXCEPT !.regions = R, !.cleanups = K]
    BY <1>3, Zenon DEF RemoveUnreachableRegions, Edit, remove_unreachable_regions
  <2> HIDE DEF K, R
  <2>2. SameGraph(cfg, cfg')
    BY <2>1 DEF Shaped, SameGraph
  <2> QED BY <1>3, <2>2 DEF RemoveUnreachableRegions, Edit
<1>4. ASSUME NEW handler
      PROVE  SameGraph(cfg, cleanup_entry(cfg, handler))
  BY DEF cleanup_entry, Shaped, SameGraph
<1>5. ASSUME NEW handler, NEW b, SetCleanupResume(handler, b)
      PROVE  SameGraph(cfg, cfg') /\ UNCHANGED <<origin, rewrite>>
  <2> DEFINE d == cleanup_entry(cfg, handler)
  <2>1. SameGraph(cfg, d)
    BY <1>4
  <2>2. cfg' = [d EXCEPT !.cleanups[CleanupAt(d, handler)].resume_from = b]
    BY <1>5 DEF SetCleanupResume, Edit, set_cleanup_resume
  <2> HIDE DEF d
  <2>3. SameGraph(cfg, cfg')
    BY <2>1, <2>2 DEF SameGraph, Shaped
  <2> QED BY <1>5, <2>3 DEF SetCleanupResume, Edit
<1>6. ASSUME NEW handler, NEW b, NEW reason, AddContinuation(handler, reason, b)
      PROVE  SameGraph(cfg, cfg') /\ UNCHANGED <<origin, rewrite>>
  <2> DEFINE d == cleanup_entry(cfg, handler)
  <2>1. SameGraph(cfg, d)
    BY <1>4
  <2>2. cfg' = [d EXCEPT !.cleanups[CleanupAt(d, handler)].continuations =
                   @ \cup {[reason |-> reason, resume |-> b]}]
    BY <1>6 DEF AddContinuation, Edit, add_continuation
  <2> HIDE DEF d
  <2>3. SameGraph(cfg, cfg')
    BY <2>1, <2>2 DEF SameGraph, Shaped
  <2> QED BY <1>6, <2>3 DEF AddContinuation, Edit
<1> QED BY <1>1, <1>2, <1>3, <1>5, <1>6 DEF RegionEdit

(* Composing the record of a right change. *)
LEMMA DoKeeps ==
    ASSUME RecordInv, NEW c, NEW r, RightChange(cfg, c, r), Joins(c), Do(Mapped(c, r))
    PROVE  RecordInv'
<1>1. cfg' = c /\ rewrite' = compose(rewrite, r) /\ origin' = origin
  BY DEF Do, Mapped
<1>2. Renames(compose(rewrite, r), origin, c)
  BY RecordsCompose DEF RecordInv, RightChange
<1> QED BY <1>1, <1>2 DEF RecordInv, RightChange

(* Building. *)
LEMMA BuildKeeps ==
    ASSUME RecordInv, Build
    PROVE  RecordInv'
<1>0. Graph(cfg) /\ Joins(cfg) /\ cfg.live_blocks \subseteq Slots(cfg)
  BY DEF RecordInv, Graph
<1>1. CASE NewBlock
  BY <1>0, <1>1, NewBlockRight, BuildJoins, DoKeeps DEF NewBlock
<1>2. ASSUME NEW b \in cfg.live_blocks, NEW tag \in 1..MaxCode, Push(b, tag)
      PROVE  RecordInv'
  <2>1. b \in Slots(cfg) /\ tag \in Nat /\ tag \notin Tags(cfg, Slots(cfg))
    BY <1>0, <1>2 DEF Push
  <2> DEFINE d == [cfg EXCEPT !.instructions[b] = Append(@, tag)]
  <2>2. RightChange(cfg, d, new) /\ Joins(d)
    BY <1>0, <2>1, PushRight, BuildJoins
  <2>3. Do(Mapped(d, new))
    BY <1>2 DEF Push
  <2> HIDE DEF d
  <2> QED BY <2>2, <2>3, DoKeeps
<1>3. ASSUME NEW s \in cfg.live_blocks, NEW t \in cfg.live_blocks, NEW kind \in Kinds,
             AddEdge(s, t, kind)
      PROVE  RecordInv'
  <2>1. s \in Nat /\ t \in Nat /\ kind \in EdgeKind
    BY <1>0, CfgAssumption, SlotsOf
  <2> DEFINE d == add_edge(cfg, s, t, kind)
             r == record_created_edge(new, Len(cfg.edges) + 1)
  <2>2. RightChange(cfg, d, r) /\ Joins(d)
    BY <1>0, <2>1, AddEdgeRight, AddEdgeJoins
  <2>3. Do(Mapped(d, r))
    BY <1>3 DEF AddEdge
  <2> HIDE DEF d, r
  <2> QED BY <2>2, <2>3, DoKeeps
<1> QED BY <1>1, <1>2, <1>3 DEF Build

(* Removing and redirecting. *)
LEMMA RerouteKeeps ==
    ASSUME RecordInv, Reroute
    PROVE  RecordInv'
<1>0. Graph(cfg) /\ Joins(cfg) /\ \A b \in cfg.live_blocks : b \in Nat
  BY DEF RecordInv, Graph, Shaped
<1>1. ASSUME NEW b \in cfg.live_blocks, RemoveBlock(b)
      PROVE  RecordInv'
  <2> DEFINE d == remove_block(cfg, b)
             r == record_block(record_removed_edges(new, Incident(cfg, b)), b, {})
  <2>1. RightChange(cfg, d, r) /\ Joins(d)
    BY <1>0, RemoveBlockRight, RemoveJoins
  <2>2. Do(Mapped(d, r))
    BY <1>1 DEF RemoveBlock, remove_block_mapped
  <2> HIDE DEF d, r
  <2> QED BY <2>1, <2>2, DoKeeps
<1>2. ASSUME NEW e \in cfg.live_edges, RemoveEdge(e)
      PROVE  RecordInv'
  <2> DEFINE d == remove_edges(cfg, {e})
             r == record_removed_edges(new, {e})
  <2>1. RightChange(cfg, d, r) /\ Joins(d)
    BY <1>0, RemoveEdgesRight, RemoveJoins
  <2>2. Do(Mapped(d, r))
    BY <1>2 DEF RemoveEdge, remove_edge_mapped
  <2> HIDE DEF d, r
  <2> QED BY <2>1, <2>2, DoKeeps
<1>3. ASSUME NEW old \in cfg.live_blocks, NEW target \in cfg.live_blocks,
             RedirectEdgesTo(old, target)
      PROVE  RecordInv'
  <2> DEFINE d == redirect_edges_to(cfg, old, target)
             r == record_kept_edges(new, incoming(cfg, old))
  <2>1. RightChange(cfg, d, r) /\ Joins(d)
    BY <1>0, RedirectEdgesRight, RedirectJoins
  <2>2. Do(Mapped(d, r))
    BY <1>3 DEF RedirectEdgesTo, redirect_edges_to_mapped
  <2> HIDE DEF d, r
  <2> QED BY <2>1, <2>2, DoKeeps
<1>4. ASSUME NEW e \in cfg.live_edges, NEW end \in {"source", "target"},
             NEW b \in cfg.live_blocks, RedirectEdge(e, end, b)
      PROVE  RecordInv'
  <2> DEFINE d == [cfg EXCEPT !.edges[e][end] = b]
             r == record_kept_edges(new, {e})
  <2>1. RightChange(cfg, d, r) /\ Joins(d)
    BY <1>0, RedirectEdgeRight, RedirectJoins
  <2>2. Do(Mapped(d, r))
    BY <1>4 DEF RedirectEdge, redirect_edge_mapped
  <2> HIDE DEF d, r
  <2> QED BY <2>1, <2>2, DoKeeps
<1>5. ASSUME NEW b \in cfg.live_blocks, SetEntry(b)
      PROVE  RecordInv'
  <2> DEFINE d == [cfg EXCEPT !.entry = b]
  <2>1. SameGraph(cfg, d)
    BY <1>0 DEF SameGraph, Graph, Shaped
  <2>2. Do(Mapped(d, new))
    BY <1>5 DEF SetEntry
  <2> HIDE DEF d
  <2>3. RightChange(cfg, d, new) /\ Joins(d)
    BY <1>0, <2>1, EditRight DEF SameGraph, Joins
  <2> QED BY <2>2, <2>3, DoKeeps
<1> QED BY <1>1, <1>2, <1>3, <1>4, <1>5 DEF Reroute

(* Splitting, contracting and compacting. *)
LEMMA RearrangeKeeps ==
    ASSUME RecordInv, Rearrange
    PROVE  RecordInv'
<1>0. Graph(cfg) /\ Joins(cfg)
  BY DEF RecordInv
<1>1. ASSUME NEW b \in cfg.live_blocks, NEW at \in 0..MaxCode, SplitBlock(b, at)
      PROVE  RecordInv'
  <2> DEFINE m == split_block_mapped(cfg, b, at)
  <2>0. at \in Nat /\ at <= Len(cfg.instructions[b])
    BY <1>1 DEF SplitBlock
  <2>1. RightChange(cfg, m.cfg, m.rewrite) /\ Joins(m.cfg)
    BY <1>0, <2>0, SplitBlockRight, SplitFields
  <2>2. Do(Mapped(m.cfg, m.rewrite))
    BY <1>1 DEF SplitBlock, split_block_mapped, Mapped
  <2> HIDE DEF m
  <2> QED BY <2>1, <2>2, DoKeeps
<1>2. ASSUME NEW b \in cfg.live_blocks, NEW p \in 0..MaxCode, NEW q \in 0..MaxCode,
             SplitBlockAtPoints(b, p, q)
      PROVE  RecordInv'
  <2> DEFINE m == split_block_at_two_points(cfg, b, p, q)
  <2>0. p \in Nat /\ q \in Nat /\ SplitPointsValid(cfg, b, <<p, q>>)
    BY <1>2 DEF SplitBlockAtPoints
  <2>1. RightChange(cfg, m.cfg, m.rewrite) /\ Joins(m.cfg)
    BY <1>0, <2>0, SplitTwiceRight
  <2>2. Do(Mapped(m.cfg, m.rewrite))
    BY <1>2 DEF SplitBlockAtPoints, split_block_at_two_points, Mapped
  <2> HIDE DEF m
  <2> QED BY <2>1, <2>2, DoKeeps
<1>3. ASSUME NEW source \in cfg.live_blocks, NEW target \in cfg.live_blocks,
             NEW e \in cfg.live_edges, ContractEdge(source, target, e)
      PROVE  RecordInv'
  <2> DEFINE d == contract_edge(cfg, source, target, e)
             r == contract_edge_rewrite(new, cfg, source, target, e)
  <2>0. /\ source # target
        /\ outgoing(cfg, source) = {e} /\ incoming(cfg, target) = {e}
    BY <1>3 DEF ContractEdge, CanContract
  <2>1. RightChange(cfg, d, r) /\ Joins(d)
    BY <1>0, <2>0, ContractRight, ContractFields
  <2>2. Do(Mapped(d, r))
    BY <1>3 DEF ContractEdge
  <2> HIDE DEF d, r
  <2> QED BY <2>1, <2>2, DoKeeps
<1>4. CASE Compact
  <2>1. /\ cfg' = compact(cfg) /\ origin' = Identities(cfg') /\ rewrite' = new
    BY <1>4 DEF Compact
  <2>2. Graph(cfg') /\ Joins(cfg')
    BY <1>0, <2>1, CompactFields
  <2>3. Renames(new, Identities(cfg'), cfg')
    BY <2>2, StartsOver
  <2>4. Identities(cfg').live_blocks \subseteq Slots(Identities(cfg'))
    BY <2>2 DEF Identities, Slots, Graph
  <2> QED BY <2>1, <2>2, <2>3, <2>4 DEF RecordInv
<1> QED BY <1>1, <1>2, <1>3, <1>4 DEF Rearrange

(* Every step of the client keeps the invariant. *)
LEMMA RecordInvPreserved ==
    ASSUME RecordInv, [Next]_vars
    PROVE  RecordInv'
<1>1. CASE RegionEdit
  <2>1. SameGraph(cfg, cfg') /\ UNCHANGED <<origin, rewrite>>
    BY <1>1, RegionEditsMetadata DEF RecordInv, Graph
  <2>2. Graph(cfg') /\ Joins(cfg')
    BY <2>1 DEF RecordInv, SameGraph, Graph, Joins, Once, Slots, EdgeSlots
  <2>3. Renames(rewrite, origin, cfg')
    <3>1. /\ cfg'.live_blocks = cfg.live_blocks /\ cfg'.live_edges = cfg.live_edges
          /\ Slots(cfg') = Slots(cfg) /\ EdgeSlots(cfg') = EdgeSlots(cfg)
      BY <2>1 DEF SameGraph, Slots, EdgeSlots
    <3>2. \A B : Tags(cfg', B) = Tags(cfg, B)
      BY <2>1 DEF SameGraph, Tags
    <3> QED BY <3>1, <3>2 DEF RecordInv, Renames, Carries
  <2> QED BY <2>1, <2>2, <2>3 DEF RecordInv
<1>2. CASE UNCHANGED vars
  BY <1>2 DEF RecordInv, vars
<1> QED BY <1>1, <1>2, BuildKeeps, RerouteKeeps, RearrangeKeeps DEF Next

(* However many mutations a client makes of a graph of any size, in any    *)
(* order, the record it composes says of every block and edge it held what *)
(* became of it, accounts for everything that is there, and carries over a *)
(* compaction where it speaks.                                             *)
THEOREM RecordsStayTruthful == Spec => RecordTruthful
<1>1. Init => RecordInv
  <2> SUFFICES ASSUME Init PROVE RecordInv
    OBVIOUS
  <2>1. cfg = with_edge_payload /\ origin = Identities(cfg) /\ rewrite = new
    BY DEF Init
  <2>2. /\ cfg.instructions = <<<<>>>> /\ cfg.edges = <<>>
        /\ cfg.live_blocks = {1} /\ cfg.live_edges = {}
    BY <2>1 DEF with_edge_payload
  <2>3. Shaped(cfg)
    BY <2>1 DEF with_edge_payload, Shaped
  <2>4. Slots(cfg) = {1} /\ cfg.instructions[1] = <<>>
    BY <2>2 DEF Slots
  <2>5. Graph(cfg) /\ Joins(cfg)
    BY <2>2, <2>3, <2>4 DEF Graph, Once, Joins, EdgeSlots
  <2>6. Renames(new, Identities(cfg), cfg)
    BY <2>5, StartsOver
  <2>7. Identities(cfg).live_blocks \subseteq Slots(Identities(cfg))
    BY <2>5 DEF Identities, Slots, Graph
  <2> QED BY <2>1, <2>5, <2>6, <2>7 DEF RecordInv
<1>2. RecordInv /\ [Next]_vars => RecordInv'
  BY RecordInvPreserved
<1>3. RecordInv => RewriteTruthful
  BY RenamesAccount DEF RecordInv, RewriteTruthful
<1>4. RecordInv => [Compact => \A b \in origin.live_blocks \cap DOMAIN rewrite.blocks :
                                  Truthful(Carried, b, cfg')]_vars
  <2> SUFFICES ASSUME RecordInv, Compact,
                      NEW b \in origin.live_blocks \cap DOMAIN rewrite.blocks
               PROVE  Truthful(Carried, b, cfg')
    OBVIOUS
  <2>1. cfg' = compact(cfg)
    BY DEF Compact
  <2>2. Truthful(then_renumbered(rewrite, BlockNumbers(cfg), EdgeNumbers(cfg)), b,
                 compact(cfg))
    BY CarriedWhereItSpeaks DEF RecordInv
  <2> QED BY <2>1, <2>2 DEF Carried
<1> QED BY <1>1, <1>2, <1>3, <1>4, PTL
        DEF Spec, RecordTruthful, CarriedTruthfulWhereItSpeaks
-----------------------------------------------------------------------------
(* The passes write every step of a phase into one record instead of       *)
(* composing.  P is the graph the phase began on.                          *)
Leads(r, P, c) ==
    /\ Renames(r, P, c) /\ Follows(P, c) /\ P.live_blocks \subseteq Slots(P)

(* Later is later. *)
LEMMA FollowsOn ==
    ASSUME NEW c, NEW d, NEW e, Follows(c, d), Follows(d, e)
    PROVE  Follows(c, e)
BY DEF Follows, Onward

(* Code is carried on when the record says of everything what the step's   *)
(* own entries m2 say of what the record m1 said before.                   *)
LEMMA CarriesExtended ==
    ASSUME NEW m1, NEW m2, NEW m, NEW P, NEW c, NEW d,
           P.live_blocks \subseteq Slots(P),
           \A x \in P.live_blocks : replacements_of(m1, x) \subseteq c.live_blocks,
           Carries(m1, P, c), Carries(m2, c, d),
           \A x \in P.live_blocks : \A y \in replacements_of(m1, x) :
              replacements_of(m2, y) \subseteq replacements_of(m, x)
    PROVE  Carries(m, P, d)
<1>1. Carries(compose_axis(m1, m2), P, d)
  BY CarriesComposed
<1>2. ASSUME NEW x \in P.live_blocks
      PROVE  replacements_of(compose_axis(m1, m2), x) \subseteq replacements_of(m, x)
  <2>1. replacements_of(compose_axis(m1, m2), x) = Chase(m2, replacements_of(m1, x))
    BY ComposeChases
  <2> QED BY <2>1, ChaseMember
<1>3. ASSUME NEW x \in P.live_blocks
      PROVE  Tags(d, replacements_of(compose_axis(m1, m2), x))
               \subseteq Tags(d, replacements_of(m, x))
  BY <1>2, TagsMonotone
<1> QED BY <1>1, <1>3 DEF Carries

(* remove_unreachable: some blocks go, with every edge at one of them. *)
LEMMA UnreachableRight ==
    ASSUME NEW c, Graph(c), NEW D \in SUBSET c.live_blocks, NEW F \in SUBSET c.live_edges
    PROVE  LET d == [c EXCEPT !.live_blocks = @ \ D, !.live_edges = @ \ F]
               r == [record_removed_edges(new, F) EXCEPT !.blocks = [b \in D |-> {}]]
           IN  RightChange(c, d, r)
<1> DEFINE d == [c EXCEPT !.live_blocks = @ \ D, !.live_edges = @ \ F]
           r0 == record_removed_edges(new, F)
           f == [b \in D |-> {}]
           r == [r0 EXCEPT !.blocks = f]
<1>1. /\ Shaped(d) /\ d.instructions = c.instructions /\ d.edges = c.edges
      /\ d.live_blocks = c.live_blocks \ D /\ d.live_edges = c.live_edges \ F
  BY DEF Graph, Shaped
<1>2. /\ RecordShape(r0) /\ r0.edges = Inserted(new.edges, [e \in F |-> {}])
      /\ r0.created_blocks = {} /\ r0.created_edges = {}
  BY NewFields, RecordRemovedFields
<1> HIDE DEF d, r0
<1>3. /\ RecordShape(r) /\ r.edges = r0.edges /\ r.blocks = f
      /\ r.created_blocks = {} /\ r.created_edges = {}
  BY <1>2 DEF RecordShape
<1>4. f = Inserted(new.blocks, f)
  BY DEF Inserted, new
<1> HIDE DEF r
<1>5. Right(r.blocks, {}, c.live_blocks, Slots(d), d.live_blocks)
  <2>1. Right(new.blocks, {}, c.live_blocks, Slots(c), c.live_blocks) /\ Own(new.blocks)
    BY RightUnchanged DEF Graph
  <2>2. Right(Inserted(new.blocks, f), {}, c.live_blocks, Slots(c), c.live_blocks \ D)
    BY <2>1, RightRemoved
  <2>3. Slots(d) = Slots(c)
    BY <1>1 DEF Slots
  <2> QED BY <1>1, <1>3, <1>4, <2>2, <2>3
<1>6. Right(r.edges, {}, c.live_edges, EdgeSlots(d), d.live_edges)
  <2>1. Right(new.edges, {}, c.live_edges, EdgeSlots(c), c.live_edges) /\ Own(new.edges)
    BY RightUnchanged DEF Graph
  <2>2. Right(Inserted(new.edges, [e \in F |-> {}]), {}, c.live_edges, EdgeSlots(c),
              c.live_edges \ F)
    BY <2>1, RightRemoved
  <2>3. EdgeSlots(d) = EdgeSlots(c)
    BY <1>1 DEF EdgeSlots
  <2> QED BY <1>1, <1>2, <1>3, <2>2, <2>3
<1>7. Once(d)
  BY <1>1 DEF Graph, Once, Slots
<1>8. Carries(r.blocks, c, d)
  <2>1. \A x \in d.live_blocks \cap c.live_blocks : x \in replacements_of(r.blocks, x)
    BY <1>5 DEF Right
  <2>2. /\ Slots(d) = Slots(c) /\ c.live_blocks \subseteq Slots(c) /\ Once(c)
        /\ d.live_blocks \cap Slots(c) \subseteq c.live_blocks
        /\ d.live_blocks \subseteq Slots(d)
    BY <1>1 DEF Slots, Graph
  <2> QED BY <1>1, <2>1, <2>2, CarriesAlone
<1>9. Graph(d) /\ Follows(c, d)
  BY <1>1, <1>7 DEF Graph, Follows, Onward, Slots, EdgeSlots
<1> QED BY <1>3, <1>5, <1>6, <1>8, <1>9 DEF RightChange, Renames, RecordShape, d, r, r0

(* What bypassing an empty block leaves. *)
LEMMA BypassFields ==
    ASSUME NEW c, Graph(c), NEW b, NEW e \in c.live_edges, Bypassable(c, b, e)
    PROVE  LET d == bypass(c, b, e)
           IN  /\ Shaped(d) /\ d.instructions = c.instructions
               /\ EdgeSlots(d) = EdgeSlots(c)
               /\ d.live_blocks = c.live_blocks \ {b}
               /\ d.live_edges = c.live_edges \ {e}
               /\ SameFrame(c, d)
               /\ \A x \in d.live_edges :
                     /\ d.edges[x].source = c.edges[x].source
                     /\ d.edges[x].kind = c.edges[x].kind
                     /\ d.edges[x].target = IF c.edges[x].target = b
                                            THEN c.edges[e].target
                                            ELSE c.edges[x].target
<1> DEFINE target == c.edges[e].target
           L == [x \in DOMAIN c.edges |->
                   IF x \in incoming(c, b) THEN [c.edges[x] EXCEPT !.target = target]
                   ELSE c.edges[x]]
           sent == redirect_edges_to(c, b, target)
           cut == remove_edges(sent, {e})
           d == remove_block(cut, b)
<1>0. /\ c.live_edges \subseteq DOMAIN c.edges /\ c.edges \in Seq(EdgeRecord)
      /\ \A x \in DOMAIN c.edges : c.edges[x] \in EdgeRecord
  BY DEF Graph, EdgeSlots, Shaped
<1>1. target \in Nat /\ target # b /\ outgoing(c, b) = {e}
  BY <1>0 DEF Bypassable, EdgeRecord
<1> HIDE DEF target
<1>2. /\ L \in [DOMAIN c.edges -> EdgeRecord] /\ DOMAIN L = DOMAIN c.edges
  BY <1>0, <1>1 DEF EdgeRecord
<1>3. \A x \in DOMAIN c.edges :
         /\ L[x].source = c.edges[x].source /\ L[x].kind = c.edges[x].kind
         /\ L[x].target = IF x \in incoming(c, b) THEN target ELSE c.edges[x].target
  BY <1>0 DEF EdgeRecord
<1>4. sent = [c EXCEPT !.edges = L]
  BY DEF redirect_edges_to, Graph, Shaped
<1> HIDE DEF L
<1>5. L \in Seq(EdgeRecord)
  BY <1>0, <1>2, MappedSequence
<1> HIDE DEF sent
<1>6. /\ Shaped(sent) /\ sent.edges = L /\ sent.instructions = c.instructions
      /\ sent.live_blocks = c.live_blocks /\ sent.live_edges = c.live_edges
      /\ SameFrame(c, sent)
  BY <1>4, <1>5 DEF Graph, Shaped, SameFrame
<1>7. /\ Shaped(cut) /\ cut.edges = L /\ cut.instructions = c.instructions
      /\ cut.live_blocks = c.live_blocks /\ cut.live_edges = c.live_edges \ {e}
      /\ SameFrame(c, cut)
  BY <1>6 DEF Shaped, remove_edges, SameFrame
<1> HIDE DEF cut
<1>8. Incident(cut, b) = {}
  <2>1. ASSUME NEW x \in c.live_edges \ {e}
        PROVE  L[x].source # b /\ L[x].target # b
    <3>1. x \in DOMAIN c.edges /\ c.edges[x].source # b
      BY <1>0, <1>1 DEF outgoing
    <3>2. x \in incoming(c, b) <=> c.edges[x].target = b
      BY DEF incoming
    <3> QED BY <1>1, <1>3, <3>1, <3>2
  <2> QED BY <1>7, <2>1 DEF Incident, outgoing, incoming
<1>9. d = [cut EXCEPT !.live_blocks = @ \ {b}, !.live_edges = @ \ {}]
  BY <1>8 DEF remove_block
<1>10. bypass(c, b, e) = d
  BY DEF bypass, cut, sent, target
<1> HIDE DEF d
<1>11. /\ Shaped(d) /\ d.edges = L /\ d.instructions = c.instructions
       /\ d.live_blocks = c.live_blocks \ {b} /\ d.live_edges = c.live_edges \ {e}
       /\ SameFrame(c, d)
  BY <1>7, <1>9 DEF Shaped, SameFrame
<1>12. ASSUME NEW x \in d.live_edges
       PROVE  /\ d.edges[x].source = c.edges[x].source
              /\ d.edges[x].kind = c.edges[x].kind
              /\ d.edges[x].target = IF c.edges[x].target = b THEN target
                                     ELSE c.edges[x].target
  <2>1. x \in c.live_edges /\ x \in DOMAIN c.edges
    BY <1>0, <1>11
  <2>2. x \in incoming(c, b) <=> c.edges[x].target = b
    BY <2>1 DEF incoming
  <2> QED BY <1>3, <1>11, <2>1, <2>2
<1> QED BY <1>2, <1>10, <1>11, <1>12 DEF EdgeSlots, target

(* The record of remove_empty_blocks: blocks and edges stay or go. *)
OwnRecord(r) ==
    /\ RecordShape(r) /\ r.created_blocks = {} /\ r.created_edges = {}
    /\ Own(r.blocks) /\ Own(r.edges)

(* Bypassing an empty block extends the record rightly. *)
LEMMA BypassExtends ==
    ASSUME NEW c, Graph(c), NEW b, NEW e \in c.live_edges, Bypassable(c, b, e),
           NEW P, NEW r, Leads(r, P, c), OwnRecord(r)
    PROVE  LET d == bypass(c, b, e)
               q == bypass_rewrite(r, c, b, e)
           IN  Once(d) /\ Leads(q, P, d) /\ OwnRecord(q)
<1> DEFINE d == bypass(c, b, e)
           E == incoming(c, b)
           r0 == record_kept_edges(r, E)
           r1 == record_removed_edges(r0, {e})
           q == record_block(r1, b, {})
<1>1. bypass_rewrite(r, c, b, e) = q
  BY DEF bypass_rewrite
<1>2. /\ Shaped(d) /\ d.instructions = c.instructions
      /\ EdgeSlots(d) = EdgeSlots(c)
      /\ d.live_blocks = c.live_blocks \ {b} /\ d.live_edges = c.live_edges \ {e}
  BY BypassFields
<1>3. E \in SUBSET c.live_edges /\ b \in c.live_blocks
  BY DEF incoming, Bypassable
<1> HIDE DEF d, E
<1>4. /\ RecordShape(r0) /\ r0.blocks = r.blocks
      /\ r0.edges = Inserted(r.edges, [x \in E |-> {x}])
      /\ r0.created_blocks = r.created_blocks /\ r0.created_edges = r.created_edges
  <2>1. RecordShape(r)
    BY DEF OwnRecord
  <2> QED BY <2>1, RecordKeptFields
<1> HIDE DEF r0
<1>5. /\ RecordShape(r1) /\ r1.blocks = r0.blocks
      /\ r1.edges = Inserted(r0.edges, [x \in {e} |-> {}])
      /\ r1.created_blocks = r0.created_blocks /\ r1.created_edges = r0.created_edges
  <2>1. RecordShape(r0)
    BY <1>4
  <2> QED BY <2>1, RecordRemovedFields
<1> HIDE DEF r1
<1>6. /\ RecordShape(q) /\ q.edges = r1.edges
      /\ q.blocks = Inserted(r1.blocks, Entry(b, {}))
      /\ q.created_blocks = r1.created_blocks /\ q.created_edges = r1.created_edges
  <2>1. RecordShape(r1)
    BY <1>5
  <2> QED BY <2>1, RecordBlockFields
<1> HIDE DEF q
<1>7. /\ Right(q.edges, q.created_edges, P.live_edges, EdgeSlots(d), d.live_edges)
      /\ Own(q.edges)
  <2>1. Right(r.edges, {}, P.live_edges, EdgeSlots(c), c.live_edges) /\ Own(r.edges)
    BY DEF Leads, Renames, OwnRecord
  <2> DEFINE f == [x \in E |-> {x}]
             g == [x \in {e} |-> {}]
  <2>2. /\ Right(Inserted(r.edges, f), {}, P.live_edges, EdgeSlots(c), c.live_edges)
        /\ Own(Inserted(r.edges, f))
    BY <1>3, <2>1, RightKept
  <2>3. Right(r0.edges, {}, P.live_edges, EdgeSlots(c), c.live_edges) /\ Own(r0.edges)
    BY <1>4, <2>2
  <2>4. /\ Right(Inserted(r0.edges, g), {}, P.live_edges, EdgeSlots(c), c.live_edges \ {e})
        /\ Own(Inserted(r0.edges, g))
    BY <2>3, RightRemoved
  <2> QED BY <1>2, <1>4, <1>5, <1>6, <2>4 DEF OwnRecord
<1>8. /\ Right(q.blocks, q.created_blocks, P.live_blocks, Slots(d), d.live_blocks)
      /\ Own(q.blocks)
  <2>1. Right(r.blocks, {}, P.live_blocks, Slots(c), c.live_blocks) /\ Own(r.blocks)
    BY DEF Leads, Renames, OwnRecord
  <2> DEFINE f == [x \in {b} |-> {}]
  <2>2. /\ Right(Inserted(r.blocks, f), {}, P.live_blocks, Slots(c), c.live_blocks \ {b})
        /\ Own(Inserted(r.blocks, f))
    BY <1>3, <2>1, RightRemoved
  <2>3. Slots(d) = Slots(c)
    BY <1>2 DEF Slots
  <2> QED BY <1>2, <1>4, <1>5, <1>6, <2>2, <2>3 DEF Entry, OwnRecord
<1>9. /\ Slots(d) = Slots(c) /\ c.live_blocks \subseteq Slots(c) /\ Once(c)
      /\ d.live_blocks \cap Slots(c) \subseteq c.live_blocks
      /\ d.live_blocks \subseteq Slots(d)
  BY <1>2 DEF Slots, Graph
<1>10. Once(d)
  BY <1>2, <1>9 DEF Once
<1>11. Carries(q.blocks, P, d)
  <2> DEFINE f == Entry(b, {})
  <2>1. /\ replacements_of(q.blocks, b) = {}
        /\ \A y : y # b => replacements_of(q.blocks, y) = replacements_of(r.blocks, y)
        /\ \A y : replacements_of(f, y) = IF y = b THEN {} ELSE {y}
    <3>1. q.blocks = Inserted(r.blocks, f)
      BY <1>4, <1>5, <1>6
    <3>2. ASSUME NEW y
          PROVE  /\ replacements_of(Inserted(r.blocks, Entry(b, {})), y)
                      = IF y = b THEN {} ELSE replacements_of(r.blocks, y)
                 /\ replacements_of(Entry(b, {}), y) = IF y = b THEN {} ELSE {y}
      BY InsertedEntry
    <3> QED BY <3>1, <3>2
  <2> HIDE DEF f
  <2>2. \A x \in d.live_blocks \cap c.live_blocks : x \in replacements_of(f, x)
    BY <1>2, <2>1
  <2>3. Carries(f, c, d)
    BY <1>2, <1>9, <2>2, CarriesAlone
  <2>4. \A x : replacements_of(r.blocks, x) \subseteq {x}
    BY DEF OwnRecord, Own, replacements_of
  <2>5. \A x \in P.live_blocks : \A y \in replacements_of(r.blocks, x) :
           replacements_of(f, y) \subseteq replacements_of(q.blocks, x)
    BY <2>1, <2>4
  <2>6. /\ \A x \in P.live_blocks : replacements_of(r.blocks, x) \subseteq c.live_blocks
        /\ Carries(r.blocks, P, c) /\ P.live_blocks \subseteq Slots(P)
    BY DEF Leads, Renames, Right
  <2> QED BY <2>3, <2>5, <2>6, CarriesExtended
<1>12. Follows(P, d)
  <2>1. Follows(c, d)
    BY <1>2, <1>9 DEF Follows, Onward, Graph
  <2> QED BY <2>1, FollowsOn DEF Leads
<1>13. Leads(q, P, d)
  BY <1>6, <1>7, <1>8, <1>11, <1>12 DEF Leads, Renames, RecordShape
<1>14. OwnRecord(q)
  BY <1>4, <1>5, <1>6, <1>7, <1>8 DEF OwnRecord
<1> QED BY <1>1, <1>10, <1>13, <1>14 DEF d

(* The record of merge_blocks: a block that went into another is gone, and *)
(* none that went into another is one of B, the blocks still to be taken   *)
(* in.                                                                     *)
MergeRecord(r, c, B) ==
    /\ RecordShape(r) /\ r.created_blocks = {} /\ r.created_edges = {}
    /\ Own(r.edges) /\ DOMAIN r.blocks \cap c.live_blocks = {}
    /\ \A x \in DOMAIN r.blocks : r.blocks[x] \cap B = {}

(* Contracting an edge to a block still to be taken in, from one that no   *)
(* longer is, extends the record rightly.                                  *)
LEMMA ContractExtends ==
    ASSUME NEW c, Graph(c), NEW source \in c.live_blocks, NEW target \in c.live_blocks,
           source # target, NEW e \in c.live_edges,
           outgoing(c, source) = {e}, incoming(c, target) = {e},
           NEW P, NEW r, Leads(r, P, c), NEW B, MergeRecord(r, c, B),
           target \in B, source \notin B
    PROVE  LET d == contract_edge(c, source, target, e)
               q == contract_edge_rewrite(r, c, source, target, e)
           IN  Once(d) /\ Leads(q, P, d) /\ MergeRecord(q, d, B)
<1> DEFINE d == contract_edge(c, source, target, e)
           E == outgoing(c, target)
           r0 == record_removed_edges(r, {e})
           r1 == record_kept_edges(r0, E)
           q == record_block(r1, target, {source})
<1>1. contract_edge_rewrite(r, c, source, target, e) = q
  BY DEF contract_edge_rewrite
<1>2. /\ Shaped(d) /\ Joined(c, d.instructions, source, target)
      /\ d.live_blocks = c.live_blocks \ {target}
      /\ EdgeSlots(d) = EdgeSlots(c)
      /\ d.live_edges = c.live_edges \ {e}
  BY ContractFields
<1>3. E \in SUBSET (c.live_edges \ {e})
  BY DEF outgoing
<1> HIDE DEF d, E
<1>4. /\ RecordShape(r0) /\ r0.blocks = r.blocks
      /\ r0.edges = Inserted(r.edges, [x \in {e} |-> {}])
      /\ r0.created_blocks = r.created_blocks /\ r0.created_edges = r.created_edges
  <2>1. RecordShape(r)
    BY DEF MergeRecord
  <2> QED BY <2>1, RecordRemovedFields
<1> HIDE DEF r0
<1>5. /\ RecordShape(r1) /\ r1.blocks = r0.blocks
      /\ r1.edges = Inserted(r0.edges, [x \in E |-> {x}])
      /\ r1.created_blocks = r0.created_blocks /\ r1.created_edges = r0.created_edges
  <2>1. RecordShape(r0)
    BY <1>4
  <2> QED BY <2>1, RecordKeptFields
<1> HIDE DEF r1
<1>6. /\ RecordShape(q) /\ q.edges = r1.edges
      /\ q.blocks = Inserted(r1.blocks, Entry(target, {source}))
      /\ q.created_blocks = r1.created_blocks /\ q.created_edges = r1.created_edges
  <2>1. RecordShape(r1)
    BY <1>5
  <2> QED BY <2>1, RecordBlockFields
<1> HIDE DEF q
<1>7. /\ Right(q.edges, q.created_edges, P.live_edges, EdgeSlots(d), d.live_edges)
      /\ Own(q.edges)
  <2>1. Right(r.edges, {}, P.live_edges, EdgeSlots(c), c.live_edges) /\ Own(r.edges)
    BY DEF Leads, Renames, MergeRecord
  <2> DEFINE f == [x \in E |-> {x}]
             g == [x \in {e} |-> {}]
  <2>2. /\ Right(Inserted(r.edges, g), {}, P.live_edges, EdgeSlots(c), c.live_edges \ {e})
        /\ Own(Inserted(r.edges, g))
    BY <2>1, RightRemoved
  <2>3. /\ Right(r0.edges, {}, P.live_edges, EdgeSlots(c), c.live_edges \ {e})
        /\ Own(r0.edges)
    BY <1>4, <2>2
  <2>4. /\ Right(Inserted(r0.edges, f), {}, P.live_edges, EdgeSlots(c), c.live_edges \ {e})
        /\ Own(Inserted(r0.edges, f))
    BY <1>3, <2>3, RightKept
  <2> QED BY <1>2, <1>4, <1>5, <1>6, <2>4 DEF MergeRecord
<1>8. q.blocks = Inserted(r.blocks, Entry(target, {source}))
  BY <1>4, <1>5, <1>6
<1>9. /\ Right(q.blocks, q.created_blocks, P.live_blocks, Slots(d), d.live_blocks)
      /\ DOMAIN q.blocks \cap d.live_blocks = {}
  <2>1. /\ Right(r.blocks, {}, P.live_blocks, Slots(c), c.live_blocks)
        /\ DOMAIN r.blocks \cap c.live_blocks = {}
        /\ \A x \in DOMAIN r.blocks : target \notin r.blocks[x]
    BY DEF Leads, Renames, MergeRecord
  <2>2. /\ Right(Inserted(r.blocks, Entry(target, {source})), {}, P.live_blocks, Slots(c),
                 c.live_blocks \ {target})
        /\ DOMAIN Inserted(r.blocks, Entry(target, {source})) \cap (c.live_blocks \ {target})
             = {}
    BY <2>1, RightMerged
  <2>3. Slots(d) = Slots(c)
    BY <1>2 DEF Joined, Slots
  <2> QED BY ZenonT(40), <1>2, <1>4, <1>5, <1>6, <1>8, <2>2, <2>3 DEF MergeRecord
<1>10. \A x \in DOMAIN q.blocks : q.blocks[x] \cap B = {}
  BY <1>8 DEF MergeRecord, Inserted, Entry
<1>11. ASSUME NEW y
       PROVE  /\ replacements_of(q.blocks, y)
                   = IF y = target THEN {source} ELSE replacements_of(r.blocks, y)
              /\ replacements_of(Entry(target, {source}), y)
                   = IF y = target THEN {source} ELSE {y}
  <2>1. /\ replacements_of(Inserted(r.blocks, Entry(target, {source})), y)
             = IF y = target THEN {source} ELSE replacements_of(r.blocks, y)
        /\ replacements_of(Entry(target, {source}), y)
             = IF y = target THEN {source} ELSE {y}
    BY InsertedEntry
  <2> QED BY <1>8, <2>1
<1>12. Once(d) /\ Carries(Entry(target, {source}), c, d)
  BY ZenonT(40), <1>2, <1>11, JoinCarries
<1>13. Carries(q.blocks, P, d)
  <2>1. ASSUME NEW x \in P.live_blocks, NEW y \in replacements_of(r.blocks, x)
        PROVE  replacements_of(Entry(target, {source}), y) \subseteq replacements_of(q.blocks, x)
    <3>1. CASE x \in DOMAIN r.blocks
      <4>1. y # target /\ x # target
        BY <3>1 DEF MergeRecord, replacements_of
      <4> QED BY <1>11, <2>1, <4>1
    <3>2. CASE x \notin DOMAIN r.blocks
      <4>1. y = x
        BY <2>1, <3>2 DEF replacements_of
      <4> QED BY <1>11, <2>1, <4>1
    <3> QED BY <3>1, <3>2
  <2>2. /\ \A x \in P.live_blocks : replacements_of(r.blocks, x) \subseteq c.live_blocks
        /\ Carries(r.blocks, P, c) /\ P.live_blocks \subseteq Slots(P)
    BY DEF Leads, Renames, Right
  <2> QED BY <1>12, <2>1, <2>2, CarriesExtended
<1>14. Follows(P, d)
  <2>1. Slots(d) = Slots(c)
    BY <1>2 DEF Joined, Slots
  <2>2. Follows(c, d)
    BY <1>2, <2>1 DEF Follows, Onward, Graph
  <2> QED BY <2>2, FollowsOn DEF Leads
<1>15. Leads(q, P, d)
  BY <1>6, <1>7, <1>9, <1>13, <1>14 DEF Leads, Renames, RecordShape
<1>16. MergeRecord(q, d, B)
  BY <1>4, <1>5, <1>6, <1>7, <1>9, <1>10 DEF MergeRecord
<1> QED BY <1>1, <1>12, <1>15, <1>16 DEF d

(* A well-formed graph in which no instruction is in two places. *)
LEMMA WellFormedGraph ==
    ASSUME NEW c, WellFormed(c), Once(c)
    PROVE  Graph(c) /\ Joins(c)
<1>1. Shaped(c)
  BY DEF WellFormed, CfgType, Shaped
<1> QED BY <1>1 DEF WellFormed, Graph, Joins

(* The record of split_critical_edges: a split edge is itself and its      *)
(* second half; the blocks are not mentioned.                              *)
SplitRecord(r) ==
    RecordShape(r) /\ r.blocks = new.blocks /\ Listed(r.edges, r.created_edges)

(* Splitting an edge extends the record rightly. *)
LEMMA SplitExtends ==
    ASSUME NEW c, WellFormed(c), Once(c), NEW e \in c.live_edges,
           NEW P, NEW r, Leads(r, P, c), SplitRecord(r)
    PROVE  LET d == split_edge(c, e)
               q == split_edge_rewrite(r, c, e)
           IN  Once(d) /\ Leads(q, P, d) /\ SplitRecord(q)
<1> DEFINE d == split_edge(c, e)
           middle == Len(c.instructions) + 1
           second == Len(c.edges) + 1
           r0 == record_edge(r, e, {e, second})
           r1 == record_created_block(r0, middle)
           q == record_created_edge(r1, second)
<1>1. split_edge_rewrite(r, c, e) = q
  BY DEF split_edge_rewrite
<1>2. /\ d.instructions = Append(c.instructions, <<>>)
      /\ d.live_blocks = c.live_blocks \cup {middle}
      /\ EdgeSlots(d) = 1..second
      /\ d.live_edges = c.live_edges \cup {second}
  BY SplitEdgeGood
<1>3. Graph(c)
  BY WellFormedGraph
<1>4. /\ Slots(d) = Slots(c) \cup {middle} /\ middle \notin Slots(c)
      /\ d.instructions[middle] = <<>>
      /\ \A x \in Slots(c) : d.instructions[x] = c.instructions[x]
  <2>1. c.instructions \in Seq(Seq(Nat)) /\ <<>> \in Seq(Nat)
    BY <1>3 DEF Graph, Shaped
  <2> HIDE DEF d
  <2> QED BY SMTT(30), <1>2, <2>1, AppendedFacts DEF Slots
<1>5. EdgeSlots(d) = EdgeSlots(c) \cup {second} /\ second \notin EdgeSlots(c)
  <2>1. Len(c.edges) \in Nat /\ EdgeSlots(c) = 1..Len(c.edges)
    BY <1>3, SlotsOf
  <2> HIDE DEF d
  <2> QED BY <1>2, <2>1
<1> HIDE DEF d, middle, second
<1>6. /\ RecordShape(r0) /\ r0.blocks = r.blocks
      /\ r0.edges = Inserted(r.edges, Entry(e, {e, second}))
      /\ r0.created_blocks = r.created_blocks /\ r0.created_edges = r.created_edges
  <2>1. RecordShape(r)
    BY DEF SplitRecord
  <2> QED BY <2>1, RecordEdgeFields
<1> HIDE DEF r0
<1>7. /\ RecordShape(r1) /\ r1.blocks = r0.blocks /\ r1.edges = r0.edges
      /\ r1.created_blocks = r0.created_blocks \cup {middle}
      /\ r1.created_edges = r0.created_edges
  <2>1. RecordShape(r0)
    BY <1>6
  <2> QED BY <2>1, RecordCreatedFields
<1> HIDE DEF r1
<1>8. /\ RecordShape(q) /\ q.blocks = r1.blocks /\ q.edges = r1.edges
      /\ q.created_blocks = r1.created_blocks
      /\ q.created_edges = r1.created_edges \cup {second}
  <2>1. RecordShape(r1)
    BY <1>7
  <2> QED BY <2>1, RecordCreatedFields
<1> HIDE DEF q
<1>9. Right(q.blocks, q.created_blocks, P.live_blocks, Slots(d), d.live_blocks)
  <2>1. Right(r.blocks, r.created_blocks, P.live_blocks, Slots(c), c.live_blocks)
    BY DEF Leads, Renames
  <2>2. Right(r.blocks, r.created_blocks \cup {middle}, P.live_blocks, Slots(d),
              c.live_blocks \cup {middle})
    BY <1>4, <2>1, RightMade
  <2> QED BY <1>2, <1>6, <1>7, <1>8, <2>2
<1>10. /\ Right(q.edges, q.created_edges, P.live_edges, EdgeSlots(d), d.live_edges)
       /\ Listed(q.edges, q.created_edges)
  <2>1. /\ Right(r.edges, r.created_edges, P.live_edges, EdgeSlots(c), c.live_edges)
        /\ Listed(r.edges, r.created_edges)
    BY DEF Leads, Renames, SplitRecord
  <2>2. /\ Right(Inserted(r.edges, Entry(e, {e, second})), r.created_edges \cup {second},
                 P.live_edges, EdgeSlots(d), c.live_edges \cup {second})
        /\ Listed(Inserted(r.edges, Entry(e, {e, second})), r.created_edges \cup {second})
    BY <1>5, <2>1, RightDoubled
  <2> QED BY <1>2, <1>6, <1>7, <1>8, <2>2
<1>11. Once(d)
  BY <1>4 DEF Once
<1>12. /\ c.live_blocks \subseteq Slots(c) /\ d.live_blocks \subseteq Slots(d)
       /\ d.live_blocks \cap Slots(c) \subseteq c.live_blocks
       /\ d.live_edges \cap EdgeSlots(c) \subseteq c.live_edges
  BY <1>2, <1>3, <1>4, <1>5 DEF Graph
<1>13. Carries(q.blocks, P, d)
  <2>1. \A x : replacements_of(new.blocks, x) = {x}
    BY DEF new, replacements_of
  <2>2. Carries(new.blocks, c, d)
    BY <1>4, <1>12, <2>1, CarriesAlone
  <2>3. q.blocks = new.blocks /\ r.blocks = new.blocks
    BY <1>6, <1>7, <1>8 DEF SplitRecord
  <2>4. /\ \A x \in P.live_blocks : replacements_of(r.blocks, x) \subseteq c.live_blocks
        /\ Carries(r.blocks, P, c) /\ P.live_blocks \subseteq Slots(P)
    BY DEF Leads, Renames, Right
  <2>5. \A x \in P.live_blocks : \A y \in replacements_of(r.blocks, x) :
           replacements_of(new.blocks, y) \subseteq replacements_of(q.blocks, x)
    BY <2>1, <2>3
  <2> QED BY <2>2, <2>4, <2>5, CarriesExtended
<1>14. Follows(P, d)
  <2>1. Follows(c, d)
    BY <1>4, <1>5, <1>12 DEF Follows, Onward
  <2> QED BY <2>1, FollowsOn DEF Leads
<1>15. Leads(q, P, d)
  BY <1>8, <1>9, <1>10, <1>13, <1>14 DEF Leads, Renames, RecordShape
<1>16. SplitRecord(q)
  BY <1>6, <1>7, <1>8, <1>10 DEF SplitRecord
<1> QED BY <1>1, <1>11, <1>15, <1>16 DEF d

(* What is reachable leads to what is reachable. *)
LEMMA ReachableClosed ==
    ASSUME NEW c, WellFormed(c), NEW S, NEW e \in c.live_edges,
           c.edges[e].source \in reachable(c, S)
    PROVE  c.edges[e].target \in reachable(c, S)
<1> DEFINE a == c.edges[e].source
           t == c.edges[e].target
<1>1. t \in Slots(c)
  BY DEF WellFormed
<1>2. t \in successors(c, a)
  BY DEF successors, outgoing
<1> HIDE DEF a, t
<1>3. a \in reachable(c, S)
  BY DEF a
<1>4. t \in reachable(c, S)
  BY <1>1, <1>2, <1>3 DEF reachable
<1> QED BY <1>4 DEF t

(* The list of merge_blocks holds no block twice. *)
NoTwice(todo) == \A i, j \in DOMAIN todo : todo[i] = todo[j] => i = j

(* A block that only one edge enters, from a block of the list, comes      *)
(* later in the list.                                                      *)
Ahead(c, todo) ==
    \A i \in DOMAIN todo, e \in c.live_edges :
       /\ c.edges[e].source = todo[i] /\ c.edges[e].target # c.entry
       /\ incoming(c, c.edges[e].target) = {e}
       => \E j \in DOMAIN todo : i < j /\ todo[j] = c.edges[e].target

(* Depth-first preorders are such lists: a block is listed after one that  *)
(* leads to it, and all that is reachable is listed.                       *)
LEMMA PreorderAhead ==
    ASSUME NEW c, WellFormed(c), NEW order \in Preorders(c)
    PROVE  /\ order \in Seq(Nat) /\ NoTwice(order) /\ Ahead(c, order)
           /\ \A t \in reachable(c, {c.entry}) : \E k \in DOMAIN order : order[k] = t
<1> DEFINE R == reachable(c, {c.entry})
           N == Cardinality(R)
<1>1. order \in [1..N -> R] /\ depth_first_preorder(c, order)
  BY DEF Preorders
<1>2. R \in SUBSET Slots(c) /\ Slots(c) = 1..Len(c.instructions) /\ Len(c.instructions) \in Nat
  BY DEF reachable, Slots, WellFormed, CfgType
<1> HIDE DEF R
<1>3. IsFiniteSet(R) /\ N \in Nat
  <2>1. IsFiniteSet(1..Len(c.instructions))
    BY <1>2, FS_Interval
  <2>2. IsFiniteSet(R)
    BY <1>2, <2>1, FS_Subset
  <2> QED BY <2>2, FS_CardinalityType
<1> HIDE DEF N
<1>4. R \subseteq Nat
  BY <1>2
<1>5. order \in Seq(Nat) /\ DOMAIN order = 1..N /\ Len(order) = N
  <2>1. order \in [1..N -> Nat]
    BY <1>1, <1>4
  <2> QED BY <1>3, <2>1
<1>6. order[1] = c.entry
  BY <1>1 DEF depth_first_preorder
<1>7. ASSUME NEW i \in 2..N
      PROVE  /\ \E j \in 1..(i - 1) : order[i] \in successors(c, order[j])
             /\ \A j \in 1..(i - 1) : order[i] # order[j]
  <2>1. i \in 2..Len(order)
    BY <1>5
  <2> QED BY <1>1, <2>1 DEF depth_first_preorder
<1>8. ASSUME NEW i \in 1..N, NEW j \in 1..N, order[i] = order[j]
      PROVE  i = j
  <2>1. CASE i < j
    <3>1. j \in 2..N /\ i \in 1..(j - 1)
      BY <1>3, <2>1
    <3> QED BY <1>7, <1>8, <3>1
  <2>2. CASE j < i
    <3>1. i \in 2..N /\ j \in 1..(i - 1)
      BY <1>3, <2>2
    <3> QED BY <1>7, <1>8, <3>1
  <2> QED BY <1>3, <2>1, <2>2
<1>9. NoTwice(order)
  BY <1>5, <1>8 DEF NoTwice
<1>10. \A t \in R : \E k \in 1..N : order[k] = t
  <2>1. order \in Injection(1..N, R)
    BY <1>1, <1>8 DEF Injection, IsInjective
  <2>2. Cardinality(1..N) = Cardinality(R)
    BY <1>3, FS_Interval DEF N
  <2>3. order \in Surjection(1..N, R)
    BY <1>3, <2>1, <2>2, FS_Injection
  <2> QED BY <2>3 DEF Surjection
<1>11. ASSUME NEW i \in DOMAIN order, NEW e \in c.live_edges,
              c.edges[e].source = order[i], c.edges[e].target # c.entry,
              incoming(c, c.edges[e].target) = {e}
       PROVE  \E j \in DOMAIN order : i < j /\ order[j] = c.edges[e].target
  <2> DEFINE t == c.edges[e].target
  <2>1. order[i] \in R
    BY <1>1, <1>5
  <2>2. t \in R
    BY <1>11, <2>1, ReachableClosed DEF R
  <2>3. PICK k \in 1..N : order[k] = t
    BY <1>10, <2>2
  <2>4. k \in 2..N
    BY <1>3, <1>6, <1>11, <2>3
  <2>5. PICK j \in 1..(k - 1) : t \in successors(c, order[j])
    BY <1>7, <2>3, <2>4
  <2>6. PICK f \in c.live_edges : c.edges[f].source = order[j] /\ c.edges[f].target = t
    BY <2>5 DEF successors, outgoing
  <2>7. f = e
    BY <1>11, <2>6 DEF incoming
  <2>8. j \in 1..N /\ j < k
    BY <1>3, <2>4, <2>5
  <2>9. i = j
    BY <1>5, <1>8, <1>11, <2>6, <2>7, <2>8
  <2> QED BY <1>5, <2>3, <2>8, <2>9
<1> QED BY <1>5, <1>9, <1>10, <1>11 DEF Ahead, R

(* The blocks of the list after its first. *)
Later(todo) == {todo[j] : j \in 2..Len(todo)}

(* Going on to the next block of the list. *)
LEMMA AheadTail ==
    ASSUME NEW c, NEW todo \in Seq(Nat), todo # <<>>, NoTwice(todo), Ahead(c, todo)
    PROVE  /\ Tail(todo) \in Seq(Nat) /\ NoTwice(Tail(todo)) /\ Ahead(c, Tail(todo))
           /\ Later(Tail(todo)) \subseteq Later(todo)
<1> DEFINE t == Tail(todo)
           n == Len(todo)
<1>1. /\ t \in Seq(Nat) /\ n \in Nat /\ n > 0 /\ Len(t) = n - 1
      /\ DOMAIN t = 1..(n - 1) /\ DOMAIN todo = 1..n
      /\ \A i \in DOMAIN t : i + 1 \in DOMAIN todo /\ t[i] = todo[i + 1] /\ i \in Nat
  OBVIOUS
<1> HIDE DEF t, n
<1>2. NoTwice(t)
  <2> SUFFICES ASSUME NEW i \in DOMAIN t, NEW j \in DOMAIN t, t[i] = t[j]
               PROVE  i = j
    BY DEF NoTwice
  <2>1. i + 1 = j + 1
    BY <1>1 DEF NoTwice
  <2> QED BY <1>1, <2>1
<1>3. Ahead(c, t)
  <2> SUFFICES ASSUME NEW i \in DOMAIN t, NEW e \in c.live_edges,
                      c.edges[e].source = t[i], c.edges[e].target # c.entry,
                      incoming(c, c.edges[e].target) = {e}
               PROVE  \E j \in DOMAIN t : i < j /\ t[j] = c.edges[e].target
    BY DEF Ahead
  <2>1. PICK j \in DOMAIN todo : i + 1 < j /\ todo[j] = c.edges[e].target
    BY <1>1 DEF Ahead
  <2>2. j \in 1..n /\ i \in 1..(n - 1) /\ n \in Nat /\ i + 1 < j
    BY <1>1, <2>1
  <2>3. j - 1 \in 1..(n - 1) /\ i < j - 1 /\ (j - 1) + 1 = j
    <3>1. j \in Int /\ i \in Int /\ n \in Int /\ 1 <= i /\ j <= n
      BY <2>2
    <3> QED BY <2>2, <3>1
  <2> QED BY <1>1, <2>1, <2>3
<1>4. ASSUME NEW j \in 2..Len(t)
      PROVE  t[j] \in Later(todo)
  <2>1. j \in 1..(n - 1) /\ j + 1 \in 2..n
    BY <1>1
  <2>2. t[j] = todo[j + 1]
    BY <1>1, <2>1
  <2> QED BY <2>1, <2>2 DEF Later, n
<1> QED BY <1>1, <1>2, <1>3, <1>4 DEF Later, t

(* The block that the first of the list takes in comes later in the list,  *)
(* and so does what the first leads to then.                               *)
LEMMA AheadContracted ==
    ASSUME NEW c, Graph(c), Joins(c), NEW todo \in Seq(Nat), todo # <<>>, NoTwice(todo),
           Ahead(c, todo), NEW source \in c.live_blocks, NEW target \in c.live_blocks,
           source # target, target # c.entry, source = Head(todo),
           NEW e \in c.live_edges, outgoing(c, source) = {e}, incoming(c, target) = {e}
    PROVE  /\ Ahead(contract_edge(c, source, target, e), todo)
           /\ target \in Later(todo) /\ source \notin Later(todo)
<1> DEFINE d == contract_edge(c, source, target, e)
<1>1. /\ Len(todo) \in Nat /\ DOMAIN todo = 1..Len(todo) /\ 1 \in DOMAIN todo
      /\ source = todo[1]
  OBVIOUS
<1>2. c.edges[e].source = source /\ c.edges[e].target = target
  BY DEF outgoing, incoming
<1>3. PICK j \in DOMAIN todo : 1 < j /\ todo[j] = target
  BY <1>1, <1>2 DEF Ahead
<1>4. j \in 2..Len(todo)
  BY <1>1, <1>3
<1>5. target \in Later(todo)
  BY <1>3, <1>4 DEF Later
<1>6. source \notin Later(todo)
  <2>1. ASSUME NEW k \in 2..Len(todo), todo[k] = source
        PROVE  FALSE
    <3>1. k \in DOMAIN todo /\ k # 1
      BY <1>1
    <3> QED BY <1>1, <2>1, <3>1 DEF NoTwice
  <2> QED BY <2>1 DEF Later
<1>7. /\ d.live_edges = c.live_edges \ {e} /\ d.entry = c.entry
      /\ \A x \in d.live_edges :
            /\ d.edges[x].target = c.edges[x].target
            /\ d.edges[x].source = IF c.edges[x].source = target THEN source
                                   ELSE c.edges[x].source
  BY ContractFields
<1> HIDE DEF d
<1>8. Ahead(d, todo)
  <2> SUFFICES ASSUME NEW i \in DOMAIN todo, NEW x \in d.live_edges,
                      d.edges[x].source = todo[i], d.edges[x].target # d.entry,
                      incoming(d, d.edges[x].target) = {x}
               PROVE  \E k \in DOMAIN todo : i < k /\ todo[k] = d.edges[x].target
    BY DEF Ahead
  <2> DEFINE t == c.edges[x].target
  <2>1. x \in c.live_edges /\ x # e /\ d.edges[x].target = t /\ t # c.entry
    BY <1>7
  <2>2. t # target
    BY <2>1 DEF incoming
  <2>3. incoming(c, t) = {x}
    <3>1. \A y \in c.live_edges : c.edges[y].target = t => y \in d.live_edges
      BY <1>2, <1>7, <2>2
    <3>2. ASSUME NEW y \in c.live_edges, c.edges[y].target = t
          PROVE  y = x
      <4>1. y \in incoming(d, d.edges[x].target)
        BY <1>7, <2>1, <3>1, <3>2 DEF incoming
      <4> QED BY <4>1
    <3> QED BY <2>1, <3>2 DEF incoming
  <2>4. CASE c.edges[x].source = target
    <3>1. todo[i] = source
      BY <1>7, <2>4
    <3>2. i = 1
      BY <1>1, <3>1 DEF NoTwice
    <3>3. PICK k \in DOMAIN todo : j < k /\ todo[k] = t
      BY <1>3, <2>1, <2>3, <2>4 DEF Ahead
    <3>4. i < k
      BY <1>1, <1>3, <3>2, <3>3
    <3> QED BY <2>1, <3>3, <3>4
  <2>5. CASE c.edges[x].source # target
    <3>1. c.edges[x].source = todo[i]
      BY <1>7, <2>5
    <3> QED BY <2>1, <2>3, <3>1 DEF Ahead
  <2> QED BY <2>4, <2>5
<1> QED BY <1>5, <1>6, <1>8 DEF d
-----------------------------------------------------------------------------
(* The passes.  What the record of the running phase is like depends on    *)
(* the phase.                                                              *)
PhaseRecord ==
    /\ In("empty") => OwnRecord(pass.map)
    /\ In("merge") =>
          /\ pass.todo \in Seq(Nat) /\ NoTwice(pass.todo) /\ Ahead(cfg, pass.todo)
          /\ MergeRecord(pass.map, cfg, Later(pass.todo))
    /\ In("critical") => SplitRecord(pass.map)

PassRecordInv ==
    /\ PassInv
    /\ Once(cfg)
    /\ origin.live_blocks \subseteq Slots(origin)
    /\ ~pass.begun => pass.map = new /\ Renames(rewrite, origin, cfg)
    /\ pass.begun =>
          /\ pass.phases # <<>>
          /\ PhaseRecord
          /\ \E P : Renames(rewrite, origin, P) /\ Leads(pass.map, P, cfg)

(* Nothing was recorded, nothing was changed. *)
LEMMA LeadsNowhere ==
    ASSUME NEW c, Graph(c)
    PROVE  Leads(new, c, c) /\ Renames(new, c, c) /\ Follows(c, c)
<1>1. RightChange(c, c, new)
  BY EditRight DEF Graph
<1> QED BY <1>1 DEF RightChange, Leads, Graph

(* The two records, composed, account for the graph. *)
LEMMA PassRecordRight ==
    ASSUME PassRecordInv
    PROVE  Renames(compose(rewrite, pass.map), origin, cfg)
<1>1. Graph(cfg)
  BY WellFormedGraph DEF PassRecordInv, PassInv
<1>2. CASE ~pass.begun
  <2>1. pass.map = new /\ Renames(rewrite, origin, cfg)
    BY <1>2 DEF PassRecordInv
  <2>2. Renames(new, cfg, cfg) /\ Follows(cfg, cfg)
    BY <1>1, LeadsNowhere
  <2>3. Renames(compose(rewrite, new), origin, cfg)
    BY <2>1, <2>2, RecordsCompose DEF PassRecordInv
  <2> QED BY <2>1, <2>3
<1>3. CASE pass.begun
  <2>1. PICK P : Renames(rewrite, origin, P) /\ Leads(pass.map, P, cfg)
    BY <1>3 DEF PassRecordInv
  <2> QED BY <2>1, RecordsCompose DEF Leads, PassRecordInv
<1> QED BY <1>2, <1>3

(* A phase takes its list. *)
LEMMA BeginKeeps ==
    ASSUME PassRecordInv, PassInv', Begin
    PROVE  PassRecordInv'
<1>1. /\ cfg' = cfg /\ origin' = origin /\ rewrite' = rewrite
      /\ pass.phases # <<>> /\ ~pass.begun /\ PassShape
  BY DEF Begin, PassRecordInv, PassInv
<1>2. PICK list \in IF Phase = "critical" THEN CriticalLists(cfg) ELSE Preorders(cfg) :
         pass' = [pass EXCEPT !.begun = TRUE, !.todo = list]
  BY DEF Begin
<1>3. /\ pass'.begun = TRUE /\ pass'.todo = list
      /\ pass'.phases = pass.phases /\ pass'.map = pass.map
  BY <1>1, <1>2 DEF PassShape
<1>4. pass.map = new /\ Renames(rewrite, origin, cfg) /\ Graph(cfg) /\ WellFormed(cfg)
  BY <1>1, WellFormedGraph DEF PassRecordInv, PassInv
<1>5. Leads(new, cfg, cfg)
  BY <1>4, LeadsNowhere
<1>6. OwnRecord(new) /\ SplitRecord(new) /\ MergeRecord(new, cfg, Later(list))
  <2>1. Own(new.blocks) /\ Own(new.edges)
    BY <1>4, RightUnchanged DEF Graph
  <2>2. DOMAIN new.blocks = {} /\ DOMAIN new.edges = {}
    BY DEF new
  <2>3. RecordShape(new) /\ new.created_blocks = {} /\ new.created_edges = {}
    BY NewFields
  <2> QED BY <2>1, <2>2, <2>3 DEF OwnRecord, SplitRecord, MergeRecord, Listed
<1>7. In("merge") => list \in Seq(Nat) /\ NoTwice(list) /\ Ahead(cfg, list)
  BY <1>2, <1>4, PreorderAhead DEF In
<1>8. PhaseRecord'
  BY <1>1, <1>3, <1>4, <1>6, <1>7 DEF PhaseRecord, In, Phase
<1>9. \E P : Renames(rewrite', origin', P) /\ Leads(pass'.map, P, cfg')
  BY <1>1, <1>3, <1>4, <1>5
<1> QED BY <1>1, <1>3, <1>8, <1>9 DEF PassRecordInv

(* A phase returns its record. *)
LEMMA EndPhaseKeeps ==
    ASSUME PassRecordInv, PassInv', EndPhase
    PROVE  PassRecordInv'
<1>1. /\ cfg' = cfg /\ origin' = origin /\ rewrite' = compose(rewrite, pass.map)
      /\ pass' = [pass EXCEPT !.phases = Tail(@), !.begun = FALSE, !.map = new]
      /\ PassShape
  BY DEF EndPhase, PassRecordInv, PassInv
<1>2. pass'.begun = FALSE /\ pass'.map = new
  BY <1>1 DEF PassShape
<1>3. Renames(rewrite', origin', cfg')
  BY <1>1, PassRecordRight
<1> QED BY <1>1, <1>2, <1>3 DEF PassRecordInv

(* simplify starts another round. *)
LEMMA NextRoundKeeps ==
    ASSUME PassRecordInv, PassInv', NextRound
    PROVE  PassRecordInv'
<1>1. /\ cfg' = cfg /\ origin' = origin /\ rewrite' = rewrite
      /\ pass' = Started("simplify") /\ pass.phases = <<>>
  BY DEF NextRound
<1>2. pass'.begun = FALSE /\ pass'.map = new
  BY <1>1 DEF Started
<1>3. ~pass.begun
  BY <1>1 DEF PassRecordInv
<1> QED BY <1>1, <1>2, <1>3 DEF PassRecordInv

(* remove_unreachable returns its record at once. *)
LEMMA UnreachableKeeps ==
    ASSUME PassRecordInv, PassInv', remove_unreachable
    PROVE  PassRecordInv'
<1> DEFINE D == cfg.live_blocks \ Retained(cfg)
           F == {e \in cfg.live_edges :
                   {cfg.edges[e].source, cfg.edges[e].target} \cap D # {}}
           d == [cfg EXCEPT !.live_blocks = @ \ D, !.live_edges = @ \ F]
           r == [record_removed_edges(new, F) EXCEPT !.blocks = [b \in D |-> {}]]
<1>1. /\ cfg' = d /\ origin' = origin /\ rewrite' = compose(rewrite, r)
      /\ In("unreachable") /\ PassShape
  BY DEF remove_unreachable, PassRecordInv, PassInv
<1>2. pass'.begun = pass.begun /\ pass'.map = pass.map
  BY <1>1 DEF remove_unreachable, PassShape
<1>3. pass.begun = FALSE /\ pass.map = new /\ Renames(rewrite, origin, cfg) /\ Graph(cfg)
  BY <1>1, WellFormedGraph DEF PassRecordInv, PassInv
<1>4. D \in SUBSET cfg.live_blocks /\ F \in SUBSET cfg.live_edges
  OBVIOUS
<1> HIDE DEF D, F
<1>5. RightChange(cfg, d, r)
  BY <1>3, <1>4, UnreachableRight
<1> HIDE DEF d, r
<1>6. Renames(compose(rewrite, r), origin, d) /\ Once(d)
  BY <1>3, <1>5, RecordsCompose DEF PassRecordInv, RightChange, Graph
<1> QED BY <1>1, <1>2, <1>3, <1>6 DEF PassRecordInv

(* A change within a phase. *)
LEMMA ApplyKeeps ==
    ASSUME PassRecordInv, PassInv', pass.begun, NEW c, NEW map, NEW todo,
           Apply(c, map, todo), Once(c),
           \A P : Leads(pass.map, P, cfg) => Leads(map, P, c),
           In("empty") => OwnRecord(map),
           In("merge") => /\ todo \in Seq(Nat) /\ NoTwice(todo) /\ Ahead(c, todo)
                          /\ MergeRecord(map, c, Later(todo)),
           In("critical") => SplitRecord(map)
    PROVE  PassRecordInv'
<1>1. /\ cfg' = c /\ origin' = origin /\ rewrite' = rewrite
      /\ pass' = [pass EXCEPT !.map = map, !.todo = todo, !.changed = TRUE]
      /\ PassShape
  BY DEF Apply, PassRecordInv, PassInv
<1>2. /\ pass'.begun = pass.begun /\ pass'.map = map /\ pass'.todo = todo
      /\ pass'.phases = pass.phases
  BY <1>1 DEF PassShape
<1>3. PhaseRecord'
  BY <1>1, <1>2 DEF PhaseRecord, In, Phase
<1>4. \E P : Renames(rewrite', origin', P) /\ Leads(pass'.map, P, cfg')
  BY <1>1, <1>2 DEF PassRecordInv
<1> QED BY <1>1, <1>2, <1>3, <1>4 DEF PassRecordInv

(* Passing over an element of the list. *)
LEMMA SkipKeepsRecord ==
    ASSUME PassRecordInv, PassInv', pass.begun, pass.todo # <<>>, ~In("critical"), Skip
    PROVE  PassRecordInv'
<1>1. /\ cfg' = cfg /\ origin' = origin /\ rewrite' = rewrite
      /\ pass' = [pass EXCEPT !.todo = Tail(@)] /\ PassShape
  BY DEF Skip, PassRecordInv, PassInv
<1>2. /\ pass'.begun = pass.begun /\ pass'.map = pass.map /\ pass'.todo = Tail(pass.todo)
      /\ pass'.phases = pass.phases
  BY <1>1 DEF PassShape
<1>3. ASSUME In("merge")
      PROVE  /\ Tail(pass.todo) \in Seq(Nat) /\ NoTwice(Tail(pass.todo))
             /\ Ahead(cfg, Tail(pass.todo))
             /\ MergeRecord(pass.map, cfg, Later(Tail(pass.todo)))
  <2>1. /\ pass.todo \in Seq(Nat) /\ NoTwice(pass.todo) /\ Ahead(cfg, pass.todo)
        /\ MergeRecord(pass.map, cfg, Later(pass.todo))
    BY <1>3 DEF PassRecordInv, PhaseRecord
  <2>2. /\ Tail(pass.todo) \in Seq(Nat) /\ NoTwice(Tail(pass.todo))
        /\ Ahead(cfg, Tail(pass.todo)) /\ Later(Tail(pass.todo)) \subseteq Later(pass.todo)
    BY <2>1, AheadTail
  <2> QED BY <2>1, <2>2 DEF MergeRecord
<1>4. PhaseRecord'
  BY <1>1, <1>2, <1>3 DEF PhaseRecord, In, Phase, PassRecordInv
<1> QED BY <1>1, <1>2, <1>4 DEF PassRecordInv

(* remove_empty_blocks. *)
LEMMA EmptyKeeps ==
    ASSUME PassRecordInv, PassInv', remove_empty_blocks
    PROVE  PassRecordInv'
<1> DEFINE b == Head(pass.todo)
<1>1. pass.begun /\ pass.todo # <<>> /\ In("empty") /\ ~In("critical") /\ ~In("merge")
  BY DEF remove_empty_blocks, Working, In
<1>2. CASE Skip
  BY <1>1, <1>2, SkipKeepsRecord
<1>3. ASSUME NEW e \in cfg.live_edges, Bypassable(cfg, b, e),
             Apply(bypass(cfg, b, e), bypass_rewrite(pass.map, cfg, b, e), Tail(pass.todo))
      PROVE  PassRecordInv'
  <2> DEFINE d == bypass(cfg, b, e)
             q == bypass_rewrite(pass.map, cfg, b, e)
  <2>1. Graph(cfg) /\ OwnRecord(pass.map)
    BY <1>1, WellFormedGraph DEF PassRecordInv, PassInv, PhaseRecord
  <2>2. ASSUME NEW P, Leads(pass.map, P, cfg)
        PROVE  Once(d) /\ Leads(q, P, d) /\ OwnRecord(q)
    <3> HIDE DEF b
    <3> QED BY <1>3, <2>1, <2>2, BypassExtends
  <2>3. \E P : Leads(pass.map, P, cfg)
    BY <1>1 DEF PassRecordInv
  <2> HIDE DEF d, q
  <2>4. /\ Once(d) /\ OwnRecord(q)
        /\ \A P : Leads(pass.map, P, cfg) => Leads(q, P, d)
    BY <2>2, <2>3
  <2>5. Apply(d, q, Tail(pass.todo))
    BY <1>3 DEF d, q
  <2> QED BY <1>1, <2>4, <2>5, ApplyKeeps
<1> QED BY <1>2, <1>3 DEF remove_empty_blocks

(* merge_blocks: the block taken in is still ahead in the list. *)
LEMMA MergeKeeps ==
    ASSUME PassRecordInv, PassInv', merge_blocks
    PROVE  PassRecordInv'
<1> DEFINE b == Head(pass.todo)
<1>1. pass.begun /\ pass.todo # <<>> /\ In("merge") /\ ~In("critical") /\ ~In("empty")
  BY DEF merge_blocks, Working, In
<1>2. CASE Skip
  BY <1>1, <1>2, SkipKeepsRecord
<1>3. ASSUME b \in cfg.live_blocks, NEW e \in cfg.live_edges,
             cfg.edges[e].source = b, CanContract(cfg, b, cfg.edges[e].target, e),
             Apply(contract_edge(cfg, b, cfg.edges[e].target, e),
                   contract_edge_rewrite(pass.map, cfg, b, cfg.edges[e].target, e),
                   pass.todo)
      PROVE  PassRecordInv'
  <2> DEFINE t == cfg.edges[e].target
             B == Later(pass.todo)
             d == contract_edge(cfg, b, t, e)
             q == contract_edge_rewrite(pass.map, cfg, b, t, e)
  <2>1. Graph(cfg) /\ Joins(cfg) /\ t \in cfg.live_blocks
    BY WellFormedGraph DEF PassRecordInv, PassInv, Joins
  <2>2. /\ b # t /\ t # cfg.entry
        /\ outgoing(cfg, b) = {e} /\ incoming(cfg, t) = {e}
    BY <1>3 DEF CanContract
  <2>3. /\ pass.todo \in Seq(Nat) /\ NoTwice(pass.todo) /\ Ahead(cfg, pass.todo)
        /\ MergeRecord(pass.map, cfg, B)
    BY <1>1 DEF PassRecordInv, PhaseRecord
  <2> HIDE DEF t
  <2>4. Ahead(d, pass.todo) /\ t \in B /\ b \notin B
    BY <1>1, <1>3, <2>1, <2>2, <2>3, AheadContracted
  <2> HIDE DEF b, B
  <2>5. ASSUME NEW P, Leads(pass.map, P, cfg)
        PROVE  Once(d) /\ Leads(q, P, d) /\ MergeRecord(q, d, B)
    BY <1>3, <2>1, <2>2, <2>3, <2>4, <2>5, ContractExtends
  <2>6. \E P : Leads(pass.map, P, cfg)
    BY <1>1 DEF PassRecordInv
  <2> HIDE DEF d, q
  <2>7. /\ Once(d) /\ MergeRecord(q, d, B)
        /\ \A P : Leads(pass.map, P, cfg) => Leads(q, P, d)
    BY <2>5, <2>6
  <2>8. Apply(d, q, pass.todo)
    BY <1>3 DEF d, q, t
  <2> QED BY <1>1, <2>3, <2>4, <2>7, <2>8, ApplyKeeps DEF B
<1> QED BY <1>2, <1>3 DEF merge_blocks

(* split_critical_edges: the list holds live edges. *)
LEMMA CriticalKeeps ==
    ASSUME PassRecordInv, PassInv', split_critical_edges
    PROVE  PassRecordInv'
<1> DEFINE e == Head(pass.todo)
           d == split_edge(cfg, e)
           q == split_edge_rewrite(pass.map, cfg, e)
<1>1. pass.begun /\ pass.todo # <<>> /\ In("critical") /\ ~In("merge") /\ ~In("empty")
  BY DEF split_critical_edges, Working, In
<1>2. e \in cfg.live_edges
  <2>1. pass.todo \in Seq(cfg.live_edges)
    BY <1>1 DEF PassRecordInv, PassInv, ListLive
  <2> QED BY <1>1, <2>1, Taken
<1>3. WellFormed(cfg) /\ Once(cfg) /\ SplitRecord(pass.map)
  BY <1>1 DEF PassRecordInv, PassInv, PhaseRecord
<1>4. Apply(d, q, Tail(pass.todo))
  BY DEF split_critical_edges
<1> HIDE DEF e
<1>5. ASSUME NEW P, Leads(pass.map, P, cfg)
      PROVE  Once(d) /\ Leads(q, P, d) /\ SplitRecord(q)
  BY <1>2, <1>3, <1>5, SplitExtends
<1>6. \E P : Leads(pass.map, P, cfg)
  BY <1>1 DEF PassRecordInv
<1> HIDE DEF d, q
<1>7. /\ Once(d) /\ SplitRecord(q)
      /\ \A P : Leads(pass.map, P, cfg) => Leads(q, P, d)
  BY <1>5, <1>6
<1> QED BY <1>1, <1>4, <1>7, ApplyKeeps

(* A call starts with nothing recorded. *)
LEMMA PassRecordInit ==
    ASSUME PassInit
    PROVE  PassRecordInv
<1>1. PICK name \in Passes : pass = Started(name)
  BY DEF PassInit
<1>2. PassShape /\ pass.begun = FALSE /\ pass.map = new
  BY <1>1, StartedShape DEF Started
<1>3. /\ WellFormed(cfg) /\ origin = cfg /\ rewrite = new /\ Once(cfg)
  BY PassAssumption DEF PassInit
<1>4. PassInv
  BY <1>2, <1>3 DEF PassInv, ListLive
<1>5. Graph(cfg)
  BY <1>3, WellFormedGraph
<1>6. Renames(new, cfg, cfg) /\ cfg.live_blocks \subseteq Slots(cfg)
  BY <1>5, LeadsNowhere DEF Graph
<1> QED BY <1>2, <1>3, <1>4, <1>6 DEF PassRecordInv

(* Every step of every pass keeps the invariant of the records. *)
LEMMA PassRecordPreserved ==
    ASSUME PassRecordInv, [PassNext]_passVars
    PROVE  PassRecordInv'
<1>1. PassInv'
  BY PassInvPreserved DEF PassRecordInv
<1>2. CASE UNCHANGED passVars
  <2>1. cfg' = cfg /\ origin' = origin /\ rewrite' = rewrite /\ pass' = pass
    BY <1>2 DEF passVars
  <2> QED BY <1>1, <2>1 DEF PassRecordInv, PhaseRecord, In, Phase
<1> QED BY <1>1, <1>2, BeginKeeps, EndPhaseKeeps, NextRoundKeeps, UnreachableKeeps,
           EmptyKeeps, MergeKeeps, CriticalKeeps DEF PassNext

(* The record that remove_unreachable, remove_empty_blocks, merge_blocks,  *)
(* split_critical_edges or simplify returns leads every block and edge of  *)
(* the input to what became of it, at every step and for every input.      *)
THEOREM PassRecordsStayTruthful == PassSpec => []PassRecordTruthful
<1>1. PassInit => PassRecordInv
  BY PassRecordInit
<1>2. PassRecordInv /\ [PassNext]_passVars => PassRecordInv'
  BY PassRecordPreserved
<1>3. PassRecordInv => PassRecordTruthful
  BY PassRecordRight, RenamesAccount DEF PassRecordTruthful
<1> QED BY <1>1, <1>2, <1>3, PTL DEF PassSpec
-----------------------------------------------------------------------------
(* The exception metadata.  Lists of anything. *)
IsList(s) == \E S : s \in Seq(S)

(* A list's positions count from 1. *)
LEMMA ListPositions ==
    ASSUME NEW s, IsList(s)
    PROVE  Len(s) \in Nat /\ DOMAIN s = 1..Len(s)
BY DEF IsList

(* Appending to a list. *)
LEMMA ListAppended ==
    ASSUME NEW s, IsList(s), NEW x
    PROVE  LET t == Append(s, x)
           IN  /\ IsList(t) /\ DOMAIN t = DOMAIN s \cup {Len(s) + 1}
               /\ Len(s) + 1 \notin DOMAIN s
               /\ t[Len(s) + 1] = x /\ \A i \in DOMAIN s : t[i] = s[i]
<1>1. PICK S : s \in Seq(S)
  BY DEF IsList
<1> DEFINE T == S \cup {x}
           t == Append(s, x)
<1>2. s \in Seq(T) /\ x \in T
  BY <1>1
<1> HIDE DEF T
<1>3. /\ t \in Seq(T) /\ Len(t) = Len(s) + 1
      /\ DOMAIN t = DOMAIN s \cup {Len(t)} /\ Len(t) \notin DOMAIN s /\ t[Len(t)] = x
      /\ \A i \in DOMAIN s : t[i] = s[i]
  BY <1>2, AppendedFacts
<1> HIDE DEF t
<1> QED BY <1>3 DEF IsList, t

(* A function over the positions of a list is one. *)
LEMMA ListMapped ==
    ASSUME NEW s, IsList(s), NEW f, f = [i \in DOMAIN s |-> f[i]]
    PROVE  IsList(f) /\ DOMAIN f = DOMAIN s
<1> DEFINE T == {f[i] : i \in DOMAIN s}
<1>1. f \in [DOMAIN s -> T]
  OBVIOUS
<1>2. PICK S : s \in Seq(S)
  BY DEF IsList
<1> HIDE DEF T
<1>3. f \in Seq(T) /\ DOMAIN f = DOMAIN s
  BY <1>1, <1>2, MappedSequence
<1> QED BY <1>3 DEF IsList

(* retain keeps entries of the list and nothing else. *)
LEMMA ListRetained ==
    ASSUME NEW s, IsList(s), NEW I \in SUBSET DOMAIN s
    PROVE  LET t == retain(s, I)
           IN  IsList(t) /\ \A k \in DOMAIN t : \E i \in I : t[k] = s[i]
<1> DEFINE t == retain(s, I)
           N == Cardinality(I)
           T == {t[k] : k \in 1..N}
<1>1. Len(s) \in Nat /\ I \in SUBSET (1..Len(s))
  BY ListPositions
<1>2. N \in Nat /\ \A k \in 1..N : Slot(I, k) \in I
  BY <1>1, RankCounts, SlotOfRank
<1>3. DOMAIN t = 1..N /\ t = [k \in 1..N |-> t[k]]
      /\ \A k \in 1..N : t[k] = s[Slot(I, k)]
  BY DEF retain
<1> HIDE DEF t, N
<1>4. t \in [1..N -> T]
  BY <1>3
<1> HIDE DEF T
<1>5. t \in Seq(T)
  BY <1>2, <1>4
<1> QED BY <1>2, <1>3, <1>5 DEF IsList, t

(* What the metadata names is among the block slots B, region numbers are  *)
(* positions, parents are regions, and a cleanup's handler is there.       *)
HandlerGood(h, B) ==
    /\ h \in [entry : {h.entry}, body : {h.body}, filter : {h.filter}]
    /\ h.entry \in B /\ h.filter \in B \cup {0}
    /\ IsList(h.body) /\ \A j \in DOMAIN h.body : h.body[j] \subseteq B

RegionGood(region, i, parents, B) ==
    /\ region \in [id : {i}, protected_blocks : {region.protected_blocks},
                   handlers : {region.handlers}, parent : {region.parent}]
    /\ region.parent \in parents \cup {0} /\ region.protected_blocks \subseteq B
    /\ \A h \in DOMAIN region.handlers : HandlerGood(region.handlers[h], B)

CleanupGood(k, refs, B) ==
    /\ k \in [handler : {k.handler}, resume_from : {k.resume_from},
              continuations : {k.continuations}]
    /\ k.handler \in refs /\ k.resume_from \in B \cup {0}
    /\ \A t \in k.continuations : /\ t \in [reason : {t.reason}, resume : {t.resume}]
                                  /\ t.resume \in B

MetadataGood(c) ==
    /\ IsList(c.regions) /\ IsList(c.cleanups)
    /\ \A i \in DOMAIN c.regions : RegionGood(c.regions[i], i, DOMAIN c.regions, Slots(c))
    /\ \A i \in DOMAIN c.cleanups : CleanupGood(c.cleanups[i], HandlerRefs(c), Slots(c))

(* A graph as clients make them: the entry is there as well. *)
AnchoredGraph(c) ==
    Graph(c) /\ Joins(c) /\ c.entry \in c.live_blocks /\ MetadataGood(c)

(* Slots are only added. *)
LEMMA MetadataKept ==
    ASSUME NEW c, MetadataGood(c), NEW d, d.regions = c.regions, d.cleanups = c.cleanups,
           Slots(c) \subseteq Slots(d)
    PROVE  MetadataGood(d)
<1>1. HandlerRefs(d) = HandlerRefs(c)
  BY DEF HandlerRefs
<1>2. ASSUME NEW i \in DOMAIN c.regions
      PROVE  RegionGood(c.regions[i], i, DOMAIN c.regions, Slots(d))
  <2>1. RegionGood(c.regions[i], i, DOMAIN c.regions, Slots(c))
    BY DEF MetadataGood
  <2> QED BY <2>1 DEF RegionGood, HandlerGood
<1>3. ASSUME NEW i \in DOMAIN c.cleanups
      PROVE  CleanupGood(c.cleanups[i], HandlerRefs(c), Slots(d))
  <2>1. CleanupGood(c.cleanups[i], HandlerRefs(c), Slots(c))
    BY DEF MetadataGood
  <2> QED BY <2>1 DEF CleanupGood
<1> QED BY <1>1, <1>2, <1>3 DEF MetadataGood

(* Only what is there has a number. *)
LEMMA NumbersOfLive ==
    ASSUME NEW c, Graph(c)
    PROVE  LET nodes == BlockNumbers(c)
           IN  \A b \in Slots(c) : /\ nodes[b] \in 0..Cardinality(c.live_blocks)
                                   /\ nodes[b] # 0 <=> b \in c.live_blocks
<1>1. /\ Len(c.instructions) \in Nat /\ Slots(c) = 1..Len(c.instructions)
      /\ c.live_blocks \in SUBSET (1..Len(c.instructions))
  BY SlotsOf DEF Graph
<1>2. /\ Cardinality(c.live_blocks) \in Nat
      /\ \A s \in c.live_blocks : Rank(c.live_blocks, s) \in 1..Cardinality(c.live_blocks)
  BY <1>1, RankCounts
<1> QED BY <1>1, <1>2 DEF BlockNumbers, renumbering

(* A handler and a cleanup with their blocks renumbered. *)
LEMMA HandlerRenumbered ==
    ASSUME NEW h, NEW B, HandlerGood(h, B), NEW nodes
    PROVE  LET g == renumber_handler(h, nodes)
           IN  /\ g \in [entry : {g.entry}, body : {g.body}, filter : {g.filter}]
               /\ g.entry = nodes[h.entry]
               /\ g.filter = IF h.filter = 0 THEN 0 ELSE nodes[h.filter]
               /\ IsList(g.body) /\ DOMAIN g.body = DOMAIN h.body
               /\ \A j \in DOMAIN h.body : g.body[j] = Renumbered(h.body[j], nodes)
<1> DEFINE body == [j \in DOMAIN h.body |-> Renumbered(h.body[j], nodes)]
           filter == IF h.filter = 0 THEN 0 ELSE nodes[h.filter]
           g == renumber_handler(h, nodes)
<1>1. g = [h EXCEPT !.entry = nodes[@], !.body = body, !.filter = filter]
  BY DEF HandlerGood, renumber_handler, retain_surviving
<1>2. /\ DOMAIN body = DOMAIN h.body
      /\ \A j \in DOMAIN h.body : body[j] = Renumbered(h.body[j], nodes)
      /\ body = [j \in DOMAIN h.body |-> body[j]]
  OBVIOUS
<1> HIDE DEF g, body
<1>3. IsList(body)
  BY <1>2, ListMapped DEF HandlerGood
<1>4. /\ g \in [entry : {g.entry}, body : {g.body}, filter : {g.filter}]
      /\ g.entry = nodes[h.entry] /\ g.filter = filter /\ g.body = body
  BY <1>1 DEF HandlerGood
<1> QED BY <1>2, <1>3, <1>4 DEF g

(* A region keeps its number and its parent. *)
LEMMA RegionRenumbered ==
    ASSUME NEW region, NEW i, NEW P, NEW B, RegionGood(region, i, P, B), NEW nodes
    PROVE  LET n == renumber_region(region, nodes)
           IN  /\ n \in [id : {i}, protected_blocks : {n.protected_blocks},
                         handlers : {n.handlers}, parent : {region.parent}]
               /\ n.parent = region.parent
               /\ n.protected_blocks = Renumbered(region.protected_blocks, nodes)
               /\ DOMAIN n.handlers = DOMAIN region.handlers
               /\ \A h \in DOMAIN region.handlers :
                     n.handlers[h] = renumber_handler(region.handlers[h], nodes)
<1> DEFINE p == retain_surviving(region.protected_blocks, nodes)
           H == [h \in DOMAIN region.handlers |-> renumber_handler(region.handlers[h], nodes)]
           n == renumber_region(region, nodes)
<1>1. n = [region EXCEPT !.protected_blocks = p, !.handlers = H]
  BY DEF renumber_region, RegionGood
<1>2. /\ DOMAIN H = DOMAIN region.handlers
      /\ \A h \in DOMAIN region.handlers :
            H[h] = renumber_handler(region.handlers[h], nodes)
  OBVIOUS
<1> HIDE DEF n, p, H
<1>3. /\ n \in [id : {i}, protected_blocks : {p}, handlers : {H}, parent : {region.parent}]
      /\ n.handlers = H /\ n.parent = region.parent /\ n.protected_blocks = p
  BY <1>1 DEF RegionGood
<1> QED BY <1>2, <1>3 DEF n, p, retain_surviving

(* A cleanup keeps its handler. *)
LEMMA CleanupRenumbered ==
    ASSUME NEW k, NEW R, NEW B, CleanupGood(k, R, B), NEW nodes
    PROVE  LET n == renumber_cleanup(k, nodes)
           IN  /\ n \in [handler : {k.handler}, resume_from : {n.resume_from},
                         continuations : {n.continuations}]
               /\ n.handler = k.handler
               /\ n.resume_from = IF k.resume_from = 0 THEN 0 ELSE nodes[k.resume_from]
               /\ n.continuations = {[reason |-> t.reason, resume |-> nodes[t.resume]] :
                                        t \in k.continuations}
<1> DEFINE Now(t) == [t EXCEPT !.resume = nodes[@]]
           Then(t) == [reason |-> t.reason, resume |-> nodes[t.resume]]
           C == {Now(t) : t \in k.continuations}
           D == {Then(t) : t \in k.continuations}
           f == IF k.resume_from = 0 THEN 0 ELSE nodes[k.resume_from]
           n == renumber_cleanup(k, nodes)
<1>1. \A t \in k.continuations : Now(t) = Then(t)
  BY DEF CleanupGood
<1>2. C = D
  <2> HIDE DEF Now, Then
  <2> QED BY <1>1
<1>3. n = [k EXCEPT !.resume_from = f, !.continuations = C]
  BY DEF renumber_cleanup, CleanupGood
<1> HIDE DEF C, D, f, n
<1>4. /\ n \in [handler : {k.handler}, resume_from : {f}, continuations : {D}]
      /\ n.handler = k.handler /\ n.resume_from = f /\ n.continuations = D
  BY <1>2, <1>3 DEF CleanupGood
<1> QED BY <1>4 DEF D, f, n

(* The metadata that compact leaves. *)
LEMMA CompactMetadata ==
    ASSUME NEW c
    PROVE  LET d == compact(c)
               nodes == BlockNumbers(c)
           IN  /\ d.entry = nodes[c.entry]
               /\ d.regions = [r \in DOMAIN c.regions |-> renumber_region(c.regions[r], nodes)]
               /\ d.cleanups = [i \in DOMAIN c.cleanups |->
                                   renumber_cleanup(c.cleanups[i], nodes)]
BY DEF compact

(* Who names an anchor. *)
LEMMA AnchorNamed ==
    ASSUME NEW c, NEW b
    PROVE  b \in anchors(c) <=>
             /\ b # 0
             /\ \/ \E r \in DOMAIN c.regions : \E h \in DOMAIN c.regions[r].handlers :
                      b \in {c.regions[r].handlers[h].entry, c.regions[r].handlers[h].filter}
                \/ \E i \in DOMAIN c.cleanups :
                      \/ b = c.cleanups[i].resume_from
                      \/ \E t \in c.cleanups[i].continuations : b = t.resume
<1>1. \A h : h \in Handlers(c) <=> \E r \in DOMAIN c.regions :
                                      \E i \in DOMAIN c.regions[r].handlers :
                                         h = c.regions[r].handlers[i]
  BY DEF Handlers
<1>2. \A k : k \in Cleanups(c) <=> \E i \in DOMAIN c.cleanups : k = c.cleanups[i]
  BY DEF Cleanups
<1>3. b \in anchors(c) <=>
        /\ b # 0
        /\ \/ \E h \in Handlers(c) : b = h.entry
           \/ \E h \in Handlers(c) : b = h.filter
           \/ \E k \in Cleanups(c) : b = k.resume_from
           \/ \E k \in Cleanups(c) : \E t \in k.continuations : b = t.resume
  BY DEF anchors
<1> QED BY <1>1, <1>2, <1>3

(* Whatever the metadata names, compact finds a number for all of it or    *)
(* panics, and the loader finds nothing else to refuse.                    *)
LEMMA GoodDecides ==
    ASSUME NEW c, AnchoredGraph(c)
    PROVE  /\ dangling_anchors(c) = {} => DocumentAccepted(c)
           /\ CompactPanics(c) <=> dangling_anchors(c) # {}
<1> DEFINE nodes == BlockNumbers(c)
           d == compact(c)
<1>0. /\ Graph(c) /\ c.entry \in c.live_blocks /\ c.live_blocks \subseteq Slots(c)
      /\ 0 \notin Slots(c)
      /\ \A i \in DOMAIN c.regions : RegionGood(c.regions[i], i, DOMAIN c.regions, Slots(c))
      /\ \A i \in DOMAIN c.cleanups : CleanupGood(c.cleanups[i], HandlerRefs(c), Slots(c))
  BY SMTT(30), SlotsOf DEF AnchoredGraph, MetadataGood, Graph
<1>1. \A b \in Slots(c) : nodes[b] = 0 <=> b \notin c.live_blocks
  BY SMTT(30), <1>0, NumbersOfLive
<1>2. /\ d.entry = nodes[c.entry]
      /\ d.regions = [r \in DOMAIN c.regions |-> renumber_region(c.regions[r], nodes)]
      /\ d.cleanups = [i \in DOMAIN c.cleanups |-> renumber_cleanup(c.cleanups[i], nodes)]
  BY CompactMetadata
<1> HIDE DEF d, nodes
<1>3. ASSUME NEW r \in DOMAIN c.regions, NEW h \in DOMAIN c.regions[r].handlers
      PROVE  LET old == c.regions[r].handlers[h]
                 now == d.regions[r].handlers[h]
             IN  /\ old.entry \in Slots(c) /\ old.filter \in Slots(c) \cup {0}
                 /\ now.entry = nodes[old.entry]
                 /\ now.filter = IF old.filter = 0 THEN 0 ELSE nodes[old.filter]
  <2> DEFINE old == c.regions[r].handlers[h]
             now == d.regions[r].handlers[h]
  <2>1. RegionGood(c.regions[r], r, DOMAIN c.regions, Slots(c))
    BY <1>0
  <2>2. HandlerGood(old, Slots(c))
    BY <2>1 DEF RegionGood
  <2>3. d.regions[r] = renumber_region(c.regions[r], nodes)
    BY <1>2
  <2>4. now = renumber_handler(old, nodes)
    BY <2>1, <2>3, RegionRenumbered
  <2> HIDE DEF old, now
  <2>5. now.entry = nodes[old.entry] /\ now.filter = IF old.filter = 0 THEN 0 ELSE nodes[old.filter]
    BY <2>2, <2>4, HandlerRenumbered
  <2> QED BY <2>2, <2>5 DEF HandlerGood, old, now
<1>4. ASSUME NEW i \in DOMAIN c.cleanups
      PROVE  LET old == c.cleanups[i]
                 now == d.cleanups[i]
             IN  /\ old.resume_from \in Slots(c) \cup {0}
                 /\ now.resume_from = IF old.resume_from = 0 THEN 0 ELSE nodes[old.resume_from]
                 /\ \A t \in old.continuations : t.resume \in Slots(c)
                 /\ (\E t \in now.continuations : t.resume = 0)
                      <=> \E t \in old.continuations : nodes[t.resume] = 0
  <2> DEFINE old == c.cleanups[i]
             now == d.cleanups[i]
             C == {[reason |-> t.reason, resume |-> nodes[t.resume]] : t \in old.continuations}
  <2>1. CleanupGood(old, HandlerRefs(c), Slots(c))
    BY <1>0
  <2>2. now = renumber_cleanup(old, nodes)
    BY <1>2
  <2>3. (\E t \in C : t.resume = 0) <=> \E t \in old.continuations : nodes[t.resume] = 0
    <3> DEFINE Then(t) == [reason |-> t.reason, resume |-> nodes[t.resume]]
    <3>1. \A t : Then(t).resume = nodes[t.resume]
      OBVIOUS
    <3>2. C = {Then(t) : t \in old.continuations}
      OBVIOUS
    <3> HIDE DEF Then, C
    <3> QED BY <3>1, <3>2
  <2> HIDE DEF old, now
  <2>4. /\ now.resume_from = IF old.resume_from = 0 THEN 0 ELSE nodes[old.resume_from]
        /\ now.continuations = C
    BY <2>1, <2>2, CleanupRenumbered
  <2> HIDE DEF C
  <2> QED BY <2>1, <2>3, <2>4 DEF CleanupGood, old, now
<1>5. CompactPanics(c) <=>
        \/ \E r \in DOMAIN c.regions : \E h \in DOMAIN c.regions[r].handlers :
              LET old == c.regions[r].handlers[h]
              IN  \/ nodes[old.entry] = 0
                  \/ old.filter # 0 /\ nodes[old.filter] = 0
        \/ \E i \in DOMAIN c.cleanups :
              \/ c.cleanups[i].resume_from # 0 /\ nodes[c.cleanups[i].resume_from] = 0
              \/ \E t \in c.cleanups[i].continuations : nodes[t.resume] = 0
  <2>1. d.entry # 0
    BY <1>0, <1>1, <1>2
  <2>2. CompactPanics(c) <=>
          \/ \E r \in DOMAIN c.regions : \E h \in DOMAIN c.regions[r].handlers :
                LET old == c.regions[r].handlers[h]
                    now == d.regions[r].handlers[h]
                IN  now.entry = 0 \/ (old.filter # 0 /\ now.filter = 0)
          \/ \E i \in DOMAIN c.cleanups :
                \/ c.cleanups[i].resume_from # 0 /\ d.cleanups[i].resume_from = 0
                \/ \E t \in d.cleanups[i].continuations : t.resume = 0
    BY <2>1 DEF CompactPanics, d
  <2> QED BY <1>3, <1>4, <2>2
<1>6. dangling_anchors(c) # {} <=>
        \/ \E r \in DOMAIN c.regions : \E h \in DOMAIN c.regions[r].handlers :
              LET old == c.regions[r].handlers[h]
              IN  \/ old.entry \notin c.live_blocks
                  \/ old.filter # 0 /\ old.filter \notin c.live_blocks
        \/ \E i \in DOMAIN c.cleanups :
              \/ c.cleanups[i].resume_from # 0 /\ c.cleanups[i].resume_from \notin c.live_blocks
              \/ \E t \in c.cleanups[i].continuations : t.resume \notin c.live_blocks
  <2>1. dangling_anchors(c) # {} <=> \E b \in anchors(c) : b \notin c.live_blocks
    BY DEF dangling_anchors
  <2>2. \A r \in DOMAIN c.regions : \A h \in DOMAIN c.regions[r].handlers :
           c.regions[r].handlers[h].entry # 0
    BY <1>0, <1>3
  <2>3. \A i \in DOMAIN c.cleanups : \A t \in c.cleanups[i].continuations : t.resume # 0
    BY <1>0, <1>4
  <2> QED BY <2>1, <2>2, <2>3, AnchorNamed
<1>7. CompactPanics(c) <=> dangling_anchors(c) # {}
  <2>1. ASSUME NEW r \in DOMAIN c.regions, NEW h \in DOMAIN c.regions[r].handlers
        PROVE  LET old == c.regions[r].handlers[h]
               IN  /\ nodes[old.entry] = 0 <=> old.entry \notin c.live_blocks
                   /\ old.filter # 0 => (nodes[old.filter] = 0 <=> old.filter \notin c.live_blocks)
    BY <1>1, <1>3
  <2>2. ASSUME NEW i \in DOMAIN c.cleanups
        PROVE  LET k == c.cleanups[i]
               IN  /\ k.resume_from # 0 =>
                        (nodes[k.resume_from] = 0 <=> k.resume_from \notin c.live_blocks)
                   /\ \A t \in k.continuations :
                         nodes[t.resume] = 0 <=> t.resume \notin c.live_blocks
    BY <1>1, <1>4
  <2> QED BY <1>5, <1>6, <2>1, <2>2
<1>8. dangling_anchors(c) = {} => DocumentAccepted(c)
  <2>1. ASSUME NEW i \in DOMAIN c.regions
        PROVE  c.regions[i].id = i /\ c.regions[i].parent \in DOMAIN c.regions \cup {0}
    <3>1. RegionGood(c.regions[i], i, DOMAIN c.regions, Slots(c))
      BY <1>0
    <3> QED BY <3>1 DEF RegionGood
  <2>2. ASSUME NEW k \in Cleanups(c)
        PROVE  k.handler \in HandlerRefs(c)
    <3>1. PICK i \in DOMAIN c.cleanups : k = c.cleanups[i]
      BY DEF Cleanups
    <3> QED BY <1>0, <3>1 DEF CleanupGood
  <2> QED BY <1>0, <2>1, <2>2 DEF DocumentAccepted, contains_block
<1> QED BY <1>7, <1>8

(* A mutation that leaves entry and metadata alone, and keeps the entry. *)
LEMMA FrameKept ==
    ASSUME NEW c, AnchoredGraph(c), NEW d, Graph(d), Joins(d), SameFrame(c, d),
           Slots(c) \subseteq Slots(d), c.entry \in d.live_blocks
    PROVE  AnchoredGraph(d)
<1>1. MetadataGood(d)
  BY MetadataKept DEF AnchoredGraph, SameFrame
<1> QED BY <1>1 DEF AnchoredGraph, SameFrame

(* The mutations of one field or two. *)
LEMMA SimpleFrames ==
    ASSUME NEW c, Shaped(c)
    PROVE  /\ SameFrame(c, new_block(c))
           /\ \A b, tag : SameFrame(c, [c EXCEPT !.instructions[b] = Append(@, tag)])
           /\ \A s, t, kind : SameFrame(c, add_edge(c, s, t, kind))
           /\ \A E : SameFrame(c, remove_edges(c, E))
           /\ \A b : SameFrame(c, remove_block(c, b))
           /\ \A old, t : SameFrame(c, redirect_edges_to(c, old, t))
           /\ \A old, s : SameFrame(c, move_outgoing_edges(c, old, s))
           /\ \A e, end, b : SameFrame(c, [c EXCEPT !.edges[e][end] = b])
           /\ \A I : SameFrame(c, [c EXCEPT !.instructions = I])
<1>1. SameFrame(c, new_block(c))
  BY DEF Shaped, SameFrame, new_block
<1>2. \A b, tag : SameFrame(c, [c EXCEPT !.instructions[b] = Append(@, tag)])
  BY DEF Shaped, SameFrame
<1>3. \A s, t, kind : SameFrame(c, add_edge(c, s, t, kind))
  BY DEF Shaped, SameFrame, add_edge
<1>4. \A E : SameFrame(c, remove_edges(c, E))
  BY DEF Shaped, SameFrame, remove_edges
<1>5. \A b : SameFrame(c, remove_block(c, b))
  BY DEF Shaped, SameFrame, remove_block
<1>6. \A old, t : SameFrame(c, redirect_edges_to(c, old, t))
  BY DEF Shaped, SameFrame, redirect_edges_to
<1>7. \A old, s : SameFrame(c, move_outgoing_edges(c, old, s))
  BY DEF Shaped, SameFrame, move_outgoing_edges
<1>8. \A e, end, b : SameFrame(c, [c EXCEPT !.edges[e][end] = b])
  BY DEF Shaped, SameFrame
<1>9. \A I : SameFrame(c, [c EXCEPT !.instructions = I])
  BY DEF Shaped, SameFrame
<1> QED BY <1>1, <1>2, <1>3, <1>4, <1>5, <1>6, <1>7, <1>8, <1>9

(* The same handlers, under the same names. *)
LEMMA SameReferences ==
    ASSUME NEW c, NEW d, DOMAIN d.regions = DOMAIN c.regions,
           \A r \in DOMAIN c.regions : DOMAIN d.regions[r].handlers = DOMAIN c.regions[r].handlers
    PROVE  HandlerRefs(d) = HandlerRefs(c)
BY DEF HandlerRefs

(* A split: the tail takes over some of the head's roles, and lies in the  *)
(* handler bodies that the head lies in.                                   *)
Spread(h, g, head, tail) ==
    /\ g.entry = h.entry /\ g.filter = h.filter /\ DOMAIN g.body = DOMAIN h.body
    /\ \A j \in DOMAIN h.body : g.body[j] = Extended(h.body[j], head, tail)

LEMMA RegionExtended ==
    ASSUME NEW region, NEW i, NEW P, NEW B, RegionGood(region, i, P, B),
           NEW head, NEW tail \in B
    PROVE  LET n == extend_region(region, head, tail)
           IN  /\ RegionGood(n, i, P, B) /\ DOMAIN n.handlers = DOMAIN region.handlers
               /\ n.protected_blocks = Extended(region.protected_blocks, head, tail)
               /\ \A h \in DOMAIN region.handlers :
                     Spread(region.handlers[h], n.handlers[h], head, tail)
<1> DEFINE p == Extended(region.protected_blocks, head, tail)
           H == [h \in DOMAIN region.handlers |-> extend_handler(region.handlers[h], head, tail)]
           n == extend_region(region, head, tail)
<1>1. n = [region EXCEPT !.protected_blocks = p, !.handlers = H]
  BY DEF extend_region, RegionGood
<1>2. ASSUME NEW h \in DOMAIN region.handlers
      PROVE  HandlerGood(H[h], B) /\ Spread(region.handlers[h], H[h], head, tail)
  <2> DEFINE old == region.handlers[h]
             body == [j \in DOMAIN old.body |-> Extended(old.body[j], head, tail)]
             now == [old EXCEPT !.body = body]
  <2>0. /\ DOMAIN body = DOMAIN old.body
        /\ \A j \in DOMAIN old.body : body[j] = Extended(old.body[j], head, tail)
        /\ body = [j \in DOMAIN old.body |-> body[j]]
    OBVIOUS
  <2>1. HandlerGood(old, B)
    BY DEF RegionGood
  <2>2. H[h] = now
    BY <2>1 DEF extend_handler, HandlerGood
  <2> HIDE DEF old, body
  <2>3. /\ now \in [entry : {now.entry}, body : {now.body}, filter : {now.filter}]
        /\ now.entry = old.entry /\ now.filter = old.filter /\ now.body = body
    BY <2>1 DEF HandlerGood
  <2> HIDE DEF now
  <2>4. \A j \in DOMAIN now.body : now.body[j] \subseteq B
    BY <2>0, <2>1, <2>3 DEF HandlerGood, Extended
  <2>5. IsList(now.body)
    BY <2>0, <2>1, <2>3, ListMapped DEF HandlerGood
  <2>6. HandlerGood(now, B)
    BY <2>1, <2>3, <2>4, <2>5 DEF HandlerGood
  <2>7. Spread(old, now, head, tail)
    BY <2>0, <2>3 DEF Spread
  <2> QED BY <2>2, <2>6, <2>7 DEF old
<1>3. DOMAIN H = DOMAIN region.handlers
  OBVIOUS
<1> HIDE DEF n, p, H
<1>4. /\ n \in [id : {i}, protected_blocks : {p}, handlers : {H}, parent : {region.parent}]
      /\ n.protected_blocks = p /\ n.handlers = H /\ n.parent = region.parent
  BY <1>1 DEF RegionGood
<1>5. p \subseteq B
  BY DEF RegionGood, Extended, p
<1>6. RegionGood(n, i, P, B)
  BY <1>2, <1>3, <1>4, <1>5 DEF RegionGood
<1> QED BY <1>2, <1>3, <1>4, <1>6 DEF n, p

(* A cleanup, too. *)
LEMMA CleanupExtended ==
    ASSUME NEW k, NEW R, NEW B, CleanupGood(k, R, B), NEW head, NEW tail \in B
    PROVE  CleanupGood(extend_cleanup(k, head, tail), R, B)
<1> DEFINE f == IF k.resume_from = head THEN tail ELSE k.resume_from
           n == [k EXCEPT !.resume_from = f]
<1>1. f \in B \cup {0}
  BY DEF CleanupGood
<1>2. extend_cleanup(k, head, tail) = n
  BY DEF extend_cleanup, CleanupGood
<1> HIDE DEF f
<1>3. CleanupGood(n, R, B)
  BY <1>1 DEF CleanupGood
<1> QED BY <1>2, <1>3

(* What is good stays good when there is more to name. *)
LEMMA GoodGrows ==
    ASSUME NEW B, NEW D, B \subseteq D, NEW P, NEW Q, P \subseteq Q
    PROVE  /\ \A region, i : RegionGood(region, i, P, B) => RegionGood(region, i, Q, D)
           /\ \A k : CleanupGood(k, P, B) => CleanupGood(k, Q, D)
<1>1. ASSUME NEW region, NEW i, RegionGood(region, i, P, B)
      PROVE  RegionGood(region, i, Q, D)
  <2>1. \A h \in DOMAIN region.handlers : HandlerGood(region.handlers[h], D)
    BY <1>1 DEF RegionGood, HandlerGood
  <2> QED BY <1>1, <2>1 DEF RegionGood
<1>2. ASSUME NEW k, CleanupGood(k, P, B)
      PROVE  CleanupGood(k, Q, D)
  BY <1>2 DEF CleanupGood
<1> QED BY <1>1, <1>2

(* split_block keeps the metadata good. *)
LEMMA SplitMetadata ==
    ASSUME NEW c, MetadataGood(c), NEW d, NEW head, NEW tail \in Slots(d),
           Slots(c) \subseteq Slots(d),
           d.regions = ExtendedRegions(c.regions, head, tail),
           d.cleanups = ExtendedCleanups(c.cleanups, head, tail)
    PROVE  MetadataGood(d)
<1>1. /\ DOMAIN d.regions = DOMAIN c.regions
      /\ d.regions = [r \in DOMAIN c.regions |-> d.regions[r]]
      /\ \A r \in DOMAIN c.regions : d.regions[r] = extend_region(c.regions[r], head, tail)
  BY DEF ExtendedRegions
<1>2. /\ DOMAIN d.cleanups = DOMAIN c.cleanups
      /\ d.cleanups = [i \in DOMAIN c.cleanups |-> d.cleanups[i]]
      /\ \A i \in DOMAIN c.cleanups : d.cleanups[i] = extend_cleanup(c.cleanups[i], head, tail)
  BY DEF ExtendedCleanups
<1>3. IsList(d.regions) /\ IsList(d.cleanups)
  BY <1>1, <1>2, ListMapped DEF MetadataGood
<1>4. ASSUME NEW r \in DOMAIN c.regions
      PROVE  /\ RegionGood(d.regions[r], r, DOMAIN c.regions, Slots(d))
             /\ DOMAIN d.regions[r].handlers = DOMAIN c.regions[r].handlers
  <2>1. RegionGood(c.regions[r], r, DOMAIN c.regions, Slots(d))
    BY GoodGrows DEF MetadataGood
  <2> QED BY <1>1, <2>1, RegionExtended
<1>5. HandlerRefs(d) = HandlerRefs(c)
  BY <1>1, <1>4, SameReferences
<1>6. ASSUME NEW i \in DOMAIN c.cleanups
      PROVE  CleanupGood(d.cleanups[i], HandlerRefs(c), Slots(d))
  <2>1. CleanupGood(c.cleanups[i], HandlerRefs(c), Slots(d))
    BY GoodGrows DEF MetadataGood
  <2> QED BY <1>2, <2>1, CleanupExtended
<1> QED BY <1>1, <1>2, <1>3, <1>4, <1>5, <1>6 DEF MetadataGood

(* split_block and split_block_at_points. *)
LEMMA SplitAnchored ==
    ASSUME NEW c, AnchoredGraph(c), NEW b \in c.live_blocks, NEW at \in Nat,
           at <= Len(c.instructions[b])
    PROVE  AnchoredGraph(split_block_mapped(c, b, at).cfg)
<1> DEFINE m == split_block_mapped(c, b, at)
           d == m.cfg
           tail == Len(c.instructions) + 1
<1>1. /\ Graph(d) /\ Joins(d) /\ Slots(c) \subseteq Slots(d) /\ tail \in Slots(d)
      /\ c.entry \in d.live_blocks /\ d.entry = c.entry
      /\ d.regions = ExtendedRegions(c.regions, b, tail)
      /\ d.cleanups = ExtendedCleanups(c.cleanups, b, tail)
  <2>1. /\ d.live_blocks = c.live_blocks \cup {tail} /\ Joins(d) /\ d.entry = c.entry
        /\ d.regions = ExtendedRegions(c.regions, b, tail)
        /\ d.cleanups = ExtendedCleanups(c.cleanups, b, tail)
    BY SplitFields DEF AnchoredGraph
  <2>2. Graph(d) /\ Follows(c, d)
    BY SplitBlockRight DEF AnchoredGraph, RightChange
  <2> HIDE DEF m
  <2> QED BY <2>1, <2>2 DEF AnchoredGraph, Graph, Follows, Onward
<1> HIDE DEF m
<1>2. MetadataGood(d)
  BY <1>1, SplitMetadata DEF AnchoredGraph
<1> QED BY <1>1, <1>2 DEF AnchoredGraph, m

(* Both splits of split_block_at_points. *)
LEMMA SplitTwiceAnchored ==
    ASSUME NEW c, AnchoredGraph(c), NEW b \in c.live_blocks, NEW p \in Nat, NEW q \in Nat,
           SplitPointsValid(c, b, <<p, q>>)
    PROVE  AnchoredGraph(split_block_at_two_points(c, b, p, q).cfg)
<1> DEFINE first == split_block_mapped(c, b, p)
           tail == Len(first.cfg.instructions)
           second == split_block_mapped(first.cfg, tail, q - p)
<1>1. /\ p <= Len(c.instructions[b]) /\ q - p \in Nat
      /\ tail \in first.cfg.live_blocks
      /\ q - p <= Len(first.cfg.instructions[tail])
  BY SecondPoint DEF AnchoredGraph
<1>2. AnchoredGraph(first.cfg)
  BY <1>1, SplitAnchored
<1> HIDE DEF first, tail
<1>3. AnchoredGraph(second.cfg)
  BY <1>1, <1>2, SplitAnchored
<1>4. split_block_at_two_points(c, b, p, q).cfg = second.cfg
  BY DEF split_block_at_two_points, first, tail, Mapped
<1> QED BY <1>3, <1>4

(* contract_edge keeps the entry. *)
LEMMA ContractAnchored ==
    ASSUME NEW c, AnchoredGraph(c), NEW source \in c.live_blocks,
           NEW target \in c.live_blocks, NEW e \in c.live_edges,
           CanContract(c, source, target, e)
    PROVE  AnchoredGraph(contract_edge(c, source, target, e))
<1> DEFINE d == contract_edge(c, source, target, e)
           r == contract_edge_rewrite(new, c, source, target, e)
<1>1. /\ source # target /\ target # c.entry
      /\ outgoing(c, source) = {e} /\ incoming(c, target) = {e}
  BY DEF CanContract
<1>2. /\ d.live_blocks = c.live_blocks \ {target} /\ Joins(d)
      /\ d.entry = c.entry /\ d.regions = c.regions /\ d.cleanups = c.cleanups
  BY <1>1, ContractFields DEF AnchoredGraph
<1>3. Graph(d) /\ Follows(c, d)
  BY <1>1, ContractRight DEF AnchoredGraph, RightChange
<1> HIDE DEF d
<1>4. SameFrame(c, d) /\ Slots(c) \subseteq Slots(d) /\ c.entry \in d.live_blocks
  BY <1>1, <1>2, <1>3 DEF SameFrame, Follows, Onward, AnchoredGraph
<1> QED BY <1>2, <1>3, <1>4, FrameKept DEF d

(* compact, when nothing dangles. *)
LEMMA CompactAnchored ==
    ASSUME NEW c, AnchoredGraph(c), ~CompactPanics(c)
    PROVE  AnchoredGraph(compact(c))
<1> DEFINE d == compact(c)
           nodes == BlockNumbers(c)
           N == Cardinality(c.live_blocks)
<1>0. /\ Graph(c) /\ Joins(c) /\ c.entry \in c.live_blocks /\ c.live_blocks \subseteq Slots(c)
      /\ IsList(c.regions) /\ IsList(c.cleanups) /\ dangling_anchors(c) = {}
      /\ \A i \in DOMAIN c.regions : RegionGood(c.regions[i], i, DOMAIN c.regions, Slots(c))
      /\ \A i \in DOMAIN c.cleanups : CleanupGood(c.cleanups[i], HandlerRefs(c), Slots(c))
  BY GoodDecides DEF AnchoredGraph, MetadataGood, Graph
<1>1. Graph(d) /\ Joins(d) /\ Slots(d) = 1..N /\ d.live_blocks = 1..N
  BY <1>0, CompactFields
<1>2. /\ d.entry = nodes[c.entry]
      /\ d.regions = [r \in DOMAIN c.regions |-> renumber_region(c.regions[r], nodes)]
      /\ d.cleanups = [i \in DOMAIN c.cleanups |-> renumber_cleanup(c.cleanups[i], nodes)]
  BY CompactMetadata
<1>3. \A b \in c.live_blocks : nodes[b] \in 1..N
  <2>1. \A b \in Slots(c) : nodes[b] \in 0..N /\ (nodes[b] # 0 <=> b \in c.live_blocks)
    BY <1>0, NumbersOfLive
  <2>2. N \in Nat
    <3>1. /\ Len(c.instructions) \in Nat
          /\ c.live_blocks \in SUBSET (1..Len(c.instructions))
      BY <1>0, SlotsOf DEF Graph
    <3> QED BY <3>1, RankCounts
  <2> HIDE DEF nodes, N
  <2> QED BY <1>0, <2>1, <2>2
<1>4. \A S : S \subseteq Slots(c) => Renumbered(S, nodes) \subseteq 1..N
  <2>1. \A b \in Slots(c) : nodes[b] # 0 => b \in c.live_blocks
    BY <1>0, NumbersOfLive
  <2> HIDE DEF nodes, N
  <2> QED BY <1>3, <2>1 DEF Renumbered
<1> HIDE DEF d, nodes, N
<1>5. /\ DOMAIN d.regions = DOMAIN c.regions
      /\ d.regions = [r \in DOMAIN c.regions |-> d.regions[r]]
      /\ \A r \in DOMAIN c.regions : d.regions[r] = renumber_region(c.regions[r], nodes)
      /\ DOMAIN d.cleanups = DOMAIN c.cleanups
      /\ d.cleanups = [i \in DOMAIN c.cleanups |-> d.cleanups[i]]
      /\ \A i \in DOMAIN c.cleanups : d.cleanups[i] = renumber_cleanup(c.cleanups[i], nodes)
  BY <1>2
<1>6. IsList(d.regions) /\ IsList(d.cleanups)
  BY <1>0, <1>5, ListMapped
<1>7. \A b \in anchors(c) : nodes[b] \in 1..N
  BY <1>0, <1>3 DEF dangling_anchors
<1>8. ASSUME NEW r \in DOMAIN c.regions
      PROVE  /\ RegionGood(d.regions[r], r, DOMAIN c.regions, 1..N)
             /\ DOMAIN d.regions[r].handlers = DOMAIN c.regions[r].handlers
  <2> DEFINE old == c.regions[r]
             now == d.regions[r]
  <2>1. RegionGood(old, r, DOMAIN c.regions, Slots(c)) /\ now = renumber_region(old, nodes)
    BY <1>0, <1>5
  <2>2. /\ now \in [id : {r}, protected_blocks : {now.protected_blocks},
                    handlers : {now.handlers}, parent : {old.parent}]
        /\ now.parent = old.parent
        /\ now.protected_blocks = Renumbered(old.protected_blocks, nodes)
        /\ DOMAIN now.handlers = DOMAIN old.handlers
        /\ \A h \in DOMAIN old.handlers :
              now.handlers[h] = renumber_handler(old.handlers[h], nodes)
    <3> HIDE DEF old, now
    <3> QED BY <2>1, RegionRenumbered
  <2>3. ASSUME NEW h \in DOMAIN old.handlers
        PROVE  HandlerGood(now.handlers[h], 1..N)
    <3> DEFINE f == old.handlers[h]
               g == now.handlers[h]
    <3>1. HandlerGood(f, Slots(c)) /\ g = renumber_handler(f, nodes)
      BY <2>1, <2>2 DEF RegionGood
    <3>2. f.entry # 0
      BY <1>0, <3>1, SlotsOf DEF HandlerGood, Graph
    <3>3. f.entry \in anchors(c) /\ (f.filter # 0 => f.filter \in anchors(c))
      BY <3>2, AnchorNamed
    <3> HIDE DEF f, g, old, now
    <3>4. /\ g \in [entry : {g.entry}, body : {g.body}, filter : {g.filter}]
          /\ g.entry = nodes[f.entry]
          /\ g.filter = IF f.filter = 0 THEN 0 ELSE nodes[f.filter]
          /\ IsList(g.body) /\ DOMAIN g.body = DOMAIN f.body
          /\ \A j \in DOMAIN f.body : g.body[j] = Renumbered(f.body[j], nodes)
      BY <3>1, HandlerRenumbered
    <3>5. \A j \in DOMAIN g.body : g.body[j] \subseteq 1..N
      BY <1>4, <3>1, <3>4 DEF HandlerGood
    <3>6. HandlerGood(g, 1..N)
      BY <1>7, <3>3, <3>4, <3>5 DEF HandlerGood
    <3> QED BY <3>6 DEF g
  <2> HIDE DEF old, now
  <2>4. now.protected_blocks \subseteq 1..N
    BY <1>4, <2>1, <2>2 DEF RegionGood
  <2>5. RegionGood(now, r, DOMAIN c.regions, 1..N)
    BY <2>1, <2>2, <2>3, <2>4 DEF RegionGood
  <2> QED BY <2>2, <2>5 DEF old, now
<1>9. HandlerRefs(d) = HandlerRefs(c)
  BY <1>5, <1>8, SameReferences
<1>10. ASSUME NEW i \in DOMAIN c.cleanups
      PROVE  CleanupGood(d.cleanups[i], HandlerRefs(c), 1..N)
  <2> DEFINE old == c.cleanups[i]
             now == d.cleanups[i]
             Then(t) == [reason |-> t.reason, resume |-> nodes[t.resume]]
  <2>1. CleanupGood(old, HandlerRefs(c), Slots(c)) /\ now = renumber_cleanup(old, nodes)
    BY <1>0, <1>5
  <2>2. /\ now \in [handler : {old.handler}, resume_from : {now.resume_from},
                    continuations : {now.continuations}]
        /\ now.handler = old.handler
        /\ now.resume_from = IF old.resume_from = 0 THEN 0 ELSE nodes[old.resume_from]
        /\ now.continuations = {Then(t) : t \in old.continuations}
    <3> HIDE DEF old, now
    <3> QED BY <2>1, CleanupRenumbered
  <2>3. old.resume_from # 0 => old.resume_from \in anchors(c)
    BY AnchorNamed
  <2>4. \A t \in old.continuations : t.resume \in anchors(c)
    <3>1. \A t \in old.continuations : t.resume # 0
      BY <1>0, <2>1, SlotsOf DEF CleanupGood, Graph
    <3> QED BY <3>1, AnchorNamed
  <2>5. \A t : /\ Then(t) \in [reason : {Then(t).reason}, resume : {Then(t).resume}]
               /\ Then(t).resume = nodes[t.resume]
    OBVIOUS
  <2> HIDE DEF old, now, Then
  <2>6. \A u \in now.continuations : /\ u \in [reason : {u.reason}, resume : {u.resume}]
                                     /\ u.resume \in 1..N
    BY <1>7, <2>2, <2>4, <2>5
  <2>7. CleanupGood(now, HandlerRefs(c), 1..N)
    BY <1>7, <2>1, <2>2, <2>3, <2>6 DEF CleanupGood
  <2> QED BY <2>7 DEF now
<1>11. MetadataGood(d)
  BY <1>1, <1>5, <1>6, <1>8, <1>9, <1>10 DEF MetadataGood
<1>12. d.entry \in d.live_blocks
  BY <1>0, <1>1, <1>2, <1>3
<1> QED BY <1>1, <1>11, <1>12 DEF AnchoredGraph, d

(* A region that handles nothing and has no parent. *)
LEMMA BlankGood ==
    ASSUME NEW i, NEW P, NEW B
    PROVE  LET blank == [id |-> i, protected_blocks |-> {}, handlers |-> <<>>, parent |-> 0]
           IN  RegionGood(blank, i, P, B) /\ DOMAIN blank.handlers = {}
<1> DEFINE blank == [id |-> i, protected_blocks |-> {}, handlers |-> <<>>, parent |-> 0]
<1>1. /\ blank.handlers = <<>> /\ blank.parent = 0 /\ blank.protected_blocks = {}
      /\ blank \in [id : {i}, protected_blocks : {blank.protected_blocks},
                    handlers : {blank.handlers}, parent : {blank.parent}]
  OBVIOUS
<1>2. DOMAIN blank.handlers = {}
  BY <1>1
<1> HIDE DEF blank
<1> QED BY <1>1, <1>2 DEF RegionGood, blank

(* The regions and the cleanups once some regions have been emptied. *)
Emptied(c, doomed) ==
    [id \in DOMAIN c.regions |->
       IF id \in doomed
       THEN [id |-> id, protected_blocks |-> {}, handlers |-> <<>>, parent |-> 0]
       ELSE c.regions[id]]

KeptCleanups(c, doomed) ==
    retain(c.cleanups, {i \in DOMAIN c.cleanups :
                           c.cleanups[i].handler.region \notin doomed})

(* Regions were emptied and the cleanups of their handlers went. *)
LEMMA RegionsEmptied ==
    ASSUME NEW c, MetadataGood(c), NEW d, d.instructions = c.instructions,
           NEW doomed,
           d.regions = Emptied(c, doomed), d.cleanups = KeptCleanups(c, doomed)
    PROVE  MetadataGood(d)
<1> DEFINE blank(id) == [id |-> id, protected_blocks |-> {}, handlers |-> <<>>, parent |-> 0]
           stays == {i \in DOMAIN c.cleanups : c.cleanups[i].handler.region \notin doomed}
           B == Slots(c)
           P == DOMAIN c.regions
<1>0. /\ IsList(c.regions) /\ IsList(c.cleanups) /\ Slots(d) = B
      /\ \A i \in P : RegionGood(c.regions[i], i, P, B)
      /\ \A i \in DOMAIN c.cleanups : CleanupGood(c.cleanups[i], HandlerRefs(c), B)
  BY DEF MetadataGood, Slots
<1>1. \A id \in P : RegionGood(blank(id), id, P, B)
  BY BlankGood
<1> HIDE DEF blank
<1>2. /\ DOMAIN d.regions = P /\ d.regions = [id \in P |-> d.regions[id]]
      /\ \A id \in P : d.regions[id] = IF id \in doomed THEN blank(id) ELSE c.regions[id]
  BY DEF blank, Emptied
<1>3. \A id \in P : RegionGood(d.regions[id], id, P, B)
  BY <1>0, <1>1, <1>2
<1>4. IsList(d.regions)
  BY <1>0, <1>2, ListMapped
<1>5. IsList(d.cleanups) /\ \A k \in DOMAIN d.cleanups : \E i \in stays : d.cleanups[k] = c.cleanups[i]
  <2>1. d.cleanups = retain(c.cleanups, stays) /\ stays \in SUBSET DOMAIN c.cleanups
    BY DEF KeptCleanups
  <2> HIDE DEF stays
  <2>2. /\ IsList(retain(c.cleanups, stays))
        /\ \A k \in DOMAIN retain(c.cleanups, stays) :
              \E i \in stays : retain(c.cleanups, stays)[k] = c.cleanups[i]
    BY <1>0, <2>1, ListRetained
  <2> QED BY <2>1, <2>2
<1>6. ASSUME NEW k \in DOMAIN d.cleanups
      PROVE  CleanupGood(d.cleanups[k], HandlerRefs(d), B)
  <2>1. PICK i \in stays : d.cleanups[k] = c.cleanups[i]
    BY <1>5
  <2> DEFINE old == c.cleanups[i]
  <2>2. CleanupGood(old, HandlerRefs(c), B) /\ old.handler.region \notin doomed
    BY <1>0
  <2> HIDE DEF old
  <2>3. old.handler \in HandlerRefs(d)
    <3>0. PICK r \in P : \E h \in DOMAIN c.regions[r].handlers :
                            old.handler = [region |-> r, index |-> h]
      BY <2>2 DEF CleanupGood, HandlerRefs
    <3>1. PICK h \in DOMAIN c.regions[r].handlers : old.handler = [region |-> r, index |-> h]
      BY <3>0
    <3>2. r \notin doomed
      BY <2>2, <3>1
    <3>3. r \in DOMAIN d.regions /\ h \in DOMAIN d.regions[r].handlers
      BY <1>2, <3>2
    <3> QED BY <3>1, <3>3 DEF HandlerRefs
  <2>4. CleanupGood(old, HandlerRefs(d), B)
    BY <2>2, <2>3 DEF CleanupGood
  <2> QED BY <2>1, <2>4 DEF old
<1> QED BY <1>0, <1>2, <1>3, <1>4, <1>5, <1>6 DEF MetadataGood

(* A cleanup record is there for a handler once cleanup_entry returned. *)
LEMMA CleanupEntered ==
    ASSUME NEW c, Shaped(c), MetadataGood(c), NEW handler \in HandlerRefs(c)
    PROVE  LET d == cleanup_entry(c, handler)
           IN  /\ SameGraph(c, d) /\ MetadataGood(d) /\ d.entry = c.entry
               /\ HandlerRefs(d) = HandlerRefs(c) /\ d.regions = c.regions
               /\ CleanupAt(d, handler) \in DOMAIN d.cleanups
<1> DEFINE d == cleanup_entry(c, handler)
           R == HandlerRefs(c)
           fresh == [handler |-> handler, resume_from |-> 0, continuations |-> {}]
           K == Append(c.cleanups, fresh)
<1>0. CleanupGood(fresh, R, Slots(c)) /\ fresh.handler = handler
  BY DEF CleanupGood
<1>1. CASE \E k \in Cleanups(c) : k.handler = handler
  <2>1. d = c
    BY <1>1 DEF cleanup_entry
  <2>2. \E i \in DOMAIN d.cleanups : d.cleanups[i].handler = handler
    BY <1>1, <2>1 DEF Cleanups
  <2> HIDE DEF d
  <2>3. CleanupAt(d, handler) \in DOMAIN d.cleanups
    BY <2>2 DEF CleanupAt
  <2> QED BY <2>1, <2>3 DEF SameGraph, d
<1>2. CASE ~\E k \in Cleanups(c) : k.handler = handler
  <2>1. d = [c EXCEPT !.cleanups = K]
    BY <1>2 DEF cleanup_entry, Shaped
  <2> HIDE DEF fresh
  <2>2. /\ IsList(K) /\ DOMAIN K = DOMAIN c.cleanups \cup {Len(c.cleanups) + 1}
        /\ K[Len(c.cleanups) + 1] = fresh
        /\ \A i \in DOMAIN c.cleanups : K[i] = c.cleanups[i]
    BY ListAppended DEF MetadataGood
  <2> HIDE DEF K, d
  <2>3. /\ SameGraph(c, d) /\ d.cleanups = K /\ d.regions = c.regions /\ d.entry = c.entry
    BY <2>1 DEF SameGraph, Shaped
  <2>4. HandlerRefs(d) = R /\ Slots(d) = Slots(c)
    BY <2>3 DEF HandlerRefs, SameGraph, Slots
  <2>5. \A i \in DOMAIN K : CleanupGood(K[i], R, Slots(c))
    BY <1>0, <2>2 DEF MetadataGood
  <2>6. MetadataGood(d)
    BY <2>2, <2>3, <2>4, <2>5 DEF MetadataGood
  <2>7. \E i \in DOMAIN d.cleanups : d.cleanups[i].handler = handler
    BY <1>0, <2>2, <2>3
  <2>8. CleanupAt(d, handler) \in DOMAIN d.cleanups
    BY <2>7 DEF CleanupAt
  <2> QED BY <2>3, <2>4, <2>6, <2>8 DEF d
<1> QED BY <1>1, <1>2

(* Rewriting one cleanup record. *)
LEMMA CleanupWritten ==
    ASSUME NEW c, Shaped(c), MetadataGood(c), NEW i \in DOMAIN c.cleanups, NEW k,
           CleanupGood(k, HandlerRefs(c), Slots(c))
    PROVE  LET d == [c EXCEPT !.cleanups = [@ EXCEPT ![i] = k]]
           IN  SameGraph(c, d) /\ MetadataGood(d) /\ d.entry = c.entry
<1> DEFINE K == [c.cleanups EXCEPT ![i] = k]
           d == [c EXCEPT !.cleanups = K]
<1>1. /\ K = [j \in DOMAIN c.cleanups |-> K[j]]
      /\ \A j \in DOMAIN c.cleanups : K[j] = IF j = i THEN k ELSE c.cleanups[j]
  <2>1. c.cleanups = [j \in DOMAIN c.cleanups |-> c.cleanups[j]]
    <3>1. PICK S : c.cleanups \in Seq(S)
      BY DEF MetadataGood, IsList
    <3> QED BY <3>1
  <2> QED BY <2>1
<1> HIDE DEF K
<1>2. IsList(K) /\ DOMAIN K = DOMAIN c.cleanups
  BY <1>1, ListMapped DEF MetadataGood
<1>3. SameGraph(c, d) /\ d.cleanups = K /\ d.regions = c.regions /\ d.entry = c.entry
  BY DEF SameGraph, Shaped
<1> HIDE DEF d
<1>4. HandlerRefs(d) = HandlerRefs(c) /\ Slots(d) = Slots(c)
  BY <1>3 DEF HandlerRefs, SameGraph, Slots
<1>5. \A j \in DOMAIN K : CleanupGood(K[j], HandlerRefs(c), Slots(c))
  BY <1>1, <1>2 DEF MetadataGood
<1>6. MetadataGood(d)
  BY <1>2, <1>3, <1>4, <1>5 DEF MetadataGood
<1> QED BY <1>3, <1>6 DEF d, K

(* Every edit of the metadata leaves it good. *)
LEMMA RegionEditAnchored ==
    ASSUME AnchoredGraph(cfg), RegionEdit
    PROVE  AnchoredGraph(cfg')
<1>0. /\ Graph(cfg) /\ Joins(cfg) /\ Shaped(cfg) /\ MetadataGood(cfg)
      /\ cfg.entry \in cfg.live_blocks /\ cfg.live_blocks \subseteq Slots(cfg)
      /\ IsList(cfg.regions) /\ IsList(cfg.cleanups)
  BY DEF AnchoredGraph, Graph, MetadataGood
<1>1. SameGraph(cfg, cfg')
  BY <1>0, RegionEditsMetadata
<1>2. /\ Graph(cfg') /\ Joins(cfg') /\ cfg'.live_blocks = cfg.live_blocks
      /\ cfg'.instructions = cfg.instructions /\ Slots(cfg') = Slots(cfg)
  BY <1>0, <1>1 DEF SameGraph, Graph, Joins, Once, Slots, EdgeSlots
<1>3. SUFFICES MetadataGood(cfg') /\ cfg'.entry = cfg.entry
  BY <1>0, <1>2 DEF AnchoredGraph
<1>4. ASSUME NEW region \in RegionInputs, AddRegion(region)
      PROVE  MetadataGood(cfg') /\ cfg'.entry = cfg.entry
  <2> DEFINE n == Len(cfg.regions) + 1
             added == [region EXCEPT !.id = n]
             R == Append(cfg.regions, added)
             P == DOMAIN cfg.regions \cup {n}
  <2>1. cfg' = [cfg EXCEPT !.regions = R]
    BY <1>0, <1>4 DEF AddRegion, Edit, add_region, Shaped
  <2>2. /\ region \in RegionType /\ region.parent \in DOMAIN cfg.regions \cup {0}
        /\ \A h \in DOMAIN region.handlers : region.handlers[h].entry # 0
        /\ anchors(cfg') \subseteq cfg.live_blocks
        /\ region.protected_blocks \subseteq cfg.live_blocks
        /\ \A h \in DOMAIN region.handlers : \A i \in DOMAIN region.handlers[h].body :
              region.handlers[h].body[i] \subseteq cfg.live_blocks
    BY <1>4, CfgAssumption DEF AddRegion, Edit
  <2>3. /\ added \in [id : {n}, protected_blocks : {added.protected_blocks},
                      handlers : {added.handlers}, parent : {added.parent}]
        /\ added.handlers = region.handlers /\ added.parent = region.parent
        /\ added.protected_blocks = region.protected_blocks
    BY <2>2 DEF RegionType
  <2> HIDE DEF added, n
  <2>4. /\ IsList(R) /\ DOMAIN R = P /\ R[n] = added
        /\ \A i \in DOMAIN cfg.regions : R[i] = cfg.regions[i]
        /\ n \notin DOMAIN cfg.regions
    BY <1>0, ListAppended DEF n
  <2> HIDE DEF R
  <2>5. /\ cfg'.regions = R /\ cfg'.cleanups = cfg.cleanups /\ cfg'.entry = cfg.entry
    BY <1>0, <2>1 DEF Shaped
  <2>6. ASSUME NEW h \in DOMAIN added.handlers
        PROVE  HandlerGood(added.handlers[h], Slots(cfg))
    <3> DEFINE g == added.handlers[h]
    <3>1. g \in HandlerType /\ g.entry # 0
      BY <2>2, <2>3 DEF RegionType
    <3>2. n \in DOMAIN cfg'.regions /\ g = cfg'.regions[n].handlers[h]
          /\ h \in DOMAIN cfg'.regions[n].handlers
      BY <2>4, <2>5
    <3>3. g.entry \in anchors(cfg') /\ (g.filter # 0 => g.filter \in anchors(cfg'))
      BY <3>1, <3>2, AnchorNamed
    <3>4. g.entry \in Slots(cfg) /\ g.filter \in Slots(cfg) \cup {0}
      BY <1>0, <2>2, <3>3
    <3>5. g \in [entry : {g.entry}, body : {g.body}, filter : {g.filter}]
      BY <3>1 DEF HandlerType
    <3>6. \A j \in DOMAIN g.body : g.body[j] \subseteq Slots(cfg)
      BY <1>0, <2>2, <2>3
    <3>7. IsList(g.body)
      BY <3>1 DEF HandlerType, IsList
    <3> QED BY <3>4, <3>5, <3>6, <3>7 DEF HandlerGood
  <2>7. RegionGood(added, n, P, Slots(cfg))
    BY <1>0, <2>2, <2>3, <2>6 DEF RegionGood
  <2>8. ASSUME NEW i \in P
        PROVE  RegionGood(R[i], i, P, Slots(cfg))
    <3>1. CASE i = n
      BY <2>4, <2>7, <3>1
    <3>2. CASE i \in DOMAIN cfg.regions
      <4>1. RegionGood(cfg.regions[i], i, DOMAIN cfg.regions, Slots(cfg))
        BY <1>0, <3>2 DEF MetadataGood
      <4>2. RegionGood(cfg.regions[i], i, P, Slots(cfg))
        BY <4>1, GoodGrows
      <4> QED BY <2>4, <3>2, <4>2
    <3> QED BY <3>1, <3>2
  <2>9. HandlerRefs(cfg) \subseteq HandlerRefs(cfg')
    <3>1. /\ DOMAIN cfg.regions \subseteq DOMAIN cfg'.regions
          /\ \A r \in DOMAIN cfg.regions : cfg'.regions[r] = cfg.regions[r]
      BY <2>4, <2>5
    <3> QED BY <3>1 DEF HandlerRefs
  <2>10. \A i \in DOMAIN cfg.cleanups :
            CleanupGood(cfg.cleanups[i], HandlerRefs(cfg'), Slots(cfg))
    BY <1>0, <2>9, GoodGrows DEF MetadataGood
  <2> QED BY <1>0, <1>2, <2>4, <2>5, <2>8, <2>10 DEF MetadataGood
<1>5. ASSUME NEW id \in DOMAIN cfg.regions, RemoveRegion(id)
      PROVE  MetadataGood(cfg') /\ cfg'.entry = cfg.entry
  <2> DEFINE blank == [id |-> id, protected_blocks |-> {}, handlers |-> <<>>, parent |-> 0]
             K == retain(cfg.cleanups, {i \in DOMAIN cfg.cleanups :
                                           cfg.cleanups[i].handler.region # id})
             R == [cfg.regions EXCEPT ![id] = blank]
             doomed == {id}
  <2>1. cfg' = [cfg EXCEPT !.regions = R, !.cleanups = K]
    BY <1>0, <1>5 DEF RemoveRegion, Edit, remove_region, Shaped
  <2>2. R = [j \in DOMAIN cfg.regions |->
               IF j \in doomed THEN [id |-> j, protected_blocks |-> {},
                                     handlers |-> <<>>, parent |-> 0]
               ELSE cfg.regions[j]]
    <3>1. PICK S : cfg.regions \in Seq(S)
      BY <1>0 DEF IsList
    <3> QED BY <3>1
  <2>3. K = retain(cfg.cleanups, {i \in DOMAIN cfg.cleanups :
                                     cfg.cleanups[i].handler.region \notin doomed})
    <3>1. {i \in DOMAIN cfg.cleanups : cfg.cleanups[i].handler.region # id}
            = {i \in DOMAIN cfg.cleanups : cfg.cleanups[i].handler.region \notin doomed}
      OBVIOUS
    <3> QED BY <3>1
  <2>4. R = Emptied(cfg, doomed) /\ K = KeptCleanups(cfg, doomed)
    BY <2>2, <2>3 DEF Emptied, KeptCleanups
  <2> HIDE DEF R, K, doomed
  <2>5. cfg'.regions = R /\ cfg'.cleanups = K /\ cfg'.entry = cfg.entry
    BY <1>0, <2>1 DEF Shaped
  <2> QED BY <1>0, <1>2, <2>4, <2>5, RegionsEmptied
<1>6. ASSUME RemoveUnreachableRegions
      PROVE  MetadataGood(cfg') /\ cfg'.entry = cfg.entry
  <2> DEFINE doomed == Unenterable(cfg)
             K == KeptCleanups(cfg, doomed)
             R == Emptied(cfg, doomed)
  <2>1. cfg' = [cfg EXCEPT !.regions = R, !.cleanups = K]
    BY <1>6 DEF RemoveUnreachableRegions, Edit, remove_unreachable_regions,
                Emptied, KeptCleanups
  <2> HIDE DEF doomed
  <2>2. cfg'.regions = R /\ cfg'.cleanups = K /\ cfg'.entry = cfg.entry
    BY <1>0, <2>1 DEF Shaped
  <2> QED BY <1>0, <1>2, <2>2, RegionsEmptied
<1>7. ASSUME NEW handler \in HandlerRefs(cfg), NEW b \in cfg.live_blocks,
             SetCleanupResume(handler, b)
      PROVE  MetadataGood(cfg') /\ cfg'.entry = cfg.entry
  <2> DEFINE d == cleanup_entry(cfg, handler)
             i == CleanupAt(d, handler)
             k == [d.cleanups[i] EXCEPT !.resume_from = b]
  <2>1. /\ SameGraph(cfg, d) /\ MetadataGood(d) /\ d.entry = cfg.entry
        /\ i \in DOMAIN d.cleanups
    BY <1>0, CleanupEntered
  <2>2. cfg' = [d EXCEPT !.cleanups[i].resume_from = b]
    BY <1>7 DEF SetCleanupResume, Edit, set_cleanup_resume
  <2> HIDE DEF d, i
  <2>3. Shaped(d) /\ Slots(d) = Slots(cfg)
    BY <2>1 DEF SameGraph, Slots
  <2>4. CleanupGood(d.cleanups[i], HandlerRefs(d), Slots(d))
    BY <2>1 DEF MetadataGood
  <2>5. CleanupGood(k, HandlerRefs(d), Slots(d))
    BY <1>0, <2>3, <2>4 DEF CleanupGood
  <2>6. cfg' = [d EXCEPT !.cleanups = [@ EXCEPT ![i] = k]]
    BY <2>2, <2>3 DEF Shaped
  <2> QED BY <2>1, <2>3, <2>5, <2>6, CleanupWritten
<1>8. ASSUME NEW handler \in HandlerRefs(cfg), NEW b \in cfg.live_blocks, NEW reason,
             AddContinuation(handler, reason, b)
      PROVE  MetadataGood(cfg') /\ cfg'.entry = cfg.entry
  <2> DEFINE d == cleanup_entry(cfg, handler)
             i == CleanupAt(d, handler)
             t == [reason |-> reason, resume |-> b]
             C == d.cleanups[i].continuations \cup {t}
             k == [d.cleanups[i] EXCEPT !.continuations = C]
  <2>1. /\ SameGraph(cfg, d) /\ MetadataGood(d) /\ d.entry = cfg.entry
        /\ i \in DOMAIN d.cleanups
    BY <1>0, CleanupEntered
  <2>2. cfg' = [d EXCEPT !.cleanups[i].continuations = @ \cup {t}]
    BY <1>8 DEF AddContinuation, Edit, add_continuation
  <2> HIDE DEF d, i
  <2>3. Shaped(d) /\ Slots(d) = Slots(cfg)
    BY <2>1 DEF SameGraph, Slots
  <2>4. CleanupGood(d.cleanups[i], HandlerRefs(d), Slots(d))
    BY <2>1 DEF MetadataGood
  <2>5. t \in [reason : {t.reason}, resume : {t.resume}] /\ t.resume \in Slots(d)
    BY <1>0, <2>3
  <2> HIDE DEF t
  <2>6. CleanupGood(k, HandlerRefs(d), Slots(d))
    <3>1. \A u \in C : u \in [reason : {u.reason}, resume : {u.resume}] /\ u.resume \in Slots(d)
      BY <2>4, <2>5 DEF CleanupGood
    <3> HIDE DEF C
    <3> QED BY <2>4, <3>1 DEF CleanupGood
  <2>7. cfg' = [d EXCEPT !.cleanups = [@ EXCEPT ![i] = k]]
    BY <2>2, <2>3 DEF Shaped
  <2> HIDE DEF k
  <2> QED BY <2>1, <2>3, <2>6, <2>7, CleanupWritten
<1> QED BY <1>4, <1>5, <1>6, <1>7, <1>8 DEF RegionEdit

(* Every step of a client leads from an anchored graph to one. *)
LEMMA AnchoredPreserved ==
    ASSUME AnchoredGraph(cfg), [Next]_vars
    PROVE  AnchoredGraph(cfg')
<1>0. /\ Graph(cfg) /\ Joins(cfg) /\ Shaped(cfg) /\ cfg.entry \in cfg.live_blocks
      /\ cfg.live_blocks \subseteq Slots(cfg) /\ \A b \in cfg.live_blocks : b \in Nat
  BY DEF AnchoredGraph, Graph, Shaped
<1>1. ASSUME NEW c, NEW r, RightChange(cfg, c, r), Joins(c), SameFrame(cfg, c),
             cfg.entry \in c.live_blocks
      PROVE  AnchoredGraph(c)
  <2>1. Graph(c) /\ Slots(cfg) \subseteq Slots(c)
    BY <1>1 DEF RightChange, Follows, Onward
  <2> QED BY <1>1, <2>1, FrameKept
<1>2. CASE Build
  <2>1. CASE NewBlock
    <3> DEFINE d == new_block(cfg)
    <3>1. \E r : RightChange(cfg, d, r)
      BY <1>0, NewBlockRight
    <3>2. Joins(d) /\ SameFrame(cfg, d) /\ cfg.entry \in d.live_blocks
      <4>1. d.live_blocks = cfg.live_blocks \cup {Len(cfg.instructions) + 1}
        BY <1>0 DEF new_block, Shaped
      <4> HIDE DEF d
      <4>2. Joins(d) /\ SameFrame(cfg, d)
        BY <1>0, BuildJoins, SimpleFrames DEF d
      <4> QED BY <1>0, <4>1, <4>2
    <3>3. cfg' = d
      BY <2>1 DEF NewBlock, Do, Mapped
    <3> HIDE DEF d
    <3> QED BY <1>1, <3>1, <3>2, <3>3
  <2>2. ASSUME NEW b \in cfg.live_blocks, NEW tag \in 1..MaxCode, Push(b, tag)
        PROVE  AnchoredGraph(cfg')
    <3> DEFINE d == [cfg EXCEPT !.instructions[b] = Append(@, tag)]
    <3>0. b \in Slots(cfg) /\ tag \in Nat /\ tag \notin Tags(cfg, Slots(cfg))
      BY <1>0, <2>2 DEF Push
    <3>1. RightChange(cfg, d, new) /\ Joins(d) /\ SameFrame(cfg, d)
      BY <1>0, <3>0, PushRight, BuildJoins, SimpleFrames
    <3>2. cfg.entry \in d.live_blocks
      BY <1>0 DEF Shaped
    <3>3. cfg' = d
      BY <2>2 DEF Push, Do, Mapped
    <3> HIDE DEF d
    <3> QED BY <1>1, <3>1, <3>2, <3>3
  <2>3. ASSUME NEW s \in cfg.live_blocks, NEW t \in cfg.live_blocks, NEW kind \in Kinds,
               AddEdge(s, t, kind)
        PROVE  AnchoredGraph(cfg')
    <3> DEFINE d == add_edge(cfg, s, t, kind)
    <3>0. s \in Nat /\ t \in Nat /\ kind \in EdgeKind
      BY <1>0, CfgAssumption
    <3>1. (\E r : RightChange(cfg, d, r)) /\ Joins(d) /\ SameFrame(cfg, d)
      BY <1>0, <3>0, AddEdgeRight, AddEdgeJoins, SimpleFrames
    <3>2. cfg.entry \in d.live_blocks
      BY <1>0 DEF Shaped, add_edge
    <3>3. cfg' = d
      BY <2>3 DEF AddEdge, Do, Mapped
    <3> HIDE DEF d
    <3> QED BY <1>1, <3>1, <3>2, <3>3
  <2> QED BY <1>2, <2>1, <2>2, <2>3 DEF Build
<1>3. CASE Reroute
  <2>1. ASSUME NEW b \in cfg.live_blocks, RemoveBlock(b)
        PROVE  AnchoredGraph(cfg')
    <3> DEFINE d == remove_block(cfg, b)
    <3>1. (\E r : RightChange(cfg, d, r)) /\ Joins(d) /\ SameFrame(cfg, d)
      BY <1>0, RemoveBlockRight, RemoveJoins, SimpleFrames
    <3>2. cfg.entry \in d.live_blocks
      BY <1>0, <2>1 DEF Shaped, remove_block, RemoveBlock
    <3>3. cfg' = d
      BY <2>1 DEF RemoveBlock, remove_block_mapped, Do, Mapped
    <3> HIDE DEF d
    <3> QED BY <1>1, <3>1, <3>2, <3>3
  <2>2. ASSUME NEW e \in cfg.live_edges, RemoveEdge(e)
        PROVE  AnchoredGraph(cfg')
    <3> DEFINE d == remove_edges(cfg, {e})
    <3>1. (\E r : RightChange(cfg, d, r)) /\ Joins(d) /\ SameFrame(cfg, d)
      BY <1>0, RemoveEdgesRight, RemoveJoins, SimpleFrames
    <3>2. cfg.entry \in d.live_blocks
      BY <1>0 DEF Shaped, remove_edges
    <3>3. cfg' = d
      BY <2>2 DEF RemoveEdge, remove_edge_mapped, Do, Mapped
    <3> HIDE DEF d
    <3> QED BY <1>1, <3>1, <3>2, <3>3
  <2>3. ASSUME NEW old \in cfg.live_blocks, NEW target \in cfg.live_blocks,
               RedirectEdgesTo(old, target)
        PROVE  AnchoredGraph(cfg')
    <3> DEFINE d == redirect_edges_to(cfg, old, target)
    <3>1. (\E r : RightChange(cfg, d, r)) /\ Joins(d) /\ SameFrame(cfg, d)
      BY <1>0, RedirectEdgesRight, RedirectJoins, SimpleFrames
    <3>2. cfg.entry \in d.live_blocks
      BY <1>0 DEF Shaped, redirect_edges_to
    <3>3. cfg' = d
      BY <2>3 DEF RedirectEdgesTo, redirect_edges_to_mapped, Do, Mapped
    <3> HIDE DEF d
    <3> QED BY <1>1, <3>1, <3>2, <3>3
  <2>4. ASSUME NEW e \in cfg.live_edges, NEW end \in {"source", "target"},
               NEW b \in cfg.live_blocks, RedirectEdge(e, end, b)
        PROVE  AnchoredGraph(cfg')
    <3> DEFINE d == [cfg EXCEPT !.edges[e][end] = b]
    <3>1. (\E r : RightChange(cfg, d, r)) /\ Joins(d) /\ SameFrame(cfg, d)
      BY <1>0, RedirectEdgeRight, RedirectJoins, SimpleFrames
    <3>2. cfg.entry \in d.live_blocks
      BY <1>0 DEF Shaped
    <3>3. cfg' = d
      BY <2>4 DEF RedirectEdge, redirect_edge_mapped, Do, Mapped
    <3> HIDE DEF d
    <3> QED BY <1>1, <3>1, <3>2, <3>3
  <2>5. ASSUME NEW b \in cfg.live_blocks, SetEntry(b)
        PROVE  AnchoredGraph(cfg')
    <3> DEFINE d == [cfg EXCEPT !.entry = b]
    <3>1. SameGraph(cfg, d) /\ d.entry = b /\ d.regions = cfg.regions /\ d.cleanups = cfg.cleanups
      BY <1>0 DEF SameGraph, Shaped
    <3>2. cfg' = d
      BY <2>5 DEF SetEntry, Do, Mapped
    <3> HIDE DEF d
    <3>3. Graph(d) /\ Joins(d) /\ Slots(d) = Slots(cfg)
      BY <1>0, <3>1 DEF SameGraph, Graph, Joins, Once, Slots, EdgeSlots
    <3>4. MetadataGood(d)
      BY <3>1, <3>3, MetadataKept DEF AnchoredGraph
    <3> QED BY <3>1, <3>2, <3>3, <3>4 DEF AnchoredGraph, SameGraph
  <2> QED BY <1>3, <2>1, <2>2, <2>3, <2>4, <2>5 DEF Reroute
<1>4. CASE Rearrange
  <2>1. ASSUME NEW b \in cfg.live_blocks, NEW at \in 0..MaxCode, SplitBlock(b, at)
        PROVE  AnchoredGraph(cfg')
    BY <2>1, SplitAnchored DEF SplitBlock, Do
  <2>2. ASSUME NEW b \in cfg.live_blocks, NEW p \in 0..MaxCode, NEW q \in 0..MaxCode,
               SplitBlockAtPoints(b, p, q)
        PROVE  AnchoredGraph(cfg')
    BY <2>2, SplitTwiceAnchored DEF SplitBlockAtPoints, Do
  <2>3. ASSUME NEW source \in cfg.live_blocks, NEW target \in cfg.live_blocks,
               NEW e \in cfg.live_edges, ContractEdge(source, target, e)
        PROVE  AnchoredGraph(cfg')
    BY <2>3, ContractAnchored DEF ContractEdge, Do, Mapped
  <2>4. CASE Compact
    BY <2>4, CompactAnchored DEF Compact
  <2> QED BY <1>4, <2>1, <2>2, <2>3, <2>4 DEF Rearrange
<1>5. CASE RegionEdit
  BY <1>5, RegionEditAnchored
<1>6. CASE UNCHANGED vars
  BY <1>6 DEF vars
<1> QED BY <1>2, <1>3, <1>4, <1>5, <1>6 DEF Next

LEMMA AnchoredInit ==
    ASSUME Init
    PROVE  AnchoredGraph(cfg)
<1>1. cfg = with_edge_payload
  BY DEF Init
<1>2. /\ cfg.instructions = <<<<>>>> /\ cfg.edges = <<>>
      /\ cfg.live_blocks = {1} /\ cfg.live_edges = {} /\ cfg.entry = 1
      /\ cfg.regions = <<>> /\ cfg.cleanups = <<>>
  BY <1>1 DEF with_edge_payload
<1>3. Shaped(cfg)
  BY <1>1 DEF with_edge_payload, Shaped
<1>4. Slots(cfg) = {1} /\ cfg.instructions[1] = <<>>
  BY <1>2 DEF Slots
<1>5. Graph(cfg) /\ Joins(cfg)
  BY <1>2, <1>3, <1>4 DEF Graph, Once, Joins, EdgeSlots
<1>6. MetadataGood(cfg)
  <2>1. <<>> \in Seq(Nat) /\ DOMAIN <<>> = {}
    OBVIOUS
  <2> QED BY <1>2, <2>1 DEF MetadataGood, IsList
<1> QED BY <1>2, <1>5, <1>6 DEF AnchoredGraph

(* On graphs of any size with any metadata, whatever a client does: a      *)
(* dangling anchor is the only reason for which a loader refuses the graph *)
(* and for which compact() panics.                                         *)
THEOREM AnchorsAlwaysDecide == Spec => []AnchorsDecide
<1>1. Init => AnchoredGraph(cfg)
  BY AnchoredInit
<1>2. AnchoredGraph(cfg) /\ [Next]_vars => AnchoredGraph(cfg)'
  BY AnchoredPreserved
<1>3. AnchoredGraph(cfg) => AnchorsDecide
  BY GoodDecides DEF AnchorsDecide
<1> QED BY <1>1, <1>2, <1>3, PTL DEF Spec

-----------------------------------------------------------------------------
(* Reachability.  A set of blocks that holds the start and is closed holds *)
(* everything reachable.                                                   *)
Closed(c, T) == \A e \in c.live_edges : c.edges[e].source \in T => c.edges[e].target \in T

LEMMA ReachableLeast ==
    ASSUME NEW c, NEW S, NEW T \in SUBSET Slots(c), S \subseteq T, Closed(c, T)
    PROVE  reachable(c, S) \subseteq T
<1>1. \A a \in T : successors(c, a) \subseteq T
  BY DEF Closed, successors, outgoing
<1> QED BY <1>1 DEF reachable

(* The reachable blocks are such a set. *)
LEMMA ReachableHolds ==
    ASSUME NEW c, WellFormed(c), NEW S \in SUBSET Slots(c)
    PROVE  /\ S \subseteq reachable(c, S) /\ reachable(c, S) \subseteq Slots(c)
           /\ Closed(c, reachable(c, S))
<1>1. S \subseteq reachable(c, S) /\ reachable(c, S) \subseteq Slots(c)
  BY DEF reachable
<1>2. Closed(c, reachable(c, S))
  BY ReachableClosed DEF Closed
<1> QED BY <1>1, <1>2

(* Only live blocks are reachable from live ones. *)
LEMMA ReachableLive ==
    ASSUME NEW c, WellFormed(c), NEW S \in SUBSET c.live_blocks
    PROVE  reachable(c, S) \subseteq c.live_blocks
<1>1. c.live_blocks \in SUBSET Slots(c) /\ Closed(c, c.live_blocks)
  BY DEF WellFormed, Closed
<1> QED BY <1>1, ReachableLeast

(* The roots of remove_unreachable are the same in two graphs with the     *)
(* same entry and metadata.                                                *)
LEMMA RootsLive ==
    ASSUME NEW c, WellFormed(c)
    PROVE  /\ Roots(c) = {c.entry} \cup anchors(c) /\ Roots(c) \subseteq c.live_blocks
           /\ Roots(c) \subseteq Slots(c)
<1>1. {c.entry} \cup anchors(c) \subseteq c.live_blocks
  BY AnchorsLive
<1> QED BY <1>1 DEF Roots, WellFormed

LEMMA SameRoots ==
    ASSUME NEW c, NEW d, WellFormed(c), WellFormed(d), SameFrame(c, d)
    PROVE  Roots(d) = Roots(c)
<1>1. anchors(d) = anchors(c)
  BY AnchorsOfMetadata DEF SameFrame
<1> QED BY <1>1, RootsLive DEF SameFrame

(* What remove_unreachable leaves of a graph. *)
OnlyRetained(c, d) ==
    /\ WellFormed(d) /\ SameFrame(c, d)
    /\ d.instructions = c.instructions /\ d.edges = c.edges
    /\ d.live_blocks = Retained(c)
    /\ \A e : e \in d.live_edges <=>
          /\ e \in c.live_edges
          /\ c.edges[e].source \in Retained(c) /\ c.edges[e].target \in Retained(c)

(* After it, everything that is left is reached. *)
LEMMA RetainedAgain ==
    ASSUME NEW c, NEW d, WellFormed(c), OnlyRetained(c, d)
    PROVE  Retained(d) = Retained(c)
<1> DEFINE R == Retained(c)
           Q == Retained(d)
<1>1. Roots(c) \in SUBSET Slots(c) /\ Roots(d) = Roots(c)
  BY RootsLive, SameRoots DEF OnlyRetained
<1>2. Roots(c) \subseteq R /\ R \subseteq Slots(c) /\ Closed(c, R)
  BY <1>1, ReachableHolds DEF Retained
<1>3. Slots(d) = Slots(c)
  BY DEF OnlyRetained, Slots
<1>4. Roots(c) \subseteq Q /\ Q \subseteq Slots(c) /\ Closed(d, Q)
  BY <1>1, <1>3, ReachableHolds DEF Retained, OnlyRetained
<1>5. Closed(c, Q \cap R)
  BY <1>2, <1>4 DEF Closed, OnlyRetained
<1>6. R \subseteq Q \cap R
  BY <1>1, <1>2, <1>4, <1>5, ReachableLeast DEF Retained
<1>7. Q \subseteq R
  BY <1>1, <1>2, <1>3, ReachableLeast DEF Retained, Closed, OnlyRetained
<1> QED BY <1>6, <1>7
(* remove_unreachable does that. *)
LEMMA UnreachableRetains ==
    ASSUME WellFormed(cfg), WellFormed(cfg)', remove_unreachable
    PROVE  OnlyRetained(cfg, cfg')
<1> DEFINE doomed == cfg.live_blocks \ Retained(cfg)
           dead == {e \in cfg.live_edges :
                      {cfg.edges[e].source, cfg.edges[e].target} \cap doomed # {}}
           B == cfg.live_blocks \ doomed
           E == cfg.live_edges \ dead
<1>1. cfg' = [cfg EXCEPT !.live_blocks = B, !.live_edges = E]
  BY DEF remove_unreachable
<1>2. cfg \in CfgType /\ B \in SUBSET Nat /\ E \in SUBSET Nat
  BY DEF WellFormed, CfgType
<1>3. Retained(cfg) \subseteq cfg.live_blocks
  BY RootsLive, ReachableLive DEF Retained
<1>4. B = Retained(cfg)
  BY <1>3
<1>5. \A e : e \in E <=> /\ e \in cfg.live_edges
                         /\ cfg.edges[e].source \in Retained(cfg)
                         /\ cfg.edges[e].target \in Retained(cfg)
  BY DEF WellFormed
<1> HIDE DEF B, E
<1>6. /\ cfg'.live_blocks = B /\ cfg'.live_edges = E
      /\ cfg'.instructions = cfg.instructions /\ cfg'.edges = cfg.edges
      /\ SameFrame(cfg, cfg')
  <2> DEFINE d == [cfg EXCEPT !.live_blocks = B, !.live_edges = E]
  <2>1. /\ d.live_blocks = B /\ d.live_edges = E
        /\ d.instructions = cfg.instructions /\ d.edges = cfg.edges
        /\ d.entry = cfg.entry
        /\ d.regions = cfg.regions /\ d.cleanups = cfg.cleanups
    BY <1>2 DEF CfgType
  <2>2. cfg' = d
    BY <1>1
  <2> HIDE DEF d
  <2> QED BY <2>1, <2>2 DEF SameFrame
<1> QED BY <1>4, <1>5, <1>6 DEF OnlyRetained

(* What bypassing the empty block b, whose one edge e leads to t, leaves. *)
Bypassed(c, d, b, t, e) ==
    /\ WellFormed(d) /\ SameFrame(c, d)
    /\ b \in c.live_blocks /\ b # c.entry /\ b \notin anchors(c)
    /\ c.instructions[b] = <<>>
    /\ e \in c.live_edges /\ outgoing(c, b) = {e} /\ c.edges[e].target = t /\ t # b
    /\ d.instructions = c.instructions
    /\ d.live_blocks = c.live_blocks \ {b} /\ d.live_edges = c.live_edges \ {e}
    /\ \A x \in d.live_edges :
          /\ d.edges[x].source = c.edges[x].source
          /\ d.edges[x].kind = c.edges[x].kind
          /\ d.edges[x].target = IF c.edges[x].target = b THEN t ELSE c.edges[x].target

LEMMA BypassBypasses ==
    ASSUME NEW c, WellFormed(c), Once(c), NEW b, NEW e \in c.live_edges,
           Bypassable(c, b, e)
    PROVE  Bypassed(c, bypass(c, b, e), b, c.edges[e].target, e)
<1>1. Graph(c)
  BY WellFormedGraph
<1>2. WellFormed(bypass(c, b, e))
  BY BypassGood
<1> QED BY <1>1, <1>2, BypassFields DEF Bypassed, Bypassable, is_anchor

(* The block s takes in its successor t, its only one, which nothing else  *)
(* enters: c before, d after.  Read from d to c it is the splitting of s.  *)
Folded(c, d, s, t, e) ==
    /\ s \in Slots(d) /\ t \in Slots(c) /\ s # t
    /\ Slots(d) \subseteq Slots(c) /\ Slots(c) = Slots(d) \cup {t}
    /\ e \in c.live_edges /\ outgoing(c, s) = {e} /\ incoming(c, t) = {e}
    /\ d.instructions[s] = c.instructions[s] \o c.instructions[t]
    /\ \A x \in Slots(d) \ {s, t} : d.instructions[x] = c.instructions[x]
    /\ c.instructions[s] \in Seq(Nat) /\ c.instructions[t] \in Seq(Nat)
    /\ d.live_edges = c.live_edges \ {e}
    /\ \A x \in d.live_edges :
          /\ d.edges[x].target = c.edges[x].target
          /\ d.edges[x].source = IF c.edges[x].source = t THEN s ELSE c.edges[x].source

Contracted(c, d, s, t, e) ==
    /\ WellFormed(d) /\ SameFrame(c, d) /\ Folded(c, d, s, t, e)
    /\ CanContract(c, s, t, e) /\ Slots(d) = Slots(c)
    /\ s \in c.live_blocks /\ t \in c.live_blocks
    /\ d.live_blocks = c.live_blocks \ {t}
    /\ \A x \in d.live_edges : d.edges[x].kind = c.edges[x].kind

LEMMA ContractContracts ==
    ASSUME NEW c, WellFormed(c), Once(c), NEW s \in c.live_blocks,
           NEW t \in c.live_blocks, NEW e \in c.live_edges, CanContract(c, s, t, e)
    PROVE  Contracted(c, contract_edge(c, s, t, e), s, t, e)
<1> DEFINE d == contract_edge(c, s, t, e)
<1>1. Graph(c)
  BY WellFormedGraph
<1>2. WellFormed(d)
  BY ContractGood
<1>3. s # t /\ outgoing(c, s) = {e} /\ incoming(c, t) = {e}
  BY DEF CanContract
<1>4. /\ Joined(c, d.instructions, s, t)
      /\ d.live_blocks = c.live_blocks \ {t} /\ d.live_edges = c.live_edges \ {e}
      /\ SameFrame(c, d)
      /\ \A x \in d.live_edges :
            /\ d.edges[x].target = c.edges[x].target
            /\ d.edges[x].kind = c.edges[x].kind
            /\ d.edges[x].source = IF c.edges[x].source = t THEN s ELSE c.edges[x].source
  BY <1>1, <1>3, ContractFields DEF SameFrame
<1> HIDE DEF d
<1>5. /\ s \in Slots(c) /\ t \in Slots(c) /\ Slots(d) = Slots(c)
      /\ c.instructions[s] \in Seq(Nat) /\ c.instructions[t] \in Seq(Nat)
  <2>1. s \in Slots(c) /\ t \in Slots(c) /\ Slots(d) = Slots(c)
    BY <1>1, <1>4 DEF Graph, Joined, Slots
  <2>2. c.instructions \in Seq(Seq(Nat))
    BY <1>1 DEF Graph, Shaped
  <2> QED BY <2>1, <2>2 DEF Slots
<1>6. Folded(c, d, s, t, e)
  BY <1>3, <1>4, <1>5 DEF Folded, Joined
<1> QED BY <1>2, <1>4, <1>5, <1>6 DEF Contracted, d

(* Edge e is split in two by the new block `middle`. *)
Bent(c, d, e, middle, second) ==
    /\ WellFormed(d) /\ SameFrame(c, d) /\ e \in c.live_edges
    /\ middle \notin Slots(c) /\ Slots(d) = Slots(c) \cup {middle}
    /\ d.instructions[middle] = <<>>
    /\ \A x \in Slots(c) : d.instructions[x] = c.instructions[x]
    /\ second \notin EdgeSlots(c)
    /\ d.live_blocks = c.live_blocks \cup {middle}
    /\ d.live_edges = c.live_edges \cup {second}
    /\ \A x \in c.live_edges \ {e} : d.edges[x] = c.edges[x]
    /\ d.edges[e].source = c.edges[e].source /\ d.edges[e].target = middle
    /\ d.edges[second].source = middle /\ d.edges[second].target = c.edges[e].target
    /\ d.edges[e].kind = IF c.edges[e].kind = "back" THEN "unconditional"
                         ELSE c.edges[e].kind
    /\ d.edges[second].kind = IF c.edges[e].kind = "back" THEN "back" ELSE "fallthrough"

LEMMA SplitBends ==
    ASSUME NEW c, WellFormed(c), NEW e \in c.live_edges
    PROVE  Bent(c, split_edge(c, e), e, Len(c.instructions) + 1, Len(c.edges) + 1)
<1> DEFINE d == split_edge(c, e)
           middle == Len(c.instructions) + 1
           second == Len(c.edges) + 1
           last == [source |-> middle, target |-> c.edges[e].target,
                    kind |-> IF c.edges[e].kind = "back" THEN "back" ELSE "fallthrough"]
<1>1. /\ c.instructions \in Seq(Seq(Nat)) /\ <<>> \in Seq(Nat)
      /\ c.edges \in Seq(EdgeRecord) /\ c.live_edges \subseteq EdgeSlots(c)
  BY DEF WellFormed, CfgType
<1>2. /\ WellFormed(d) /\ d.instructions = Append(c.instructions, <<>>)
      /\ d.live_blocks = c.live_blocks \cup {middle}
      /\ d.live_edges = c.live_edges \cup {second}
      /\ SameFrame(c, d)
      /\ \A x \in EdgeSlots(c) \ {e} : d.edges[x] = c.edges[x]
      /\ d.edges[e].source = c.edges[e].source
      /\ d.edges[e].target = middle
      /\ d.edges[e].kind = IF c.edges[e].kind = "back" THEN "unconditional"
                           ELSE c.edges[e].kind
      /\ d.edges[second] = last
  BY SplitEdgeGood
<1>3. /\ last.source = middle /\ last.target = c.edges[e].target
      /\ last.kind = IF c.edges[e].kind = "back" THEN "back" ELSE "fallthrough"
  OBVIOUS
<1> HIDE DEF d, last
<1>4. /\ Slots(d) = Slots(c) \cup {middle} /\ middle \notin Slots(c)
      /\ d.instructions[middle] = <<>>
      /\ \A x \in Slots(c) : d.instructions[x] = c.instructions[x]
  BY SMTT(30), <1>1, <1>2, AppendedFacts DEF Slots
<1>5. second \notin EdgeSlots(c)
  BY <1>1 DEF EdgeSlots
<1> HIDE DEF middle, second
<1>6. Bent(c, d, e, middle, second)
  BY <1>1, <1>2, <1>3, <1>4, <1>5 DEF Bent
<1> QED BY <1>6 DEF d, middle, second
-----------------------------------------------------------------------------
(* What a pass has left to do.  The blocks a walk visits are those the     *)
(* entry reaches; the ones that still need work are all in its list.       *)
Entered(c) == reachable(c, {c.entry})

EmptyWithin(c, L) ==
    \A b \in Entered(c), e \in c.live_edges : Bypassable(c, b, e) => b \in L
ChainsWithin(c, L) ==
    \A s \in Entered(c), t \in Entered(c), e \in c.live_edges :
       CanContract(c, s, t, e) => s \in L

LEMMA EnteredFacts ==
    ASSUME NEW c, WellFormed(c)
    PROVE  /\ c.entry \in Entered(c) /\ Entered(c) \subseteq Slots(c)
           /\ Closed(c, Entered(c)) /\ Entered(c) \subseteq c.live_blocks
<1>1. {c.entry} \in SUBSET Slots(c) /\ {c.entry} \in SUBSET c.live_blocks
  BY DEF WellFormed
<1> QED BY <1>1, ReachableHolds, ReachableLive DEF Entered

(* A mutation that opens no new way into a block leaves nothing reachable  *)
(* that was not.                                                           *)
LEMMA EnteredShrinks ==
    ASSUME NEW c, NEW d, WellFormed(c), WellFormed(d), d.entry = c.entry,
           Slots(c) \subseteq Slots(d), Closed(d, Entered(c))
    PROVE  Entered(d) \subseteq Entered(c)
<1>1. c.entry \in Entered(c) /\ Entered(c) \subseteq Slots(c)
  BY EnteredFacts
<1>2. {d.entry} \subseteq Entered(c) /\ Entered(c) \in SUBSET Slots(d)
  BY <1>1
<1>3. reachable(d, {d.entry}) \subseteq Entered(c)
  BY <1>2, ReachableLeast
<1> QED BY <1>3 DEF Entered

(* Bypassing a block makes no other block bypassable. *)
LEMMA BypassLeaves ==
    ASSUME NEW c, WellFormed(c), NEW d, NEW b, NEW t, NEW e, Bypassed(c, d, b, t, e),
           NEW L, EmptyWithin(c, L)
    PROVE  EmptyWithin(d, L \ {b})
<1>1. WellFormed(d) /\ SameFrame(c, d)
  BY DEF Bypassed
<1>2. Closed(d, Entered(c))
  <2>1. Closed(c, Entered(c))
    BY EnteredFacts
  <2>2. c.edges[e].source = b /\ c.edges[e].target = t /\ e \in c.live_edges
    BY DEF Bypassed, outgoing
  <2> QED BY <2>1, <2>2 DEF Closed, Bypassed
<1>3. Entered(d) \subseteq Entered(c)
  BY <1>1, <1>2, EnteredShrinks DEF SameFrame, Bypassed, Slots
<1>4. Entered(d) \subseteq d.live_blocks
  BY <1>1, EnteredFacts
<1>5. anchors(d) = anchors(c)
  BY <1>1, AnchorsOfMetadata DEF SameFrame
<1> SUFFICES ASSUME NEW y \in Entered(d), NEW x \in d.live_edges, Bypassable(d, y, x)
             PROVE  y \in L \ {b}
  BY DEF EmptyWithin
<1>6. y \in Entered(c) /\ y # b /\ y \in c.live_blocks /\ x \in c.live_edges
  BY <1>3, <1>4 DEF Bypassed
<1>7. outgoing(c, y) = {x}
  <2>1. outgoing(d, y) = {x}
    BY DEF Bypassable
  <2>2. c.edges[e].source = b
    BY DEF Bypassed, outgoing
  <2>3. outgoing(c, y) = outgoing(d, y)
    BY <1>6, <2>2 DEF outgoing, Bypassed
  <2> QED BY <2>1, <2>3
<1>8. c.edges[x].target # y
  BY <1>6 DEF Bypassable, Bypassed
<1>9. Bypassable(c, y, x)
  BY <1>1, <1>5, <1>6, <1>7, <1>8 DEF Bypassable, Bypassed, SameFrame, is_anchor
<1> QED BY <1>6, <1>9 DEF EmptyWithin

(* Taking in a successor changes only what the block itself may take in. *)
LEMMA ContractLeaves ==
    ASSUME NEW c, WellFormed(c), NEW d, NEW s, NEW t, NEW e, Contracted(c, d, s, t, e),
           NEW L, s \in L, ChainsWithin(c, L)
    PROVE  ChainsWithin(d, L)
<1>1. WellFormed(d) /\ SameFrame(c, d) /\ Folded(c, d, s, t, e)
  BY DEF Contracted
<1>2. c.edges[e].source = s /\ c.edges[e].target = t /\ e \in c.live_edges
  BY <1>1 DEF Folded, outgoing, incoming
<1>3. Closed(d, Entered(c))
  <2>1. Closed(c, Entered(c))
    BY EnteredFacts
  <2> QED BY <1>1, <1>2, <2>1 DEF Closed, Folded
<1>4. Entered(d) \subseteq Entered(c)
  BY <1>1, <1>3, EnteredShrinks DEF SameFrame, Contracted
<1>5. Entered(d) \subseteq d.live_blocks
  BY <1>1, EnteredFacts
<1> SUFFICES ASSUME NEW y \in Entered(d), NEW z \in Entered(d), NEW x \in d.live_edges,
                    CanContract(d, y, z, x)
             PROVE  y \in L
  BY DEF ChainsWithin
<1>6. /\ y \in Entered(c) /\ z \in Entered(c) /\ y # t /\ z # t /\ x \in c.live_edges
      /\ x # e
  BY <1>1, <1>4, <1>5 DEF Contracted, Folded
<1>7. CASE y = s
  BY <1>7
<1>8. CASE y # s
  <2>1. outgoing(d, y) = {x} /\ incoming(d, z) = {x} /\ y # z
    BY DEF CanContract
  <2>2. outgoing(c, y) = outgoing(d, y)
    BY <1>1, <1>2, <1>6, <1>8 DEF outgoing, Folded
  <2>3. incoming(c, z) = incoming(d, z)
    BY <1>1, <1>2, <1>6 DEF incoming, Folded
  <2>4. can_fold_into(c, y, z)
    <3>1. anchors(d) = anchors(c)
      BY <1>1, AnchorsOfMetadata DEF SameFrame
    <3>2. ProtectedSets(d) = ProtectedSets(c) /\ Bodies(d) = Bodies(c)
      BY <1>1 DEF SameFrame, ProtectedSets, Bodies, Handlers
    <3>3. can_fold_into(d, y, z)
      BY DEF CanContract
    <3> QED BY <3>1, <3>2, <3>3 DEF can_fold_into, is_anchor
  <2>5. z # c.entry /\ ~is_exceptional(c.edges[x].kind)
    BY <1>1 DEF CanContract, SameFrame, Contracted
  <2>6. CanContract(c, y, z, x)
    BY <2>1, <2>2, <2>3, <2>4, <2>5 DEF CanContract
  <2> QED BY <1>6, <2>6 DEF ChainsWithin
<1> QED BY <1>7, <1>8

(* The edges at a block are finitely many. *)
LEMMA EdgesFinite ==
    ASSUME NEW c, WellFormed(c), NEW S \in SUBSET c.live_edges
    PROVE  IsFiniteSet(S) /\ Cardinality(S) \in Nat
<1>1. /\ c.edges \in Seq(EdgeRecord) /\ c.live_edges \subseteq 1..Len(c.edges)
      /\ Len(c.edges) \in Nat
  BY DEF WellFormed, CfgType, EdgeSlots
<1>2. IsFiniteSet(1..Len(c.edges))
  BY <1>1, FS_Interval
<1>3. IsFiniteSet(S)
  BY <1>1, <1>2, FS_Subset
<1> QED BY <1>3, FS_CardinalityType

(* Splitting an edge makes it, its second half and every edge that was not *)
(* critical no critical edge.                                              *)
LEMMA SplitLeaves ==
    ASSUME NEW c, WellFormed(c), NEW d, NEW e, NEW middle, NEW second,
           Bent(c, d, e, middle, second)
    PROVE  Critical(d) \subseteq Critical(c) \ {e}
<1> SUFFICES ASSUME NEW x \in Critical(d)
             PROVE  x \in Critical(c) \ {e}
  OBVIOUS
<1> DEFINE source == d.edges[x].source
           target == d.edges[x].target
<1>1. /\ x \in d.live_edges
      /\ Cardinality(outgoing(d, source)) >= 2 /\ Cardinality(incoming(d, target)) >= 2
  BY DEF Critical
<1>2. \A y \in c.live_edges : /\ c.edges[y].source # middle /\ c.edges[y].target # middle
                              /\ y # second
  BY DEF WellFormed, Bent
<1>3. x # e
  <2> SUFFICES ASSUME x = e PROVE FALSE
    OBVIOUS
  <2>1. target = middle
    BY DEF Bent
  <2>2. incoming(d, middle) = {e}
    BY <1>2 DEF incoming, Bent, WellFormed
  <2>3. Cardinality({e}) = 1
    BY FS_Singleton
  <2> QED BY <1>1, <2>1, <2>2, <2>3
<1>4. x # second
  <2> SUFFICES ASSUME x = second PROVE FALSE
    OBVIOUS
  <2>1. source = middle
    BY DEF Bent
  <2>2. outgoing(d, middle) = {second}
    BY <1>2 DEF outgoing, Bent
  <2>3. Cardinality({second}) = 1
    BY FS_Singleton
  <2> QED BY <1>1, <2>1, <2>2, <2>3
<1>5. /\ x \in c.live_edges /\ source = c.edges[x].source /\ target = c.edges[x].target
      /\ source # middle /\ target # middle
  BY <1>1, <1>2, <1>3, <1>4 DEF Bent
<1> HIDE DEF source, target
<1>6. outgoing(d, source) = outgoing(c, source)
  BY <1>2, <1>5 DEF outgoing, Bent
<1>7. Cardinality(incoming(d, target)) = Cardinality(incoming(c, target))
  <2>1. CASE target = c.edges[e].target
    <3> DEFINE S == incoming(c, target) \ {e}
    <3>1. incoming(d, target) = S \cup {second} /\ incoming(c, target) = S \cup {e}
      BY <1>2, <1>5, <2>1 DEF incoming, Bent
    <3>2. IsFiniteSet(S) /\ e \notin S /\ second \notin S
      BY <1>2, EdgesFinite DEF incoming
    <3> HIDE DEF S
    <3>3. /\ Cardinality(S \cup {second}) = Cardinality(S) + 1
          /\ Cardinality(S \cup {e}) = Cardinality(S) + 1
      BY <3>2, FS_AddElement
    <3> QED BY <3>1, <3>3
  <2>2. CASE target # c.edges[e].target
    <3>1. incoming(d, target) = incoming(c, target)
      BY <1>2, <1>5, <2>2 DEF incoming, Bent
    <3> QED BY <3>1
  <2> QED BY <2>1, <2>2
<1> QED BY <1>1, <1>3, <1>5, <1>6, <1>7 DEF Critical
-----------------------------------------------------------------------------
(* The lists. *)
Elements(todo) == {todo[i] : i \in DOMAIN todo}

LEMMA NextElements ==
    ASSUME NEW S, NEW todo \in Seq(S), todo # <<>>
    PROVE  /\ Elements(todo) \ {Head(todo)} \subseteq Elements(Tail(todo))
           /\ Head(todo) \in Elements(todo) /\ Tail(todo) \in Seq(S)
<1> DEFINE t == Tail(todo)
           n == Len(todo)
<1>1. /\ n \in Nat /\ n > 0 /\ DOMAIN todo = 1..n /\ DOMAIN t = 1..(n - 1)
      /\ Head(todo) = todo[1] /\ t \in Seq(S)
      /\ \A i \in DOMAIN t : t[i] = todo[i + 1]
  OBVIOUS
<1> HIDE DEF t, n
<1>2. ASSUME NEW i \in DOMAIN todo, todo[i] # Head(todo)
      PROVE  todo[i] \in Elements(t)
  <2>1. i \in 1..n /\ i # 1
    BY <1>1, <1>2
  <2>2. i - 1 \in 1..(n - 1) /\ (i - 1) + 1 = i
    BY <1>1, <2>1
  <2>3. todo[i] = t[i - 1]
    BY <1>1, <2>2
  <2> QED BY <1>1, <2>2, <2>3 DEF Elements
<1>3. Head(todo) \in Elements(todo)
  BY <1>1 DEF Elements
<1>4. Elements(todo) \ {Head(todo)} \subseteq Elements(t)
  BY <1>2 DEF Elements
<1> QED BY <1>1, <1>3, <1>4 DEF t

LEMMA NoElements == Elements(<<>>) = {}
BY DEF Elements

(* A list of the critical edges lists them all. *)
LEMMA CriticalListed ==
    ASSUME NEW c, WellFormed(c), NEW list \in CriticalLists(c)
    PROVE  Critical(c) \subseteq Elements(list)
<1> DEFINE C == Critical(c)
           N == Cardinality(C)
<1>1. C \in SUBSET c.live_edges
  BY DEF Critical
<1>2. IsFiniteSet(C) /\ N \in Nat
  BY <1>1, EdgesFinite
<1>3. /\ list \in [1..N -> C]
      /\ \A i, j \in DOMAIN list : i < j => list[i] # list[j]
  BY DEF CriticalLists
<1> HIDE DEF C, N
<1>4. ASSUME NEW i \in 1..N, NEW j \in 1..N, list[i] = list[j]
      PROVE  i = j
  <2>1. i \in Int /\ j \in Int /\ i \in DOMAIN list /\ j \in DOMAIN list
    BY <1>2, <1>3
  <2>2. ~(i < j) /\ ~(j < i)
    BY <1>3, <1>4, <2>1
  <2> QED BY <2>1, <2>2
<1>5. list \in Injection(1..N, C)
  BY <1>3, <1>4 DEF Injection, IsInjective
<1>6. Cardinality(1..N) = Cardinality(C)
  BY <1>2, FS_Interval DEF N
<1>7. list \in Surjection(1..N, C)
  BY <1>2, <1>5, <1>6, FS_Injection
<1>8. \A x \in C : \E i \in DOMAIN list : list[i] = x
  BY <1>3, <1>7 DEF Surjection
<1> QED BY <1>8 DEF Elements, C

(* The phases of a round of simplify, as they run out. *)
AfterUnreachable == Tail(SimplifyRound)
AfterEmpty == Tail(AfterUnreachable)

LEMMA Rounds ==
    /\ SimplifyRound # <<>> /\ AfterUnreachable # <<>> /\ AfterEmpty # <<>>
    /\ SimplifyRound # AfterUnreachable /\ SimplifyRound # AfterEmpty
    /\ AfterUnreachable # AfterEmpty
    /\ Head(SimplifyRound) = "unreachable" /\ Head(AfterUnreachable) = "empty"
    /\ Head(AfterEmpty) = "merge" /\ Tail(AfterEmpty) = <<>>
<1>1. AfterUnreachable = <<"empty", "merge">>
  BY DEF AfterUnreachable, SimplifyRound
<1>2. AfterEmpty = <<"merge">>
  BY <1>1 DEF AfterEmpty
<1>3. SimplifyRound = <<"unreachable", "empty", "merge">>
  BY DEF SimplifyRound
<1> QED BY <1>1, <1>2, <1>3

LEMMA OnePhase ==
    ASSUME NEW name
    PROVE  <<name>> # <<>> /\ Head(<<name>>) = name /\ Tail(<<name>>) = <<>>
OBVIOUS

(* The phases still to run. *)
PhasesLeft ==
    \/ /\ pass.name = "simplify"
       /\ pass.phases \in {SimplifyRound, AfterUnreachable, AfterEmpty, <<>>}
    \/ /\ pass.name \in {"unreachable", "empty", "merge", "critical"}
       /\ pass.phases \in {<<pass.name>>, <<>>}

(* A phase is over, and the graph has not been changed since. *)
Since(phase) ==
    CASE phase = "unreachable" -> {AfterUnreachable, AfterEmpty, <<>>}
      [] phase = "empty" -> {AfterEmpty, <<>>}
      [] phase = "merge" -> {<<>>}
      [] OTHER -> {}

Settled(phase) ==
    \/ pass.name = phase /\ pass.phases = <<>>
    \/ pass.name = "simplify" /\ ~pass.changed /\ pass.phases \in Since(phase)

NothingIn(phase, c, L) ==
    /\ phase = "unreachable" => c.live_blocks \subseteq Retained(c)
    /\ phase = "empty" => EmptyWithin(c, L)
    /\ phase = "merge" => ChainsWithin(c, L)
    /\ phase = "critical" => Critical(c) \subseteq L

AllPhases == {"unreachable", "empty", "merge", "critical"}

(* What a phase left is nothing, until the graph is changed again; what a  *)
(* running phase leaves is in its list.                                    *)
LeftInv ==
    /\ PhasesLeft
    /\ pass.changed \in BOOLEAN
    /\ \A phase \in AllPhases : Settled(phase) => NothingIn(phase, cfg, {})
    /\ pass.begun =>
          /\ pass.phases # <<>> /\ pass.todo \in Seq(Nat)
          /\ NothingIn(Phase, cfg, Elements(pass.todo))

(* The running phase is one of the four. *)
LEMMA PhaseOf ==
    ASSUME PhasesLeft, pass.phases # <<>>
    PROVE  /\ Phase \in AllPhases
           /\ \A p : In(p) <=> p = Phase
           /\ \/ pass.name = "simplify"
              \/ pass.name = Phase /\ Tail(pass.phases) = <<>>
           /\ pass.name = "simplify" =>
                /\ Phase = "unreachable" => /\ pass.phases = SimplifyRound
                                            /\ Tail(pass.phases) = AfterUnreachable
                /\ Phase = "empty" => /\ pass.phases = AfterUnreachable
                                      /\ Tail(pass.phases) = AfterEmpty
                /\ Phase = "merge" => /\ pass.phases = AfterEmpty
                                      /\ Tail(pass.phases) = <<>>
                /\ Phase # "critical"
<1>1. CASE pass.name = "simplify"
  <2>1. pass.phases \in {SimplifyRound, AfterUnreachable, AfterEmpty}
    BY <1>1 DEF PhasesLeft
  <2> QED BY <1>1, <2>1, Rounds DEF Phase, In, AllPhases, AfterUnreachable, AfterEmpty
<1>2. CASE pass.name # "simplify"
  <2>1. pass.phases = <<pass.name>> /\ pass.name \in AllPhases
    BY <1>2 DEF PhasesLeft, AllPhases
  <2>2. Phase = pass.name /\ Tail(pass.phases) = <<>>
    BY <2>1, OnePhase DEF Phase
  <2> QED BY <1>2, <2>1, <2>2 DEF In
<1> QED BY <1>1, <1>2

(* A step that changes the graph unsettles everything; the running phase   *)
(* answers for its own list.                                               *)
LEMMA LeftApplied ==
    ASSUME PassInv, LeftInv, pass.begun, NEW c, NEW map, NEW todo \in Seq(Nat),
           Apply(c, map, todo), NothingIn(Phase, c, Elements(todo))
    PROVE  LeftInv'
<1>1. /\ pass'.name = pass.name /\ pass'.phases = pass.phases
      /\ pass'.begun = pass.begun /\ pass'.todo = todo /\ pass'.changed = TRUE
      /\ cfg' = c
  BY DEF PassInv, PassShape, Apply
<1>2. pass.phases # <<>> /\ PhasesLeft
  BY DEF LeftInv
<1>3. PhasesLeft' /\ Phase' = Phase
  BY <1>1, <1>2 DEF PhasesLeft, Phase
<1>4. \A phase \in AllPhases : ~Settled(phase)'
  BY <1>1, <1>2 DEF Settled
<1>5. NothingIn(Phase, c, Elements(todo))'
  BY <1>1, <1>3 DEF NothingIn
<1> QED BY <1>1, <1>2, <1>3, <1>4, <1>5 DEF LeftInv

(* Passing over an element that needs no work. *)
LEMMA LeftSkipped ==
    ASSUME PassInv, LeftInv, pass.begun, pass.todo # <<>>, Skip,
           NothingIn(Phase, cfg, Elements(Tail(pass.todo)))
    PROVE  LeftInv'
<1>1. /\ pass'.name = pass.name /\ pass'.phases = pass.phases
      /\ pass'.begun = pass.begun /\ pass'.todo = Tail(pass.todo)
      /\ pass'.changed = pass.changed /\ cfg' = cfg
  BY DEF PassInv, PassShape, Skip
<1>2. pass.phases # <<>> /\ PhasesLeft /\ pass.todo \in Seq(Nat)
  BY DEF LeftInv
<1>3. PhasesLeft' /\ Phase' = Phase
  BY <1>1, <1>2 DEF PhasesLeft, Phase
<1>4. \A phase \in AllPhases : Settled(phase)' <=> Settled(phase)
  BY <1>1 DEF Settled
<1>5. Tail(pass.todo) \in Seq(Nat)
  BY <1>2, NextElements
<1> QED BY <1>1, <1>2, <1>3, <1>4, <1>5 DEF LeftInv

LEMMA LeftBegin ==
    ASSUME PassInv, LeftInv, Begin
    PROVE  LeftInv'
<1>1. PICK list \in IF Phase = "critical" THEN CriticalLists(cfg) ELSE Preorders(cfg) :
         pass' = [pass EXCEPT !.begun = TRUE, !.todo = list]
  BY DEF Begin
<1>2. /\ pass'.name = pass.name /\ pass'.phases = pass.phases
      /\ pass'.begun = TRUE /\ pass'.todo = list
      /\ pass'.changed = pass.changed /\ cfg' = cfg
  BY <1>1 DEF PassInv, PassShape, Begin
<1>3. pass.phases # <<>> /\ PhasesLeft /\ Phase # "unreachable" /\ WellFormed(cfg)
  BY DEF LeftInv, Begin, PassInv
<1>4. PhasesLeft' /\ Phase' = Phase
  BY <1>2, <1>3 DEF PhasesLeft, Phase
<1>5. \A phase \in AllPhases : Settled(phase)' <=> Settled(phase)
  BY <1>2 DEF Settled
<1>6. list \in Seq(Nat) /\ NothingIn(Phase, cfg, Elements(list))
  <2>1. CASE Phase = "critical"
    <3>1. list \in CriticalLists(cfg)
      BY <1>1, <2>1
    <3>2. list \in Seq(cfg.live_edges) /\ cfg.live_edges \subseteq Nat
      BY <1>3, <3>1, CriticalListsLive DEF WellFormed, CfgType
    <3>3. Critical(cfg) \subseteq Elements(list)
      BY <1>3, <3>1, CriticalListed
    <3> QED BY <2>1, <3>2, <3>3 DEF NothingIn
  <2>2. CASE Phase # "critical"
    <3>1. list \in Preorders(cfg)
      BY <1>1, <2>2
    <3>2. list \in Seq(Nat) /\ Entered(cfg) \subseteq Elements(list)
      BY ZenonT(40), <1>3, <3>1, PreorderAhead DEF Elements, Entered
    <3> QED BY <1>3, <2>2, <3>2 DEF NothingIn, EmptyWithin, ChainsWithin
  <2> QED BY <2>1, <2>2
<1>7. NothingIn(Phase, cfg, Elements(pass.todo))'
  BY <1>2, <1>4, <1>6
<1> QED BY <1>2, <1>3, <1>4, <1>5, <1>6, <1>7 DEF LeftInv

LEMMA LeftEndPhase ==
    ASSUME PassInv, LeftInv, EndPhase
    PROVE  LeftInv'
<1>1. /\ pass'.name = pass.name /\ pass'.phases = Tail(pass.phases)
      /\ pass'.begun = FALSE /\ pass'.changed = pass.changed /\ cfg' = cfg
  BY DEF PassInv, PassShape, EndPhase
<1>2. /\ pass.phases # <<>> /\ pass.begun /\ pass.todo = <<>> /\ PhasesLeft
      /\ pass.changed \in BOOLEAN
  BY DEF EndPhase, LeftInv
<1>3. Phase # "unreachable"
  BY <1>2 DEF PassInv, In
<1>4. NothingIn(Phase, cfg, {})
  BY <1>2, NoElements DEF LeftInv
<1>5. PhasesLeft'
  BY <1>1, <1>2, PhaseOf DEF PhasesLeft, AllPhases
<1>6. ASSUME NEW phase \in AllPhases, Settled(phase)', phase # Phase
      PROVE  Settled(phase)
  <2>1. pass.name = "simplify"
    BY <1>1, <1>2, <1>6, PhaseOf DEF Settled
  <2>2. ~pass.changed /\ Tail(pass.phases) \in Since(phase)
    BY <1>1, <1>6, <2>1 DEF Settled, AllPhases
  <2>3. pass.phases \in Since(phase)
    <3>1. CASE Phase = "empty"
      BY <1>2, <1>6, <2>1, <2>2, <3>1, PhaseOf, Rounds DEF Since, AllPhases
    <3>2. CASE Phase = "merge"
      BY <1>2, <1>6, <2>1, <2>2, <3>2, PhaseOf, Rounds DEF Since, AllPhases
    <3> QED BY <1>2, <1>3, <2>1, <3>1, <3>2, PhaseOf DEF AllPhases
  <2> QED BY <2>1, <2>2, <2>3 DEF Settled
<1>7. \A phase \in AllPhases : Settled(phase)' => NothingIn(phase, cfg, {})
  BY <1>4, <1>6 DEF LeftInv
<1> QED BY <1>1, <1>2, <1>5, <1>7 DEF LeftInv

LEMMA LeftNextRound ==
    ASSUME LeftInv, NextRound
    PROVE  LeftInv'
<1>1. /\ pass'.name = "simplify" /\ pass'.phases = SimplifyRound
      /\ pass'.begun = FALSE /\ pass'.changed = FALSE
  BY DEF NextRound, Started, PhasesOf
<1>2. \A phase \in AllPhases : ~Settled(phase)'
  BY <1>1, Rounds DEF Settled, Since, AllPhases
<1> QED BY <1>1, <1>2 DEF LeftInv, PhasesLeft

LEMMA LeftUnreachable ==
    ASSUME PassInv, PassInv', LeftInv, remove_unreachable
    PROVE  LeftInv'
<1>1. /\ pass'.name = pass.name /\ pass'.phases = Tail(pass.phases)
      /\ pass'.begun = pass.begun /\ pass'.changed \in BOOLEAN
  BY DEF PassInv, PassShape, remove_unreachable
<1>2. /\ pass.phases # <<>> /\ Phase = "unreachable" /\ ~pass.begun /\ PhasesLeft
  BY DEF remove_unreachable, In, PassInv, LeftInv
<1>3. PhasesLeft'
  BY <1>1, <1>2, PhaseOf DEF PhasesLeft, AllPhases
<1>4. \A phase \in AllPhases : Settled(phase)' => phase = "unreachable"
  <2> SUFFICES ASSUME NEW phase \in AllPhases, Settled(phase)', phase # "unreachable"
               PROVE  FALSE
    OBVIOUS
  <2>1. pass.name = "simplify"
    BY <1>1, <1>2, PhaseOf DEF Settled
  <2>2. AfterUnreachable \in Since(phase)
    BY <1>1, <1>2, <2>1, PhaseOf DEF Settled, AllPhases
  <2> QED BY <2>2, Rounds DEF Since, AllPhases
<1>5. OnlyRetained(cfg, cfg')
  BY UnreachableRetains DEF PassInv
<1>6. (cfg.live_blocks \subseteq Retained(cfg))'
  <2>1. PICK d : d = cfg'
    OBVIOUS
  <2>2. d.live_blocks = Retained(cfg) /\ Retained(d) = Retained(cfg)
    BY <1>5, <2>1, RetainedAgain DEF OnlyRetained, PassInv
  <2> QED BY <2>1, <2>2
<1>7. NothingIn("unreachable", cfg, {})'
  BY <1>6 DEF NothingIn
<1>8. \A phase \in AllPhases : Settled(phase)' => NothingIn(phase, cfg, {})'
  BY <1>4, <1>7
<1> QED BY <1>1, <1>2, <1>3, <1>8 DEF LeftInv

LEMMA LeftEmpty ==
    ASSUME PassInv, Once(cfg), LeftInv, remove_empty_blocks
    PROVE  LeftInv'
<1> DEFINE b == Head(pass.todo)
           rest == Tail(pass.todo)
<1>1. /\ pass.begun /\ pass.todo # <<>> /\ pass.phases # <<>> /\ Phase = "empty"
      /\ WellFormed(cfg) /\ pass.todo \in Seq(Nat)
      /\ EmptyWithin(cfg, Elements(pass.todo))
  BY DEF remove_empty_blocks, Working, In, PassInv, LeftInv, NothingIn
<1>2. /\ rest \in Seq(Nat) /\ Elements(pass.todo) \ {b} \subseteq Elements(rest)
  BY <1>1, NextElements
<1>3. CASE (~\E e \in cfg.live_edges : Bypassable(cfg, b, e)) /\ Skip
  <2>1. EmptyWithin(cfg, Elements(rest))
    BY <1>1, <1>2, <1>3 DEF EmptyWithin
  <2>2. NothingIn(Phase, cfg, Elements(rest))
    BY <1>1, <2>1 DEF NothingIn
  <2> QED BY <1>1, <1>3, <2>2, LeftSkipped
<1>4. ASSUME NEW e \in cfg.live_edges, Bypassable(cfg, b, e),
             Apply(bypass(cfg, b, e), bypass_rewrite(pass.map, cfg, b, e), rest)
      PROVE  LeftInv'
  <2> DEFINE d == bypass(cfg, b, e)
  <2>1. Bypassed(cfg, d, b, cfg.edges[e].target, e)
    BY <1>1, <1>4, BypassBypasses
  <2> HIDE DEF d
  <2>2. EmptyWithin(d, Elements(pass.todo) \ {b})
    BY <1>1, <2>1, BypassLeaves
  <2>3. EmptyWithin(d, Elements(rest))
    BY <1>2, <2>2 DEF EmptyWithin
  <2>4. NothingIn(Phase, d, Elements(rest))
    BY <1>1, <2>3 DEF NothingIn
  <2>5. Apply(d, bypass_rewrite(pass.map, cfg, b, e), rest)
    BY <1>4 DEF d
  <2> QED BY <1>1, <1>2, <2>4, <2>5, LeftApplied
<1> QED BY <1>3, <1>4 DEF remove_empty_blocks

LEMMA LeftMerge ==
    ASSUME PassInv, Once(cfg), LeftInv, merge_blocks
    PROVE  LeftInv'
<1> DEFINE b == Head(pass.todo)
           rest == Tail(pass.todo)
           Can(e) == cfg.edges[e].source = b /\ CanContract(cfg, b, cfg.edges[e].target, e)
<1>1. /\ pass.begun /\ pass.todo # <<>> /\ pass.phases # <<>> /\ Phase = "merge"
      /\ WellFormed(cfg) /\ pass.todo \in Seq(Nat)
      /\ ChainsWithin(cfg, Elements(pass.todo))
  BY DEF merge_blocks, Working, In, PassInv, LeftInv, NothingIn
<1>2. /\ rest \in Seq(Nat) /\ Elements(pass.todo) \ {b} \subseteq Elements(rest)
      /\ b \in Elements(pass.todo)
  BY <1>1, NextElements
<1>3. CASE ~(b \in cfg.live_blocks /\ \E e \in cfg.live_edges : Can(e)) /\ Skip
  <2>1. ASSUME NEW t \in Entered(cfg), NEW e \in cfg.live_edges, b \in Entered(cfg),
               CanContract(cfg, b, t, e)
        PROVE  FALSE
    <3>1. cfg.edges[e].source = b /\ cfg.edges[e].target = t
      BY <2>1 DEF CanContract, outgoing, incoming
    <3>2. b \in cfg.live_blocks
      BY <1>1, <2>1, EnteredFacts
    <3> QED BY <1>3, <2>1, <3>1, <3>2
  <2>2. ChainsWithin(cfg, Elements(rest))
    <3> HIDE DEF Can
    <3> QED BY <1>1, <1>2, <2>1 DEF ChainsWithin
  <2>3. NothingIn(Phase, cfg, Elements(rest))
    BY <1>1, <2>2 DEF NothingIn
  <2> QED BY <1>1, <1>3, <2>3, LeftSkipped
<1>4. ASSUME b \in cfg.live_blocks, NEW e \in cfg.live_edges,
             CanContract(cfg, b, cfg.edges[e].target, e),
             Apply(contract_edge(cfg, b, cfg.edges[e].target, e),
                   contract_edge_rewrite(pass.map, cfg, b, cfg.edges[e].target, e),
                   pass.todo)
      PROVE  LeftInv'
  <2> DEFINE t == cfg.edges[e].target
             d == contract_edge(cfg, b, t, e)
  <2>1. t \in cfg.live_blocks
    BY <1>1 DEF WellFormed
  <2>2. Contracted(cfg, d, b, t, e)
    <3> HIDE DEF t
    <3> QED BY <1>1, <1>4, <2>1, ContractContracts DEF t
  <2> HIDE DEF d
  <2>3. ChainsWithin(d, Elements(pass.todo))
    BY <1>1, <1>2, <2>2, ContractLeaves
  <2>4. NothingIn(Phase, d, Elements(pass.todo))
    BY <1>1, <2>3 DEF NothingIn
  <2>5. Apply(d, contract_edge_rewrite(pass.map, cfg, b, t, e), pass.todo)
    BY <1>4 DEF d
  <2> QED BY <1>1, <2>4, <2>5, LeftApplied
<1> QED BY <1>3, <1>4 DEF merge_blocks

LEMMA LeftCritical ==
    ASSUME PassInv, LeftInv, split_critical_edges
    PROVE  LeftInv'
<1> DEFINE e == Head(pass.todo)
           rest == Tail(pass.todo)
           d == split_edge(cfg, e)
           middle == Len(cfg.instructions) + 1
           second == Len(cfg.edges) + 1
<1>1. /\ pass.begun /\ pass.todo # <<>> /\ pass.phases # <<>> /\ Phase = "critical"
      /\ WellFormed(cfg) /\ pass.todo \in Seq(Nat) /\ pass.todo \in Seq(cfg.live_edges)
      /\ Critical(cfg) \subseteq Elements(pass.todo)
  BY DEF split_critical_edges, Working, In, PassInv, ListLive, LeftInv, NothingIn
<1>2. rest \in Seq(Nat) /\ Elements(pass.todo) \ {e} \subseteq Elements(rest)
  BY <1>1, NextElements
<1>3. e \in cfg.live_edges
  BY <1>1, Taken
<1>4. Bent(cfg, d, e, middle, second)
  BY <1>1, <1>3, SplitBends
<1>5. Apply(d, split_edge_rewrite(pass.map, cfg, e), rest)
  BY DEF split_critical_edges
<1> HIDE DEF d, middle, second
<1>6. Critical(d) \subseteq Critical(cfg) \ {e}
  BY <1>1, <1>4, SplitLeaves
<1>7. NothingIn(Phase, d, Elements(rest))
  BY <1>1, <1>2, <1>6 DEF NothingIn
<1> QED BY <1>1, <1>2, <1>5, <1>7, LeftApplied

LEMMA LeftInit ==
    ASSUME PassInit
    PROVE  LeftInv
<1>1. PICK name \in Passes : pass = Started(name)
  BY DEF PassInit
<1>2. /\ pass.name = name /\ pass.phases = PhasesOf(name) /\ pass.begun = FALSE
      /\ pass.changed = FALSE
  BY <1>1 DEF Started
<1>3. name \in {"simplify", "unreachable", "empty", "merge", "critical"}
  BY PassAssumption
<1>4. PhasesLeft
  BY <1>2, <1>3 DEF PhasesLeft, PhasesOf
<1>5. \A phase \in AllPhases : ~Settled(phase)
  BY <1>2, <1>3, Rounds, OnePhase DEF Settled, PhasesOf, Since, AllPhases
<1> QED BY <1>2, <1>4, <1>5, PassRecordInit DEF LeftInv

LEMMA LeftPreserved ==
    ASSUME PassRecordInv, LeftInv, [PassNext]_passVars
    PROVE  LeftInv'
<1>1. PassRecordInv'
  BY PassRecordPreserved
<1>2. PassInv /\ PassInv' /\ Once(cfg)
  BY <1>1 DEF PassRecordInv
<1>3. CASE UNCHANGED passVars
  <2>1. cfg' = cfg /\ pass' = pass
    BY <1>3 DEF passVars
  <2> QED BY <1>1, <2>1 DEF LeftInv, PhasesLeft, Settled, Phase
<1> QED BY <1>1, <1>2, <1>3, LeftBegin, LeftEndPhase, LeftNextRound, LeftUnreachable,
           LeftEmpty, LeftMerge, LeftCritical DEF PassNext

(* When a pass returns, running it again would find nothing to do: one     *)
(* walk over a list taken before the first change is enough for            *)
(* remove_empty_blocks, merge_blocks and split_critical_edges, and a round *)
(* of simplify that changes nothing proves all three at once.              *)
THEOREM NothingIsLeft == PassSpec => []NothingLeft
<1>1. PassInit => PassRecordInv /\ LeftInv
  BY PassRecordInit, LeftInit
<1>2. PassRecordInv /\ LeftInv /\ [PassNext]_passVars => PassRecordInv' /\ LeftInv'
  BY PassRecordPreserved, LeftPreserved
<1>3. PassRecordInv /\ LeftInv => NothingLeft
  <2> SUFFICES ASSUME LeftInv, Done PROVE NothingLeft
    BY DEF NothingLeft
  <2>1. /\ pass.phases = <<>> /\ ~(pass.name = "simplify" /\ pass.changed) /\ PhasesLeft
    BY DEF Done, LeftInv
  <2>2. \A phase \in AllPhases : Settled(phase) => NothingIn(phase, cfg, {})
    BY DEF LeftInv
  <2>3. CASE pass.name = "simplify"
    <3>1. Settled("unreachable") /\ Settled("empty") /\ Settled("merge")
      BY <2>1, <2>3 DEF Settled, Since
    <3>2. /\ NothingIn("unreachable", cfg, {}) /\ NothingIn("empty", cfg, {})
          /\ NothingIn("merge", cfg, {})
      BY <2>2, <3>1 DEF AllPhases
    <3> QED BY <2>3, <3>2
            DEF NothingLeft, NothingIn, EmptyWithin, ChainsWithin, Entered
  <2>4. CASE pass.name \in AllPhases
    <3>1. NothingIn(pass.name, cfg, {})
      BY <2>1, <2>2, <2>4 DEF Settled
    <3> QED BY <2>4, <3>1
            DEF NothingLeft, NothingIn, EmptyWithin, ChainsWithin, Entered, AllPhases
  <2> QED BY <2>1, <2>3, <2>4 DEF PhasesLeft, AllPhases
<1> QED BY <1>1, <1>2, <1>3, PTL DEF PassSpec

-----------------------------------------------------------------------------
(* What code comes first.  From the blocks B control passes through empty  *)
(* blocks; it stops at a block that has code, or that ends the function.   *)
Blank(c, b) == c.instructions[b] = <<>>

Passing(c, B) ==
    {b \in Slots(c) :
        \A T \in SUBSET Slots(c) :
           /\ B \subseteq T
           /\ \A a \in T : Blank(c, a) => successors(c, a) \subseteq T
           => b \in T}

Ends(c, b) == Blank(c, b) => outgoing(c, b) = {}
Shows(c, b) == IF Blank(c, b) THEN 0 ELSE Head(c.instructions[b])

LEMMA FirstCodeIs ==
    ASSUME NEW c, NEW B
    PROVE  FirstCode(c, B) = {Shows(c, b) : b \in {a \in Passing(c, B) : Ends(c, a)}}
BY DEF FirstCode, Passing, Ends, Shows, Blank

(* The edges that are there lead to slots. *)
Lands(c) ==
    \A e \in c.live_edges : c.edges[e].source \in Slots(c) /\ c.edges[e].target \in Slots(c)

(* A set of blocks that control cannot leave through an empty block. *)
Through(c, T) ==
    \A e \in c.live_edges :
       c.edges[e].source \in T /\ Blank(c, c.edges[e].source) => c.edges[e].target \in T

LEMMA PassingHolds ==
    ASSUME NEW c, Lands(c), NEW B \in SUBSET Slots(c)
    PROVE  B \subseteq Passing(c, B) /\ Passing(c, B) \subseteq Slots(c)
           /\ Through(c, Passing(c, B))
<1>1. B \subseteq Passing(c, B) /\ Passing(c, B) \subseteq Slots(c)
  BY DEF Passing
<1>2. Through(c, Passing(c, B))
  <2> SUFFICES ASSUME NEW e \in c.live_edges, c.edges[e].source \in Passing(c, B),
                      Blank(c, c.edges[e].source)
               PROVE  c.edges[e].target \in Passing(c, B)
    BY DEF Through
  <2>1. PICK a : a = c.edges[e].source
    OBVIOUS
  <2>2. PICK t : t = c.edges[e].target
    OBVIOUS
  <2>3. t \in Slots(c) /\ t \in successors(c, a) /\ a \in Passing(c, B) /\ Blank(c, a)
    BY <2>1, <2>2 DEF Lands, successors, outgoing
  <2>4. t \in Passing(c, B)
    BY <2>3 DEF Passing
  <2> QED BY <2>2, <2>4
<1> QED BY <1>1, <1>2

LEMMA PassingLeast ==
    ASSUME NEW c, NEW B, NEW T \in SUBSET Slots(c), B \subseteq T, Through(c, T)
    PROVE  Passing(c, B) \subseteq T
<1>1. \A a \in T : Blank(c, a) => successors(c, a) \subseteq T
  BY DEF Through, successors, outgoing
<1> QED BY <1>1 DEF Passing

(* To show that what comes first in one graph comes first in another: a    *)
(* set that control cannot leave, whose stops are matched in the other.    *)
LEMMA FirstCodeMatched ==
    ASSUME NEW c, NEW d, NEW B, NEW B2, NEW T \in SUBSET Slots(c),
           B \subseteq T, Through(c, T),
           \A x \in T : Ends(c, x) =>
              \E y \in Passing(d, B2) : Ends(d, y) /\ Shows(d, y) = Shows(c, x)
    PROVE  FirstCode(c, B) \subseteq FirstCode(d, B2)
<1>1. Passing(c, B) \subseteq T
  BY PassingLeast
<1> QED BY <1>1, FirstCodeIs

LEMMA WellFormedLands ==
    ASSUME NEW c, WellFormed(c)
    PROVE  Lands(c)
BY DEF WellFormed, Lands

(* The stops of one set of blocks, by what is known of a single one. *)
LEMMA FirstCodeOfCode ==
    ASSUME NEW c, Lands(c), NEW a \in Slots(c), ~Blank(c, a)
    PROVE  FirstCode(c, {a}) = {Head(c.instructions[a])}
<1>1. {a} \in SUBSET Slots(c) /\ Through(c, {a})
  BY DEF Through
<1>2. Passing(c, {a}) = {a}
  BY <1>1, PassingLeast, PassingHolds
<1> QED BY <1>2, FirstCodeIs DEF Ends, Shows

LEMMA FirstCodeOfEnd ==
    ASSUME NEW c, Lands(c), NEW a \in Slots(c), Blank(c, a), outgoing(c, a) = {}
    PROVE  FirstCode(c, {a}) = {0}
<1>1. {a} \in SUBSET Slots(c) /\ Through(c, {a})
  BY DEF Through, outgoing
<1>2. Passing(c, {a}) = {a}
  BY <1>1, PassingLeast, PassingHolds
<1> QED BY <1>2, FirstCodeIs DEF Ends, Shows

LEMMA FirstCodeOfBlank ==
    ASSUME NEW c, Lands(c), NEW a \in Slots(c), Blank(c, a), outgoing(c, a) # {}
    PROVE  FirstCode(c, {a}) = FirstCode(c, successors(c, a))
<1> DEFINE P == Passing(c, {a})
           Q == Passing(c, successors(c, a))
<1>1. successors(c, a) \in SUBSET Slots(c)
  BY DEF successors, outgoing, Lands
<1>2. a \in P /\ P \subseteq Slots(c) /\ Through(c, P)
  BY PassingHolds
<1>3. successors(c, a) \subseteq Q /\ Q \subseteq Slots(c) /\ Through(c, Q)
  BY <1>1, PassingHolds
<1>4. successors(c, a) \subseteq P
  BY <1>2 DEF Through, successors, outgoing
<1>5. Q \subseteq P
  BY <1>2, <1>4, PassingLeast
<1>6. Through(c, Q \cup {a})
  BY <1>3 DEF Through, successors, outgoing
<1>7. P \subseteq Q \cup {a}
  BY <1>3, <1>6, PassingLeast
<1>8. ~Ends(c, a)
  BY DEF Ends
<1>9. {x \in P : Ends(c, x)} = {x \in Q : Ends(c, x)}
  BY <1>5, <1>7, <1>8
<1> QED BY <1>9, FirstCodeIs
-----------------------------------------------------------------------------
(* Who may follow whom. *)
Steps(c, B) ==
    UNION {{<<c.instructions[b][i], NextCode(c, b, i)>> :
              i \in DOMAIN c.instructions[b]} : b \in B}

LEMMA StepsMember ==
    ASSUME NEW c, NEW B, NEW p
    PROVE  p \in Steps(c, B) <=>
             \E b \in B : \E i \in DOMAIN c.instructions[b] :
                p = <<c.instructions[b][i], NextCode(c, b, i)>>
BY DEF Steps

(* Every handler has an entry and every continuation a block to resume at. *)
Named(c) ==
    /\ \A h \in Handlers(c) : h.entry # 0
    /\ \A k \in Cleanups(c) : \A t \in k.continuations : t.resume # 0

LEMMA FlowKept ==
    ASSUME NEW c, NEW d, SameFrame(c, d), Named(c), NEW B, NEW K,
           Steps(d, K) = Steps(c, B),
           \A x \in {c.entry} \cup anchors(c) : FirstCode(d, {x}) = FirstCode(c, {x})
    PROVE  Flow(d, K) = Flow(c, B)
<1>1. Handlers(d) = Handlers(c) /\ Cleanups(d) = Cleanups(c) /\ d.entry = c.entry
  BY DEF Handlers, Cleanups, SameFrame
<1>2. \A h \in Handlers(c) : h.entry \in anchors(c)
  BY DEF Named, anchors
<1>3. \A k \in Cleanups(c) : \A t \in k.continuations : t.resume \in anchors(c)
  BY DEF Named, anchors
<1>4. {FirstCode(d, {h.entry}) : h \in Handlers(d)} = {FirstCode(c, {h.entry}) : h \in Handlers(c)}
  BY <1>1, <1>2
<1> DEFINE D(t) == <<t.reason, FirstCode(d, {t.resume})>>
           C(t) == <<t.reason, FirstCode(c, {t.resume})>>
<1>5. \A k \in Cleanups(c) : \A t \in k.continuations : D(t) = C(t)
  BY <1>3
<1>6. UNION {{D(t) : t \in k.continuations} : k \in Cleanups(d)}
        = UNION {{C(t) : t \in k.continuations} : k \in Cleanups(c)}
  <2> HIDE DEF D, C
  <2> QED BY <1>1, <1>5
<1>7. FirstCode(d, {d.entry}) = FirstCode(c, {c.entry})
  BY <1>1
<1> QED BY <1>4, <1>6, <1>7 DEF Flow, Steps

(* Blocks that come or go have no code, and the others keep theirs. *)
LEMMA StepsKept ==
    ASSUME NEW c, NEW d, NEW B, NEW K,
           \A x \in K \cap B : /\ d.instructions[x] = c.instructions[x]
                               /\ \A i : NextCode(d, x, i) = NextCode(c, x, i),
           \A x \in B \ K : c.instructions[x] = <<>>,
           \A x \in K \ B : d.instructions[x] = <<>>
    PROVE  Steps(d, K) = Steps(c, B)
<1>1. DOMAIN <<>> = {}
  OBVIOUS
<1>2. \A p : p \in Steps(d, K) <=> p \in Steps(c, B)
  BY <1>1, StepsMember
<1> QED BY <1>2

LEMMA TagsMember ==
    ASSUME NEW c, NEW B, NEW tag
    PROVE  tag \in Tags(c, B) <=>
             \E b \in B : \E i \in DOMAIN c.instructions[b] : tag = c.instructions[b][i]
BY DEF Tags

(* Code is where it was: in the same protected ranges and handler bodies. *)
InPlace(c, d, tag) ==
    \A S \in ProtectedSets(c) \cup Bodies(c) :
       tag \in Tags(d, S \cap d.live_blocks) <=> tag \in Tags(c, S \cap c.live_blocks)

LEMMA PlaceKept ==
    ASSUME NEW c, NEW d, SameFrame(c, d), NEW tag, InPlace(c, d, tag)
    PROVE  RegionsOf(d, tag) = RegionsOf(c, tag) /\ HandlersOf(d, tag) = HandlersOf(c, tag)
<1>1. d.regions = c.regions /\ HandlerRefs(d) = HandlerRefs(c)
  BY DEF SameFrame, HandlerRefs
<1>2. \A r \in DOMAIN c.regions : c.regions[r].protected_blocks \in ProtectedSets(c)
  BY DEF ProtectedSets
<1>3. \A h \in HandlerRefs(c) :
         LET body == c.regions[h.region].handlers[h.index].body
         IN  body # <<>> => body[1] \in Bodies(c)
  <2> SUFFICES ASSUME NEW h \in HandlerRefs(c),
                      c.regions[h.region].handlers[h.index].body # <<>>
               PROVE  c.regions[h.region].handlers[h.index].body[1] \in Bodies(c)
    OBVIOUS
  <2>1. PICK r \in DOMAIN c.regions : \E i \in DOMAIN c.regions[r].handlers :
           h = [region |-> r, index |-> i]
    BY DEF HandlerRefs
  <2>2. PICK i \in DOMAIN c.regions[r].handlers : h = [region |-> r, index |-> i]
    BY <2>1
  <2>3. h.region = r /\ h.index = i /\ c.regions[r].handlers[i] \in Handlers(c)
    BY <2>2 DEF Handlers
  <2> QED BY <2>3 DEF Bodies
<1>4. RegionsOf(d, tag) = RegionsOf(c, tag)
  BY SMTT(30), <1>1, <1>2 DEF RegionsOf, InPlace
<1>5. HandlersOf(d, tag) = HandlersOf(c, tag)
  BY <1>1, <1>3 DEF HandlersOf, InPlace
<1> QED BY <1>4, <1>5

(* What a step of a pass keeps. *)
KeepsCode(c, d) ==
    /\ Flow(d, Retained(d)) = Flow(c, Retained(c))
    /\ \A tag \in Tags(d, Retained(d)) :
          /\ tag \in Tags(c, Retained(c))
          /\ RegionsOf(d, tag) = RegionsOf(c, tag)
          /\ HandlersOf(d, tag) = HandlersOf(c, tag)

(* In every step of a pass, what comes first after the roots and what      *)
(* follows each instruction is compared block by block.                    *)
LEMMA NextKept ==
    ASSUME NEW c, NEW d, NEW x, d.instructions[x] = c.instructions[x],
           outgoing(d, x) = outgoing(c, x),
           FirstCode(d, successors(d, x)) = FirstCode(c, successors(c, x))
    PROVE  \A i : NextCode(d, x, i) = NextCode(c, x, i)
BY DEF NextCode

(* Both sets reach the same stops. *)
LEMMA SameStop ==
    ASSUME NEW c, NEW d, NEW x, d.instructions[x] = c.instructions[x],
           outgoing(d, x) = outgoing(c, x)
    PROVE  (Ends(d, x) <=> Ends(c, x)) /\ Shows(d, x) = Shows(c, x)
           /\ (Blank(d, x) <=> Blank(c, x))
BY DEF Ends, Shows, Blank

(* remove_unreachable: nothing that is reached leads to what goes. *)
LEMMA UnreachableFirst ==
    ASSUME NEW c, WellFormed(c), NEW d, OnlyRetained(c, d),
           NEW B \in SUBSET Retained(c)
    PROVE  FirstCode(d, B) = FirstCode(c, B)
<1> DEFINE R == Retained(c)
           P == Passing(c, B)
           Q == Passing(d, B)
<1>1. R \subseteq Slots(c) /\ Closed(c, R) /\ Slots(d) = Slots(c)
  BY RootsLive, ReachableHolds DEF Retained, OnlyRetained, Slots
<1>2. Lands(c) /\ Lands(d)
  BY WellFormedLands DEF OnlyRetained
<1>3. B \subseteq P /\ P \subseteq Slots(c) /\ Through(c, P)
  BY <1>1, <1>2, PassingHolds
<1>4. B \subseteq Q /\ Q \subseteq Slots(c) /\ Through(d, Q)
  BY <1>1, <1>2, PassingHolds
<1>5. \A x \in R : d.instructions[x] = c.instructions[x] /\ outgoing(d, x) = outgoing(c, x)
  BY <1>1 DEF OnlyRetained, outgoing, Closed
<1>6. \A x \in R : /\ Ends(d, x) <=> Ends(c, x)
                   /\ Shows(d, x) = Shows(c, x)
                   /\ Blank(d, x) <=> Blank(c, x)
  BY <1>5, SameStop
<1>7. Through(c, Q \cap R)
  BY <1>1, <1>4, <1>6 DEF Through, Closed, OnlyRetained
<1>8. Through(d, P \cap R)
  BY <1>1, <1>3, <1>6 DEF Through, Closed, OnlyRetained
<1> HIDE DEF R, P, Q
<1>9. FirstCode(c, B) \subseteq FirstCode(d, B)
  <2>1. \A x \in Q \cap R : Ends(c, x) =>
           \E y \in Passing(d, B) : Ends(d, y) /\ Shows(d, y) = Shows(c, x)
    BY <1>6 DEF Q
  <2>2. Q \cap R \in SUBSET Slots(c) /\ B \subseteq Q \cap R
    BY <1>1, <1>4 DEF R
  <2> QED BY <1>7, <2>1, <2>2, FirstCodeMatched
<1>10. FirstCode(d, B) \subseteq FirstCode(c, B)
  <2>1. \A x \in P \cap R : Ends(d, x) =>
           \E y \in Passing(c, B) : Ends(c, y) /\ Shows(c, y) = Shows(d, x)
    BY <1>6 DEF P
  <2>2. P \cap R \in SUBSET Slots(d) /\ B \subseteq P \cap R
    BY <1>1, <1>3 DEF R
  <2> QED BY <1>8, <2>1, <2>2, FirstCodeMatched
<1> QED BY <1>9, <1>10

LEMMA UnreachableKeepsCode ==
    ASSUME NEW c, WellFormed(c), Once(c), Named(c), NEW d, OnlyRetained(c, d)
    PROVE  KeepsCode(c, d)
<1> DEFINE R == Retained(c)
<1>1. /\ R \subseteq Slots(c) /\ Closed(c, R) /\ R \subseteq c.live_blocks
      /\ {c.entry} \cup anchors(c) \subseteq R
  BY RootsLive, RootsReached, ReachableHolds, ReachableLive DEF Retained
<1>2. Retained(d) = R
  BY RetainedAgain
<1>3. SameFrame(c, d) /\ d.instructions = c.instructions /\ d.live_blocks = R
  BY DEF OnlyRetained
<1>4. \A x \in {c.entry} \cup anchors(c) : FirstCode(d, {x}) = FirstCode(c, {x})
  BY <1>1, UnreachableFirst
<1>5. ASSUME NEW x \in R
      PROVE  \A i : NextCode(d, x, i) = NextCode(c, x, i)
  <2>1. outgoing(d, x) = outgoing(c, x)
    BY <1>1 DEF OnlyRetained, outgoing, Closed
  <2>2. successors(d, x) = successors(c, x)
    BY <2>1 DEF successors, OnlyRetained
  <2>3. successors(c, x) \in SUBSET R
    BY <1>1 DEF successors, outgoing, Closed
  <2>4. FirstCode(d, successors(c, x)) = FirstCode(c, successors(c, x))
    BY <2>3, UnreachableFirst
  <2> QED BY <1>3, <2>1, <2>2, <2>4, NextKept
<1>6. Steps(d, R) = Steps(c, R)
  BY <1>3, <1>5, StepsKept
<1>7. Flow(d, R) = Flow(c, R)
  <2>1. SameFrame(c, d)
    BY <1>3
  <2>2. \A x \in {c.entry} \cup anchors(c) : FirstCode(d, {x}) = FirstCode(c, {x})
    BY <1>4
  <2> QED BY <2>1, <2>2, <1>6, FlowKept
<1>8. ASSUME NEW tag \in Tags(d, R)
      PROVE  tag \in Tags(c, R) /\ InPlace(c, d, tag)
  <2>1. PICK x \in R : \E i \in DOMAIN c.instructions[x] : tag = c.instructions[x][i]
    BY <1>3 DEF Tags
  <2>2. \A y \in Slots(c) :
           (\E i \in DOMAIN c.instructions[y] : tag = c.instructions[y][i]) => y = x
    BY <1>1, <2>1 DEF Once
  <2>3. tag \in Tags(c, R)
    BY <2>1, TagsMember
  <2>4. \A S : tag \in Tags(d, S \cap R) <=> tag \in Tags(c, S \cap c.live_blocks)
    <3> HIDE DEF R
    <3>1. \A S : tag \in Tags(d, S \cap R) <=> x \in S
      BY <1>1, <1>3, <2>1, <2>2, TagsMember
    <3>2. \A S : tag \in Tags(c, S \cap c.live_blocks) <=> x \in S
      BY <1>1, <2>1, <2>2, TagsMember DEF WellFormed
    <3> QED BY <3>1, <3>2
  <2> QED BY <1>3, <2>3, <2>4 DEF InPlace
<1> QED BY <1>2, <1>3, <1>7, <1>8, PlaceKept DEF KeepsCode
-----------------------------------------------------------------------------
(* remove_empty_blocks: whoever came to b now comes to t, where b led. *)
Goes(b, t, x) == IF x = b THEN t ELSE x

LEMMA BypassFirst ==
    ASSUME NEW c, WellFormed(c), NEW d, NEW b, NEW t, NEW e, Bypassed(c, d, b, t, e),
           NEW B \in SUBSET Slots(c)
    PROVE  FirstCode(d, {Goes(b, t, x) : x \in B}) = FirstCode(c, B)
<1> DEFINE F == {Goes(b, t, x) : x \in B}
           P == Passing(c, B)
           Q == Passing(d, F)
           T == {x \in Slots(c) : Goes(b, t, x) \in Q}
<1>1. /\ Lands(c) /\ Lands(d) /\ Slots(d) = Slots(c)
      /\ t # b /\ e \in c.live_edges /\ c.edges[e].source = b /\ c.edges[e].target = t
      /\ Blank(c, b) /\ b \in Slots(c)
  BY WellFormedLands DEF Bypassed, Slots, outgoing, Blank, WellFormed
<1>2. t \in Slots(c) /\ F \in SUBSET Slots(c)
  BY <1>1 DEF Lands, Goes
<1>3. B \subseteq P /\ P \subseteq Slots(c) /\ Through(c, P)
  BY <1>1, PassingHolds
<1>4. F \subseteq Q /\ Q \subseteq Slots(c) /\ Through(d, Q)
  BY <1>1, <1>2, PassingHolds
<1>5. \A x \in Slots(c) \ {b} : /\ d.instructions[x] = c.instructions[x]
                                /\ outgoing(d, x) = outgoing(c, x)
  BY <1>1 DEF Bypassed, outgoing
<1>6. \A x \in Slots(c) \ {b} : /\ Ends(d, x) <=> Ends(c, x)
                                /\ Shows(d, x) = Shows(c, x)
                                /\ Blank(d, x) <=> Blank(c, x)
  BY <1>5, SameStop
<1>7. ~Ends(c, b)
  BY <1>1 DEF Ends, outgoing
<1>8. \A x \in c.live_edges \ {e} :
         /\ x \in d.live_edges /\ c.edges[x].source # b
         /\ d.edges[x].source = c.edges[x].source
         /\ d.edges[x].target = Goes(b, t, c.edges[x].target)
  BY DEF Bypassed, outgoing, Goes
<1>9. d.live_edges = c.live_edges \ {e}
  BY DEF Bypassed
<1>10. Through(c, T)
  <2> SUFFICES ASSUME NEW x \in c.live_edges, c.edges[x].source \in T,
                      Blank(c, c.edges[x].source)
               PROVE  c.edges[x].target \in T
    BY DEF Through
  <2>1. CASE x = e
    BY <1>1, <1>2, <2>1 DEF Goes
  <2>2. CASE x # e
    <3>1. c.edges[x].source \in Q /\ Blank(d, c.edges[x].source)
      BY <1>6, <1>8, <2>2 DEF Goes
    <3>2. Goes(b, t, c.edges[x].target) \in Q
      BY <1>4, <1>8, <2>2, <3>1 DEF Through
    <3> QED BY <1>1, <3>2 DEF Lands
  <2> QED BY <2>1, <2>2
<1>11. b \in P => t \in P
  BY <1>1, <1>3 DEF Through
<1>12. Through(d, P \ {b})
  <2> SUFFICES ASSUME NEW x \in d.live_edges, d.edges[x].source \in P \ {b},
                      Blank(d, d.edges[x].source)
               PROVE  d.edges[x].target \in P \ {b}
    BY DEF Through
  <2>1. /\ x \in c.live_edges \ {e} /\ c.edges[x].source \in P
        /\ Blank(c, c.edges[x].source)
    BY <1>3, <1>6, <1>8, <1>9
  <2>2. c.edges[x].target \in P
    BY <1>3, <2>1 DEF Through
  <2> QED BY <1>1, <1>8, <1>11, <2>1, <2>2 DEF Goes
<1>13. FirstCode(c, B) \subseteq FirstCode(d, F)
  <2>1. \A x \in T : Ends(c, x) =>
           \E y \in Passing(d, F) : Ends(d, y) /\ Shows(d, y) = Shows(c, x)
    BY <1>6, <1>7 DEF Goes
  <2>2. T \in SUBSET Slots(c) /\ B \subseteq T
    BY <1>4
  <2> HIDE DEF T, F
  <2> QED BY <1>10, <2>1, <2>2, FirstCodeMatched
<1>14. FirstCode(d, F) \subseteq FirstCode(c, B)
  <2>1. \A x \in P \ {b} : Ends(d, x) =>
           \E y \in Passing(c, B) : Ends(c, y) /\ Shows(c, y) = Shows(d, x)
    BY <1>3, <1>6
  <2>2. P \ {b} \in SUBSET Slots(d)
    BY <1>1, <1>3
  <2>3. F \subseteq P \ {b}
    BY <1>1, <1>3, <1>11 DEF Goes
  <2> HIDE DEF P, F
  <2> QED BY <1>12, <2>1, <2>2, <2>3, FirstCodeMatched
<1> QED BY <1>13, <1>14

LEMMA BypassRetained ==
    ASSUME NEW c, WellFormed(c), NEW d, NEW b, NEW t, NEW e, Bypassed(c, d, b, t, e)
    PROVE  Retained(d) = Retained(c) \ {b}
<1> DEFINE R == Retained(c)
           Q == Retained(d)
           T == {x \in Slots(c) : Goes(b, t, x) \in Q}
<1>1. /\ WellFormed(d) /\ SameFrame(c, d) /\ Slots(d) = Slots(c) /\ Lands(c)
      /\ t # b /\ e \in c.live_edges /\ c.edges[e].source = b /\ c.edges[e].target = t
  BY WellFormedLands DEF Bypassed, Slots, outgoing
<1>2. Roots(d) = Roots(c) /\ Roots(c) \subseteq Slots(c) /\ b \notin Roots(c)
  BY <1>1, SameRoots, RootsLive DEF Bypassed
<1>3. Roots(c) \subseteq R /\ R \subseteq Slots(c) /\ Closed(c, R)
  BY <1>2, ReachableHolds DEF Retained
<1>4. Roots(c) \subseteq Q /\ Q \subseteq Slots(c) /\ Closed(d, Q)
  BY <1>1, <1>2, ReachableHolds DEF Retained
<1>5. \A x \in c.live_edges \ {e} :
         /\ x \in d.live_edges /\ c.edges[x].source # b
         /\ d.edges[x].source = c.edges[x].source
         /\ d.edges[x].target = Goes(b, t, c.edges[x].target)
  BY DEF Bypassed, outgoing, Goes
<1>6. d.live_edges = c.live_edges \ {e}
  BY DEF Bypassed
<1>7. Q \subseteq R \ {b}
  <2>1. b \in R => t \in R
    BY <1>1, <1>3 DEF Closed
  <2>2. Closed(d, R \ {b})
    <3> SUFFICES ASSUME NEW x \in d.live_edges, d.edges[x].source \in R \ {b}
                 PROVE  d.edges[x].target \in R \ {b}
      BY DEF Closed
    <3>1. x \in c.live_edges \ {e} /\ c.edges[x].target \in R
      BY <1>3, <1>5, <1>6 DEF Closed
    <3> QED BY <1>1, <1>5, <2>1, <3>1 DEF Goes
  <2>3. R \ {b} \in SUBSET Slots(d) /\ Roots(d) \subseteq R \ {b}
    BY <1>1, <1>2, <1>3
  <2> HIDE DEF R
  <2> QED BY <2>2, <2>3, ReachableLeast DEF Retained
<1>8. R \subseteq T
  <2>1. Closed(c, T)
    <3> SUFFICES ASSUME NEW x \in c.live_edges, c.edges[x].source \in T
                 PROVE  c.edges[x].target \in T
      BY DEF Closed
    <3>1. c.edges[x].target \in Slots(c)
      BY <1>1 DEF Lands
    <3>2. CASE x = e
      BY <1>1, <3>1, <3>2 DEF Goes
    <3>3. CASE x # e
      <4>1. c.edges[x].source \in Q
        BY <1>5, <3>3 DEF Goes
      <4>2. Goes(b, t, c.edges[x].target) \in Q
        BY <1>4, <1>5, <3>3, <4>1 DEF Closed
      <4> QED BY <3>1, <4>2
    <3> QED BY <3>2, <3>3
  <2>2. T \in SUBSET Slots(c) /\ Roots(c) \subseteq T
    BY <1>2, <1>4 DEF Goes
  <2> HIDE DEF T
  <2> QED BY <2>1, <2>2, ReachableLeast DEF Retained
<1> QED BY <1>7, <1>8 DEF Goes

(* Two graphs whose blocks have the same code, where those that came or    *)
(* went have none: every instruction stays in place.                       *)
LEMMA PlacesOfBlanks ==
    ASSUME NEW c, NEW d, NEW S,
           \A x \in c.live_blocks \cap d.live_blocks : d.instructions[x] = c.instructions[x],
           \A x \in c.live_blocks \ d.live_blocks : c.instructions[x] = <<>>,
           \A x \in d.live_blocks \ c.live_blocks : d.instructions[x] = <<>>
    PROVE  Tags(d, S \cap d.live_blocks) = Tags(c, S \cap c.live_blocks)
<1>1. DOMAIN <<>> = {}
  OBVIOUS
<1>2. \A tag : tag \in Tags(d, S \cap d.live_blocks) <=> tag \in Tags(c, S \cap c.live_blocks)
  BY <1>1, TagsMember
<1> QED BY <1>2

LEMMA BypassKeepsCode ==
    ASSUME NEW c, WellFormed(c), Named(c), NEW d, NEW b, NEW t, NEW e,
           Bypassed(c, d, b, t, e)
    PROVE  KeepsCode(c, d)
<1> DEFINE R == Retained(c)
           Q == Retained(d)
<1>1. /\ SameFrame(c, d) /\ d.instructions = c.instructions /\ c.instructions[b] = <<>>
      /\ d.live_blocks = c.live_blocks \ {b} /\ b \notin {c.entry} \cup anchors(c)
  BY DEF Bypassed
<1>2. /\ R \subseteq Slots(c) /\ {c.entry} \cup anchors(c) \subseteq R /\ Q = R \ {b}
  BY RootsLive, RootsReached, ReachableHolds, BypassRetained DEF Retained
<1>3. Lands(c)
  BY WellFormedLands
<1> HIDE DEF R, Q
<1>4. ASSUME NEW x \in {c.entry} \cup anchors(c)
      PROVE  FirstCode(d, {x}) = FirstCode(c, {x})
  <2>1. {Goes(b, t, y) : y \in {x}} = {x} /\ {x} \in SUBSET Slots(c)
    BY <1>1, <1>2 DEF Goes
  <2> QED BY <2>1, BypassFirst
<1>5. ASSUME NEW x \in Q
      PROVE  \A i : NextCode(d, x, i) = NextCode(c, x, i)
  <2>1. outgoing(d, x) = outgoing(c, x)
    BY <1>2 DEF Bypassed, outgoing
  <2>2. successors(d, x) = {Goes(b, t, y) : y \in successors(c, x)}
    <3>1. \A y \in outgoing(c, x) : d.edges[y].target = Goes(b, t, c.edges[y].target)
      BY <2>1 DEF outgoing, Goes, Bypassed
    <3> QED BY <2>1, <3>1 DEF successors
  <2>3. successors(c, x) \in SUBSET Slots(c)
    BY <1>3 DEF successors, outgoing, Lands
  <2>4. FirstCode(d, successors(d, x)) = FirstCode(c, successors(c, x))
    BY <2>2, <2>3, BypassFirst
  <2> QED BY <1>1, <2>1, <2>4, NextKept
<1>6. Steps(d, Q) = Steps(c, R)
  BY <1>1, <1>2, <1>5, StepsKept
<1>7. Flow(d, Q) = Flow(c, R)
  <2>1. SameFrame(c, d)
    BY <1>1
  <2>2. \A x \in {c.entry} \cup anchors(c) : FirstCode(d, {x}) = FirstCode(c, {x})
    BY <1>4
  <2> QED BY <2>1, <2>2, <1>6, FlowKept
<1>8. ASSUME NEW S
      PROVE  Tags(d, S \cap d.live_blocks) = Tags(c, S \cap c.live_blocks)
  <2>1. /\ \A x \in c.live_blocks \cap d.live_blocks : d.instructions[x] = c.instructions[x]
        /\ \A x \in c.live_blocks \ d.live_blocks : c.instructions[x] = <<>>
        /\ \A x \in d.live_blocks \ c.live_blocks : d.instructions[x] = <<>>
    BY <1>1
  <2> QED BY <2>1, PlacesOfBlanks
<1>9. \A tag \in Tags(d, Q) : tag \in Tags(c, R) /\ InPlace(c, d, tag)
  BY <1>1, <1>2, <1>8, TagsMember DEF InPlace
<1> QED BY <1>1, <1>7, <1>9, PlaceKept DEF KeepsCode, R, Q
-----------------------------------------------------------------------------
(* split_critical_edges: an empty block is put on an edge.  What is first  *)
(* from B in the old graph is first from B2 in the new one, where the new  *)
(* block may stand for the edge's target.                                  *)
StandsFor(B, B2, middle, target) ==
    /\ \A x \in B : x \in B2 \/ (x = target /\ middle \in B2)
    /\ \A x \in B2 : x \in B \/ (x = middle /\ target \in B)

LEMMA BentFirst ==
    ASSUME NEW c, WellFormed(c), NEW d, NEW e, NEW middle, NEW second,
           Bent(c, d, e, middle, second), NEW B \in SUBSET Slots(c), NEW B2,
           StandsFor(B, B2, middle, c.edges[e].target)
    PROVE  FirstCode(d, B2) = FirstCode(c, B)
<1> DEFINE P == Passing(c, B)
           Q == Passing(d, B2)
           target == c.edges[e].target
           T == {x \in Slots(d) : x \in P \/ (x = middle /\ target \in P)}
<1>1. /\ Lands(c) /\ Lands(d) /\ middle \notin Slots(c) /\ Slots(d) = Slots(c) \cup {middle}
      /\ second \in d.live_edges /\ second \notin c.live_edges /\ Blank(d, middle)
      /\ e \in c.live_edges /\ target \in Slots(c)
      /\ d.edges[second].source = middle /\ d.edges[second].target = target
      /\ d.edges[e].source = c.edges[e].source /\ d.edges[e].target = middle
  BY WellFormedLands DEF Bent, Blank, WellFormed
<1>2. \A x \in c.live_edges \ {e} : x \in d.live_edges /\ d.edges[x] = c.edges[x]
  BY DEF Bent
<1>3. d.live_edges = c.live_edges \cup {second}
  BY DEF Bent
<1>4. \A x \in Slots(c) : d.instructions[x] = c.instructions[x] /\ outgoing(d, x) = outgoing(c, x)
  <2>1. \A x \in Slots(c) : d.instructions[x] = c.instructions[x]
    BY DEF Bent
  <2>2. \A x \in Slots(c) : outgoing(d, x) = outgoing(c, x)
    BY <1>1, <1>2, <1>3 DEF outgoing
  <2> QED BY <2>1, <2>2
<1>5. \A x \in Slots(c) : /\ Ends(d, x) <=> Ends(c, x)
                          /\ Shows(d, x) = Shows(c, x)
                          /\ Blank(d, x) <=> Blank(c, x)
  BY <1>4, SameStop
<1> HIDE DEF target
<1>6. StandsFor(B, B2, middle, target)
  BY DEF target
<1>7. B2 \in SUBSET Slots(d)
  BY <1>1, <1>6 DEF StandsFor
<1>8. B \subseteq P /\ P \subseteq Slots(c) /\ Through(c, P)
  BY <1>1, PassingHolds
<1>9. B2 \subseteq Q /\ Q \subseteq Slots(d) /\ Through(d, Q)
  BY <1>1, <1>7, PassingHolds
<1>10. middle \in Q => target \in Q
  BY <1>1, <1>9 DEF Through
<1>11. Through(c, Q \cap Slots(c))
  <2> SUFFICES ASSUME NEW x \in c.live_edges, c.edges[x].source \in Q \cap Slots(c),
                      Blank(c, c.edges[x].source)
               PROVE  c.edges[x].target \in Q \cap Slots(c)
    BY DEF Through
  <2>1. Blank(d, c.edges[x].source)
    BY <1>5
  <2>2. CASE x = e
    <3>1. middle \in Q
      BY <1>1, <1>3, <1>9, <2>1, <2>2 DEF Through
    <3> QED BY <1>1, <1>10, <2>2, <3>1 DEF target
  <2>3. CASE x # e
    BY <1>1, <1>2, <1>9, <2>1, <2>3 DEF Through, Lands
  <2> QED BY <2>2, <2>3
<1>12. Through(d, T)
  <2> SUFFICES ASSUME NEW x \in d.live_edges, d.edges[x].source \in T,
                      Blank(d, d.edges[x].source)
               PROVE  d.edges[x].target \in T
    BY DEF Through
  <2>1. CASE x = second
    <3>1. target \in P
      BY <1>1, <1>8, <2>1
    <3> QED BY <1>1, <2>1, <3>1
  <2>2. CASE x = e
    <3>1. c.edges[e].source \in Slots(c)
      BY <1>1 DEF Lands
    <3>2. c.edges[e].source \in P /\ Blank(c, c.edges[e].source)
      BY <1>1, <1>5, <2>2, <3>1
    <3>3. target \in P
      BY <1>1, <1>8, <3>2 DEF Through, target
    <3> QED BY <1>1, <2>2, <3>3
  <2>3. CASE x # second /\ x # e
    <3>1. x \in c.live_edges /\ d.edges[x] = c.edges[x] /\ c.edges[x].source \in Slots(c)
      BY <1>1, <1>2, <1>3, <2>3 DEF Lands
    <3>2. c.edges[x].source \in P /\ Blank(c, c.edges[x].source)
      BY <1>1, <1>5, <3>1
    <3>3. c.edges[x].target \in P
      BY <1>8, <3>1, <3>2 DEF Through
    <3> QED BY <1>1, <1>8, <3>1, <3>3
  <2> QED BY <2>1, <2>2, <2>3
<1>13. ~Ends(d, middle)
  BY <1>1 DEF Ends, outgoing
<1>14. FirstCode(c, B) \subseteq FirstCode(d, B2)
  <2>1. \A x \in Q \cap Slots(c) : Ends(c, x) =>
           \E y \in Passing(d, B2) : Ends(d, y) /\ Shows(d, y) = Shows(c, x)
    BY <1>5
  <2>2. Q \cap Slots(c) \in SUBSET Slots(c) /\ B \subseteq Q \cap Slots(c)
    BY <1>6, <1>9, <1>10 DEF StandsFor
  <2> HIDE DEF Q
  <2> QED BY <1>11, <2>1, <2>2, FirstCodeMatched
<1>15. FirstCode(d, B2) \subseteq FirstCode(c, B)
  <2>1. \A x \in T : Ends(d, x) =>
           \E y \in Passing(c, B) : Ends(c, y) /\ Shows(c, y) = Shows(d, x)
    BY <1>5, <1>8, <1>13
  <2>2. T \in SUBSET Slots(d) /\ B2 \subseteq T
    BY <1>6, <1>7, <1>8 DEF StandsFor
  <2> HIDE DEF T
  <2> QED BY <1>12, <2>1, <2>2, FirstCodeMatched
<1> QED BY <1>14, <1>15

LEMMA BentRetained ==
    ASSUME NEW c, WellFormed(c), NEW d, NEW e, NEW middle, NEW second,
           Bent(c, d, e, middle, second)
    PROVE  \A x \in Slots(c) : x \in Retained(d) <=> x \in Retained(c)
<1> DEFINE R == Retained(c)
           Q == Retained(d)
           target == c.edges[e].target
           T == {x \in Slots(d) : x \in R \/ (x = middle /\ target \in R)}
<1>1. /\ WellFormed(d) /\ SameFrame(c, d) /\ Lands(c)
      /\ middle \notin Slots(c) /\ Slots(d) = Slots(c) \cup {middle}
      /\ second \in d.live_edges /\ second \notin c.live_edges
      /\ e \in c.live_edges /\ target \in Slots(c)
      /\ d.edges[second].source = middle /\ d.edges[second].target = target
      /\ d.edges[e].source = c.edges[e].source /\ d.edges[e].target = middle
  BY WellFormedLands DEF Bent, WellFormed
<1>2. \A x \in c.live_edges \ {e} : x \in d.live_edges /\ d.edges[x] = c.edges[x]
  BY DEF Bent
<1>3. d.live_edges = c.live_edges \cup {second}
  BY DEF Bent
<1> HIDE DEF target
<1>4. Roots(d) = Roots(c) /\ Roots(c) \subseteq Slots(c)
  BY <1>1, SameRoots, RootsLive
<1>5. Roots(c) \subseteq R /\ R \subseteq Slots(c) /\ Closed(c, R)
  BY <1>4, ReachableHolds DEF Retained
<1>6. Roots(c) \subseteq Q /\ Q \subseteq Slots(d) /\ Closed(d, Q)
  BY <1>1, <1>4, ReachableHolds DEF Retained
<1>7. R \subseteq Q \cap Slots(c)
  <2>1. middle \in Q => target \in Q
    BY <1>1, <1>6 DEF Closed
  <2>2. Closed(c, Q \cap Slots(c))
    BY <1>1, <1>2, <1>3, <1>6, <2>1 DEF Closed, Lands, target
  <2>3. Q \cap Slots(c) \in SUBSET Slots(c) /\ Roots(c) \subseteq Q \cap Slots(c)
    BY <1>4, <1>6
  <2> HIDE DEF Q
  <2> QED BY <2>2, <2>3, ReachableLeast DEF Retained
<1>8. Q \subseteq T
  <2>1. Closed(d, T)
    <3> SUFFICES ASSUME NEW x \in d.live_edges, d.edges[x].source \in T
                 PROVE  d.edges[x].target \in T
      BY DEF Closed
    <3>1. CASE x = second
      BY <1>1, <1>5, <3>1
    <3>2. CASE x = e
      <4>1. c.edges[e].source \in R
        BY <1>1, <3>2 DEF Lands
      <4>2. target \in R
        BY <1>1, <1>5, <4>1 DEF Closed, target
      <4> QED BY <1>1, <3>2, <4>2
    <3>3. CASE x # second /\ x # e
      <4>1. x \in c.live_edges /\ d.edges[x] = c.edges[x] /\ c.edges[x].source \in Slots(c)
        BY <1>1, <1>2, <1>3, <3>3 DEF Lands
      <4>2. c.edges[x].target \in R
        BY <1>1, <1>5, <4>1 DEF Closed
      <4> QED BY <1>1, <1>5, <4>1, <4>2
    <3> QED BY <3>1, <3>2, <3>3
  <2>2. T \in SUBSET Slots(d) /\ Roots(d) \subseteq T
    BY <1>1, <1>4, <1>5
  <2> HIDE DEF T
  <2> QED BY <2>1, <2>2, ReachableLeast DEF Retained
<1> QED BY <1>1, <1>7, <1>8

LEMMA BentKeepsCode ==
    ASSUME NEW c, WellFormed(c), Named(c), NEW d, NEW e, NEW middle, NEW second,
           Bent(c, d, e, middle, second)
    PROVE  KeepsCode(c, d)
<1> DEFINE R == Retained(c)
           Q == Retained(d)
           target == c.edges[e].target
<1>1. /\ WellFormed(d) /\ SameFrame(c, d) /\ d.instructions[middle] = <<>>
      /\ middle \notin Slots(c) /\ Slots(d) = Slots(c) \cup {middle}
      /\ d.live_blocks = c.live_blocks \cup {middle} /\ c.live_blocks \subseteq Slots(c)
      /\ \A x \in Slots(c) : d.instructions[x] = c.instructions[x]
  BY DEF Bent, WellFormed
<1>2. /\ R \subseteq Slots(c) /\ {c.entry} \cup anchors(c) \subseteq R
      /\ Q \subseteq Slots(d) /\ \A x \in Slots(c) : x \in Q <=> x \in R
  BY <1>1, RootsLive, RootsReached, ReachableHolds, BentRetained DEF Retained
<1>3. Lands(c)
  BY WellFormedLands
<1> HIDE DEF R, Q
<1>4. ASSUME NEW x \in {c.entry} \cup anchors(c)
      PROVE  FirstCode(d, {x}) = FirstCode(c, {x})
  <2>1. StandsFor({x}, {x}, middle, target) /\ {x} \in SUBSET Slots(c)
    BY <1>2 DEF StandsFor
  <2> QED BY <2>1, BentFirst
<1>5. ASSUME NEW x \in Slots(c)
      PROVE  \A i : NextCode(d, x, i) = NextCode(c, x, i)
  <2>1. outgoing(d, x) = outgoing(c, x)
    <3>1. \A y \in c.live_edges : d.edges[y].source = c.edges[y].source
      BY DEF Bent
    <3>2. d.live_edges = c.live_edges \cup {second} /\ d.edges[second].source # x
      BY <1>1 DEF Bent
    <3> QED BY <3>1, <3>2 DEF outgoing
  <2>2. \A y \in outgoing(c, x) :
           d.edges[y].target = IF y = e THEN middle ELSE c.edges[y].target
    BY DEF outgoing, Bent
  <2>3. StandsFor(successors(c, x), successors(d, x), middle, target)
    <3>1. \A y : y \in successors(c, x) <=> \E z \in outgoing(c, x) : y = c.edges[z].target
      BY DEF successors
    <3>2. \A y : y \in successors(d, x) <=> \E z \in outgoing(c, x) : y = d.edges[z].target
      BY <2>1 DEF successors
    <3> QED BY <2>2, <3>1, <3>2 DEF StandsFor
  <2>4. successors(c, x) \in SUBSET Slots(c)
    BY <1>3 DEF successors, outgoing, Lands
  <2>5. FirstCode(d, successors(d, x)) = FirstCode(c, successors(c, x))
    BY <2>3, <2>4, BentFirst
  <2> QED BY <1>1, <2>1, <2>5, NextKept
<1>6. Steps(d, Q) = Steps(c, R)
  <2>1. /\ \A x \in Q \cap R : d.instructions[x] = c.instructions[x]
        /\ \A x \in Q \cap R : \A i : NextCode(d, x, i) = NextCode(c, x, i)
        /\ \A x \in R \ Q : c.instructions[x] = <<>>
        /\ \A x \in Q \ R : d.instructions[x] = <<>>
    BY <1>1, <1>2, <1>5
  <2> QED BY <2>1, StepsKept
<1>7. Flow(d, Q) = Flow(c, R)
  <2>1. SameFrame(c, d)
    BY <1>1
  <2>2. \A x \in {c.entry} \cup anchors(c) : FirstCode(d, {x}) = FirstCode(c, {x})
    BY <1>4
  <2> QED BY <2>1, <2>2, <1>6, FlowKept
<1>8. ASSUME NEW S
      PROVE  Tags(d, S \cap d.live_blocks) = Tags(c, S \cap c.live_blocks)
  <2>1. /\ \A x \in c.live_blocks \cap d.live_blocks : d.instructions[x] = c.instructions[x]
        /\ \A x \in c.live_blocks \ d.live_blocks : c.instructions[x] = <<>>
        /\ \A x \in d.live_blocks \ c.live_blocks : d.instructions[x] = <<>>
    BY <1>1
  <2> QED BY <2>1, PlacesOfBlanks
<1>9. ASSUME NEW tag \in Tags(d, Q)
      PROVE  tag \in Tags(c, R) /\ InPlace(c, d, tag)
  <2>1. PICK x \in Q : \E i \in DOMAIN d.instructions[x] : tag = d.instructions[x][i]
    BY TagsMember
  <2>2. DOMAIN <<>> = {}
    OBVIOUS
  <2>3. x \in R /\ d.instructions[x] = c.instructions[x]
    BY <1>1, <1>2, <2>1, <2>2
  <2>4. tag \in Tags(c, R)
    BY <2>1, <2>3, TagsMember
  <2> QED BY <1>8, <2>4 DEF InPlace
<1> QED BY <1>1, <1>7, <1>9, PlaceKept DEF KeepsCode, R, Q

(* The second half of a split back edge enters its header. *)
LEMMA BentHeaders ==
    ASSUME NEW c, WellFormed(c), NEW d, NEW e, NEW middle, NEW second,
           Bent(c, d, e, middle, second)
    PROVE  LoopHeaders(d) = LoopHeaders(c)
<1>1. /\ d.live_edges = c.live_edges \cup {second} /\ e \in c.live_edges
      /\ second \notin c.live_edges
      /\ \A x \in c.live_edges \ {e} : d.edges[x] = c.edges[x]
      /\ d.edges[e].kind # "back"
      /\ d.edges[second].kind = "back" <=> c.edges[e].kind = "back"
      /\ d.edges[second].target = c.edges[e].target
  BY DEF Bent, WellFormed
<1>2. \A y : y \in LoopHeaders(d) <=> y \in LoopHeaders(c)
  BY <1>1 DEF LoopHeaders
<1> QED BY <1>2
-----------------------------------------------------------------------------
(* The fold and its reading backwards.  Nothing but s enters t, so what    *)
(* comes first from blocks other than t does not change.                   *)
LEMMA FoldedEdges ==
    ASSUME NEW c, NEW d, NEW s, NEW t, NEW e, Folded(c, d, s, t, e)
    PROVE  /\ c.edges[e].source = s /\ c.edges[e].target = t /\ e \in c.live_edges
           /\ \A x \in c.live_edges \ {e} :
                 /\ x \in d.live_edges /\ c.edges[x].source # s /\ c.edges[x].target # t
                 /\ d.edges[x].target = c.edges[x].target
                 /\ d.edges[x].source = IF c.edges[x].source = t THEN s
                                        ELSE c.edges[x].source
           /\ d.live_edges = c.live_edges \ {e}
           /\ outgoing(d, s) = outgoing(c, t)
           /\ successors(d, s) = successors(c, t)
           /\ \A x : x \notin {s, t} => /\ outgoing(d, x) = outgoing(c, x)
                                        /\ successors(d, x) = successors(c, x)
           /\ successors(c, s) = {t}
           /\ \A x : x # s => t \notin successors(c, x)
<1>1. c.edges[e].source = s /\ c.edges[e].target = t /\ e \in c.live_edges
  BY DEF Folded, outgoing, incoming
<1>2. \A x \in c.live_edges \ {e} :
         /\ x \in d.live_edges /\ c.edges[x].source # s /\ c.edges[x].target # t
         /\ d.edges[x].target = c.edges[x].target
         /\ d.edges[x].source = IF c.edges[x].source = t THEN s ELSE c.edges[x].source
  BY DEF Folded, outgoing, incoming
<1>3. d.live_edges = c.live_edges \ {e} /\ s # t
  BY DEF Folded
<1>4. outgoing(d, s) = outgoing(c, t)
  BY <1>1, <1>2, <1>3 DEF outgoing
<1>5. \A x : x \notin {s, t} => outgoing(d, x) = outgoing(c, x)
  BY <1>1, <1>2, <1>3 DEF outgoing
<1>6. \A x \in d.live_edges : d.edges[x].target = c.edges[x].target
  BY <1>2, <1>3
<1>7. successors(d, s) = successors(c, t)
  <2>1. \A x \in outgoing(c, t) : d.edges[x].target = c.edges[x].target
    BY <1>4, <1>6 DEF outgoing
  <2> QED BY <1>4, <2>1 DEF successors
<1>8. ASSUME NEW x, x \notin {s, t} PROVE successors(d, x) = successors(c, x)
  <2>1. outgoing(d, x) = outgoing(c, x)
    BY <1>5, <1>8
  <2>2. \A y \in outgoing(c, x) : d.edges[y].target = c.edges[y].target
    BY <1>6, <2>1 DEF outgoing
  <2> QED BY <2>1, <2>2 DEF successors
<1>9. successors(c, s) = {t} /\ \A x : x # s => t \notin successors(c, x)
  <2>1. outgoing(c, s) = {e}
    BY DEF Folded
  <2>2. \A y : y \in successors(c, s) <=> y = t
    BY <1>1, <2>1 DEF successors
  <2>3. \A x : x # s => t \notin successors(c, x)
    BY <1>1, <1>2 DEF successors, outgoing
  <2> QED BY <2>2, <2>3
<1> QED BY <1>1, <1>2, <1>3, <1>4, <1>5, <1>7, <1>8, <1>9

LEMMA FoldedCode ==
    ASSUME NEW c, NEW d, NEW s, NEW t, NEW e, Folded(c, d, s, t, e)
    PROVE  /\ Blank(d, s) <=> Blank(c, s) /\ Blank(c, t)
           /\ ~Blank(c, s) => Shows(d, s) = Shows(c, s)
           /\ Blank(c, s) /\ ~Blank(c, t) => Shows(d, s) = Shows(c, t)
           /\ \A x \in Slots(d) \ {s, t} : d.instructions[x] = c.instructions[x]
<1> DEFINE u == c.instructions[s]
           v == c.instructions[t]
           w == d.instructions[s]
<1>1. u \in Seq(Nat) /\ v \in Seq(Nat) /\ w = u \o v
  BY DEF Folded
<1> HIDE DEF u, v, w
<1>2. /\ w = <<>> <=> u = <<>> /\ v = <<>>
      /\ u # <<>> => Head(w) = Head(u)
      /\ u = <<>> => w = v
  <2>1. Len(w) = Len(u) + Len(v) /\ Len(u) \in Nat /\ Len(v) \in Nat /\ w \in Seq(Nat)
    BY <1>1
  <2>2. w = <<>> <=> u = <<>> /\ v = <<>>
    BY <1>1, <2>1
  <2>3. u # <<>> => Head(w) = Head(u)
    BY <1>1
  <2>4. u = <<>> => w = v
    BY <1>1
  <2> QED BY <2>2, <2>3, <2>4
<1>3. \A x \in Slots(d) \ {s, t} : d.instructions[x] = c.instructions[x]
  BY DEF Folded
<1> QED BY <1>2, <1>3 DEF Blank, Shows, u, v, w

LEMMA FoldedFirst ==
    ASSUME NEW c, NEW d, Lands(c), Lands(d), NEW s, NEW t, NEW e, Folded(c, d, s, t, e),
           NEW B \in SUBSET Slots(d), t \notin B
    PROVE  FirstCode(d, B) = FirstCode(c, B)
<1> DEFINE P == Passing(c, B)
           Q == Passing(d, B)
           T == {x \in Slots(c) : \/ x # t /\ x \in Q
                                  \/ x = t /\ s \in Q /\ Blank(c, s)}
<1>1. /\ s # t /\ s \in Slots(d) /\ s \in Slots(c) /\ t \in Slots(c)
      /\ Slots(c) = Slots(d) \cup {t}
  BY DEF Folded
<1>2. /\ c.edges[e].source = s /\ c.edges[e].target = t /\ e \in c.live_edges
      /\ \A x \in c.live_edges \ {e} :
            /\ x \in d.live_edges /\ c.edges[x].source # s /\ c.edges[x].target # t
            /\ d.edges[x].target = c.edges[x].target
            /\ d.edges[x].source = IF c.edges[x].source = t THEN s ELSE c.edges[x].source
      /\ d.live_edges = c.live_edges \ {e}
      /\ outgoing(d, s) = outgoing(c, t)
      /\ \A x : x \notin {s, t} => outgoing(d, x) = outgoing(c, x)
  BY FoldedEdges
<1>3. /\ Blank(d, s) <=> Blank(c, s) /\ Blank(c, t)
      /\ ~Blank(c, s) => Shows(d, s) = Shows(c, s)
      /\ Blank(c, s) /\ ~Blank(c, t) => Shows(d, s) = Shows(c, t)
      /\ \A x \in Slots(d) \ {s, t} : d.instructions[x] = c.instructions[x]
  BY FoldedCode
<1>4. \A x \in Slots(d) \ {s, t} : /\ Ends(d, x) <=> Ends(c, x)
                                   /\ Shows(d, x) = Shows(c, x)
                                   /\ Blank(d, x) <=> Blank(c, x)
  BY <1>2, <1>3, SameStop
<1>5. \A x : Blank(c, x) => Shows(c, x) = 0
  BY DEF Shows
<1>6. Blank(d, s) => Shows(d, s) = 0
  BY DEF Shows
<1>7. Blank(c, s) => ~Ends(c, s)
  BY <1>2 DEF Ends, outgoing
<1>8. B \subseteq P /\ P \subseteq Slots(c) /\ Through(c, P)
  BY <1>1, PassingHolds
<1>9. B \subseteq Q /\ Q \subseteq Slots(d) /\ Through(d, Q)
  BY PassingHolds
<1> HIDE DEF P, Q
<1>10. Through(c, T)
  <2> SUFFICES ASSUME NEW x \in c.live_edges, c.edges[x].source \in T,
                      Blank(c, c.edges[x].source)
               PROVE  c.edges[x].target \in T
    BY DEF Through
  <2>1. CASE x = e
    BY <1>1, <1>2, <2>1
  <2>2. CASE x # e
    <3>1. c.edges[x].target \in Slots(c) /\ c.edges[x].target # t
      BY <1>2, <2>2 DEF Lands
    <3>2. d.edges[x].source \in Q /\ Blank(d, d.edges[x].source)
      <4>1. CASE c.edges[x].source = t
        BY <1>1, <1>2, <1>3, <2>2, <4>1
      <4>2. CASE c.edges[x].source # t
        <5>1. c.edges[x].source \in Slots(d) \ {s, t} /\ c.edges[x].source \in Q
          BY <1>2, <1>9, <2>2, <4>2
        <5> QED BY <1>2, <1>4, <2>2, <4>2, <5>1
      <4> QED BY <4>1, <4>2
    <3>3. c.edges[x].target \in Q
      BY <1>2, <1>9, <2>2, <3>2 DEF Through
    <3> QED BY <3>1, <3>3
  <2> QED BY <2>1, <2>2
<1>11. s \in P /\ Blank(c, s) => t \in P
  BY <1>2, <1>8 DEF Through
<1>12. Through(d, P \ {t})
  <2> SUFFICES ASSUME NEW x \in d.live_edges, d.edges[x].source \in P \ {t},
                      Blank(d, d.edges[x].source)
               PROVE  d.edges[x].target \in P \ {t}
    BY DEF Through
  <2>1. x \in c.live_edges \ {e}
    BY <1>2
  <2>2. c.edges[x].source \in P /\ Blank(c, c.edges[x].source)
    <3>1. CASE c.edges[x].source = t
      BY <1>2, <1>3, <1>11, <2>1, <3>1
    <3>2. CASE c.edges[x].source # t
      <4>1. d.edges[x].source = c.edges[x].source /\ c.edges[x].source # s
        BY <1>2, <2>1, <3>2
      <4>2. c.edges[x].source \in Slots(d) \ {s, t}
        BY <1>1, <1>8, <3>2, <4>1
      <4> QED BY <1>4, <4>1, <4>2
    <3> QED BY <3>1, <3>2
  <2>3. c.edges[x].target \in P
    BY <1>8, <2>1, <2>2 DEF Through
  <2> QED BY <1>2, <2>1, <2>3
<1>13. FirstCode(c, B) \subseteq FirstCode(d, B)
  <2>1. ASSUME NEW x \in T, Ends(c, x)
        PROVE  \E y \in Q : Ends(d, y) /\ Shows(d, y) = Shows(c, x)
    <3>1. CASE x = t
      <4>1. s \in Q /\ Blank(c, s)
        BY <3>1
      <4>2. Ends(d, s)
        BY <1>2, <1>3, <2>1, <3>1 DEF Ends
      <4>3. Shows(d, s) = Shows(c, t)
        BY <1>3, <1>5, <1>6, <4>1
      <4> QED BY <3>1, <4>1, <4>2, <4>3
    <3>2. CASE x = s
      <4>1. ~Blank(c, s) /\ s \in Q
        BY <1>1, <1>7, <2>1, <3>2
      <4>2. Ends(d, s) /\ Shows(d, s) = Shows(c, s)
        BY <1>3, <4>1 DEF Ends
      <4> QED BY <3>2, <4>1, <4>2
    <3>3. CASE x \notin {s, t}
      BY <1>4, <1>9, <2>1, <3>3
    <3> QED BY <3>1, <3>2, <3>3
  <2>2. T \in SUBSET Slots(c) /\ B \subseteq T
    BY <1>1, <1>9
  <2> HIDE DEF T
  <2> QED BY <1>10, <2>1, <2>2, FirstCodeMatched DEF Q
<1>14. FirstCode(d, B) \subseteq FirstCode(c, B)
  <2>1. ASSUME NEW x \in P \ {t}, Ends(d, x)
        PROVE  \E y \in P : Ends(c, y) /\ Shows(c, y) = Shows(d, x)
    <3>1. CASE x = s /\ ~Blank(c, s)
      BY <1>3, <3>1 DEF Ends
    <3>2. CASE x = s /\ Blank(c, s)
      <4>1. t \in P
        BY <1>11, <3>2
      <4>2. Ends(c, t)
        BY <1>2, <1>3, <2>1, <3>2 DEF Ends
      <4>3. Shows(c, t) = Shows(d, s)
        BY <1>3, <1>5, <1>6, <3>2
      <4> QED BY <3>2, <4>1, <4>2, <4>3
    <3>3. CASE x \notin {s, t}
      BY <1>1, <1>4, <1>8, <2>1, <3>3
    <3> QED BY <3>1, <3>2, <3>3
  <2>2. P \ {t} \in SUBSET Slots(d) /\ B \subseteq P \ {t}
    BY <1>1, <1>8
  <2> QED BY <1>12, <2>1, <2>2, FirstCodeMatched DEF P
<1> QED BY <1>13, <1>14

(* Position i of s stays, and position j of t comes after all of s. *)
LEMMA FoldedNext ==
    ASSUME NEW c, NEW d, Lands(c), Lands(d), NEW s, NEW t, NEW e, Folded(c, d, s, t, e)
    PROVE  /\ \A x \in Slots(d) \ {s, t} : \A i : NextCode(d, x, i) = NextCode(c, x, i)
           /\ \A i \in 1..Len(c.instructions[s]) : NextCode(d, s, i) = NextCode(c, s, i)
           /\ \A j \in 1..Len(c.instructions[t]) :
                 NextCode(d, s, Len(c.instructions[s]) + j) = NextCode(c, t, j)
<1> DEFINE u == c.instructions[s]
           v == c.instructions[t]
           w == d.instructions[s]
<1>1. /\ u \in Seq(Nat) /\ v \in Seq(Nat) /\ w = u \o v
      /\ Len(w) = Len(u) + Len(v) /\ Len(u) \in Nat /\ Len(v) \in Nat
      /\ s # t /\ t \in Slots(c) /\ Slots(c) = Slots(d) \cup {t}
  BY DEF Folded
<1>2. /\ outgoing(d, s) = outgoing(c, t) /\ successors(d, s) = successors(c, t)
      /\ \A x : x \notin {s, t} => /\ outgoing(d, x) = outgoing(c, x)
                                   /\ successors(d, x) = successors(c, x)
      /\ successors(c, s) = {t} /\ outgoing(c, s) # {}
      /\ \A x : x # s => t \notin successors(c, x)
  BY FoldedEdges DEF outgoing
<1>3. \A x \in Slots(d) \ {s, t} : d.instructions[x] = c.instructions[x]
  BY FoldedCode
<1>4. ASSUME NEW x, x # s PROVE FirstCode(d, successors(c, x)) = FirstCode(c, successors(c, x))
  <2>1. t \notin successors(c, x) /\ successors(c, x) \subseteq Slots(d)
    BY <1>1, <1>2, <1>4 DEF successors, outgoing, Lands
  <2> QED BY <2>1, FoldedFirst
<1>5. ASSUME NEW x \in Slots(d) \ {s, t}
      PROVE  \A i : NextCode(d, x, i) = NextCode(c, x, i)
  <2>1. FirstCode(d, successors(d, x)) = FirstCode(c, successors(c, x))
    BY <1>2, <1>4
  <2> QED BY <1>2, <1>3, <2>1, NextKept
<1>6. IF outgoing(d, s) = {} THEN TRUE
      ELSE FirstCode(d, successors(d, s)) = FirstCode(c, successors(c, t))
  BY <1>1, <1>2, <1>4
<1> HIDE DEF u, v, w
<1>7. ASSUME NEW j \in 1..Len(v)
      PROVE  NextCode(d, s, Len(u) + j) = NextCode(c, t, j)
  <2>1. Len(u) + j < Len(w) <=> j < Len(v)
    BY <1>1
  <2>2. j < Len(v) => w[Len(u) + j + 1] = v[j + 1]
    BY <1>1
  <2> QED BY <1>2, <1>6, <2>1, <2>2 DEF NextCode, u, v, w
<1>8. ASSUME NEW i \in 1..Len(u)
      PROVE  NextCode(d, s, i) = NextCode(c, s, i)
  <2>1. CASE i < Len(u)
    <3>1. i < Len(w) /\ w[i + 1] = u[i + 1]
      BY <1>1, <2>1
    <3> QED BY <2>1, <3>1 DEF NextCode, u, w
  <2>2. CASE i = Len(u) /\ ~Blank(c, t)
    <3>1. i < Len(w) /\ w[i + 1] = Head(v)
      <4>1. v # <<>>
        BY <2>2 DEF Blank, v
      <4> QED BY <1>1, <2>2, <4>1
    <3>2. ~(i < Len(u))
      BY <1>1, <2>2
    <3>3. NextCode(c, s, i) = FirstCode(c, {t})
      BY <1>2, <3>2 DEF NextCode, u
    <3>4. NextCode(d, s, i) = {Head(v)}
      BY <3>1 DEF NextCode, w
    <3> QED BY <1>1, <2>2, <3>3, <3>4, FirstCodeOfCode DEF v
  <2>3. CASE i = Len(u) /\ Blank(c, t)
    <3>1. ~(i < Len(u)) /\ ~(i < Len(w))
      <4>1. v = <<>>
        BY <2>3 DEF Blank, v
      <4> QED BY <1>1, <2>3, <4>1
    <3>2. NextCode(c, s, i) = FirstCode(c, {t})
      BY <1>2, <3>1 DEF NextCode, u
    <3>3. CASE outgoing(c, t) = {}
      <4>1. NextCode(d, s, i) = {0}
        BY <1>2, <3>1, <3>3 DEF NextCode, w
      <4> QED BY <1>1, <2>3, <3>2, <3>3, <4>1, FirstCodeOfEnd
    <3>4. CASE outgoing(c, t) # {}
      <4>1. NextCode(d, s, i) = FirstCode(c, successors(c, t))
        BY <1>2, <1>6, <3>1, <3>4 DEF NextCode, w
      <4> QED BY <1>1, <2>3, <3>2, <3>4, <4>1, FirstCodeOfBlank
    <3> QED BY <3>3, <3>4
  <2>4. i < Len(u) \/ i = Len(u)
    BY <1>1
  <2> QED BY <2>1, <2>2, <2>3, <2>4
<1> QED BY <1>5, <1>7, <1>8 DEF u, v

LEMMA StepsTags ==
    ASSUME NEW c, NEW B, NEW tag
    PROVE  tag \in Tags(c, B) <=> \E q : <<tag, q>> \in Steps(c, B)
<1>1. ASSUME tag \in Tags(c, B) PROVE \E q : <<tag, q>> \in Steps(c, B)
  <2>1. PICK b \in B : \E i \in DOMAIN c.instructions[b] : tag = c.instructions[b][i]
    BY <1>1, TagsMember
  <2>2. PICK i \in DOMAIN c.instructions[b] : tag = c.instructions[b][i]
    BY <2>1
  <2>3. <<tag, NextCode(c, b, i)>> \in Steps(c, B)
    BY <2>2, StepsMember
  <2> QED BY <2>3
<1>2. ASSUME NEW q, <<tag, q>> \in Steps(c, B) PROVE tag \in Tags(c, B)
  <2>1. PICK b \in B : \E i \in DOMAIN c.instructions[b] :
           <<tag, q>> = <<c.instructions[b][i], NextCode(c, b, i)>>
    BY <1>2, StepsMember
  <2>2. \E i \in DOMAIN c.instructions[b] : tag = c.instructions[b][i]
    BY <2>1
  <2> QED BY <2>2, TagsMember
<1> QED BY <1>1, <1>2

(* The same steps, counted over K after and over B before. *)
Absorbs(K, B, s, t) ==
    /\ t \notin K
    /\ s \in K <=> s \in B
    /\ t \in B <=> s \in B
    /\ \A x : x \notin {s, t} => (x \in K <=> x \in B)

LEMMA FoldedSteps ==
    ASSUME NEW c, NEW d, Lands(c), Lands(d), NEW s, NEW t, NEW e, Folded(c, d, s, t, e),
           NEW K \in SUBSET Slots(d), NEW B \in SUBSET Slots(c), Absorbs(K, B, s, t)
    PROVE  Steps(d, K) = Steps(c, B) /\ Tags(d, K) = Tags(c, B)
<1> DEFINE u == c.instructions[s]
           v == c.instructions[t]
           w == d.instructions[s]
           n == Len(u)
<1>1. u \in Seq(Nat) /\ v \in Seq(Nat) /\ w = u \o v
  BY DEF Folded
<1>2. /\ \A x \in Slots(d) \ {s, t} : \A i : NextCode(d, x, i) = NextCode(c, x, i)
      /\ \A i \in DOMAIN u : NextCode(d, s, i) = NextCode(c, s, i)
      /\ \A j \in DOMAIN v : NextCode(d, s, n + j) = NextCode(c, t, j)
  <2>1. DOMAIN u = 1..Len(u) /\ DOMAIN v = 1..Len(v)
    BY <1>1
  <2> QED BY <2>1, FoldedNext
<1>3. \A x \in Slots(d) \ {s, t} : d.instructions[x] = c.instructions[x]
  BY FoldedCode
<1> HIDE DEF u, v, w, n
<1>4. /\ \A k \in DOMAIN u : k \in DOMAIN w /\ w[k] = u[k]
      /\ \A k \in DOMAIN v : n + k \in DOMAIN w /\ w[n + k] = v[k]
      /\ \A k \in DOMAIN w : \/ k \in DOMAIN u /\ w[k] = u[k]
                             \/ \E j \in DOMAIN v : k = n + j /\ w[k] = v[j]
  <2>1. /\ \A k \in DOMAIN u : k \in DOMAIN w /\ w[k] = u[k]
        /\ \A k \in DOMAIN v : n + k \in DOMAIN w /\ w[n + k] = v[k]
    BY <1>1, JoinFacts DEF n
  <2>2. \A k \in DOMAIN w : \/ k \in DOMAIN u /\ w[k] = u[k]
                            \/ k - n \in DOMAIN v /\ w[k] = v[k - n] /\ k \in Nat /\ n \in Nat
    BY <1>1, JoinFacts DEF n
  <2>3. \A k \in Nat : n \in Nat => k = n + (k - n)
    OBVIOUS
  <2> QED BY <2>1, <2>2, <2>3
<1>5. ASSUME NEW p \in Steps(d, K) PROVE p \in Steps(c, B)
  <2>1. PICK x \in K : \E i \in DOMAIN d.instructions[x] :
           p = <<d.instructions[x][i], NextCode(d, x, i)>>
    BY <1>5, StepsMember
  <2>2. PICK i \in DOMAIN d.instructions[x] : p = <<d.instructions[x][i], NextCode(d, x, i)>>
    BY <2>1
  <2>3. CASE x # s
    <3>1. x \in B /\ x \in Slots(d) \ {s, t}
      BY <2>3 DEF Absorbs
    <3>2. i \in DOMAIN c.instructions[x] /\ p = <<c.instructions[x][i], NextCode(c, x, i)>>
      BY <1>2, <1>3, <2>2, <3>1
    <3> QED BY <3>1, <3>2, StepsMember
  <2>4. CASE x = s /\ i \in DOMAIN u /\ w[i] = u[i]
    <3>1. s \in B /\ p = <<u[i], NextCode(c, s, i)>>
      BY <1>2, <2>2, <2>4 DEF Absorbs, w
    <3> QED BY <2>4, <3>1, StepsMember DEF u
  <2>5. CASE x = s /\ \E j \in DOMAIN v : i = n + j /\ w[i] = v[j]
    <3>1. PICK j \in DOMAIN v : i = n + j /\ w[i] = v[j]
      BY <2>5
    <3>2. t \in B /\ p = <<v[j], NextCode(c, t, j)>>
      BY <1>2, <2>2, <2>5, <3>1 DEF Absorbs, w
    <3> QED BY <3>1, <3>2, StepsMember DEF v
  <2> QED BY <1>4, <2>2, <2>3, <2>4, <2>5 DEF w
<1>6. ASSUME NEW p \in Steps(c, B) PROVE p \in Steps(d, K)
  <2>1. PICK x \in B : \E i \in DOMAIN c.instructions[x] :
           p = <<c.instructions[x][i], NextCode(c, x, i)>>
    BY <1>6, StepsMember
  <2>2. PICK i \in DOMAIN c.instructions[x] : p = <<c.instructions[x][i], NextCode(c, x, i)>>
    BY <2>1
  <2>3. CASE x \notin {s, t}
    <3>1. x \in K /\ x \in Slots(d) \ {s, t}
      BY <2>3 DEF Absorbs
    <3>2. i \in DOMAIN d.instructions[x] /\ p = <<d.instructions[x][i], NextCode(d, x, i)>>
      BY <1>2, <1>3, <2>2, <3>1
    <3> QED BY <3>1, <3>2, StepsMember
  <2>4. CASE x = s
    <3>1. s \in K /\ i \in DOMAIN u /\ p = <<u[i], NextCode(c, s, i)>>
      BY <2>2, <2>4 DEF Absorbs, u
    <3>2. i \in DOMAIN w /\ p = <<w[i], NextCode(d, s, i)>>
      BY <1>2, <1>4, <3>1
    <3> QED BY <3>1, <3>2, StepsMember DEF w
  <2>5. CASE x = t
    <3>1. s \in K /\ i \in DOMAIN v /\ p = <<v[i], NextCode(c, t, i)>>
      BY <2>2, <2>5 DEF Absorbs, v
    <3>2. n + i \in DOMAIN w /\ p = <<w[n + i], NextCode(d, s, n + i)>>
      BY <1>2, <1>4, <3>1
    <3> QED BY <3>1, <3>2, StepsMember DEF w
  <2> QED BY <2>3, <2>4, <2>5
<1>7. \A tag : tag \in Tags(d, K) <=> tag \in Tags(c, B)
  <2> QED BY <1>5, <1>6, StepsTags
<1> QED BY <1>5, <1>6, <1>7

LEMMA ContractRetained ==
    ASSUME NEW c, WellFormed(c), NEW d, NEW s, NEW t, NEW e, Contracted(c, d, s, t, e)
    PROVE  Absorbs(Retained(d), Retained(c), s, t)
<1> DEFINE R == Retained(c)
           Q == Retained(d)
           T == {x \in Slots(c) : \/ x # t /\ x \in Q
                                  \/ x = t /\ s \in Q}
<1>1. /\ WellFormed(d) /\ SameFrame(c, d) /\ Lands(c) /\ Slots(d) = Slots(c) /\ s # t
      /\ Folded(c, d, s, t, e) /\ t \in Slots(c) /\ s \in Slots(c)
      /\ t # c.entry /\ t \notin anchors(c)
  BY WellFormedLands DEF Contracted, Folded, CanContract, can_fold_into, is_anchor
<1>2. /\ c.edges[e].source = s /\ c.edges[e].target = t /\ e \in c.live_edges
      /\ \A x \in c.live_edges \ {e} :
            /\ x \in d.live_edges /\ c.edges[x].source # s /\ c.edges[x].target # t
            /\ d.edges[x].target = c.edges[x].target
            /\ d.edges[x].source = IF c.edges[x].source = t THEN s ELSE c.edges[x].source
      /\ d.live_edges = c.live_edges \ {e}
  BY <1>1, FoldedEdges
<1>3. Roots(d) = Roots(c) /\ Roots(c) \subseteq Slots(c) /\ t \notin Roots(c)
  BY <1>1, SameRoots, RootsLive
<1>4. Roots(c) \subseteq R /\ R \subseteq Slots(c) /\ Closed(c, R)
  BY <1>3, ReachableHolds DEF Retained
<1>5. Roots(c) \subseteq Q /\ Q \subseteq Slots(c) /\ Closed(d, Q)
  BY <1>1, <1>3, ReachableHolds DEF Retained
<1>6. R \subseteq T
  <2>1. Closed(c, T)
    BY <1>1, <1>2, <1>5 DEF Closed, Lands
  <2>2. T \in SUBSET Slots(c) /\ Roots(c) \subseteq T
    BY <1>3, <1>5
  <2> HIDE DEF T
  <2> QED BY <2>1, <2>2, ReachableLeast DEF Retained
<1>7. s \in R => t \in R
  BY <1>2, <1>4 DEF Closed
<1>8. Q \subseteq R \ {t}
  <2>1. Closed(d, R \ {t})
    BY <1>2, <1>4, <1>7 DEF Closed
  <2>2. R \ {t} \in SUBSET Slots(d) /\ Roots(d) \subseteq R \ {t}
    BY <1>1, <1>3, <1>4
  <2> HIDE DEF R
  <2> QED BY <2>1, <2>2, ReachableLeast DEF Retained
<1> HIDE DEF R, Q
<1>9. Absorbs(Q, R, s, t)
  BY <1>1, <1>6, <1>7, <1>8 DEF Absorbs
<1> QED BY <1>9 DEF R, Q

LEMMA ContractKeepsCode ==
    ASSUME NEW c, WellFormed(c), Named(c), NEW d, NEW s, NEW t, NEW e,
           Contracted(c, d, s, t, e)
    PROVE  KeepsCode(c, d)
<1> DEFINE R == Retained(c)
           Q == Retained(d)
<1>1. /\ WellFormed(d) /\ SameFrame(c, d) /\ Lands(c) /\ Lands(d) /\ Slots(d) = Slots(c)
      /\ Folded(c, d, s, t, e) /\ s # t /\ t \notin {c.entry} \cup anchors(c)
      /\ s \in c.live_blocks /\ t \in c.live_blocks /\ c.live_blocks \subseteq Slots(c)
      /\ d.live_blocks = c.live_blocks \ {t}
      /\ \A S \in ProtectedSets(c) \cup Bodies(c) : s \in S <=> t \in S
  BY WellFormedLands DEF Contracted, Folded, CanContract, can_fold_into, is_anchor, WellFormed
<1>2. R \subseteq Slots(c) /\ {c.entry} \cup anchors(c) \subseteq R
  BY RootsLive, RootsReached, ReachableHolds DEF Retained
<1>3. Q \subseteq Slots(c)
  BY <1>1, RootsLive, ReachableHolds DEF Retained
<1>4. Absorbs(Q, R, s, t)
  BY ContractRetained
<1> HIDE DEF R, Q
<1>5. Steps(d, Q) = Steps(c, R) /\ Tags(d, Q) = Tags(c, R)
  BY <1>1, <1>2, <1>3, <1>4, FoldedSteps
<1>6. \A x \in {c.entry} \cup anchors(c) : FirstCode(d, {x}) = FirstCode(c, {x})
  BY <1>1, <1>2, FoldedFirst
<1>7. Flow(d, Q) = Flow(c, R)
  <2>1. SameFrame(c, d)
    BY <1>1
  <2>2. Steps(d, Q) = Steps(c, R)
    BY <1>5
  <2> QED BY <2>1, <2>2, <1>6, FlowKept
<1>8. ASSUME NEW S \in ProtectedSets(c) \cup Bodies(c)
      PROVE  Tags(d, S \cap d.live_blocks) = Tags(c, S \cap c.live_blocks)
  <2>1. Absorbs(S \cap d.live_blocks, S \cap c.live_blocks, s, t)
    BY <1>1 DEF Absorbs
  <2>2. /\ S \cap d.live_blocks \in SUBSET Slots(d)
        /\ S \cap c.live_blocks \in SUBSET Slots(c)
    BY <1>1
  <2> QED BY <1>1, <2>1, <2>2, FoldedSteps
<1>9. \A tag \in Tags(d, Q) : tag \in Tags(c, R) /\ InPlace(c, d, tag)
  BY <1>5, <1>8 DEF InPlace
<1> QED BY <1>1, <1>7, <1>9, PlaceKept DEF KeepsCode, R, Q
-----------------------------------------------------------------------------
(* The passes.  Entry and metadata never change, so the input's roots are  *)
(* the roots all along.                                                    *)
CodeInv ==
    /\ SameFrame(origin, cfg) /\ Named(cfg)
    /\ KeepsCode(origin, cfg)
    /\ pass.name = "critical" => LoopHeaders(cfg) = LoopHeaders(origin)

LEMMA KeepsCodeOn ==
    ASSUME NEW b, NEW c, NEW d, KeepsCode(b, c), KeepsCode(c, d)
    PROVE  KeepsCode(b, d)
BY DEF KeepsCode

LEMMA KeepsCodeSelf ==
    ASSUME NEW c
    PROVE  KeepsCode(c, c) /\ SameFrame(c, c)
BY DEF KeepsCode, SameFrame

LEMMA NamedKept ==
    ASSUME NEW c, NEW d, SameFrame(c, d), Named(c)
    PROVE  Named(d)
BY DEF SameFrame, Named, Handlers, Cleanups

(* A step that makes the graph d, perhaps the same one. *)
Makes(d) == cfg' = d /\ origin' = origin /\ pass'.name = pass.name

LEMMA CodeUntouched ==
    ASSUME CodeInv, Makes(cfg)
    PROVE  CodeInv'
BY DEF CodeInv, Makes

LEMMA CodeTouched ==
    ASSUME CodeInv, NEW d, Makes(d),
           SameFrame(cfg, d), KeepsCode(cfg, d),
           pass.name = "critical" => LoopHeaders(d) = LoopHeaders(cfg)
    PROVE  CodeInv'
<1>1. KeepsCode(origin, d)
  BY KeepsCodeOn DEF CodeInv
<1>2. SameFrame(origin, d) /\ Named(d)
  BY NamedKept DEF CodeInv, SameFrame
<1>3. pass.name = "critical" => LoopHeaders(d) = LoopHeaders(origin)
  BY DEF CodeInv
<1> QED BY <1>1, <1>2, <1>3 DEF CodeInv, Makes

(* A phase of split_critical_edges is the pass of that name. *)
LEMMA CriticalAlone ==
    ASSUME LeftInv, pass.phases # <<>>
    PROVE  pass.name = "critical" <=> Phase = "critical"
BY PhaseOf DEF LeftInv

(* A pass never changes what the code does: at every step of every pass,   *)
(* on any graph with any exception metadata, the same instructions follow  *)
(* one another from the entry, the handlers and the continuations, none    *)
(* crosses a protection boundary, and a split back edge enters its header. *)
THEOREM PassesKeepCode == PassSpec => []PassKeepsCode
<1>1. PassInit => PassRecordInv /\ LeftInv /\ CodeInv
  <2> SUFFICES ASSUME PassInit PROVE PassRecordInv /\ LeftInv /\ CodeInv
    OBVIOUS
  <2>1. PassRecordInv /\ LeftInv
    BY PassRecordInit, LeftInit
  <2>2. origin = cfg /\ cfg \in Inputs
    BY DEF PassInit
  <2>3. Named(cfg)
    BY <2>2, PassAssumption DEF Named
  <2>4. CodeInv
    BY <2>2, <2>3, KeepsCodeSelf DEF CodeInv
  <2> QED BY <2>1, <2>4
<1>2. PassRecordInv /\ LeftInv /\ CodeInv /\ [PassNext]_passVars
        => PassRecordInv' /\ LeftInv' /\ CodeInv'
  <2> SUFFICES ASSUME PassRecordInv, LeftInv, CodeInv, [PassNext]_passVars
               PROVE  PassRecordInv' /\ LeftInv' /\ CodeInv'
    OBVIOUS
  <2>1. PassRecordInv' /\ LeftInv'
    BY PassRecordPreserved, LeftPreserved
  <2> SUFFICES CodeInv'
    BY <2>1
  <2>2. PassInv /\ PassInv' /\ Once(cfg) /\ WellFormed(cfg)
    BY <2>1 DEF PassRecordInv, PassInv
  <2>3. CASE UNCHANGED passVars
    BY <2>3, CodeUntouched DEF passVars, Makes
  <2>4. CASE Begin \/ EndPhase \/ NextRound
    <3>1. cfg' = cfg /\ origin' = origin
      BY <2>4 DEF Begin, EndPhase, NextRound
    <3>2. pass'.name = pass.name
      <4>1. CASE Begin \/ EndPhase
        BY <2>2, <4>1 DEF Begin, EndPhase, PassInv, PassShape
      <4>2. CASE NextRound
        BY <4>2 DEF NextRound, Started
      <4> QED BY <2>4, <4>1, <4>2
    <3> QED BY <3>1, <3>2, CodeUntouched DEF Makes
  <2>5. CASE remove_unreachable
    <3>1. OnlyRetained(cfg, cfg')
      BY <2>2, <2>5, UnreachableRetains DEF PassInv
    <3>2. PICK d : d = cfg'
      OBVIOUS
    <3>3. SameFrame(cfg, d) /\ KeepsCode(cfg, d)
      BY <2>2, <3>1, <3>2, UnreachableKeepsCode DEF CodeInv, OnlyRetained
    <3>4. Makes(d)
      BY <2>2, <2>5, <3>2 DEF remove_unreachable, PassInv, PassShape, Makes
    <3>5. pass.name # "critical"
      BY <2>5, CriticalAlone DEF remove_unreachable, In
    <3> QED BY <3>3, <3>4, <3>5, CodeTouched
  <2>6. CASE remove_empty_blocks
    <3>1. pass.name # "critical"
      BY <2>6, CriticalAlone DEF remove_empty_blocks, Working, In
    <3>2. CASE Skip
      <4>1. Makes(cfg)
        BY <2>2, <3>2 DEF Skip, PassInv, PassShape, Makes
      <4> QED BY <4>1, CodeUntouched
    <3>3. ASSUME NEW b, NEW e \in cfg.live_edges, Bypassable(cfg, b, e), NEW map, NEW todo,
                 Apply(bypass(cfg, b, e), map, todo)
          PROVE  CodeInv'
      <4> DEFINE d == bypass(cfg, b, e)
      <4>1. Bypassed(cfg, d, b, cfg.edges[e].target, e)
        BY <2>2, <3>3, BypassBypasses
      <4>2. Makes(d)
        BY <2>2, <3>3 DEF Apply, PassInv, PassShape, Makes
      <4> HIDE DEF d
      <4>3. SameFrame(cfg, d) /\ KeepsCode(cfg, d)
        BY <2>2, <4>1, BypassKeepsCode DEF CodeInv, Bypassed
      <4> QED BY <3>1, <4>2, <4>3, CodeTouched
    <3> QED BY <2>6, <3>2, <3>3 DEF remove_empty_blocks
  <2>7. CASE merge_blocks
    <3>1. pass.name # "critical"
      BY <2>7, CriticalAlone DEF merge_blocks, Working, In
    <3>2. CASE Skip
      <4>1. Makes(cfg)
        BY <2>2, <3>2 DEF Skip, PassInv, PassShape, Makes
      <4> QED BY <4>1, CodeUntouched
    <3>3. ASSUME NEW b \in cfg.live_blocks, NEW e \in cfg.live_edges,
                 CanContract(cfg, b, cfg.edges[e].target, e), NEW map, NEW todo,
                 Apply(contract_edge(cfg, b, cfg.edges[e].target, e), map, todo)
          PROVE  CodeInv'
      <4> DEFINE t == cfg.edges[e].target
                 d == contract_edge(cfg, b, t, e)
      <4>1. t \in cfg.live_blocks
        BY <2>2 DEF WellFormed
      <4>2. Contracted(cfg, d, b, t, e)
        <5> HIDE DEF t
        <5> QED BY <2>2, <3>3, <4>1, ContractContracts DEF t
      <4>3. Makes(d)
        BY <2>2, <3>3 DEF Apply, PassInv, PassShape, Makes
      <4> HIDE DEF d
      <4>4. SameFrame(cfg, d) /\ KeepsCode(cfg, d)
        BY <2>2, <4>2, ContractKeepsCode DEF CodeInv, Contracted
      <4> QED BY <3>1, <4>3, <4>4, CodeTouched
    <3> QED BY <2>7, <3>2, <3>3 DEF merge_blocks
  <2>8. CASE split_critical_edges
    <3> DEFINE e == Head(pass.todo)
               d == split_edge(cfg, e)
               middle == Len(cfg.instructions) + 1
               second == Len(cfg.edges) + 1
    <3>1. pass.todo # <<>> /\ pass.todo \in Seq(cfg.live_edges)
      BY <2>2, <2>8 DEF split_critical_edges, Working, In, PassInv, ListLive
    <3>2. e \in cfg.live_edges
      BY <3>1, Taken
    <3>3. Bent(cfg, d, e, middle, second)
      BY <2>2, <3>2, SplitBends
    <3>4. Makes(d)
      BY <2>2, <2>8 DEF split_critical_edges, Apply, PassInv, PassShape, Makes
    <3> HIDE DEF d, middle, second, e
    <3>5. SameFrame(cfg, d) /\ KeepsCode(cfg, d) /\ LoopHeaders(d) = LoopHeaders(cfg)
      BY <2>2, <3>3, BentKeepsCode, BentHeaders DEF CodeInv, Bent
    <3> QED BY <3>4, <3>5, CodeTouched
  <2> QED BY <2>3, <2>4, <2>5, <2>6, <2>7, <2>8 DEF PassNext
<1>3. PassRecordInv /\ LeftInv /\ CodeInv => PassKeepsCode
  BY DEF CodeInv, KeepsCode, PassKeepsCode, BackEdgesEnterTheirHeaders
<1> QED BY <1>1, <1>2, <1>3, PTL DEF PassSpec

-----------------------------------------------------------------------------
(* A client's rearrangements.  Two graphs with the same regions, handlers  *)
(* and cleanups, whose protected ranges and handler bodies hold the same   *)
(* code.                                                                   *)
SameBody(c, d, S, T) ==
    /\ T = <<>> <=> S = <<>>
    /\ S # <<>> => Tags(d, T[1] \cap d.live_blocks) = Tags(c, S[1] \cap c.live_blocks)

SamePlaces(c, d) ==
    /\ DOMAIN d.regions = DOMAIN c.regions
    /\ \A r \in DOMAIN c.regions :
          /\ Tags(d, d.regions[r].protected_blocks \cap d.live_blocks)
               = Tags(c, c.regions[r].protected_blocks \cap c.live_blocks)
          /\ DOMAIN d.regions[r].handlers = DOMAIN c.regions[r].handlers
          /\ \A h \in DOMAIN c.regions[r].handlers :
                SameBody(c, d, c.regions[r].handlers[h].body, d.regions[r].handlers[h].body)

LEMMA SamePlacesKept ==
    ASSUME NEW c, NEW d, SamePlaces(c, d), NEW tag
    PROVE  RegionsOf(d, tag) = RegionsOf(c, tag) /\ HandlersOf(d, tag) = HandlersOf(c, tag)
<1>1. RegionsOf(d, tag) = RegionsOf(c, tag)
  BY DEF RegionsOf, SamePlaces
<1>2. HandlerRefs(d) = HandlerRefs(c)
  BY SameReferences DEF SamePlaces
<1>3. ASSUME NEW h \in HandlerRefs(c)
      PROVE  SameBody(c, d, c.regions[h.region].handlers[h.index].body,
                            d.regions[h.region].handlers[h.index].body)
  <2>1. PICK r \in DOMAIN c.regions : \E i \in DOMAIN c.regions[r].handlers :
           h = [region |-> r, index |-> i]
    BY DEF HandlerRefs
  <2>2. PICK i \in DOMAIN c.regions[r].handlers : h = [region |-> r, index |-> i]
    BY <2>1
  <2>3. h.region = r /\ h.index = i
    BY SMTT(30), <2>2
  <2> QED BY ZenonT(40), <2>3 DEF SamePlaces
<1>4. HandlersOf(d, tag) = HandlersOf(c, tag)
  BY <1>2, <1>3 DEF HandlersOf, SameBody
<1> QED BY <1>1, <1>4

(* Two graphs whose handlers and continuations start the same code, one by *)
(* one.                                                                    *)
SameStarts(c, d) ==
    /\ FirstCode(d, {d.entry}) = FirstCode(c, {c.entry})
    /\ DOMAIN d.regions = DOMAIN c.regions
    /\ \A r \in DOMAIN c.regions :
          /\ DOMAIN d.regions[r].handlers = DOMAIN c.regions[r].handlers
          /\ \A h \in DOMAIN c.regions[r].handlers :
                FirstCode(d, {d.regions[r].handlers[h].entry})
                  = FirstCode(c, {c.regions[r].handlers[h].entry})
    /\ DOMAIN d.cleanups = DOMAIN c.cleanups
    /\ \A i \in DOMAIN c.cleanups :
          /\ \A t \in c.cleanups[i].continuations :
                \E u \in d.cleanups[i].continuations :
                   /\ u.reason = t.reason
                   /\ FirstCode(d, {u.resume}) = FirstCode(c, {t.resume})
          /\ \A u \in d.cleanups[i].continuations :
                \E t \in c.cleanups[i].continuations :
                   /\ u.reason = t.reason
                   /\ FirstCode(d, {u.resume}) = FirstCode(c, {t.resume})

LEMMA FlowMatched ==
    ASSUME NEW c, NEW d, SameStarts(c, d), NEW B, NEW K, Steps(d, K) = Steps(c, B)
    PROVE  Flow(d, K) = Flow(c, B)
<1> DEFINE D(t) == <<t.reason, FirstCode(d, {t.resume})>>
           C(t) == <<t.reason, FirstCode(c, {t.resume})>>
           DH == {FirstCode(d, {h.entry}) : h \in Handlers(d)}
           CH == {FirstCode(c, {h.entry}) : h \in Handlers(c)}
           DR == UNION {{D(t) : t \in k.continuations} : k \in Cleanups(d)}
           CR == UNION {{C(t) : t \in k.continuations} : k \in Cleanups(c)}
<1>1. DH = CH
  <2> DEFINE DF(h) == FirstCode(d, {h.entry})
             CF(h) == FirstCode(c, {h.entry})
  <2>1. \A h : h \in Handlers(d) <=> \E r \in DOMAIN d.regions :
                  \E j \in DOMAIN d.regions[r].handlers : h = d.regions[r].handlers[j]
    BY DEF Handlers
  <2>2. \A h : h \in Handlers(c) <=> \E r \in DOMAIN c.regions :
                  \E j \in DOMAIN c.regions[r].handlers : h = c.regions[r].handlers[j]
    BY DEF Handlers
  <2>3. \A r \in DOMAIN c.regions : \A j \in DOMAIN c.regions[r].handlers :
           DF(d.regions[r].handlers[j]) = CF(c.regions[r].handlers[j])
    BY DEF SameStarts
  <2>4. /\ DOMAIN d.regions = DOMAIN c.regions
        /\ \A r \in DOMAIN c.regions :
              DOMAIN d.regions[r].handlers = DOMAIN c.regions[r].handlers
    BY DEF SameStarts
  <2>5. DH = {DF(h) : h \in Handlers(d)} /\ CH = {CF(h) : h \in Handlers(c)}
    OBVIOUS
  <2> HIDE DEF DF, CF, DH, CH
  <2>6. \A h \in Handlers(d) : \E g \in Handlers(c) : DF(h) = CF(g)
    BY <2>1, <2>2, <2>3, <2>4
  <2>7. \A g \in Handlers(c) : \E h \in Handlers(d) : DF(h) = CF(g)
    BY <2>1, <2>2, <2>3, <2>4
  <2> QED BY <2>5, <2>6, <2>7
<1>2. \A t, u : u.reason = t.reason /\ FirstCode(d, {u.resume}) = FirstCode(c, {t.resume})
                  => D(u) = C(t)
  OBVIOUS
<1>3. DR = CR
  <2>1. \A x : x \in DR <=> \E i \in DOMAIN d.cleanups :
                               \E u \in d.cleanups[i].continuations : x = D(u)
    <3> HIDE DEF D
    <3> QED BY DEF Cleanups
  <2>2. \A x : x \in CR <=> \E i \in DOMAIN c.cleanups :
                               \E t \in c.cleanups[i].continuations : x = C(t)
    <3> HIDE DEF C
    <3> QED BY DEF Cleanups
  <2> HIDE DEF D, C, DR, CR
  <2>3. ASSUME NEW x \in DR PROVE x \in CR
    <3>1. PICK i \in DOMAIN d.cleanups : \E u \in d.cleanups[i].continuations : x = D(u)
      BY <2>1, <2>3
    <3>2. PICK u \in d.cleanups[i].continuations : x = D(u)
      BY <3>1
    <3>3. i \in DOMAIN c.cleanups
      BY DEF SameStarts
    <3>4. PICK t \in c.cleanups[i].continuations :
             u.reason = t.reason /\ FirstCode(d, {u.resume}) = FirstCode(c, {t.resume})
      BY <3>3 DEF SameStarts
    <3> QED BY <1>2, <2>2, <3>2, <3>3, <3>4
  <2>4. ASSUME NEW x \in CR PROVE x \in DR
    <3>1. PICK i \in DOMAIN c.cleanups : \E t \in c.cleanups[i].continuations : x = C(t)
      BY <2>2, <2>4
    <3>2. PICK t \in c.cleanups[i].continuations : x = C(t)
      BY <3>1
    <3>3. i \in DOMAIN d.cleanups
      BY DEF SameStarts
    <3>4. PICK u \in d.cleanups[i].continuations :
             u.reason = t.reason /\ FirstCode(d, {u.resume}) = FirstCode(c, {t.resume})
      BY DEF SameStarts
    <3> QED BY <1>2, <2>1, <3>2, <3>3, <3>4
  <2> QED BY <2>3, <2>4
<1>4. Flow(d, K) = [next |-> Steps(d, K), start |-> FirstCode(d, {d.entry}),
                    handlers |-> DH, resumes |-> DR]
  BY DEF Flow, Steps
<1>5. Flow(c, B) = [next |-> Steps(c, B), start |-> FirstCode(c, {c.entry}),
                    handlers |-> CH, resumes |-> CR]
  BY DEF Flow, Steps
<1> HIDE DEF DH, CH, DR, CR
<1> QED BY <1>1, <1>3, <1>4, <1>5 DEF SameStarts

(* What a rearrangement leads to. *)
InOrder(c, d) ==
    /\ \A tag : /\ RegionsOf(d, tag) = RegionsOf(c, tag)
                /\ HandlersOf(d, tag) = HandlersOf(c, tag)
    /\ dangling_anchors(c) = {} =>
          /\ dangling_anchors(d) = {} /\ DOMAIN d.cleanups = DOMAIN c.cleanups
          /\ Flow(d, d.live_blocks) = Flow(c, c.live_blocks)
          /\ \A i \in DOMAIN c.cleanups :
                Dispatches(c, i) => Dispatches(d, i) /\ Exits(d, i) = Exits(c, i)

LEMMA InOrderOn ==
    ASSUME NEW b, NEW c, NEW d, InOrder(b, c), InOrder(c, d)
    PROVE  InOrder(b, d)
BY DEF InOrder

LEMMA AnchoredLands ==
    ASSUME NEW c, AnchoredGraph(c)
    PROVE  /\ Lands(c) /\ c.live_blocks \subseteq Slots(c) /\ 0 \notin Slots(c)
           /\ c.entry \in Slots(c) /\ c.instructions \in Seq(Seq(Nat))
<1>1. Graph(c) /\ Joins(c) /\ c.entry \in c.live_blocks /\ c.live_blocks \subseteq Slots(c)
  BY DEF AnchoredGraph, Graph
<1>2. 0 \notin Slots(c) /\ c.instructions \in Seq(Seq(Nat))
  <2>1. Slots(c) = 1..Len(c.instructions) /\ c.instructions \in Seq(Seq(Nat))
    BY <1>1, SlotsOf DEF Graph, Shaped
  <2> QED BY <2>1
<1>3. Lands(c)
  BY <1>1 DEF Joins, Lands
<1> QED BY <1>1, <1>2, <1>3

LEMMA AnchoredNamed ==
    ASSUME NEW c, AnchoredGraph(c)
    PROVE  Named(c)
<1>1. /\ 0 \notin Slots(c)
      /\ \A r \in DOMAIN c.regions : RegionGood(c.regions[r], r, DOMAIN c.regions, Slots(c))
      /\ \A i \in DOMAIN c.cleanups : CleanupGood(c.cleanups[i], HandlerRefs(c), Slots(c))
  BY AnchoredLands DEF AnchoredGraph, MetadataGood
<1>2. \A h \in Handlers(c) : h.entry # 0
  <2> SUFFICES ASSUME NEW h \in Handlers(c) PROVE h.entry # 0
    OBVIOUS
  <2>1. PICK r \in DOMAIN c.regions : \E j \in DOMAIN c.regions[r].handlers :
           h = c.regions[r].handlers[j]
    BY DEF Handlers
  <2>2. RegionGood(c.regions[r], r, DOMAIN c.regions, Slots(c))
    BY <1>1
  <2>3. HandlerGood(h, Slots(c))
    BY <2>1, <2>2 DEF RegionGood
  <2> QED BY <1>1, <2>3 DEF HandlerGood
<1>3. \A k \in Cleanups(c) : \A t \in k.continuations : t.resume # 0
  BY <1>1 DEF Cleanups, CleanupGood
<1> QED BY <1>2, <1>3 DEF Named

(* contract_edge folds, without a look at the anchors. *)
LEMMA ContractFolds ==
    ASSUME NEW c, Graph(c), NEW s \in c.live_blocks, NEW t \in c.live_blocks,
           NEW e \in c.live_edges, CanContract(c, s, t, e)
    PROVE  LET d == contract_edge(c, s, t, e)
           IN  /\ Folded(c, d, s, t, e) /\ SameFrame(c, d) /\ Slots(d) = Slots(c)
               /\ d.live_blocks = c.live_blocks \ {t}
<1> DEFINE d == contract_edge(c, s, t, e)
<1>1. s # t /\ outgoing(c, s) = {e} /\ incoming(c, t) = {e}
  BY DEF CanContract
<1>2. /\ Joined(c, d.instructions, s, t)
      /\ d.live_blocks = c.live_blocks \ {t} /\ d.live_edges = c.live_edges \ {e}
      /\ SameFrame(c, d)
      /\ \A x \in d.live_edges :
            /\ d.edges[x].target = c.edges[x].target
            /\ d.edges[x].source = IF c.edges[x].source = t THEN s ELSE c.edges[x].source
  BY <1>1, ContractFields DEF SameFrame
<1> HIDE DEF d
<1>3. /\ s \in Slots(c) /\ t \in Slots(c) /\ Slots(d) = Slots(c)
      /\ c.instructions[s] \in Seq(Nat) /\ c.instructions[t] \in Seq(Nat)
  <2>1. s \in Slots(c) /\ t \in Slots(c) /\ Slots(d) = Slots(c)
    BY <1>2 DEF Graph, Joined, Slots
  <2>2. c.instructions \in Seq(Seq(Nat))
    BY DEF Graph, Shaped
  <2> QED BY <2>1, <2>2 DEF Slots
<1>4. Folded(c, d, s, t, e)
  BY <1>1, <1>2, <1>3 DEF Folded, Joined
<1> QED BY <1>2, <1>3, <1>4 DEF d

LEMMA ContractInOrder ==
    ASSUME NEW c, AnchoredGraph(c), NEW s \in c.live_blocks, NEW t \in c.live_blocks,
           NEW e \in c.live_edges, CanContract(c, s, t, e)
    PROVE  InOrder(c, contract_edge(c, s, t, e))
<1>1. PICK d : d = contract_edge(c, s, t, e)
  OBVIOUS
<1>2. /\ Folded(c, d, s, t, e) /\ SameFrame(c, d) /\ Slots(d) = Slots(c)
      /\ d.live_blocks = c.live_blocks \ {t}
  BY <1>1, ContractFolds DEF AnchoredGraph
<1>3. AnchoredGraph(d)
  BY <1>1, ContractAnchored
<1>4. /\ Lands(c) /\ Lands(d) /\ c.live_blocks \subseteq Slots(c) /\ s # t
      /\ t # c.entry /\ t \notin anchors(c) /\ c.entry \in c.live_blocks
      /\ \A S \in ProtectedSets(c) \cup Bodies(c) : s \in S <=> t \in S
  BY <1>3, AnchoredLands DEF CanContract, can_fold_into, is_anchor, AnchoredGraph
<1>5. ASSUME NEW S, s \in S <=> t \in S
      PROVE  /\ Tags(d, S \cap d.live_blocks) = Tags(c, S \cap c.live_blocks)
             /\ Steps(d, S \cap d.live_blocks) = Steps(c, S \cap c.live_blocks)
  <2>1. Absorbs(S \cap d.live_blocks, S \cap c.live_blocks, s, t)
    BY <1>2, <1>4, <1>5 DEF Absorbs
  <2>2. /\ S \cap d.live_blocks \in SUBSET Slots(d)
        /\ S \cap c.live_blocks \in SUBSET Slots(c)
    BY <1>2, <1>4
  <2> QED BY <1>2, <1>4, <2>1, <2>2, FoldedSteps
<1>6. ASSUME NEW tag
      PROVE  RegionsOf(d, tag) = RegionsOf(c, tag) /\ HandlersOf(d, tag) = HandlersOf(c, tag)
  <2>1. InPlace(c, d, tag)
    BY <1>4, <1>5 DEF InPlace
  <2> QED BY <1>2, <2>1, PlaceKept
<1>7. ASSUME dangling_anchors(c) = {}
      PROVE  /\ dangling_anchors(d) = {} /\ Flow(d, d.live_blocks) = Flow(c, c.live_blocks)
  <2>1. anchors(c) \subseteq c.live_blocks \ {t} /\ anchors(d) = anchors(c)
    BY <1>2, <1>4, <1>7 DEF dangling_anchors, anchors, Handlers, Cleanups, SameFrame
  <2>2. \A x \in {c.entry} \cup anchors(c) : FirstCode(d, {x}) = FirstCode(c, {x})
    BY <1>2, <1>4, <2>1, FoldedFirst
  <2>3. Steps(d, d.live_blocks) = Steps(c, c.live_blocks)
    <3>1. /\ d.live_blocks \cap d.live_blocks = d.live_blocks
          /\ c.live_blocks \cap d.live_blocks = d.live_blocks
          /\ c.live_blocks \cap c.live_blocks = c.live_blocks
      BY <1>2
    <3> QED BY <1>5, <3>1
  <2>4. Named(c) /\ SameFrame(c, d)
    BY <1>2, AnchoredNamed
  <2>5. Flow(d, d.live_blocks) = Flow(c, c.live_blocks)
    BY <2>2, <2>3, <2>4, FlowKept
  <2> QED BY <1>2, <2>1, <2>5 DEF dangling_anchors
<1>8. ASSUME NEW i \in DOMAIN c.cleanups, Dispatches(c, i)
      PROVE  Dispatches(d, i) /\ Exits(d, i) = Exits(c, i)
  <2> DEFINE k == c.cleanups[i]
             x == k.resume_from
  <2>1. x # 0 /\ successors(c, x) = {u.resume : u \in k.continuations}
    BY <1>8 DEF Dispatches
  <2>2. x \in anchors(c)
    BY <2>1, AnchorNamed
  <2>3. \A u \in k.continuations : u.resume \in anchors(c)
    BY AnchoredNamed, AnchorNamed DEF Named, Cleanups
  <2>4. x # s
    BY <1>2, <1>4, <2>1, <2>3, FoldedEdges
  <2>5. /\ successors(d, x) = successors(c, x) /\ t \notin successors(c, x)
    BY <1>2, <1>4, <2>2, <2>4, FoldedEdges
  <2>6. successors(c, x) \in SUBSET Slots(d)
    BY <1>2, <1>4 DEF successors, outgoing, Lands
  <2>7. FirstCode(d, successors(c, x)) = FirstCode(c, successors(c, x))
    BY <1>2, <1>4, <2>5, <2>6, FoldedFirst
  <2> QED BY <1>2, <2>1, <2>5, <2>7 DEF Dispatches, Exits, SameFrame
<1>9. InOrder(c, d)
  BY <1>2, <1>6, <1>7, <1>8 DEF InOrder, SameFrame
<1> QED BY <1>1, <1>9

-----------------------------------------------------------------------------
(* A split is a fold read backwards. *)
LEMMA HalvesJoin ==
    ASSUME NEW s \in Seq(Nat), NEW at \in Nat, at <= Len(s)
    PROVE  SubSeq(s, 1, at) \o SubSeq(s, at + 1, Len(s)) = s
<1> DEFINE u == SubSeq(s, 1, at)
           v == SubSeq(s, at + 1, Len(s))
           w == u \o v
<1>1. /\ u \in Seq(Nat) /\ Len(u) = at /\ \A i \in 1..at : u[i] = s[i]
      /\ v \in Seq(Nat) /\ Len(v) = Len(s) - at
      /\ \A i \in 1..Len(s) - at : v[i] = s[at + i]
  <2>1. u \in Seq(Nat) /\ Len(u) = at
    OBVIOUS
  <2>2. \A i \in 1..at : u[i] = s[i]
    OBVIOUS
  <2>3. v \in Seq(Nat) /\ Len(v) = Len(s) - at
    OBVIOUS
  <2>4. \A i \in 1..Len(s) - at : v[i] = s[at + i]
    OBVIOUS
  <2> QED BY <2>1, <2>2, <2>3, <2>4
<1> HIDE DEF u, v
<1>2. w \in Seq(Nat) /\ Len(w) = Len(s)
  <2>1. u \in Seq(Nat) /\ v \in Seq(Nat)
    BY <1>1
  <2>2. w \in Seq(Nat) /\ Len(w) = Len(u) + Len(v)
    BY <2>1
  <2>3. Len(s) \in Nat
    OBVIOUS
  <2> HIDE DEF w
  <2> QED BY <1>1, <2>2, <2>3
<1>3. ASSUME NEW i \in 1..Len(s) PROVE w[i] = s[i]
  <2>1. CASE i <= at
    BY <1>1, <2>1
  <2>2. CASE ~(i <= at)
    <3>1. i - at \in 1..Len(v) /\ w[i] = v[i - at] /\ at + (i - at) = i
      BY <1>1, <2>2
    <3> QED BY <1>1, <3>1
  <2> QED BY <2>1, <2>2
<1>4. w = s
  <2> HIDE DEF w
  <2> QED BY SMTT(30), <1>2, <1>3
<1> QED BY <1>4 DEF u, v

LEMMA SplitFolds ==
    ASSUME NEW c, Graph(c), Joins(c), NEW b \in c.live_blocks, NEW at \in Nat,
           at <= Len(c.instructions[b])
    PROVE  LET d == split_block_mapped(c, b, at).cfg
               tail == Len(c.instructions) + 1
           IN  /\ Folded(d, c, b, tail, Len(c.edges) + 1)
               /\ Slots(d) = Slots(c) \cup {tail} /\ tail \notin Slots(c)
               /\ d.live_blocks = c.live_blocks \cup {tail}
<1> DEFINE d == split_block_mapped(c, b, at).cfg
           tail == Len(c.instructions) + 1
           n == Len(c.edges) + 1
<1>1. /\ CutOff(c, d.instructions, b, tail, at)
      /\ d.live_blocks = c.live_blocks \cup {tail}
      /\ d.live_edges = c.live_edges \cup {n} /\ n \notin EdgeSlots(c)
      /\ d.edges[n].source = b /\ d.edges[n].target = tail
      /\ \A x \in c.live_edges :
            /\ d.edges[x].target = c.edges[x].target
            /\ d.edges[x].source = IF c.edges[x].source = b THEN tail
                                   ELSE c.edges[x].source
  BY SplitFields
<1>2. /\ b \in Slots(c) /\ n \notin c.live_edges /\ c.live_blocks \subseteq Slots(c)
  BY <1>1 DEF Graph
<1>3. c.instructions[b] \in Seq(Nat)
  BY <1>2 DEF Graph, Shaped, Slots
<1> HIDE DEF d, tail, n
<1>4. /\ Slots(d) = Slots(c) \cup {tail} /\ tail \notin Slots(c) /\ b # tail
      /\ d.instructions \in Seq(Seq(Nat))
      /\ \A x \in Slots(c) \ {b, tail} : c.instructions[x] = d.instructions[x]
  BY <1>1, <1>2 DEF CutOff, Slots
<1>5. d.instructions[b] \in Seq(Nat) /\ d.instructions[tail] \in Seq(Nat)
  BY <1>2, <1>4 DEF Slots
<1>6. c.instructions[b] = d.instructions[b] \o d.instructions[tail]
  <2> DEFINE code == c.instructions[b]
  <2>1. code \in Seq(Nat) /\ at <= Len(code)
    BY <1>3
  <2> HIDE DEF code
  <2>2. SubSeq(code, 1, at) \o SubSeq(code, at + 1, Len(code)) = code
    BY <2>1, HalvesJoin
  <2>3. /\ d.instructions[b] = SubSeq(code, 1, at)
        /\ d.instructions[tail] = SubSeq(code, at + 1, Len(code))
    BY <1>1 DEF CutOff, code
  <2> QED BY <2>2, <2>3 DEF code
<1>7. \A x \in c.live_edges : c.edges[x].source \in Slots(c) /\ c.edges[x].target \in Slots(c)
  BY <1>2 DEF Joins
<1>8. outgoing(d, b) = {n} /\ incoming(d, tail) = {n}
  <2>1. \A x \in c.live_edges : d.edges[x].source # b /\ d.edges[x].target # tail
    BY <1>1, <1>4, <1>7
  <2>2. \A x : x \in outgoing(d, b) <=> x = n
    BY <1>1, <2>1 DEF outgoing
  <2>3. \A x : x \in incoming(d, tail) <=> x = n
    BY <1>1, <2>1 DEF incoming
  <2> QED BY <2>2, <2>3
<1>9. /\ c.live_edges = d.live_edges \ {n} /\ n \in d.live_edges
      /\ \A x \in c.live_edges :
            /\ c.edges[x].target = d.edges[x].target
            /\ c.edges[x].source = IF d.edges[x].source = tail THEN b ELSE d.edges[x].source
  BY <1>1, <1>2, <1>4, <1>7
<1>10. Folded(d, c, b, tail, n)
  BY <1>2, <1>4, <1>5, <1>6, <1>8, <1>9 DEF Folded
<1> QED BY <1>1, <1>4, <1>10 DEF d, tail, n

LEMMA ListEmpty ==
    ASSUME NEW s, IsList(s)
    PROVE  (s = <<>> <=> DOMAIN s = {}) /\ (s # <<>> => 1 \in DOMAIN s)
<1>1. PICK S : s \in Seq(S)
  BY DEF IsList
<1>2. DOMAIN s = 1..Len(s) /\ Len(s) \in Nat
  BY <1>1
<1>3. s = <<>> <=> Len(s) = 0
  BY <1>1
<1>4. 1..Len(s) = {} <=> Len(s) = 0
  <2>1. Len(s) # 0 => 1 \in 1..Len(s)
    BY <1>2
  <2>2. Len(s) = 0 => 1..Len(s) = {}
    OBVIOUS
  <2> QED BY <2>1, <2>2
<1> QED BY <1>2, <1>3, <1>4

(* What a cleanup record keeps in a split. *)
LEMMA CleanupSpread ==
    ASSUME NEW k, NEW R, NEW B, CleanupGood(k, R, B), NEW head, NEW tail
    PROVE  LET n == extend_cleanup(k, head, tail)
           IN  /\ n.continuations = k.continuations
               /\ n.resume_from = IF k.resume_from = head THEN tail ELSE k.resume_from
BY DEF extend_cleanup, CleanupGood

(* c before the split of b, d after it. *)
Split(c, d, b, tail, n) ==
    /\ AnchoredGraph(c) /\ AnchoredGraph(d) /\ Folded(d, c, b, tail, n)
    /\ Slots(d) = Slots(c) \cup {tail} /\ tail \notin Slots(c) /\ b \in c.live_blocks
    /\ d.live_blocks = c.live_blocks \cup {tail} /\ d.entry = c.entry
    /\ d.regions = ExtendedRegions(c.regions, b, tail)
    /\ d.cleanups = ExtendedCleanups(c.cleanups, b, tail)

LEMMA SplitSplits ==
    ASSUME NEW c, AnchoredGraph(c), NEW b \in c.live_blocks, NEW at \in Nat,
           at <= Len(c.instructions[b])
    PROVE  Split(c, split_block_mapped(c, b, at).cfg, b, Len(c.instructions) + 1,
                 Len(c.edges) + 1)
<1> DEFINE d == split_block_mapped(c, b, at).cfg
           tail == Len(c.instructions) + 1
<1>1. Graph(c) /\ Joins(c)
  BY DEF AnchoredGraph
<1>2. AnchoredGraph(d)
  BY SplitAnchored
<1>3. /\ d.entry = c.entry
      /\ d.regions = ExtendedRegions(c.regions, b, tail)
      /\ d.cleanups = ExtendedCleanups(c.cleanups, b, tail)
  BY <1>1, SplitFields
<1>4. /\ Folded(d, c, b, tail, Len(c.edges) + 1)
      /\ Slots(d) = Slots(c) \cup {tail} /\ tail \notin Slots(c)
      /\ d.live_blocks = c.live_blocks \cup {tail}
  BY <1>1, SplitFolds
<1> HIDE DEF d, tail
<1>5. Split(c, d, b, tail, Len(c.edges) + 1)
  BY <1>2, <1>3, <1>4 DEF Split
<1> QED BY <1>5 DEF d, tail

(* The metadata after a split, record by record. *)
LEMMA SplitRecords ==
    ASSUME NEW c, NEW d, NEW b, NEW tail, NEW n, Split(c, d, b, tail, n)
    PROVE  /\ DOMAIN d.regions = DOMAIN c.regions /\ DOMAIN d.cleanups = DOMAIN c.cleanups
           /\ \A r \in DOMAIN c.regions :
                 /\ d.regions[r].protected_blocks
                      = Extended(c.regions[r].protected_blocks, b, tail)
                 /\ c.regions[r].protected_blocks \subseteq Slots(c)
                 /\ DOMAIN d.regions[r].handlers = DOMAIN c.regions[r].handlers
                 /\ \A h \in DOMAIN c.regions[r].handlers :
                       /\ HandlerGood(c.regions[r].handlers[h], Slots(c))
                       /\ HandlerGood(d.regions[r].handlers[h], Slots(d))
                       /\ Spread(c.regions[r].handlers[h], d.regions[r].handlers[h], b, tail)
           /\ \A i \in DOMAIN c.cleanups :
                 /\ CleanupGood(c.cleanups[i], HandlerRefs(c), Slots(c))
                 /\ d.cleanups[i].continuations = c.cleanups[i].continuations
                 /\ d.cleanups[i].resume_from
                      = IF c.cleanups[i].resume_from = b THEN tail
                        ELSE c.cleanups[i].resume_from
<1>1. /\ DOMAIN d.regions = DOMAIN c.regions /\ DOMAIN d.cleanups = DOMAIN c.cleanups
      /\ \A r \in DOMAIN c.regions : d.regions[r] = extend_region(c.regions[r], b, tail)
      /\ \A i \in DOMAIN c.cleanups : d.cleanups[i] = extend_cleanup(c.cleanups[i], b, tail)
  BY DEF Split, ExtendedRegions, ExtendedCleanups
<1>2. /\ Slots(c) \subseteq Slots(d) /\ tail \in Slots(d)
  BY DEF Split
<1>3. ASSUME NEW r \in DOMAIN c.regions
      PROVE  /\ d.regions[r].protected_blocks
                  = Extended(c.regions[r].protected_blocks, b, tail)
             /\ c.regions[r].protected_blocks \subseteq Slots(c)
             /\ DOMAIN d.regions[r].handlers = DOMAIN c.regions[r].handlers
             /\ \A h \in DOMAIN c.regions[r].handlers :
                   /\ HandlerGood(c.regions[r].handlers[h], Slots(c))
                   /\ HandlerGood(d.regions[r].handlers[h], Slots(d))
                   /\ Spread(c.regions[r].handlers[h], d.regions[r].handlers[h], b, tail)
  <2> DEFINE old == c.regions[r]
             now == d.regions[r]
  <2>1. RegionGood(old, r, DOMAIN c.regions, Slots(c))
    BY DEF Split, AnchoredGraph, MetadataGood
  <2>2. RegionGood(old, r, DOMAIN c.regions, Slots(d))
    BY <1>2, <2>1, GoodGrows
  <2>3. now = extend_region(old, b, tail)
    BY <1>1
  <2> HIDE DEF old, now
  <2>4. /\ RegionGood(now, r, DOMAIN c.regions, Slots(d))
        /\ DOMAIN now.handlers = DOMAIN old.handlers
        /\ now.protected_blocks = Extended(old.protected_blocks, b, tail)
        /\ \A h \in DOMAIN old.handlers : Spread(old.handlers[h], now.handlers[h], b, tail)
    BY <1>2, <2>2, <2>3, RegionExtended
  <2>5. /\ old.protected_blocks \subseteq Slots(c)
        /\ \A h \in DOMAIN old.handlers : /\ HandlerGood(old.handlers[h], Slots(c))
                                          /\ HandlerGood(now.handlers[h], Slots(d))
    BY <2>1, <2>4 DEF RegionGood
  <2> QED BY <2>4, <2>5 DEF old, now
<1>4. ASSUME NEW i \in DOMAIN c.cleanups
      PROVE  /\ CleanupGood(c.cleanups[i], HandlerRefs(c), Slots(c))
             /\ d.cleanups[i].continuations = c.cleanups[i].continuations
             /\ d.cleanups[i].resume_from
                  = IF c.cleanups[i].resume_from = b THEN tail ELSE c.cleanups[i].resume_from
  <2>1. CleanupGood(c.cleanups[i], HandlerRefs(c), Slots(c))
    BY DEF Split, AnchoredGraph, MetadataGood
  <2> QED BY <1>1, <2>1, CleanupSpread
<1> QED BY <1>1, <1>3, <1>4

LEMMA SplitInOrder ==
    ASSUME NEW c, NEW d, NEW b, NEW tail, NEW n, Split(c, d, b, tail, n)
    PROVE  InOrder(c, d)
<1>1. /\ AnchoredGraph(c) /\ AnchoredGraph(d) /\ Folded(d, c, b, tail, n)
      /\ Slots(d) = Slots(c) \cup {tail} /\ tail \notin Slots(c) /\ b \in c.live_blocks
      /\ d.live_blocks = c.live_blocks \cup {tail} /\ d.entry = c.entry
  BY DEF Split
<1>2. /\ Lands(c) /\ Lands(d) /\ c.live_blocks \subseteq Slots(c) /\ 0 \notin Slots(c)
      /\ 0 \notin Slots(d) /\ c.entry \in Slots(c) /\ b \in Slots(c)
  BY <1>1, AnchoredLands
<1>3. ASSUME NEW B \in SUBSET Slots(c)
      PROVE  FirstCode(d, B) = FirstCode(c, B)
  BY <1>1, <1>2, FoldedFirst
<1>4. ASSUME NEW S \in SUBSET Slots(c)
      PROVE  LET T == Extended(S, b, tail)
             IN  /\ Tags(d, T \cap d.live_blocks) = Tags(c, S \cap c.live_blocks)
                 /\ Steps(d, T \cap d.live_blocks) = Steps(c, S \cap c.live_blocks)
  <2> DEFINE T == Extended(S, b, tail)
             K == S \cap c.live_blocks
             B == T \cap d.live_blocks
  <2>1. Absorbs(K, B, b, tail)
    BY <1>1, <1>2 DEF Absorbs, Extended
  <2>2. K \in SUBSET Slots(c) /\ B \in SUBSET Slots(d)
    BY <1>1, <1>2 DEF Extended
  <2> HIDE DEF K, B
  <2>3. Steps(c, K) = Steps(d, B) /\ Tags(c, K) = Tags(d, B)
    BY <1>1, <1>2, <2>1, <2>2, FoldedSteps
  <2> QED BY <2>3 DEF K, B
<1>5. SamePlaces(c, d)
  <2>1. ASSUME NEW r \in DOMAIN c.regions, NEW h \in DOMAIN c.regions[r].handlers
        PROVE  SameBody(c, d, c.regions[r].handlers[h].body, d.regions[r].handlers[h].body)
    <3> DEFINE S == c.regions[r].handlers[h].body
               T == d.regions[r].handlers[h].body
    <3>1. /\ IsList(S) /\ IsList(T) /\ DOMAIN T = DOMAIN S
          /\ \A j \in DOMAIN S : S[j] \subseteq Slots(c) /\ T[j] = Extended(S[j], b, tail)
      BY SplitRecords DEF HandlerGood, Spread
    <3> HIDE DEF S, T
    <3>2. T = <<>> <=> S = <<>>
      BY <3>1, ListEmpty
    <3>3. ASSUME S # <<>>
          PROVE  Tags(d, T[1] \cap d.live_blocks) = Tags(c, S[1] \cap c.live_blocks)
      <4>1. S[1] \in SUBSET Slots(c) /\ T[1] = Extended(S[1], b, tail)
        BY <3>1, <3>3, ListEmpty
      <4> QED BY <1>4, <4>1
    <3> QED BY SMTT(30), <3>2, <3>3 DEF SameBody, S, T
  <2>2. ASSUME NEW r \in DOMAIN c.regions
        PROVE  Tags(d, d.regions[r].protected_blocks \cap d.live_blocks)
                 = Tags(c, c.regions[r].protected_blocks \cap c.live_blocks)
    <3>1. /\ c.regions[r].protected_blocks \in SUBSET Slots(c)
          /\ d.regions[r].protected_blocks = Extended(c.regions[r].protected_blocks, b, tail)
      BY SplitRecords
    <3> QED BY <1>4, <3>1
  <2>3. /\ DOMAIN d.regions = DOMAIN c.regions
        /\ \A r \in DOMAIN c.regions :
              DOMAIN d.regions[r].handlers = DOMAIN c.regions[r].handlers
    BY SplitRecords
  <2> QED BY <2>1, <2>2, <2>3 DEF SamePlaces
<1>6. SameStarts(c, d)
  <2>1. FirstCode(d, {d.entry}) = FirstCode(c, {c.entry})
    <3>1. {c.entry} \in SUBSET Slots(c)
      BY SMTT(30), <1>2
    <3> QED BY <1>1, <1>3, <3>1
  <2>2. ASSUME NEW r \in DOMAIN c.regions, NEW h \in DOMAIN c.regions[r].handlers
        PROVE  FirstCode(d, {d.regions[r].handlers[h].entry})
                 = FirstCode(c, {c.regions[r].handlers[h].entry})
    <3>1. /\ {c.regions[r].handlers[h].entry} \in SUBSET Slots(c)
          /\ d.regions[r].handlers[h].entry = c.regions[r].handlers[h].entry
      BY SplitRecords DEF HandlerGood, Spread
    <3> QED BY SMTT(30), <1>3, <3>1
  <2>3. ASSUME NEW i \in DOMAIN c.cleanups, NEW t \in c.cleanups[i].continuations
        PROVE  FirstCode(d, {t.resume}) = FirstCode(c, {t.resume})
    <3>1. {t.resume} \in SUBSET Slots(c)
      BY SplitRecords DEF CleanupGood
    <3> QED BY <1>3, <3>1
  <2>4. \A i \in DOMAIN c.cleanups :
           d.cleanups[i].continuations = c.cleanups[i].continuations
    BY SplitRecords
  <2>5. /\ DOMAIN d.regions = DOMAIN c.regions /\ DOMAIN d.cleanups = DOMAIN c.cleanups
        /\ \A r \in DOMAIN c.regions :
              DOMAIN d.regions[r].handlers = DOMAIN c.regions[r].handlers
    BY SplitRecords
  <2> QED BY <2>1, <2>2, <2>3, <2>4, <2>5 DEF SameStarts
<1>7. Flow(d, d.live_blocks) = Flow(c, c.live_blocks)
  <2>1. Absorbs(c.live_blocks, d.live_blocks, b, tail)
    BY <1>1, <1>2 DEF Absorbs
  <2>2. c.live_blocks \in SUBSET Slots(c) /\ d.live_blocks \in SUBSET Slots(d)
    BY <1>1, <1>2
  <2>3. Steps(c, c.live_blocks) = Steps(d, d.live_blocks)
    BY <1>1, <1>2, <2>1, <2>2, FoldedSteps
  <2> QED BY <1>6, <2>3, FlowMatched
<1>8. anchors(d) \subseteq anchors(c) \cup {tail}
  <2> SUFFICES ASSUME NEW x \in anchors(d), x # tail PROVE x \in anchors(c)
    OBVIOUS
  <2>1. x # 0
    BY AnchorNamed
  <2>2. CASE \E r \in DOMAIN d.regions : \E h \in DOMAIN d.regions[r].handlers :
                x \in {d.regions[r].handlers[h].entry, d.regions[r].handlers[h].filter}
    <3>1. \E r \in DOMAIN c.regions : \E h \in DOMAIN c.regions[r].handlers :
             x \in {c.regions[r].handlers[h].entry, c.regions[r].handlers[h].filter}
      BY <2>2, SplitRecords DEF Spread
    <3> QED BY <2>1, <3>1, AnchorNamed
  <2>3. CASE \E i \in DOMAIN d.cleanups :
                \/ x = d.cleanups[i].resume_from
                \/ \E t \in d.cleanups[i].continuations : x = t.resume
    <3>1. \E i \in DOMAIN c.cleanups :
             \/ x = c.cleanups[i].resume_from
             \/ \E t \in c.cleanups[i].continuations : x = t.resume
      BY <2>3, SplitRecords
    <3> QED BY <2>1, <3>1, AnchorNamed
  <2> QED BY <2>2, <2>3, AnchorNamed
<1>9. dangling_anchors(c) = {} => dangling_anchors(d) = {}
  BY <1>1, <1>8 DEF dangling_anchors
<1>10. ASSUME NEW i \in DOMAIN c.cleanups, Dispatches(c, i)
       PROVE  Dispatches(d, i) /\ Exits(d, i) = Exits(c, i)
  <2> DEFINE x == c.cleanups[i].resume_from
             y == d.cleanups[i].resume_from
  <2>1. /\ x # 0 /\ x \in Slots(c) \cup {0}
        /\ d.cleanups[i].continuations = c.cleanups[i].continuations
        /\ y = IF x = b THEN tail ELSE x
    BY <1>10, SplitRecords DEF Dispatches, CleanupGood
  <2>2. y # 0 /\ successors(d, y) = successors(c, x)
    <3>1. CASE x = b
      BY <1>1, <1>2, <2>1, <3>1, FoldedEdges
    <3>2. CASE x # b
      <4>1. y = x /\ x \notin {b, tail}
        BY <1>1, <2>1, <3>2
      <4> QED BY <1>1, <2>1, <4>1, FoldedEdges
    <3> QED BY <3>1, <3>2
  <2>3. successors(c, x) \in SUBSET Slots(c)
    BY <1>2 DEF successors, outgoing, Lands
  <2>4. FirstCode(d, successors(d, y)) = FirstCode(c, successors(c, x))
    BY <1>3, <2>2, <2>3
  <2> QED BY <1>10, <2>1, <2>2, <2>4 DEF Dispatches, Exits
<1>11. DOMAIN d.cleanups = DOMAIN c.cleanups
  BY SplitRecords
<1>12. \A tag : RegionsOf(d, tag) = RegionsOf(c, tag) /\ HandlersOf(d, tag) = HandlersOf(c, tag)
  BY <1>5, SamePlacesKept
<1> QED BY <1>7, <1>9, <1>10, <1>11, <1>12 DEF InOrder

LEMMA SplitTwiceInOrder ==
    ASSUME NEW c, AnchoredGraph(c), NEW b \in c.live_blocks, NEW p \in Nat, NEW q \in Nat,
           SplitPointsValid(c, b, <<p, q>>)
    PROVE  InOrder(c, split_block_at_two_points(c, b, p, q).cfg)
<1> DEFINE first == split_block_mapped(c, b, p)
           tail == Len(first.cfg.instructions)
           second == split_block_mapped(first.cfg, tail, q - p)
<1>1. /\ p <= Len(c.instructions[b]) /\ q - p \in Nat
      /\ tail \in first.cfg.live_blocks
      /\ q - p <= Len(first.cfg.instructions[tail])
  BY SecondPoint DEF AnchoredGraph
<1>2. AnchoredGraph(first.cfg) /\ InOrder(c, first.cfg)
  BY <1>1, SplitAnchored, SplitSplits, SplitInOrder
<1>3. split_block_at_two_points(c, b, p, q).cfg = second.cfg
  BY DEF split_block_at_two_points, Mapped
<1> HIDE DEF first, tail
<1>4. InOrder(first.cfg, second.cfg)
  BY <1>1, <1>2, SplitSplits, SplitInOrder
<1> HIDE DEF second
<1>5. InOrder(c, second.cfg)
  BY <1>2, <1>4, InOrderOn
<1> QED BY <1>3, <1>5

-----------------------------------------------------------------------------
(* A compaction is a renaming: f numbers the blocks of c that are there,   *)
(* and d is c under those numbers.                                         *)
Under(f, B) == {f[x] : x \in B}

Packed(c, d, f) ==
    /\ c.live_blocks \subseteq Slots(c) /\ Slots(d) = Under(f, c.live_blocks)
    /\ d.live_blocks = Slots(d)
    /\ \A x, y \in c.live_blocks : f[x] = f[y] => x = y
    /\ \A x \in c.live_blocks : d.instructions[f[x]] = c.instructions[x]
    /\ \A e \in c.live_edges : \E k \in d.live_edges :
          /\ d.edges[k].source = f[c.edges[e].source]
          /\ d.edges[k].target = f[c.edges[e].target]
    /\ \A k \in d.live_edges : \E e \in c.live_edges :
          /\ d.edges[k].source = f[c.edges[e].source]
          /\ d.edges[k].target = f[c.edges[e].target]
    /\ Joins(c)

LEMMA PackedBlocks ==
    ASSUME NEW c, NEW d, NEW f, Packed(c, d, f), NEW x \in c.live_blocks
    PROVE  /\ f[x] \in Slots(d)
           /\ outgoing(d, f[x]) = {} <=> outgoing(c, x) = {}
           /\ successors(d, f[x]) = Under(f, successors(c, x))
           /\ successors(c, x) \subseteq c.live_blocks
           /\ (Blank(d, f[x]) <=> Blank(c, x)) /\ (Ends(d, f[x]) <=> Ends(c, x))
           /\ Shows(d, f[x]) = Shows(c, x)
<1>1. f[x] \in Slots(d) /\ d.instructions[f[x]] = c.instructions[x]
  BY DEF Packed, Under
<1>2. \A e \in c.live_edges : /\ c.edges[e].source \in c.live_blocks
                              /\ c.edges[e].target \in c.live_blocks
  BY DEF Packed, Joins
<1>3. \A e \in outgoing(c, x) : \E k \in outgoing(d, f[x]) :
         d.edges[k].target = f[c.edges[e].target]
  BY DEF Packed, outgoing
<1>4. ASSUME NEW k \in outgoing(d, f[x])
      PROVE  \E e \in outgoing(c, x) : d.edges[k].target = f[c.edges[e].target]
  <2>1. k \in d.live_edges /\ d.edges[k].source = f[x]
    BY DEF outgoing
  <2>2. PICK e \in c.live_edges : /\ d.edges[k].source = f[c.edges[e].source]
                                  /\ d.edges[k].target = f[c.edges[e].target]
    BY <2>1 DEF Packed
  <2>3. c.edges[e].source = x
    BY ZenonT(40), <1>2, <2>1, <2>2 DEF Packed
  <2> QED BY <2>2, <2>3 DEF outgoing
<1>5. outgoing(d, f[x]) = {} <=> outgoing(c, x) = {}
  BY <1>3, <1>4
<1>6. successors(c, x) \subseteq c.live_blocks
  BY <1>2 DEF successors, outgoing
<1>7. \A y : y \in successors(d, f[x]) <=> y \in Under(f, successors(c, x))
  <2>1. ASSUME NEW y \in successors(d, f[x]) PROVE y \in Under(f, successors(c, x))
    <3>1. PICK k \in outgoing(d, f[x]) : y = d.edges[k].target
      BY DEF successors
    <3>2. PICK e \in outgoing(c, x) : d.edges[k].target = f[c.edges[e].target]
      BY <1>4
    <3> QED BY <3>1, <3>2 DEF Under, successors
  <2>2. ASSUME NEW y \in Under(f, successors(c, x)) PROVE y \in successors(d, f[x])
    <3>1. PICK z \in successors(c, x) : y = f[z]
      BY DEF Under
    <3>2. PICK e \in outgoing(c, x) : z = c.edges[e].target
      BY DEF successors
    <3>3. PICK k \in outgoing(d, f[x]) : d.edges[k].target = f[c.edges[e].target]
      BY <1>3
    <3> QED BY <3>1, <3>2, <3>3 DEF successors
  <2> QED BY <2>1, <2>2
<1>8. (Blank(d, f[x]) <=> Blank(c, x)) /\ Shows(d, f[x]) = Shows(c, x)
  BY <1>1 DEF Blank, Shows
<1>9. Ends(d, f[x]) <=> Ends(c, x)
  BY <1>5, <1>8 DEF Ends
<1> QED BY <1>1, <1>5, <1>6, <1>7, <1>8, <1>9

LEMMA PackedFirst ==
    ASSUME NEW c, NEW d, NEW f, Packed(c, d, f), Lands(c), Lands(d),
           NEW B \in SUBSET c.live_blocks
    PROVE  FirstCode(d, Under(f, B)) = FirstCode(c, B)
<1> DEFINE P == Passing(c, B)
           Q == Passing(d, Under(f, B))
           S == Under(f, P \cap c.live_blocks)
           T == {x \in c.live_blocks : f[x] \in Q}
<1>1. c.live_blocks \subseteq Slots(c) /\ B \in SUBSET Slots(c)
      /\ Under(f, B) \in SUBSET Slots(d)
  BY DEF Packed, Under
<1>2. B \subseteq P /\ P \subseteq Slots(c) /\ Through(c, P)
  BY <1>1, PassingHolds
<1>3. Under(f, B) \subseteq Q /\ Q \subseteq Slots(d) /\ Through(d, Q)
  BY <1>1, PassingHolds
<1>4. \A e \in c.live_edges : /\ c.edges[e].source \in c.live_blocks
                              /\ c.edges[e].target \in c.live_blocks
  BY DEF Packed, Joins
<1> HIDE DEF P, Q
<1>5. Through(d, S)
  <2> SUFFICES ASSUME NEW k \in d.live_edges, d.edges[k].source \in S,
                      Blank(d, d.edges[k].source)
               PROVE  d.edges[k].target \in S
    BY DEF Through
  <2>1. PICK x \in P \cap c.live_blocks : d.edges[k].source = f[x]
    BY DEF Under
  <2>2. PICK e \in c.live_edges : /\ d.edges[k].source = f[c.edges[e].source]
                                  /\ d.edges[k].target = f[c.edges[e].target]
    BY DEF Packed
  <2>3. c.edges[e].source = x /\ c.edges[e].target \in c.live_blocks
    <3>1. \A a, b \in c.live_blocks : f[a] = f[b] => a = b
      BY DEF Packed
    <3>2. /\ c.edges[e].source \in c.live_blocks /\ c.edges[e].target \in c.live_blocks
          /\ x \in c.live_blocks /\ f[c.edges[e].source] = f[x]
      BY <1>4, <2>1, <2>2
    <3> QED BY <3>1, <3>2
  <2>4. Blank(c, x)
    BY <2>1, PackedBlocks
  <2>5. c.edges[e].target \in P
    BY <1>2, <2>1, <2>3, <2>4 DEF Through
  <2> QED BY <2>2, <2>3, <2>5 DEF Under
<1>6. Through(c, T)
  <2> SUFFICES ASSUME NEW e \in c.live_edges, c.edges[e].source \in T,
                      Blank(c, c.edges[e].source)
               PROVE  c.edges[e].target \in T
    BY DEF Through
  <2>1. PICK k \in d.live_edges : /\ d.edges[k].source = f[c.edges[e].source]
                                  /\ d.edges[k].target = f[c.edges[e].target]
    BY DEF Packed
  <2>2. f[c.edges[e].source] \in Q /\ Blank(d, f[c.edges[e].source])
    BY <1>4, PackedBlocks
  <2>3. f[c.edges[e].target] \in Q
    BY <1>3, <2>1, <2>2 DEF Through
  <2> QED BY <1>4, <2>3
<1>7. FirstCode(d, Under(f, B)) \subseteq FirstCode(c, B)
  <2>1. ASSUME NEW y \in S, Ends(d, y)
        PROVE  \E x \in P : Ends(c, x) /\ Shows(c, x) = Shows(d, y)
    <3>1. PICK x \in P \cap c.live_blocks : y = f[x]
      BY DEF Under
    <3> QED BY <2>1, <3>1, PackedBlocks
  <2>2. S \in SUBSET Slots(d) /\ Under(f, B) \subseteq S
    BY <1>2 DEF Packed, Under
  <2> HIDE DEF S
  <2> QED BY <1>5, <2>1, <2>2, FirstCodeMatched DEF P
<1>8. FirstCode(c, B) \subseteq FirstCode(d, Under(f, B))
  <2>1. ASSUME NEW x \in T, Ends(c, x)
        PROVE  \E y \in Q : Ends(d, y) /\ Shows(d, y) = Shows(c, x)
    BY <2>1, PackedBlocks
  <2>2. T \in SUBSET Slots(c) /\ B \subseteq T
    BY <1>1, <1>3 DEF Under
  <2> HIDE DEF T
  <2> QED BY <1>6, <2>1, <2>2, FirstCodeMatched DEF Q
<1> QED BY <1>7, <1>8

LEMMA PackedSteps ==
    ASSUME NEW c, NEW d, NEW f, Packed(c, d, f), Lands(c), Lands(d),
           NEW B \in SUBSET c.live_blocks
    PROVE  Steps(d, Under(f, B)) = Steps(c, B) /\ Tags(d, Under(f, B)) = Tags(c, B)
<1>1. ASSUME NEW x \in c.live_blocks
      PROVE  /\ d.instructions[f[x]] = c.instructions[x]
             /\ \A i : NextCode(d, f[x], i) = NextCode(c, x, i)
  <2>1. d.instructions[f[x]] = c.instructions[x]
    BY DEF Packed
  <2>2. /\ outgoing(d, f[x]) = {} <=> outgoing(c, x) = {}
        /\ successors(d, f[x]) = Under(f, successors(c, x))
        /\ successors(c, x) \in SUBSET c.live_blocks
    BY PackedBlocks
  <2>3. FirstCode(d, successors(d, f[x])) = FirstCode(c, successors(c, x))
    BY <2>2, PackedFirst
  <2> QED BY <2>1, <2>2, <2>3 DEF NextCode
<1>2. ASSUME NEW p \in Steps(d, Under(f, B)) PROVE p \in Steps(c, B)
  <2>1. PICK y \in Under(f, B) : \E i \in DOMAIN d.instructions[y] :
           p = <<d.instructions[y][i], NextCode(d, y, i)>>
    BY <1>2, StepsMember
  <2>2. PICK x \in B : y = f[x]
    BY DEF Under
  <2>3. \E i \in DOMAIN c.instructions[x] : p = <<c.instructions[x][i], NextCode(c, x, i)>>
    BY <1>1, <2>1, <2>2
  <2> QED BY <2>3, StepsMember
<1>3. ASSUME NEW p \in Steps(c, B) PROVE p \in Steps(d, Under(f, B))
  <2>1. PICK x \in B : \E i \in DOMAIN c.instructions[x] :
           p = <<c.instructions[x][i], NextCode(c, x, i)>>
    BY <1>3, StepsMember
  <2>2. \E i \in DOMAIN d.instructions[f[x]] :
           p = <<d.instructions[f[x]][i], NextCode(d, f[x], i)>>
    BY <1>1, <2>1
  <2>3. f[x] \in Under(f, B)
    BY DEF Under
  <2> QED BY <2>2, <2>3, StepsMember
<1>4. \A tag : tag \in Tags(d, Under(f, B)) <=> tag \in Tags(c, B)
  BY <1>2, <1>3, StepsTags
<1> QED BY <1>2, <1>3, <1>4

LEMMA CompactPacks ==
    ASSUME NEW c, Graph(c), Joins(c)
    PROVE  Packed(c, compact(c), BlockNumbers(c))
<1> DEFINE d == compact(c)
           f == BlockNumbers(c)
           B == c.live_blocks
           N == Cardinality(B)
           E == c.live_edges
           M == Cardinality(E)
<1>1. /\ d.live_blocks = 1..N /\ Slots(d) = 1..N /\ d.live_edges = 1..M
      /\ \A k \in 1..N : d.instructions[k] = c.instructions[Slot(B, k)]
      /\ \A k \in 1..M : /\ d.edges[k].source = f[c.edges[Slot(E, k)].source]
                         /\ d.edges[k].target = f[c.edges[Slot(E, k)].target]
  BY CompactFields
<1>2. /\ Len(c.instructions) \in Nat /\ B \in SUBSET (1..Len(c.instructions))
      /\ Len(c.edges) \in Nat /\ E \in SUBSET (1..Len(c.edges)) /\ B \subseteq Slots(c)
  BY SlotsOf DEF Graph
<1>3. /\ \A x \in B : Rank(B, x) \in 1..N /\ Slot(B, Rank(B, x)) = x
      /\ \A x, y \in B : Rank(B, x) = Rank(B, y) => x = y
      /\ \A k \in 1..N : Slot(B, k) \in B /\ Rank(B, Slot(B, k)) = k
  BY <1>2, RankCounts, SlotOfRank
<1>4. /\ \A e \in E : Rank(E, e) \in 1..M /\ Slot(E, Rank(E, e)) = e
      /\ \A k \in 1..M : Slot(E, k) \in E
  BY <1>2, RankCounts, SlotOfRank
<1>5. \A x \in B : f[x] = Rank(B, x)
  BY <1>2 DEF BlockNumbers, renumbering
<1> HIDE DEF d, f, B, N, E, M
<1>6. Slots(d) = Under(f, B)
  BY <1>1, <1>3, <1>5 DEF Under
<1>7. \A x \in B : d.instructions[f[x]] = c.instructions[x]
  BY <1>1, <1>3, <1>5
<1>8. \A x, y \in B : f[x] = f[y] => x = y
  BY <1>3, <1>5
<1>9. \A e \in E : \E k \in d.live_edges : /\ d.edges[k].source = f[c.edges[e].source]
                                           /\ d.edges[k].target = f[c.edges[e].target]
  BY <1>1, <1>4
<1>10. \A k \in d.live_edges : \E e \in E : /\ d.edges[k].source = f[c.edges[e].source]
                                            /\ d.edges[k].target = f[c.edges[e].target]
  BY <1>1, <1>4
<1> QED BY <1>1, <1>2, <1>6, <1>7, <1>8, <1>9, <1>10 DEF Packed, d, f, B, E

(* A set of blocks after compact: what is left of it, under new numbers. *)
LEMMA RenumberedUnder ==
    ASSUME NEW c, Graph(c), NEW S \in SUBSET Slots(c)
    PROVE  Renumbered(S, BlockNumbers(c)) = Under(BlockNumbers(c), S \cap c.live_blocks)
<1>1. \A b \in S : BlockNumbers(c)[b] # 0 <=> b \in c.live_blocks
  BY NumbersOfLive
<1> QED BY <1>1 DEF Renumbered, Under

(* The metadata after compact, record by record. *)
LEMMA CompactRecords ==
    ASSUME NEW c, AnchoredGraph(c)
    PROVE  LET d == compact(c)
               f == BlockNumbers(c)
           IN  /\ DOMAIN d.regions = DOMAIN c.regions /\ DOMAIN d.cleanups = DOMAIN c.cleanups
               /\ d.entry = f[c.entry]
               /\ \A r \in DOMAIN c.regions :
                     /\ d.regions[r].protected_blocks
                          = Renumbered(c.regions[r].protected_blocks, f)
                     /\ c.regions[r].protected_blocks \subseteq Slots(c)
                     /\ DOMAIN d.regions[r].handlers = DOMAIN c.regions[r].handlers
                     /\ \A h \in DOMAIN c.regions[r].handlers :
                           /\ HandlerGood(c.regions[r].handlers[h], Slots(c))
                           /\ d.regions[r].handlers[h]
                                = renumber_handler(c.regions[r].handlers[h], f)
               /\ \A i \in DOMAIN c.cleanups :
                     /\ CleanupGood(c.cleanups[i], HandlerRefs(c), Slots(c))
                     /\ d.cleanups[i] = renumber_cleanup(c.cleanups[i], f)
<1> DEFINE d == compact(c)
           f == BlockNumbers(c)
<1>1. /\ d.entry = f[c.entry]
      /\ d.regions = [r \in DOMAIN c.regions |-> renumber_region(c.regions[r], f)]
      /\ d.cleanups = [i \in DOMAIN c.cleanups |-> renumber_cleanup(c.cleanups[i], f)]
  BY CompactMetadata
<1>2. /\ \A r \in DOMAIN c.regions : RegionGood(c.regions[r], r, DOMAIN c.regions, Slots(c))
      /\ \A i \in DOMAIN c.cleanups : CleanupGood(c.cleanups[i], HandlerRefs(c), Slots(c))
  BY DEF AnchoredGraph, MetadataGood
<1> HIDE DEF d, f
<1>3. ASSUME NEW r \in DOMAIN c.regions
      PROVE  /\ d.regions[r].protected_blocks = Renumbered(c.regions[r].protected_blocks, f)
             /\ c.regions[r].protected_blocks \subseteq Slots(c)
             /\ DOMAIN d.regions[r].handlers = DOMAIN c.regions[r].handlers
             /\ \A h \in DOMAIN c.regions[r].handlers :
                   /\ HandlerGood(c.regions[r].handlers[h], Slots(c))
                   /\ d.regions[r].handlers[h]
                        = renumber_handler(c.regions[r].handlers[h], f)
  <2> DEFINE old == c.regions[r]
             now == d.regions[r]
  <2>1. RegionGood(old, r, DOMAIN c.regions, Slots(c)) /\ now = renumber_region(old, f)
    BY <1>1, <1>2
  <2> HIDE DEF old, now
  <2>2. /\ now.protected_blocks = Renumbered(old.protected_blocks, f)
        /\ DOMAIN now.handlers = DOMAIN old.handlers
        /\ \A h \in DOMAIN old.handlers : now.handlers[h] = renumber_handler(old.handlers[h], f)
    BY <2>1, RegionRenumbered
  <2>3. /\ old.protected_blocks \subseteq Slots(c)
        /\ \A h \in DOMAIN old.handlers : HandlerGood(old.handlers[h], Slots(c))
    BY <2>1 DEF RegionGood
  <2> QED BY <2>2, <2>3 DEF old, now
<1> QED BY <1>1, <1>2, <1>3 DEF d, f

(* What the metadata of a graph names are slots of it. *)
LEMMA AnchorsAreSlots ==
    ASSUME NEW c, AnchoredGraph(c)
    PROVE  anchors(c) \subseteq Slots(c)
<1>1. /\ \A r \in DOMAIN c.regions : RegionGood(c.regions[r], r, DOMAIN c.regions, Slots(c))
      /\ \A i \in DOMAIN c.cleanups : CleanupGood(c.cleanups[i], HandlerRefs(c), Slots(c))
  BY DEF AnchoredGraph, MetadataGood
<1>2. ASSUME NEW r \in DOMAIN c.regions, NEW h \in DOMAIN c.regions[r].handlers
      PROVE  HandlerGood(c.regions[r].handlers[h], Slots(c))
  BY <1>1 DEF RegionGood
<1>3. \A r \in DOMAIN c.regions : \A h \in DOMAIN c.regions[r].handlers :
         /\ c.regions[r].handlers[h].entry \in Slots(c)
         /\ c.regions[r].handlers[h].filter \in Slots(c) \cup {0}
  BY <1>2 DEF HandlerGood
<1>4. \A i \in DOMAIN c.cleanups :
         /\ c.cleanups[i].resume_from \in Slots(c) \cup {0}
         /\ \A t \in c.cleanups[i].continuations : t.resume \in Slots(c)
  BY <1>1 DEF CleanupGood
<1> QED BY <1>3, <1>4, AnchorNamed

LEMMA CompactInOrder ==
    ASSUME NEW c, AnchoredGraph(c), ~CompactPanics(c)
    PROVE  InOrder(c, compact(c))
<1>1. PICK d : d = compact(c)
  OBVIOUS
<1>2. PICK f : f = BlockNumbers(c)
  OBVIOUS
<1>3. /\ AnchoredGraph(d) /\ Packed(c, d, f) /\ dangling_anchors(c) = {}
      /\ Graph(c) /\ c.entry \in c.live_blocks
  BY <1>1, <1>2, CompactAnchored, CompactPacks, GoodDecides DEF AnchoredGraph
<1>4. /\ Lands(c) /\ Lands(d) /\ c.live_blocks \subseteq Slots(c)
      /\ 0 \notin Slots(c) /\ 0 \notin Slots(d) /\ d.live_blocks = Slots(d)
      /\ Slots(d) = Under(f, c.live_blocks) /\ anchors(c) \subseteq c.live_blocks
  BY <1>3, AnchoredLands DEF Packed, dangling_anchors
<1>5. ASSUME NEW S \in SUBSET Slots(c)
      PROVE  Tags(d, Renumbered(S, f) \cap d.live_blocks) = Tags(c, S \cap c.live_blocks)
  <2>1. Renumbered(S, f) = Under(f, S \cap c.live_blocks)
    BY <1>2, <1>3, RenumberedUnder
  <2>2. Under(f, S \cap c.live_blocks) \cap d.live_blocks = Under(f, S \cap c.live_blocks)
    BY <1>4 DEF Under
  <2>3. S \cap c.live_blocks \in SUBSET c.live_blocks
    OBVIOUS
  <2> QED BY <1>3, <1>4, <2>1, <2>2, <2>3, PackedSteps
<1>6. ASSUME NEW x \in c.live_blocks
      PROVE  FirstCode(d, {f[x]}) = FirstCode(c, {x})
  <2>1. Under(f, {x}) = {f[x]}
    BY DEF Under
  <2>2. PICK B : B = {x}
    OBVIOUS
  <2>3. B \in SUBSET c.live_blocks
    BY <2>2
  <2>4. FirstCode(d, Under(f, B)) = FirstCode(c, B)
    BY <1>3, <1>4, <2>3, PackedFirst
  <2> QED BY <2>1, <2>2, <2>4
<1>7. /\ DOMAIN d.regions = DOMAIN c.regions /\ DOMAIN d.cleanups = DOMAIN c.cleanups
      /\ d.entry = f[c.entry]
      /\ \A r \in DOMAIN c.regions :
            DOMAIN d.regions[r].handlers = DOMAIN c.regions[r].handlers
  BY <1>1, <1>2, CompactRecords
<1>8. ASSUME NEW r \in DOMAIN c.regions
      PROVE  Tags(d, d.regions[r].protected_blocks \cap d.live_blocks)
               = Tags(c, c.regions[r].protected_blocks \cap c.live_blocks)
  <2>1. /\ d.regions[r].protected_blocks = Renumbered(c.regions[r].protected_blocks, f)
        /\ c.regions[r].protected_blocks \in SUBSET Slots(c)
    BY <1>1, <1>2, CompactRecords
  <2> QED BY <1>5, <2>1
<1>9. ASSUME NEW r \in DOMAIN c.regions, NEW h \in DOMAIN c.regions[r].handlers
      PROVE  /\ SameBody(c, d, c.regions[r].handlers[h].body, d.regions[r].handlers[h].body)
             /\ FirstCode(d, {d.regions[r].handlers[h].entry})
                  = FirstCode(c, {c.regions[r].handlers[h].entry})
  <2>1. PICK g : g = c.regions[r].handlers[h]
    OBVIOUS
  <2>2. PICK n : n = d.regions[r].handlers[h]
    OBVIOUS
  <2>3. HandlerGood(g, Slots(c)) /\ n = renumber_handler(g, f)
    BY <1>1, <1>2, <2>1, <2>2, CompactRecords
  <2>4. /\ n.entry = f[g.entry] /\ IsList(n.body) /\ DOMAIN n.body = DOMAIN g.body
        /\ \A j \in DOMAIN g.body : n.body[j] = Renumbered(g.body[j], f)
    BY <2>3, HandlerRenumbered
  <2>5. /\ IsList(g.body) /\ g.entry \in Slots(c)
        /\ \A j \in DOMAIN g.body : g.body[j] \in SUBSET Slots(c)
    BY <2>3 DEF HandlerGood
  <2>6. n.body = <<>> <=> g.body = <<>>
    BY <2>4, <2>5, ListEmpty
  <2>7. ASSUME g.body # <<>>
        PROVE  Tags(d, n.body[1] \cap d.live_blocks) = Tags(c, g.body[1] \cap c.live_blocks)
    <3>1. 1 \in DOMAIN g.body
      BY <2>5, <2>7, ListEmpty
    <3> QED BY <1>5, <2>4, <2>5, <3>1
  <2>8. g.entry \in c.live_blocks
    <3>1. g.entry # 0
      BY <1>4, <2>5
    <3>2. g.entry \in anchors(c)
      BY <2>1, <3>1, AnchorNamed
    <3> QED BY <1>4, <3>2
  <2>9. FirstCode(d, {n.entry}) = FirstCode(c, {g.entry})
    BY <1>6, <2>4, <2>8
  <2> QED BY <2>1, <2>2, <2>6, <2>7, <2>9 DEF SameBody
<1>10. ASSUME NEW i \in DOMAIN c.cleanups
       PROVE  /\ \A t \in c.cleanups[i].continuations :
                    /\ t.resume \in c.live_blocks
                    /\ \E u \in d.cleanups[i].continuations :
                          u.reason = t.reason /\ u.resume = f[t.resume]
              /\ \A u \in d.cleanups[i].continuations :
                    \E t \in c.cleanups[i].continuations :
                       u.reason = t.reason /\ u.resume = f[t.resume]
              /\ d.cleanups[i].resume_from
                   = IF c.cleanups[i].resume_from = 0 THEN 0 ELSE f[c.cleanups[i].resume_from]
  <2>1. PICK k : k = c.cleanups[i]
    OBVIOUS
  <2>2. PICK n : n = d.cleanups[i]
    OBVIOUS
  <2> DEFINE Then(t) == [reason |-> t.reason, resume |-> f[t.resume]]
  <2>3. CleanupGood(k, HandlerRefs(c), Slots(c)) /\ n = renumber_cleanup(k, f)
    BY <1>1, <1>2, <2>1, <2>2, CompactRecords
  <2>4. /\ n.resume_from = IF k.resume_from = 0 THEN 0 ELSE f[k.resume_from]
        /\ n.continuations = {Then(t) : t \in k.continuations}
    BY <2>3, CleanupRenumbered
  <2>5. \A t : Then(t).reason = t.reason /\ Then(t).resume = f[t.resume]
    OBVIOUS
  <2> HIDE DEF Then
  <2>6. ASSUME NEW t \in k.continuations PROVE t.resume \in c.live_blocks
    <3>1. t.resume # 0
      BY <1>4, <2>3 DEF CleanupGood
    <3>2. t.resume \in anchors(c)
      BY <2>1, <3>1, AnchorNamed
    <3> QED BY <1>4, <3>2
  <2>7. \A t \in k.continuations : \E u \in n.continuations :
           u.reason = t.reason /\ u.resume = f[t.resume]
    BY <2>4, <2>5
  <2>8. \A u \in n.continuations : \E t \in k.continuations :
           u.reason = t.reason /\ u.resume = f[t.resume]
    BY <2>4, <2>5
  <2> QED BY <2>1, <2>2, <2>4, <2>6, <2>7, <2>8
<1>11. SamePlaces(c, d)
  BY <1>7, <1>8, <1>9 DEF SamePlaces
<1>12. SameStarts(c, d)
  <2>1. FirstCode(d, {d.entry}) = FirstCode(c, {c.entry})
    BY <1>3, <1>6, <1>7
  <2>2. ASSUME NEW i \in DOMAIN c.cleanups
        PROVE  /\ \A t \in c.cleanups[i].continuations :
                     \E u \in d.cleanups[i].continuations :
                        /\ u.reason = t.reason
                        /\ FirstCode(d, {u.resume}) = FirstCode(c, {t.resume})
               /\ \A u \in d.cleanups[i].continuations :
                     \E t \in c.cleanups[i].continuations :
                        /\ u.reason = t.reason
                        /\ FirstCode(d, {u.resume}) = FirstCode(c, {t.resume})
    <3>1. \A t \in c.cleanups[i].continuations :
             FirstCode(d, {f[t.resume]}) = FirstCode(c, {t.resume})
      BY <1>6, <1>10
    <3> DEFINE Now(x) == FirstCode(d, {x})
    <3>2. \A t \in c.cleanups[i].continuations : Now(f[t.resume]) = FirstCode(c, {t.resume})
      BY <3>1
    <3> HIDE DEF Now
    <3>3. /\ \A t \in c.cleanups[i].continuations :
                \E u \in d.cleanups[i].continuations :
                   u.reason = t.reason /\ Now(u.resume) = FirstCode(c, {t.resume})
          /\ \A u \in d.cleanups[i].continuations :
                \E t \in c.cleanups[i].continuations :
                   u.reason = t.reason /\ Now(u.resume) = FirstCode(c, {t.resume})
      BY ZenonT(40), <1>10, <3>2
    <3> QED BY <3>3 DEF Now
  <2> QED BY <1>7, <1>9, <2>1, <2>2 DEF SameStarts
<1>13. Flow(d, d.live_blocks) = Flow(c, c.live_blocks)
  <2>1. Steps(d, Under(f, c.live_blocks)) = Steps(c, c.live_blocks)
    BY <1>3, <1>4, PackedSteps
  <2>2. Steps(d, d.live_blocks) = Steps(c, c.live_blocks)
    BY <1>4, <2>1
  <2> QED BY <1>12, <2>2, FlowMatched
<1>14. dangling_anchors(d) = {}
  BY <1>3, <1>4, AnchorsAreSlots DEF dangling_anchors
<1>15. ASSUME NEW i \in DOMAIN c.cleanups, Dispatches(c, i)
       PROVE  Dispatches(d, i) /\ Exits(d, i) = Exits(c, i)
  <2>1. PICK x : x = c.cleanups[i].resume_from
    OBVIOUS
  <2>2. x # 0 /\ successors(c, x) = {t.resume : t \in c.cleanups[i].continuations}
    BY <1>15, <2>1 DEF Dispatches
  <2>3. x \in c.live_blocks
    <3>1. x \in anchors(c)
      BY <2>1, <2>2, AnchorNamed
    <3> QED BY <1>4, <3>1
  <2>4. d.cleanups[i].resume_from = f[x]
    BY <1>10, <2>1, <2>2
  <2>5. /\ f[x] \in Slots(d) /\ successors(d, f[x]) = Under(f, successors(c, x))
        /\ successors(c, x) \in SUBSET c.live_blocks
    BY <1>3, <2>3, PackedBlocks
  <2>6. Under(f, successors(c, x)) = {u.resume : u \in d.cleanups[i].continuations}
    BY <1>10, <2>2 DEF Under
  <2>7. FirstCode(d, successors(d, f[x])) = FirstCode(c, successors(c, x))
    BY <1>3, <1>4, <2>5, PackedFirst
  <2> QED BY <1>4, <2>1, <2>4, <2>5, <2>6, <2>7 DEF Dispatches, Exits
<1>16. \A tag : RegionsOf(d, tag) = RegionsOf(c, tag) /\ HandlersOf(d, tag) = HandlersOf(c, tag)
  BY <1>11, SamePlacesKept
<1>17. InOrder(c, d)
  BY <1>7, <1>13, <1>14, <1>15, <1>16 DEF InOrder
<1> QED BY <1>1, <1>17

LEMMA RearrangeInOrder ==
    ASSUME AnchoredGraph(cfg), Rearrange
    PROVE  InOrder(cfg, cfg')
<1>0. 0..MaxCode \subseteq Nat
  BY CfgAssumption
<1>1. ASSUME NEW b \in cfg.live_blocks, NEW at \in 0..MaxCode, SplitBlock(b, at)
      PROVE  InOrder(cfg, cfg')
  <2>1. at <= Len(cfg.instructions[b]) /\ at \in Nat
    BY <1>0, <1>1 DEF SplitBlock
  <2>2. cfg' = split_block_mapped(cfg, b, at).cfg
    BY <1>1 DEF SplitBlock, Do
  <2> QED BY <2>1, <2>2, SplitSplits, SplitInOrder
<1>2. ASSUME NEW b \in cfg.live_blocks, NEW p \in 0..MaxCode, NEW q \in 0..MaxCode,
             SplitBlockAtPoints(b, p, q)
      PROVE  InOrder(cfg, cfg')
  <2>1. SplitPointsValid(cfg, b, <<p, q>>) /\ p \in Nat /\ q \in Nat
    BY <1>0, <1>2 DEF SplitBlockAtPoints
  <2>2. cfg' = split_block_at_two_points(cfg, b, p, q).cfg
    BY <1>2 DEF SplitBlockAtPoints, Do
  <2> QED BY <2>1, <2>2, SplitTwiceInOrder
<1>3. ASSUME NEW s \in cfg.live_blocks, NEW t \in cfg.live_blocks, NEW e \in cfg.live_edges,
             ContractEdge(s, t, e)
      PROVE  InOrder(cfg, cfg')
  <2>1. CanContract(cfg, s, t, e) /\ cfg' = contract_edge(cfg, s, t, e)
    BY <1>3 DEF ContractEdge, Do, Mapped
  <2> QED BY <2>1, ContractInOrder
<1>4. ASSUME Compact PROVE InOrder(cfg, cfg')
  BY <1>4, CompactInOrder DEF Compact
<1> QED BY <1>1, <1>2, <1>3, <1>4 DEF Rearrange

(* For every number of blocks, edges, regions and instructions and every   *)
(* sequence of mutations: split_block, split_block_at_points,              *)
(* contract_edge and compact leave every instruction in the protected      *)
(* ranges and handler bodies it was in, and every path of instructions,    *)
(* from the entry, from a handler or out of a cleanup, as it was.          *)
THEOREM CodeStaysInPlace == Spec => CodeKeepsItsPlace
<1>1. Init => AnchoredGraph(cfg)
  BY AnchoredInit
<1>2. AnchoredGraph(cfg) /\ [Next]_vars => AnchoredGraph(cfg)'
  BY AnchoredPreserved
<1>3. AnchoredGraph(cfg) /\ [Next]_vars =>
        [Rearrange =>
           /\ \A tag \in Tags(cfg, cfg.live_blocks) :
                 /\ RegionsOf(cfg', tag) = RegionsOf(cfg, tag)
                 /\ HandlersOf(cfg', tag) = HandlersOf(cfg, tag)
           /\ dangling_anchors(cfg) = {} =>
                 /\ Flow(cfg', cfg'.live_blocks) = Flow(cfg, cfg.live_blocks)
                 /\ \A i \in DOMAIN cfg.cleanups :
                       Dispatches(cfg, i) => /\ Dispatches(cfg', i)
                                             /\ Exits(cfg', i) = Exits(cfg, i)]_vars
  <2> SUFFICES ASSUME AnchoredGraph(cfg), Rearrange
               PROVE  /\ \A tag \in Tags(cfg, cfg.live_blocks) :
                            /\ RegionsOf(cfg', tag) = RegionsOf(cfg, tag)
                            /\ HandlersOf(cfg', tag) = HandlersOf(cfg, tag)
                      /\ dangling_anchors(cfg) = {} =>
                            /\ Flow(cfg', cfg'.live_blocks) = Flow(cfg, cfg.live_blocks)
                            /\ \A i \in DOMAIN cfg.cleanups :
                                  Dispatches(cfg, i) => /\ Dispatches(cfg', i)
                                                        /\ Exits(cfg', i) = Exits(cfg, i)
    OBVIOUS
  <2>1. PICK c : c = cfg
    OBVIOUS
  <2>2. PICK d : d = cfg'
    OBVIOUS
  <2>3. InOrder(c, d)
    BY <2>1, <2>2, RearrangeInOrder
  <2> QED BY <2>1, <2>2, <2>3 DEF InOrder
<1> QED BY <1>1, <1>2, <1>3, PTL DEF Spec, CodeKeepsItsPlace
=============================================================================

# cfglib, modelled, checked and proved

TLA+ models of `cfglib` (`src/crates/cfglib`), a library for control-flow
graphs: the graph store, the control-flow graph over it and its structural
passes, the record of what a pass did to identities, two builders, the dataflow
solvers, the graph algorithms, the analyses and rewrites of code, structuring,
and the lowering of structured programs. TLC checks them on small instances;
TLAPS proves what matters most for every instance. Paths below are relative to
`src/crates/cfglib/src`.

The library is sequential: no threads, no I/O, no clock, no persistence beyond
documents a consumer serializes. What is hard in it is not concurrency but
*long sequences of legal calls* (edits, redirections, compactions, passes) over
several representations of one thing that must agree, identities that are
renumbered under a client that still holds old ones, caches, cursors and marks
that answer for a table, worklists whose result must not depend on the order of
visits, explicit stacks in place of recursion, and analyses whose answer must
hold on every run of a program, throws included.

## The system

| component | state | operations | what makes it correct |
|---|---|---|---|
| graph store (`graph/store*`) | payload and edge arrays in a compressed base and an appendable delta, circular chains of delta edges per node, liveness bits with counters, overlay runs for redirected edges | add, remove, redirect one edge or all of a node, truncate, compact, serialize, load | it is an ordered multigraph: every read agrees with the abstract one in content and in order, whatever representation holds an edge |
| rewrite record (`rewrite.rs`) | sparse maps old identity -> replacements, created lists | record, compose, renumber | asking the composition is asking one record after the other; a record leads from what a client holds to where the code went |
| control-flow graph (`cfg*`, `region.rs`) | blocks, edges, entry, exception regions and handlers, cleanups | every structural mutation, compaction, the loader's acceptance | live edges join live blocks, only an anchor on a removed block can dangle, code keeps its flow and its protection |
| structural passes (`transform/cleanup.rs`, `contract.rs`, `critical.rs`) | a list taken before the pass mutates, the graph, the record | unreachable, empty, merge, simplify, split critical edges, contract | they end, preserve what runs in which order and under which protection, and leave nothing to do |
| structured builder (`builder.rs`) | stack of open scopes, current block, pending breaks | one per flow effect, finish, trim, resolve jumps | it accepts exactly nested streams and the graph runs exactly the described orders |
| address builder (`builder/address*`) | leaders, blocks, edges, regions, unwind tries and routes | build from addressed instructions with handlers and routes | the graph runs as the addresses say, errors come in the order stated |
| dataflow solvers (`dataflow/worklist.rs`, `fixpoint.rs`, `node_fixpoint.rs`, `edge_fixpoint.rs`) | facts per node and edge, a bit-row worklist with a cursor | solve: full, seeded, limited, with rejecting problems | what is returned is a solution, the least one, within a bound of steps |
| traversals, searches, open graphs (`graph/*traverse*`, `graph/search*`, `graph/open*`) | marks with a turning epoch, depth bounds, frontiers | walks in every order, searches with policies and visitors, folds | each order is the one its contract names; reused marks never answer for an older search |
| components (`graph/scc.rs`), dominators (`graph/dominator*`) | Tarjan's and Lengauer-Tarjan's tables, possibly reused | decompose, condense, compute, query | results say what the paths of the graph say |
| frontiers, post-dominators, loops | trees, piggybanks, loop forests | frontiers, control dependence, intervals, splitting, preheaders | the same |
| saturation and relaxation | counters of Horn clauses, labels, disjoint sets | saturate, relax, summarize, union | least models and extreme solutions |
| scope and stack graphs (`graph/scope*`, `graph/stack*`) | scopes, files cleared and rebuilt, paths, a summary database | edit, resolve, summarize, stitch | resolution is the calculus'; stitching summaries finds what a direct search finds |
| code analyses, SSA, memory SSA, propagation (`dataflow/*`, `transform/*`) | facts per block or instruction, versions, phi webs | reaching, liveness, placement, renaming, destruction, constants, copies, numbering, dead code, redundancy, colouring | every fact holds on every run; every rewrite reads what the program read |
| structuring (`analysis/control_tree*`) | walk frames, loop contexts, trampolines | structure, sweep, label | the tree runs as the graph does and keeps all its code |
| structured language (`ir/hlil*`) | statements, open blocks, loop and label targets, regions | verify, declare, lower | blocks run as the statements do |

`Cfg` owns a `Graph` and calls it for every structural edit; passes call `Cfg`
mutations and compose the `Rewrite` each returns; the builders and the lowering
create blocks and edges of a `Cfg`; solvers and algorithms read any `GraphView`,
of which a `Graph` and a `Cfg` are two; analyses of code call the solvers,
dominators and frontiers; structuring calls dominators, post-dominators and
loops. There are no callbacks except the consumer's: transfer functions (which
may reject), visitors, policies, payloads and views of its own.

## Modules

- `Slots`, `OrderedMultigraph` — what a `Graph` promises, with no word about
  storage: one order of edges per node and direction, and what each operation
  does to it.
- `GraphStore` — the store as it is: base arrays, delta chains, liveness
  counters, overlay runs, compaction. Implements `OrderedMultigraph` by the
  mapping that concatenates, for each node, the run it holds and its chain.
  Slots count from 1 and `NONE` is 0; a bitset is a set.
- `Rewrite` — the record and its composition, as operators on maps of sets.
- `CfgValue`, `Cfg` — a `Cfg` as a record and every mutation as an operator on
  it (so that passes can compose mutations); the client that makes them, with
  the record it carries. Instructions are tags, which is all that tells code
  apart. The order of a block's edges is the store's subject and left out here.
- `CfgPasses` — each pass as the code runs it: the list is taken first, then
  one element a step, with the mutations of `Cfg`.
- `CfgBuilder`, `AddressBuilder` — one operator per flow effect, the scope
  stack, every error, `finish` with its trimming, `resolve_jump_edges`; leaders,
  blocks, edges, regions and unwind routes of an addressed stream.
- `Worklist`, `NodeFixpoint`, `EdgeFixpoint` — the bit row and its cursor; the
  loop that the block and node solvers share; the edge-sensitive solver with
  facts on edges and the `Reachable` lifting. Facts are sets of atoms met by
  union: an intersection problem is the one of the complements. A problem is a
  record with arbitrary transfer functions.
- `Digraph`, `Traverse`, `Search` (with open graphs), `PathBudget`, `Scc`,
  `Dominators`, `DomTrees`, `Loops` — a `GraphView`, what reachability means in
  it, and the algorithms on it. Components and dominators are machines over
  the code's own tables; the rest are operators. A view may yield its nodes in
  any order, so a root is any node not yet visited.
- `Saturation`, `ScopeGraphs`, `StackGraphs` — rules and labels to a fixpoint;
  storage, resolution, budgets, files and their summaries.
- `Code`, `Ssa` (with its memory form), `Propagate` — bit-vector analyses;
  placement, renaming, destruction; constants, copies, numbers, dead code,
  redundancy, colours.
- `Structuring` — graphs into trees. The frames the code keeps in the heap are
  the operators' recursion.
- `Hlil`, `Lower` — statements, what `verify` refuses, and their lowering.
- `*Proofs` — theorems about the module they extend (`CfgProofs` about both
  `Cfg` and `CfgPasses`); `Rewrite` holds the laws of its records, `Worklist`
  its own few.
- `MC*` — the clients, inputs and bounds given to TLC. Where several parts are
  asked one question each on one family of inputs (`MCGraphs`, `MCPure`,
  `MCCfgBuilder`), a variable `part` says which one a behaviour is about.
  `MCValues` runs a program beside one analysis of it; `MCStructuring` and
  `MCHlil` run two machines side by side, the graph and its tree, the statements
  and their blocks, with the same outcome of every condition and raise.

A definition named after a function stands for that function, and the map
gives the whole item with its documentation; helpers inside the lines of
another mapped definition are not listed again. Definitions whose comment
begins "Mutant of" are deliberate faults: each shows that one property notices
a plausible slip in the definition it names. They take no part in the
specifications.

## What the runs check

All properties are stated, with the behaviour they are about, above their
definitions.

- `graph_store`: two clients. One does anything but write payloads within two
  nodes and two edges, for ever; the other builds three nodes and four edges,
  compacts, and makes up to five edits, between two hot nodes along one
  direction or of the last slots' payloads. The second exists
  because runs longer than the code's short cases, unsorted base runs and a
  second compaction need four edges of one node. Counters and shortcuts agree
  with the bits, a chain is ascending and newer than the run it follows, the
  loader accepts every store, and the store `ImplementsOrderedMultigraph`.
- `cfg`: up to six edits from the empty graph, and up to three on graphs with
  code, a region and a cleanup. The loader refuses, and `compact` panics,
  exactly for dangling anchors; edits keep every instruction's flow and
  protection; the composed record is truthful where it speaks. Six edits
  suffice to create, protect, empty and remove; three to split, contract and
  compact in every order.
- `passes`: every graph of three blocks with up to four edges, four kinds of
  exception metadata. Well-formedness at every step, flow, protection, record,
  nothing left to do, back edges still entering their headers, termination.
  Three blocks allow an empty block between two others and on a cycle; four
  edges a critical one beside it.
- `builder`: every stream of up to four instructions of all eighteen effects,
  up to seven of the eleven structured ones (seven nest a switch in a loop with
  a break, and put code after a transfer); every addressed stream of up to
  three instructions, and thirty with unwind routes.
- `solvers`, `edge_solver`: every graph of three nodes with up to four edges
  for the first; two or three nodes and three edge slots, dead and parallel
  ones too, for the second; constant, identity, growing and non-monotone
  transfers. Words of two bits and of one make the cursor cross word borders.
  They return; what they return solves the equations and is least; a limit
  fires only below the work needed; a rejection is one every solution shares;
  absent facts are exactly the unreached.
- `graphs`: both component algorithms step by step on every graph of four nodes
  around a removed slot, dominators of every graph of five nodes with up to six
  edges and again from another root over the tables the first call left; walks,
  frontiers, post-dominators, loop forests, intervals and loop rewrites of every
  graph of four slots with up to five edges. Four nodes and five edges are the
  least graph on which a relative dominator is not the immediate one; five let
  path compression shorten a path and still have a node above it. The
  invariants that carry the step-by-step algorithms are checked at every step.
- `pure`: searches of every policy, depth bound and visitor on three nodes, with
  marks whose epoch wraps after three of four searches; every program of three
  Horn clauses over three facts, labels, summaries, five operations on disjoint
  sets; every scope graph of three edges; stack graphs of two files edited and
  summarized in any order.
- `values`: every program of three instructions in five shapes of graph
  (branch, loop, handler, retry through an unwind, unwind to itself) runs every
  way, throws included, beside ten analyses and rewrites. Three instructions
  define, redefine and use one variable.
- `structuring`: every graph of three blocks with branches, dispatches, jumps
  and tagged edges, of four with branches, with empty blocks, predicated code
  and seven configurations of regions; the tree runs as the graph and keeps its
  code.
- `hlil`: every program of three or four statements of eight families; the
  blocks run as the statements, what is accepted is what can be lowered, and
  declarations dominate uses.

One run expects a violation, because the documentation and the code disagree:

- `record_across_compaction`: `rewrite.rs:11` promises one mapping to the
  identities now held after a pass and a compaction; a block the pass did not
  touch answers "unchanged" though it moved.

Smaller disagreements were met while modelling. The first few have a definition
that states them, kept beside the model and not run:

- `GraphStore.ViewKeepsRemovedNodes`: `graph/store.rs:503` says a removed node
  remains in the view; `node_ids` leaves it out.
- `Cfg.CreatedAreNew`: `rewrite.rs:75` documents created blocks as without an
  old identity; a block split and contracted back lists the old one.
- `MCGraphs.ExplicitBodyOnPaths`: an explicit loop body may hold a block no path
  from the header to the latch passes.
- `MCPure.StitchedAsDirectAlways` (`graph/stack/partial.rs:476` against the
  repository's README): the stitching search agrees with the direct one only
  under the conditions `NamesResolveRight` states. `StackPath::shadows` is not
  antisymmetric where edges are parallel.
- `MCValues.ReadsWhatReaches` (`dataflow/memory/ssa.rs:22-25`, `602`): a memory
  version can be read that does not reach.
- `transform/pre.rs:154` compares blocks only where its comment (`152`) speaks
  of reads: across an unwind an expression is taken as available too early.
- `add_unwind_routes`: "a route names the first route that states it" fails
  where a protected block is also a funclet's return.
- Lowering (`ir/hlil/lower/control.rs:404-425`): in `do { do {} while (a) }
  while (b)` and `do { continue; f } while (c)` the edge marked back enters
  another block than the comments at `414` say. A `goto` to a labelled
  `do`-`while` from its own body is refused as undefined though `verify` accepts
  it; one to a labelled `for` can skip the initializer; `region { return }`, a
  `try { return }` with a `finally`, and dead code at the end are refused as
  falling off the end; the block that ends a `finally` body takes the code after
  the `try`, so the handler's recorded blocks hold it.

`CHECK_DEADLOCK FALSE` appears where a client may stop or a call has returned.
Every bound is a constant of a configuration or an `MC` module; `MaxSteps` of
the solvers only saturates a counter.

## Fairness

Liveness is asked of calls that run to their end: `WF(Next)` of a solver and
`WF(PassNext)` of a pass. A call is one sequential loop that nothing can
preempt, so as long as it can take a step it takes one. No fairness is
assumed of clients, which may stop at any moment.

## What is proved

For every value of the constants, in eight modules:

**`OrderedMultigraph`** — types (`TypeCorrect`), endpoints stay live and
adjacency stays a strict total order (`AdjacencyStaysSound`), and no step but
compaction reorders two edges that stay on a node (`OrderIsStable`). The
invariant is `TypeOK` with both halves of `AdjacencySound`: the order is a
relation on live edges of one node, so keeping it transitive and total when
edges move or are renumbered needs to know where each edge is attached.

**`GraphStore`** — four results, in `GraphStoreProofs`. The counters and
shortcuts of liveness are exact (`LivenessIsExact`), from the invariant that
counts are cardinalities of the sets of bits; it needs nothing of adjacency. The
other three rest on `StoreInv`:

- *shape*: columns are vectors of the right records, chain tables have a row per
  delta edge, the index of each direction is one `check_index` accepts with
  ascending offsets, and a live edge ends at live nodes;
- *`Adjacency` of every node and direction*: the run (overlay, or slice of the
  index) repeats nothing; the chain threads a set of the node's own delta edges
  in which each leads to the next larger and the largest to the smallest
  (`RingSet`); every number in the run is below every number in the chain; and
  a live edge is in one of the two exactly when it ends at the node.

`RunThenChainHoldsAlways` and `DocumentAlwaysAccepted` follow from it without
another step. A circular chain can be reasoned about because of `RingWalk`:
walking the ring of an ascending set meets its k-th smallest element at step k.
Induction over such walks, and over what filtering, removing and sorting do to
a sequence, is stated for *sets* of numbers (`Induct`, from the well-foundedness
of `Nat`), since the library's induction theorems take operators the provers
cannot instantiate. All the proofs ask of a sequence is which elements it reads,
in which order, and whether it repeats one (`Reads`, `Precedes`, `Distinct`).
One lemma per operation keeps `StoreInv`; `redirect` and `move_adjacency` share
`Rehung`, and `compact` goes through counting placement (`Placed`), the slices
put back over it (`Restored`) and ranks (`RankBijection`).

`StoreImplementsMultigraph` is the refinement. `ReadBefore` is shown to be the
order of run followed by chain between live edges; then every operation has a
lemma that maps it to the abstract operation of the same name (or, for an edge
removed twice, to a stutter), payloads, endpoints, live sets and order each as
one equation. With it, what is proved of `OrderedMultigraph` holds of what a
store's walks read.

**`Rewrite`** — asking a composed record is asking the two in turn
(`ComposeChases`), and composition associates. No hypothesis on the records.
What is right about one axis (`Right`, `RightComposed`), and what recording one
more change does to an axis that is right, are lemmas there too.

**`CfgPasses`** (`CfgProofs`) — `PassesKeepGraphsWellFormed`, at every step of every pass, on
any graph with any metadata. `PassInv` is that the graph is well formed *and*
that the element the pass is about to mutate satisfies that mutation's
precondition. The second half is needed because the list is older than the
graph.

**Records** (`CfgProofs`) — `RecordsStayTruthful` (mutations, region edits and
compaction by a client, an invariant and an action property) and
`PassRecordsStayTruthful` (every step of every pass, with the phase's map not
yet composed). The property alone is not inductive: a record leads each block
to the blocks that hold its code, but composing it with a second record asks
the second about identities the first leads to, and about the ones it never
mentions. `Renames` adds what composition needs: every live identity leads to
itself and only to live ones, everything live is created or led to from what was
live, and slots are not used again (`Onward`). `RecordsCompose` is the step, for
one axis first (`Right`) and then for blocks and edges with the code they hold;
one lemma per mutation shows its own record right. Passes need more: a phase
records into one map as it goes instead of composing, so an entry written early
must still be right when a block named in it is taken in later. `PhaseRecord`
says the map is right about the graph at the start of the phase, and for
`merge_blocks` rests on `Ahead`: the list is a depth-first preorder, so the sole
successor a block could take in stands after it, and a block that has already
taken others in is never itself taken in. That an order with this property
exists for every reachable set is not assumed; it is a consequence of how the
list is taken (`PreorderAhead`).

**Anchors** (`CfgProofs`) — `AnchorsAlwaysDecide`: without a dangling anchor a
serialized graph is accepted, and `compact` panics exactly when there is one.
The inductive invariant is `AnchoredGraph`: the graph is shaped and its edges
join live blocks, the entry is live, and `MetadataGood`: regions and cleanups
are lists, a region sits at its own number under an existing parent, protected
ranges, handlers, their bodies and continuations name slots that exist (or none,
where the code has an `Option`), and a cleanup's handler exists. Numbers are given by compaction
exactly to live blocks and 0 is the missing number, so with it a 0 can come only
from an anchor on a removed block; without "slots that exist" one could come
from anywhere. The hypotheses are those of a client: the regions it adds are
typed and have real handler entries, and their parent, ranges and handler bodies
are a region and blocks it was given (`AddRegion`'s guard; `add_region` itself
checks nothing).

**What code does** (`CfgProofs`) — three results. Two compare a graph before and
after a mutation by the code reached first from a block when empty blocks are
passed through (`FirstCode`), which is a closure. No path is followed: the
blocks passed through are the least set closed under the edges out of empty
blocks (`Passing`, `Through`), so to show that two graphs reach the same code it
is enough to give, for each of them, a closed set in which every block that ends
the search stands for one of the other graph that shows the same code
(`FirstCodeMatched`, once per direction). A mutation is described by what it
does to endpoints and code (`Bypassed`, `Folded`, `Bent`, `Packed`) and hidden
behind that.

- `PassesKeepCode`: `CodeInv` is that entry and metadata are the input's and the
  graph `KeepsCode` of the input, which is transitive, so one lemma per mutation
  is left. For `remove_unreachable` the closed set is what is retained; for a
  bypass every block stands for itself and the empty block for its target; for a
  merge the source stands for both halves; for a split edge the middle stands
  for the target. `PassAssumption` asks that handlers enter and continuations
  resume at some block (0 is the missing number, and neither is an `Option` in
  the code).
- `CodeStaysInPlace`: with `AnchoredGraph` above as the invariant, every
  rearrangement keeps the code's order and place (`InOrder`). `contract_edge` is
  a fold, `split_block` the same fold read from the result back to the input
  (`SplitFolds`), where ranges and bodies take in the tail (`Extended`), a second
  split point is a second split of the first tail, and `compact` is a renaming
  (`Packed`) under which ranges and bodies lose exactly the blocks that are gone.
- `NothingIsLeft`: `LeftInv` says that what a running phase has left to do is in
  the list it still has to go through (`NothingIn`), and that a phase which is
  over stays settled until the graph changes again (`Settled`); a `simplify`
  that changed nothing in its last round has all three settled. The hard half is
  that no mutation makes new work for its own phase outside the list, though
  the list is older than the graph.

**Structured builder** (`CfgBuilderProofs`) — two results, for streams of any
length.

- `NestedStreamsTaken`: the builder keeps a stack, the property matches markers
  and knows of none. The bridge is `Stack`: a stream has a stack when the scopes
  it leaves open have whole scopes between them. `NestInv` says that while the
  stream is read the builder's stack lists the kinds of the stream's
  (`Matches`), and that every instruction read so far was in its place when it
  was read (`Placed`). That judgement is local: what comes later cannot move an
  instruction into or out of the scopes around it (`PlacedLocal`), so the
  completion of the stream nests exactly when all of it was placed
  (`CompletedNests`). One lemma per kind of instruction shows that the stack of
  the longer stream is the one the builder makes; a marker that closes nothing,
  or not the scope opened last, cannot be balanced by any completion
  (`WrongCloser`). "Whole scopes" is a recursive function; that it satisfies its
  equation (`BalancedUnfolds`) is shown by building it row by row from the
  stream's end, and facts about ranges go by the same descent (`Downward`, over
  sets of positions).
- `JumpsResolvedOnce`: a second `resolve_jump_edges` changes nothing and reports
  the same. `WiredInv` says the graph keeps its shape through every step of the
  build and through trimming (lists are lists, what is live has a slot) and that
  after a call no jump whose label there is lacks its edge. The shape is needed
  because the new edges must be where their numbers say, and the old ones stay
  where they were.

**Solvers** (`NodeFixpointProofs`, `EdgeFixpointProofs`) — types; facts returned
satisfy every equation, whatever the transfers; with monotone transfers they are
the least solution. `SolverInv` is types, *the cursor guard* (no queued index
below the cursor's word), *quiet* nodes (a node not queued satisfies its
equations, or was never asked) and *drained* (success means nothing queued).
Without the cursor guard, "nothing found" would not mean "nothing queued".
Leastness is separate: facts below any solution stay below it. Two results
about how a solve ends:

- `StoppedRightly`: a rejected problem has no acceptable solution, and a step
  limit fires only below the work the problem needs. The work is bounded by
  `Paid`: visits done and visits queued are at most the first visits plus the
  *tellings*, an atom told along an edge, of which there are finitely many and
  which only grow because outputs rise (`Rising`). The hypothesis is that atoms
  are finite, as the code's bit rows are.
- `UnreachedIsNone`: the returned facts are absent exactly where no path leads
  from a seed with an entry fact. One half is that absent facts stay outside
  every set of nodes closed under the edges that holds the seeds (`Contained`,
  over all such sets at once), the other follows from the equations: the nodes
  with a fact are themselves such a set, so no induction along paths is needed.

All of them rest on `Worklist`: what `pop_first` and `insert` do to the guard,
from `WordBits \in Nat \ {0}` alone.

Assumptions on constants are named in the modules that declare them
(`SlotAssumption`, `CfgAssumption`, `PassAssumption`, `BuilderAssumption`,
`WordAssumption`, `SolverAssumption`, `BoundAssumption`). They say that bounds
are numbers, inputs well typed, and that the graphs handed to passes hold no
instruction twice (`Once`: a tag is a place in the code), with handlers that
enter and continuations that resume somewhere.

## Only model-checked, and why

- Liveness (`Terminates`, `Returns`): fairness and `ENABLED` are outside the
  prover.
- Of the structured builder `GraphAsWritten`, which compares runs of a stream
  with runs of a graph, both closures of recursive functions.
- Everything in modules with recursive operators (`AddressBuilder`, `Traverse`,
  `Search`, `DomTrees`, `Loops`, `Saturation`, `ScopeGraphs`, `StackGraphs`,
  `Code`, `Ssa`, `Propagate`, `Structuring`, `Hlil`, `Lower`) and the component
  and dominator algorithms, whose correctness is about paths.

## Not modelled, and why

Payloads, weights, labels, wording and layout of text; capacity reservation and
allocation failure; panics for identities out of bounds (every model calls with
identities that were once handed out). `usize` and `u32` widths enter only as
the slot bounds of the store and as the epoch of marks; the sentinel values are
ones no index has. The step that serializes is modelled by what the loader
checks, not as bytes. Lifting of blocks into statements and recovery of
statement forms (`ir/hlil/lift`, `recover`), register-transfer facts, fan-out
and keyed tables, exception dispatch models, read-only views, text and dot
output: `PROJECT.json` gives the reason for each.

## Plan

1. Proofs: `GraphAsWritten`. With the stack of a stream at hand, it needs what
   one instruction does to the runs of a prefix, with closed sets on both sides
   as for the passes.
2. Lifting (`ir/hlil/lift`) beside `MCStructuring`, whose tree it walks;
   exception dispatch; the keyed graph's freeze and fan-out's row growth.

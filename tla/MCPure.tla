------------------------------- MODULE MCPure -------------------------------
(***************************************************************************)
(* The parts of the library that answer a question and keep nothing, or    *)
(* keep only their own tables: a behaviour is about one of them.  Searches *)
(* are of every graph of three nodes within the bound, with one set of     *)
(* marks, reused from search to search as their epoch turns.               *)
(***************************************************************************)
EXTENDS Search

CONSTANTS MaxEdges,      \* how many edges a graph has at most
          MaxSearches,   \* how many searches one set of marks serves
          Facts, MaxClauses, MaxRecords, MaxOps, MaxSets,   \* of Saturation
          MaxScopeEdges, MaxEdits   \* of scope graphs, and of one stack graph's files

VARIABLES part,                                               \* what is asked
          marks,         \* the EpochMarks every search is given
          asked,         \* the last search and its visits
          rules, clauses, caps, sets, blocks, towards, ops,   \* of Saturation
          scopes,        \* a scope graph
          template,      \* which stack graph is edited, or None
          stack,         \* the stack graph
          role,          \* the node that plays each part of the template
          db,            \* the database of summaries
          fresh,         \* the files whose summaries are of the graph as it is
          edits          \* how many edits were made

Saturate == INSTANCE Saturation WITH MaxEdges <- MaxRecords
N == INSTANCE ScopeGraphs
S == INSTANCE StackGraphs

searchVars == <<marks, asked>>
saturationVars == <<rules, clauses, caps, sets, blocks, towards, ops>>
nameVars == <<scopes, template, stack, role, db, fresh, edits>>
vars == <<part, graph, searchVars, saturationVars, nameVars>>

Follows(e) ==
    graph.edges # << >> => LET l == Last(graph.edges)
                           IN  l[1] * Bound + l[2] <= e[1] * Bound + e[2]

AddEdge ==
    /\ asked.count = 0 /\ Len(graph.edges) < MaxEdges
    /\ \E e \in graph.live \X graph.live :
          Follows(e) /\ graph' = [graph EXCEPT !.edges = Append(@, e)]
    /\ UNCHANGED <<marks, asked>>

SeedLists == {<<0>>, <<0, 1>>, <<1, 1>>}
Depths == {None, 0, 1}
MCConfigs == {c \in [order : {"depth", "breadth"}, visited : {"global", "path"},
                     direction : Axis, max_depth : Depths] :
                 c.order = "breadth" => c.visited = "global"}
MCVisitors == [skip : {{}, {1}}, stop : {None, 2}]

Ask ==
    /\ asked.count < MaxSearches
    /\ \E seeds \in {<<0>>, <<1, 0>>}, v \in [skip : {{}}, stop : {None, 2}],
          c \in {x \in MCConfigs : x.direction = "out" /\ x.max_depth = None} :
          LET done == search_in(graph, seeds, c, marks, v)
          IN  /\ marks' = done.marks
              /\ asked' = [count |-> asked.count + 1, seeds |-> seeds, config |-> c,
                           visitor |-> v, visits |-> done.visits]
    /\ UNCHANGED graph
-----------------------------------------------------------------------------
(* Scope graphs of three scopes within the bound, and stack graphs of two  *)
(* files: every choice of the edges of a few templates, and sequences of   *)
(* edits of a whole template with its summaries kept beside it.            *)
Queries ==
    LET lexical == <<0, "P">> :> 0 @@ <<0, "I">> :> 1
        free == <<0, "P">> :> 0 @@ <<0, "I">> :> 0
        nearer == {<<N!Declaration, "P">>, <<N!Declaration, "I">>, <<"I", "P">>}
    IN  {[start |-> 0, moves |-> lexical, final |-> {0, 1}, order |-> nearer, stops |-> TRUE],
         [start |-> 0, moves |-> free, final |-> {0}, order |-> nearer, stops |-> TRUE],
         [start |-> 0, moves |-> lexical, final |-> {1}, order |-> {<<"P", "I">>}, stops |-> FALSE],
         [start |-> 0, moves |-> free, final |-> {0}, order |-> {<<"I", "P">>}, stops |-> TRUE]}
Limits(length, paths, complete) == [length |-> length, paths |-> paths, complete |-> complete]
Bounds == <<Limits(1, None, None), Limits(None, 2, None), Limits(None, 3, None), Limits(1, 2, None)>>
StackBounds == <<Limits(2, None, None), Limits(None, 2, None), Limits(None, 4, None),
                 Limits(None, None, 1), Limits(None, None, 0)>>

Data == {<<2, 3, 3>>, <<1, 3>>}
WithData(g, at) == FoldLeft(LAMBDA x, s : N!add_datum(x, s, "x"), g, at)
Rank(e) == (e.source * 4 + e.target) * 2 + IF e.label = "P" THEN 0 ELSE 1
AddScopeEdge ==
    /\ template = None /\ Len(scopes.edges) < MaxScopeEdges
    /\ \E s, t \in scopes.scopes, l \in {"P", "I"} :
          /\ scopes' = N!add_scope_edge(scopes, s, t, l)
          /\ scopes.edges # << >> => Rank(Last(scopes.edges)) <= Rank(Last(scopes'.edges))
    /\ UNCHANGED <<template, stack, role, db, fresh, edits>>
RemoveScopeEdge ==
    /\ template = None /\ Cardinality(scopes.live) = MaxScopeEdges
    /\ \E e \in scopes.live : scopes' = N!remove_scope_edge(scopes, e)
    /\ UNCHANGED <<template, stack, role, db, fresh, edits>>
-----------------------------------------------------------------------------
(* The parts of each template from the third on, in the order they are     *)
(* added, and its edges between parts, with the precedences to try.        *)
Parts ==
    [plain |-> <<S!Node(1, "push", "a", TRUE, None), S!Node(1, "scope", None, FALSE, None),
                 S!Node(1, "pop", "a", TRUE, None), S!Node(2, "scope", None, TRUE, None),
                 S!Node(2, "pop", "a", TRUE, None)>>,
     scoped |-> <<S!Node(1, "scope", None, TRUE, None), S!Node(1, "push", "b", TRUE, None),
                  S!Node(1, "push_scoped", "a", FALSE, 3), S!Node(1, "pop", "b", TRUE, None),
                  S!Node(2, "pop_scoped", "a", FALSE, None), S!Node(2, "drop", None, FALSE, None)>>,
     nested |-> <<S!Node(1, "push", "a", TRUE, None), S!Node(1, "push", "b", FALSE, None),
                  S!Node(1, "pop", "b", TRUE, None), S!Node(1, "pop", "a", TRUE, None)>>]
Joins ==
    [plain |-> <<<<3, 4, {0}>>, <<4, 5, {0, 1}>>, <<4, 1, {0, 1}>>, <<1, 6, {0}>>, <<6, 7, {0, 1}>>,
                 <<1, 7, {0, 1}>>, <<6, 1, {1}>>, <<3, 1, {0}>>>>,
     scoped |-> <<<<4, 5, {0}>>, <<5, 1, {0}>>, <<1, 7, {0}>>, <<7, 2, {0}>>, <<3, 6, {0, 1}>>,
                  <<3, 1, {0}>>, <<1, 2, {0}>>, <<7, 8, {0}>>, <<8, 1, {0}>>, <<1, 6, {1}>>, <<7, 1, {0}>>>>,
     nested |-> <<<<3, 4, {0}>>, <<4, 5, {0, 1}>>, <<5, 6, {0}>>, <<3, 6, {0, 1}>>, <<4, 1, {0}>>,
                  <<1, 5, {1}>>, <<5, 1, {0}>>, <<4, 5, {1}>>, <<6, 3, {0}>>>>]
Templates == DOMAIN Parts

FileOf(t, r) == IF r <= 2 THEN None ELSE Parts[t][r - 2].file
InFile(t, f) == SelectSeq([i \in 1..(Len(Parts[t]) + 2) |-> i], LAMBDA r : FileOf(t, r) = f)
Touches(t, j, f) == f \in {FileOf(t, j[1]), FileOf(t, j[2])}
Ends(g, e) == {g.nodes[g.edges[e].source].file, g.nodes[g.edges[e].target].file} \ {None}

(* The nodes of one file, each after the scope it names.                   *)
BuildNodes(t, st, f) ==
    FoldLeft(LAMBDA x, r :
               LET n == Parts[t][r - 2]
                   node == [n EXCEPT !.scope = IF @ = None THEN None ELSE x.role[@]]
               IN  [stack |-> S!add_local_node(x.stack, node),
                    role |-> [x.role EXCEPT ![r] = Len(x.stack.nodes) + 1]],
             st, InFile(t, f))
Join(g, roles, j, precedence) == S!add_stack_edge(g, roles[j[1]], roles[j[2]], precedence)
NoRoles(t) == [r \in 1..(Len(Parts[t]) + 2) |-> IF r <= 2 THEN r ELSE None]
NodesOf(t) == BuildNodes(t, BuildNodes(t, [stack |-> S!new_stack_graph(2), role |-> NoRoles(t)], 1), 2)
WithJoins(t, choice) ==
    LET chosen == SelectSeq([i \in DOMAIN Joins[t] |-> i], LAMBDA i : choice[i] # None)
    IN  FoldLeft(LAMBDA g, i : Join(g, NodesOf(t).role, Joins[t][i], choice[i]), NodesOf(t).stack, chosen)
EdgeChoices(t) == {c \in [DOMAIN Joins[t] -> {0, 1, None}] :
                  \A i \in DOMAIN c : c[i] \in Joins[t][i][3] \cup {None}}

(* The edges of a template that edits start from, by their places.         *)
Core == [plain |-> {1, 2, 3, 4, 5}, scoped |-> {1, 2, 3, 4, 5}, nested |-> {1, 2, 3}]
CoreChoice(t) == [i \in DOMAIN Joins[t] |-> IF i \in Core[t] THEN 0 ELSE None]

OnStack == template # None /\ edits < MaxEdits /\ edits' = edits + 1 /\ UNCHANGED <<scopes, template>>
Cleared(f) == stack.file_nodes[f] = << >>
ClearFile(f) ==
    /\ OnStack /\ ~Cleared(f)
    /\ stack' = S!clear_file(stack, f) /\ fresh' = fresh \ {f} /\ UNCHANGED <<role, db>>
BuildFile(f) ==
    LET built == BuildNodes(template, [stack |-> stack, role |-> role], f)
        again == SelectSeq([i \in DOMAIN Joins[template] |-> i],
                           LAMBDA i : i \in Core[template] /\ Touches(template, Joins[template][i], f))
    IN  /\ OnStack /\ Cleared(f)
        /\ role' = built.role
        /\ stack' = FoldLeft(LAMBDA g, i : Join(g, built.role, Joins[template][i], 0),
                             built.stack, again)
        /\ fresh' = fresh \ {f} /\ UNCHANGED db
AddStackEdge(j) ==
    /\ OnStack /\ S!may_add_edge(stack, role[j[1]], role[j[2]])
    /\ stack' = Join(stack, role, j, 1)
    /\ fresh' = fresh \ {FileOf(template, j[1]), FileOf(template, j[2])} /\ UNCHANGED <<role, db>>
RemoveStackEdge(e) ==
    /\ OnStack
    /\ stack' = S!remove_stack_edge(stack, e) /\ fresh' = fresh \ Ends(stack, e)
    /\ UNCHANGED <<role, db>>
ReplaceFile(f) ==
    /\ OnStack /\ f \notin fresh
    /\ db' = S!replace_file(db, stack, f, "breadth") /\ fresh' = fresh \cup {f}
    /\ UNCHANGED <<stack, role>>

OneTemplate(t, choice, used) ==
    /\ template = t /\ edits = used /\ role = NodesOf(t).role
    /\ stack = WithJoins(t, choice)
    /\ db = S!compute_database(stack, "breadth")
    /\ fresh = {1, 2} /\ scopes = N!new_scopes(0)
NamesInit ==
    \/ /\ template = None /\ \E at \in Data :
             scopes = N!add_reference(N!add_reference(WithData(N!new_scopes(3), at), 1, "x"), 3, "x")
       /\ stack = S!new_stack_graph(0) /\ role = << >> /\ db = S!new_database(stack)
       /\ fresh = {} /\ edits = 0
    \/ \E t \in Templates : \/ \E c \in EdgeChoices(t) : OneTemplate(t, c, MaxEdits)
                            \/ OneTemplate(t, CoreChoice(t), 0)
NamesNext ==
    \/ AddScopeEdge \/ RemoveScopeEdge
    \/ \E f \in {1, 2} : ClearFile(f) \/ BuildFile(f) \/ ReplaceFile(f)
    \/ template # None /\ \E j \in Range(Joins[template]) : AddStackEdge(j)
    \/ \E e \in stack.live_edges : RemoveStackEdge(e)
-----------------------------------------------------------------------------
NoNames == /\ scopes = None /\ template = None /\ stack = None /\ role = None
           /\ db = None /\ fresh = None /\ edits = None

MCInit == /\ graph = [live |-> Slots, edges |-> << >>]
          /\ marks = new_marks
          /\ asked = [count |-> 0]
          /\ Saturate!MCInit
          /\ \/ part \in {"searches", "saturation"} /\ NoNames
             \/ part = "names" /\ NamesInit
MCNext ==
    /\ \/ /\ part = "searches" /\ (AddEdge \/ Ask)
          /\ UNCHANGED <<saturationVars, nameVars>>
       \/ part = "saturation" /\ Saturate!MCNext /\ UNCHANGED <<searchVars, nameVars>>
       \/ part = "names" /\ NamesNext /\ UNCHANGED <<graph, searchVars, saturationVars>>
    /\ UNCHANGED part
MCSpec == MCInit /\ [][MCNext]_vars
-----------------------------------------------------------------------------
Unasked == asked.count = 0

(* A search with marks that earlier searches left answers as one with new  *)
(* marks does, whichever epoch they are in and however the others ended.   *)
MarksAsNew ==
    asked.count > 0 =>
        asked.visits = search(graph, asked.seeds, asked.config, asked.visitor)

(* Every search visits what its policy says of the paths of the graph, and *)
(* the open search of the same graph visits the same.                      *)
VisitsRight ==
    Unasked => \A seeds \in SeedLists, c \in MCConfigs, v \in MCVisitors :
        /\ SearchRight(graph, seeds, c, v)
        /\ c.direction = "out" => OpenRight(graph, seeds, c, v)
        /\ c.direction = "out" => RoutesRight(graph, seeds[1], c, v)
        /\ \A k \in 0..Bound :
              ChainRight([n \in {m \in Slots : Succ(graph, m) # << >>} |-> Head(Succ(graph, n))],
                         seeds[1], k)

(* The fold's one loop over frames computes what the recursion over the    *)
(* graph means, whatever nodes are leaves, isolated, unmarked or last.     *)
FoldsRight ==
    Unasked => \A leaves \in {{}, {1}}, isolated \in {{}, {0}, {1, 2}},
                  unmarked \in {{}, {2}}, last \in {{}, {1}}, depth \in {None, 0, 1, 2} :
        (depth # None \/ unmarked = {}) =>
            FoldAgrees(graph, [leaves |-> leaves, isolated |-> isolated,
                               unmarked |-> unmarked, last |-> last], depth, 0)
-----------------------------------------------------------------------------
(* Names resolve to what the calculus of scope graphs makes visible, with  *)
(* or without limits, linearly or not, and the index is their inverse.     *)
ScopesRight ==
    template = None =>
        \A q \in Queries :
            /\ N!ScopeResolutionRight(scopes, 1, "x", q, Bounds)
            /\ N!ScopeIndexRight(scopes, q)

(* A reference resolves to the complete paths that none shadows, within    *)
(* limits or not, and the index is the inverse.                            *)
StackRight ==
    template # None /\ fresh = {1, 2} =>
        /\ \A r \in Range(S!reference_nodes(stack)) : S!StackSearchRight(stack, r, StackBounds)
        /\ S!StackIndexRight(stack)

(* Stitching the summaries of files gives what searching the whole graph   *)
(* gives, however the files were edited and replaced since; a summary that *)
(* is out of date never invents a path.  Edges between the singletons      *)
(* belong to no file.  What is stored is taken back.                       *)
StitchedAsDirect ==
    template # None =>
        /\ S!check_stack_graph(stack) /\ S!check_database(db)
        /\ \A r \in Range(S!reference_nodes(stack)), o \in {"breadth", "depth"} :
              S!StitchRight(stack, db, r, o,
                fresh = {1, 2} /\ \A e \in stack.live_edges : Ends(stack, e) # {})

(* Stitching gives what direct search gives whatever edges the graph has,  *)
(* as the README says of compute_from_partials.                            *)
StitchedAsDirectAlways ==
    template # None /\ fresh = {1, 2} =>
        \A r \in Range(S!reference_nodes(stack)) : S!StitchRight(stack, db, r, "breadth", TRUE)
-----------------------------------------------------------------------------
(* Searches of dense and open graphs visit what their policy says of the   *)
(* paths of the graph, with reused marks as with new ones, and the fold's  *)
(* one loop computes what recursion means (graph/search.rs, graph/epoch.rs,*)
(* graph/open).                                                            *)
SearchesRight == part = "searches" =>
    MarksAsNew /\ VisitsRight /\ FoldsRight

(* Horn clauses derive their least model; labels, coldness and summaries   *)
(* are extreme solutions; disjoint sets are the partition of their unions  *)
(* (graph/horn.rs, relax.rs, coldness.rs, call_graph.rs, union_find.rs).   *)
SaturationsRight == part = "saturation" =>
    Saturate!DerivesLeastModel /\ Saturate!SaturatesFully /\ Saturate!SetsArePartition

(* Names of a scope graph resolve to what its calculus makes visible       *)
(* (graph/scope/query.rs).  References of a stack graph resolve to the     *)
(* complete paths that none shadows, and limits are reported when they cut *)
(* (graph/stack/search.rs); summaries of files, however edited and         *)
(* replaced, are stitched to the paths of a search of the whole graph      *)
(* (graph/stack/stitching.rs).                                             *)
NamesResolveRight ==
    part = "names" => ScopesRight /\ StackRight /\ StitchedAsDirect
=============================================================================

------------------------------ MODULE Rewrite ------------------------------
(***************************************************************************)
(* `Rewrite`, the sparse record of what a transform did to the identities  *)
(* it touched (src/crates/cfglib/src/rewrite.rs).  A missing entry means   *)
(* "unchanged" and an empty one "removed".  The code keeps replacements in *)
(* duplicate-free vectors; here they are sets.                             *)
(*                                                                         *)
(* A renumbering of one axis is a function from the old slots to the new   *)
(* ones, 0 for a slot that did not survive.                                *)
(*                                                                         *)
(* Composition and what recording one more change does are laws of the     *)
(* records themselves, whatever the graph; they follow the definitions.    *)
(***************************************************************************)
EXTENDS Integers, TLAPS

new == [blocks |-> [b \in {} |-> {}], edges |-> [e \in {} |-> {}],
        created_blocks |-> {}, created_edges |-> {}]

(* Entries of `map`, with those of `entries` inserted over them.           *)
Inserted(map, entries) ==
    [x \in DOMAIN map \cup DOMAIN entries |->
        IF x \in DOMAIN entries THEN entries[x] ELSE map[x]]

record_block(r, old, replacements) ==
    [r EXCEPT !.blocks = Inserted(@, [b \in {old} |-> replacements])]

record_edge(r, old, replacements) ==
    [r EXCEPT !.edges = Inserted(@, [e \in {old} |-> replacements])]

(* What a transform records in a loop over the edges it removed, or kept.  *)
record_removed_edges(r, E) ==
    [r EXCEPT !.edges = Inserted(@, [e \in E |-> {}])]

record_kept_edges(r, E) ==
    [r EXCEPT !.edges = Inserted(@, [e \in E |-> {e}])]

record_created_block(r, b) == [r EXCEPT !.created_blocks = @ \cup {b}]
record_created_edge(r, e) == [r EXCEPT !.created_edges = @ \cup {e}]

replacements_of(map, x) == IF x \in DOMAIN map THEN map[x] ELSE {x}

Chase(map, S) == UNION {replacements_of(map, x) : x \in S}

(* Mutant of compose_axis: the later entry wins.                           *)
compose_axis_later_wins(current, next) ==
    [x \in DOMAIN current \cup DOMAIN next |->
        IF x \in DOMAIN next THEN next[x] ELSE current[x]]

(* compose_axis, then the entries only `next` introduces.                  *)
compose_axis(current, next) ==
    [x \in DOMAIN current \cup DOMAIN next |->
        IF x \in DOMAIN current THEN Chase(next, current[x]) ELSE next[x]]

(* Composition: the replacements `first` recorded are chased through       *)
(* `next`, and so are the identities it created.                           *)
compose(first, next) ==
    LET blocks == compose_axis(first.blocks, next.blocks)
        edges == compose_axis(first.edges, next.edges)
    IN  [blocks |-> blocks, edges |-> edges,
         created_blocks |-> Chase(blocks, first.created_blocks)
                              \cup next.created_blocks,
         created_edges |-> Chase(edges, first.created_edges)
                              \cup next.created_edges]

(* The survivors of S in the new numbering.                                *)
Renumbered(S, renumbering) == {renumbering[x] : x \in S} \ {0}

(* Mutant of then_renumbered: replacements keep their old numbers.         *)
then_renumbered_created_only(r, nodes, edges) ==
    [r EXCEPT !.created_blocks = Renumbered(@, nodes),
              !.created_edges = Renumbered(@, edges)]

then_renumbered(r, nodes, edges) ==
    [blocks |-> [b \in DOMAIN r.blocks |-> Renumbered(r.blocks[b], nodes)],
     edges |-> [e \in DOMAIN r.edges |-> Renumbered(r.edges[e], edges)],
     created_blocks |-> Renumbered(r.created_blocks, nodes),
     created_edges |-> Renumbered(r.created_edges, edges)]
-----------------------------------------------------------------------------
(* What composing two records computes, for records of any size.           *)

(* The identities that become of `x` under a singleton are what the map    *)
(* says of `x`.                                                            *)
LEMMA ChaseOne ==
    ASSUME NEW map, NEW x
    PROVE  Chase(map, {x}) = replacements_of(map, x)
BY DEF Chase

(* compose_axis chases: looking an identity up in the composed record is   *)
(* looking it up in the first and everything found there in the second.    *)
THEOREM ComposeChases ==
    ASSUME NEW first, NEW next, NEW x
    PROVE  replacements_of(compose_axis(first, next), x)
             = Chase(next, replacements_of(first, x))
<1>1. CASE x \in DOMAIN first
  BY <1>1 DEF replacements_of, compose_axis
<1>2. CASE x \notin DOMAIN first /\ x \in DOMAIN next
  <2>1. replacements_of(first, x) = {x}
    BY <1>2 DEF replacements_of
  <2>2. replacements_of(compose_axis(first, next), x) = next[x]
    BY <1>2 DEF replacements_of, compose_axis
  <2>3. replacements_of(next, x) = next[x]
    BY <1>2 DEF replacements_of
  <2> QED BY <2>1, <2>2, <2>3, ChaseOne
<1>3. CASE x \notin DOMAIN first /\ x \notin DOMAIN next
  <2>1. replacements_of(first, x) = {x} /\ replacements_of(next, x) = {x}
    BY <1>3 DEF replacements_of
  <2>2. replacements_of(compose_axis(first, next), x) = {x}
    BY <1>3 DEF replacements_of, compose_axis
  <2> QED BY <2>1, <2>2, ChaseOne
<1> QED BY <1>1, <1>2, <1>3

(* Chasing a set through a composition is chasing it twice.                *)
LEMMA ChaseComposed ==
    ASSUME NEW first, NEW next, NEW S
    PROVE  Chase(compose_axis(first, next), S) = Chase(next, Chase(first, S))
<1>1. \A x \in S : replacements_of(compose_axis(first, next), x)
                     = Chase(next, replacements_of(first, x))
  BY ComposeChases
<1>2. ASSUME NEW y
      PROVE  y \in Chase(compose_axis(first, next), S)
               <=> y \in Chase(next, Chase(first, S))
  <2>1. y \in Chase(compose_axis(first, next), S)
          <=> \E x \in S : y \in Chase(next, replacements_of(first, x))
    BY <1>1 DEF Chase
  <2>2. y \in Chase(next, Chase(first, S))
          <=> \E z \in Chase(first, S) : y \in replacements_of(next, z)
    BY DEF Chase
  <2>3. \A x \in S : y \in Chase(next, replacements_of(first, x))
          <=> \E z \in replacements_of(first, x) : y \in replacements_of(next, z)
    BY DEF Chase
  <2>4. \A z : z \in Chase(first, S) <=> \E x \in S : z \in replacements_of(first, x)
    BY DEF Chase
  <2> QED BY <2>1, <2>2, <2>3, <2>4
<1> QED BY <1>2

(* How a consumer groups the records of three mutations makes no           *)
(* difference: simplify composes per pass, a caller per call.              *)
THEOREM CompositionAssociates ==
    ASSUME NEW r, NEW s, NEW t, NEW x
    PROVE  replacements_of(compose_axis(compose_axis(r, s), t), x)
             = replacements_of(compose_axis(r, compose_axis(s, t)), x)
<1>1. replacements_of(compose_axis(compose_axis(r, s), t), x)
        = Chase(t, Chase(s, replacements_of(r, x)))
  BY ComposeChases
<1>2. replacements_of(compose_axis(r, compose_axis(s, t)), x)
        = Chase(compose_axis(s, t), replacements_of(r, x))
  BY ComposeChases
<1> QED BY <1>1, <1>2, ChaseComposed


-----------------------------------------------------------------------------
(* One axis: the identities L become K, within the slots M, under `map`,   *)
(* which made the identities `made`.  What is there at the end is led to   *)
(* itself and to nothing that is not there.                                *)
Right(map, made, L, M, K) ==
    /\ DOMAIN map \subseteq M
    /\ K \subseteq M
    /\ \A y : y \in K <=> y \in made \/ \E x \in L : y \in replacements_of(map, x)
    /\ \A x \in K : x \in replacements_of(map, x)
    /\ \A x \in K : replacements_of(map, x) \subseteq K

(* Slots are not used again.                                               *)
Onward(N, L, M, K) == N \subseteq M /\ K \cap N \subseteq L

(* Membership in a chased set.                                             *)
LEMMA ChaseMember ==
    ASSUME NEW map, NEW S, NEW y
    PROVE  y \in Chase(map, S) <=> \E x \in S : y \in replacements_of(map, x)
BY DEF Chase

(* A record that is right, composed with one that is right about what it   *)
(* leads to, is right.                                                     *)
LEMMA RightComposed ==
    ASSUME NEW m1, NEW made1, NEW m2, NEW made2,
           NEW L0, NEW L1, NEW L2, NEW N1, NEW N2,
           Right(m1, made1, L0, N1, L1), Right(m2, made2, L1, N2, L2),
           Onward(N1, L1, N2, L2)
    PROVE  LET m == compose_axis(m1, m2)
           IN  Right(m, Chase(m, made1) \cup made2, L0, N2, L2)
<1> DEFINE m == compose_axis(m1, m2)
           made == Chase(m, made1) \cup made2
<1>1. DOMAIN m \subseteq N2
  BY DEF Right, Onward, compose_axis
<1>2. L2 \subseteq N2
  BY DEF Right
<1>3. \A x : replacements_of(m, x) = Chase(m2, replacements_of(m1, x))
  BY ComposeChases
<1>4. \A x, y : y \in replacements_of(m, x)
                  <=> \E z \in replacements_of(m1, x) : y \in replacements_of(m2, z)
  BY <1>3, ChaseMember
<1>5. \A y : y \in Chase(m, made1) <=> \E x \in made1 : y \in replacements_of(m, x)
  BY ChaseMember
<1> HIDE DEF m
<1>6. ASSUME NEW y
      PROVE  y \in L2 <=> y \in made \/ \E x \in L0 : y \in replacements_of(m, x)
  <2>1. ASSUME y \in made \/ \E x \in L0 : y \in replacements_of(m, x)
        PROVE  y \in L2
    <3>1. made1 \subseteq L1 /\ \A x \in L0 : replacements_of(m1, x) \subseteq L1
      BY DEF Right
    <3>2. \A x \in made1 : replacements_of(m1, x) \subseteq L1
      BY <3>1 DEF Right
    <3>3. \A z \in L1 : replacements_of(m2, z) \subseteq L2
      BY DEF Right
    <3>4. made2 \subseteq L2
      BY DEF Right
    <3>5. CASE y \in made2
      BY <3>4, <3>5
    <3>6. CASE \E x \in made1 \cup L0 : y \in replacements_of(m, x)
      BY <3>1, <3>2, <3>3, <3>6, <1>4
    <3> QED BY <2>1, <3>5, <3>6, <1>5
  <2>2. ASSUME y \in L2, y \notin made2
        PROVE  y \in made \/ \E x \in L0 : y \in replacements_of(m, x)
    <3>1. PICK z \in L1 : y \in replacements_of(m2, z)
      BY <2>2 DEF Right
    <3>2. CASE z \in made1
      <4>1. z \in replacements_of(m1, z)
        BY <3>1 DEF Right
      <4> QED BY <3>1, <3>2, <4>1, <1>4, <1>5
    <3>3. CASE \E x \in L0 : z \in replacements_of(m1, x)
      BY <3>1, <3>3, <1>4
    <3> QED BY <3>1, <3>2, <3>3 DEF Right
  <2> QED BY <2>1, <2>2
<1>7. ASSUME NEW x \in L2
      PROVE  x \in replacements_of(m, x) /\ replacements_of(m, x) \subseteq L2
  <2>1. x \in replacements_of(m2, x) /\ replacements_of(m2, x) \subseteq L2
    BY DEF Right
  <2>2. CASE x \in L1
    <3>1. x \in replacements_of(m1, x) /\ replacements_of(m1, x) \subseteq L1
      BY <2>2 DEF Right
    <3>2. \A z \in L1 : replacements_of(m2, z) \subseteq L2
      BY DEF Right
    <3> QED BY <2>1, <3>1, <3>2, <1>4
  <2>3. CASE x \notin L1
    <3>1. replacements_of(m1, x) = {x}
      BY <2>3 DEF Right, Onward, replacements_of
    <3> QED BY <2>1, <3>1, <1>4
  <2> QED BY <2>2, <2>3
<1> QED BY <1>1, <1>2, <1>6, <1>7 DEF Right, m

-----------------------------------------------------------------------------
(* What recording one more change does to an axis that is right.           *)

(* One entry.                                                              *)
Entry(x, S) == [i \in {x} |-> S]

Own(map) == \A x \in DOMAIN map : map[x] \subseteq {x}

(* Looking an identity up after some were recorded.                        *)
LEMMA InsertedReplacements ==
    ASSUME NEW map, NEW f
    PROVE  /\ DOMAIN Inserted(map, f) = DOMAIN map \cup DOMAIN f
           /\ \A x \in DOMAIN f : replacements_of(Inserted(map, f), x) = f[x]
           /\ \A x : x \notin DOMAIN f => replacements_of(Inserted(map, f), x)
                                           = replacements_of(map, x)
BY DEF Inserted, replacements_of

(* An axis without a change.                                               *)
LEMMA RightUnchanged ==
    ASSUME NEW L, NEW M, L \subseteq M
    PROVE  /\ Right(new.blocks, {}, L, M, L) /\ Right(new.edges, {}, L, M, L)
           /\ Own(new.blocks) /\ Own(new.edges)
<1>1. DOMAIN new.blocks = {} /\ DOMAIN new.edges = {}
  BY DEF new
<1> HIDE DEF new
<1>2. \A x : replacements_of(new.blocks, x) = {x} /\ replacements_of(new.edges, x) = {x}
  BY <1>1 DEF replacements_of
<1> QED BY <1>1, <1>2 DEF Right, Own

(* Recording that some of what is there was removed.                       *)
LEMMA RightRemoved ==
    ASSUME NEW map, NEW L, NEW M, NEW K, NEW E \in SUBSET K,
           Right(map, {}, L, M, K), Own(map)
    PROVE  LET m == Inserted(map, [e \in E |-> {}])
           IN  Right(m, {}, L, M, K \ E) /\ Own(m)
<1> DEFINE f == [e \in E |-> {}]
           m == Inserted(map, f)
<1>0. DOMAIN f = E /\ \A x \in E : f[x] = {}
  OBVIOUS
<1> HIDE DEF f
<1>1. /\ DOMAIN m = DOMAIN map \cup E
      /\ \A x \in E : replacements_of(m, x) = {}
      /\ \A x : x \notin E => replacements_of(m, x) = replacements_of(map, x)
  <2>1. /\ DOMAIN m = DOMAIN map \cup DOMAIN f
        /\ \A x \in DOMAIN f : replacements_of(m, x) = f[x]
        /\ \A x : x \notin DOMAIN f => replacements_of(m, x) = replacements_of(map, x)
    BY InsertedReplacements
  <2> QED BY <1>0, <2>1
<1>2. Own(m)
  BY <1>0 DEF Own, Inserted
<1> HIDE DEF m
<1>3. \A x : replacements_of(map, x) \subseteq {x}
  BY DEF Own, replacements_of
<1>4. DOMAIN m \subseteq M /\ K \ E \subseteq M
  BY <1>1 DEF Right
<1>5. \A y : y \in K \ E <=> \E x \in L : y \in replacements_of(m, x)
  BY <1>1, <1>3 DEF Right
<1>6. \A x \in K \ E : /\ x \in replacements_of(m, x)
                       /\ replacements_of(m, x) \subseteq K \ E
  BY <1>1, <1>3 DEF Right
<1> QED BY <1>2, <1>4, <1>5, <1>6 DEF Right, m, f

(* Recording that some of what is there was kept.                          *)
LEMMA RightKept ==
    ASSUME NEW map, NEW L, NEW M, NEW K, NEW E \in SUBSET K,
           Right(map, {}, L, M, K), Own(map)
    PROVE  LET m == Inserted(map, [e \in E |-> {e}])
           IN  Right(m, {}, L, M, K) /\ Own(m)
<1> DEFINE f == [e \in E |-> {e}]
           m == Inserted(map, f)
<1>0. DOMAIN f = E /\ \A x \in E : f[x] = {x}
  OBVIOUS
<1> HIDE DEF f
<1>1. /\ DOMAIN m = DOMAIN map \cup E
      /\ \A x \in E : replacements_of(m, x) = {x}
      /\ \A x : x \notin E => replacements_of(m, x) = replacements_of(map, x)
  <2>1. /\ DOMAIN m = DOMAIN map \cup DOMAIN f
        /\ \A x \in DOMAIN f : replacements_of(m, x) = f[x]
        /\ \A x : x \notin DOMAIN f => replacements_of(m, x) = replacements_of(map, x)
    BY InsertedReplacements
  <2> QED BY <1>0, <2>1
<1>2. Own(m)
  BY <1>0 DEF Own, Inserted
<1> HIDE DEF m
<1>3. \A x : replacements_of(map, x) \subseteq {x}
  BY DEF Own, replacements_of
<1>4. \A x \in E : replacements_of(map, x) = {x}
  BY <1>3 DEF Right
<1>5. \A x : replacements_of(m, x) = replacements_of(map, x)
  BY <1>1, <1>4
<1>6. DOMAIN m \subseteq M
  BY <1>1 DEF Right
<1> QED BY <1>2, <1>5, <1>6 DEF Right, m, f

(* Recording a new identity.                                               *)
LEMMA RightMade ==
    ASSUME NEW map, NEW made, NEW L, NEW M, NEW K, NEW N, NEW x,
           Right(map, made, L, M, K), x \notin M, M \cup {x} \subseteq N
    PROVE  Right(map, made \cup {x}, L, N, K \cup {x})
<1>1. replacements_of(map, x) = {x}
  BY DEF Right, replacements_of
<1> QED BY <1>1 DEF Right

(* What is led elsewhere than to itself is listed as made.                 *)
Listed(map, made) == \A x \in DOMAIN map : map[x] \ {x} \subseteq made

(* Recording that something there became itself and a new identity.        *)
LEMMA RightDoubled ==
    ASSUME NEW map, NEW made, NEW L, NEW M, NEW K, NEW N, NEW e \in K, NEW x,
           Right(map, made, L, M, K), Listed(map, made),
           x \notin M, M \cup {x} \subseteq N
    PROVE  LET m == Inserted(map, Entry(e, {e, x}))
           IN  Right(m, made \cup {x}, L, N, K \cup {x}) /\ Listed(m, made \cup {x})
<1> DEFINE f == Entry(e, {e, x})
           m == Inserted(map, f)
<1>0. DOMAIN f = {e} /\ f[e] = {e, x}
  BY DEF Entry
<1> HIDE DEF f
<1>1. /\ DOMAIN m = DOMAIN map \cup {e}
      /\ replacements_of(m, e) = {e, x}
      /\ \A i : i # e => replacements_of(m, i) = replacements_of(map, i)
  <2>1. /\ DOMAIN m = DOMAIN map \cup DOMAIN f
        /\ \A i \in DOMAIN f : replacements_of(m, i) = f[i]
        /\ \A i : i \notin DOMAIN f => replacements_of(m, i) = replacements_of(map, i)
    BY InsertedReplacements
  <2> QED BY <1>0, <2>1
<1>2. Listed(m, made \cup {x})
  BY <1>0 DEF Listed, Inserted
<1> HIDE DEF m
<1>3. \A i : \A y \in replacements_of(map, i) : y = i \/ y \in made
  BY DEF Listed, replacements_of
<1>4. e \in M /\ replacements_of(map, x) = {x}
  BY DEF Right, replacements_of
<1>5. DOMAIN m \subseteq N /\ K \cup {x} \subseteq N
  BY <1>1, <1>4 DEF Right
<1>6. ASSUME NEW y
      PROVE  y \in K \cup {x}
               <=> y \in made \cup {x} \/ \E i \in L : y \in replacements_of(m, i)
  <2>1. \A i \in L : replacements_of(m, i) \subseteq K \cup {x}
    BY <1>1 DEF Right
  <2>2. made \subseteq K
    BY DEF Right
  <2>3. ASSUME y \in K, y \notin made
        PROVE  \E i \in L : y \in replacements_of(m, i)
    <3>1. PICK i \in L : y \in replacements_of(map, i)
      BY <2>3 DEF Right
    <3>2. y = i
      BY <2>3, <3>1, <1>3
    <3> QED BY <3>1, <3>2, <1>1
  <2> QED BY <2>1, <2>2, <2>3
<1>7. \A i \in K \cup {x} : /\ i \in replacements_of(m, i)
                            /\ replacements_of(m, i) \subseteq K \cup {x}
  BY <1>1, <1>4 DEF Right
<1> QED BY <1>2, <1>5, <1>6, <1>7 DEF Right, m, f

(* Recording that one block went into another, which is still there, when  *)
(* nothing went into the first.                                            *)
LEMMA RightMerged ==
    ASSUME NEW map, NEW L, NEW M, NEW K, NEW target \in K, NEW source \in K,
           source # target, Right(map, {}, L, M, K), DOMAIN map \cap K = {},
           \A x \in DOMAIN map : target \notin map[x]
    PROVE  LET m == Inserted(map, Entry(target, {source}))
           IN  /\ Right(m, {}, L, M, K \ {target})
               /\ DOMAIN m \cap (K \ {target}) = {}
<1> DEFINE f == Entry(target, {source})
           m == Inserted(map, f)
<1>0. DOMAIN f = {target} /\ f[target] = {source}
  BY DEF Entry
<1> HIDE DEF f
<1>1. /\ DOMAIN m = DOMAIN map \cup {target}
      /\ replacements_of(m, target) = {source}
      /\ \A x : x # target => replacements_of(m, x) = replacements_of(map, x)
  <2>1. /\ DOMAIN m = DOMAIN map \cup DOMAIN f
        /\ \A x \in DOMAIN f : replacements_of(m, x) = f[x]
        /\ \A x : x \notin DOMAIN f => replacements_of(m, x) = replacements_of(map, x)
    BY InsertedReplacements
  <2> QED BY <1>0, <2>1
<1> HIDE DEF m
<1>2. \A x \in K : replacements_of(map, x) = {x}
  BY DEF replacements_of
<1>3. \A x : x # target => target \notin replacements_of(map, x)
  BY DEF replacements_of
<1>4. target \in L
  BY <1>3 DEF Right
<1>5. DOMAIN m \subseteq M /\ K \ {target} \subseteq M
      /\ DOMAIN m \cap (K \ {target}) = {}
  BY <1>1 DEF Right
<1>6. ASSUME NEW y
      PROVE  y \in K \ {target} <=> \E x \in L : y \in replacements_of(m, x)
  <2>1. ASSUME NEW x \in L, y \in replacements_of(m, x)
        PROVE  y \in K \ {target}
    BY <1>1, <1>3, <2>1 DEF Right
  <2>2. ASSUME y \in K, y # target
        PROVE  \E x \in L : y \in replacements_of(m, x)
    <3>1. PICK x \in L : y \in replacements_of(map, x)
      BY <2>2 DEF Right
    <3>2. x # target
      BY <1>2, <2>2, <3>1
    <3> QED BY <1>1, <3>1, <3>2
  <2> QED BY <2>1, <2>2
<1>7. \A x \in K \ {target} : /\ x \in replacements_of(m, x)
                              /\ replacements_of(m, x) \subseteq K \ {target}
  BY <1>1, <1>2
<1> QED BY <1>5, <1>6, <1>7 DEF Right, m, f

(* One entry, looked up.                                                   *)
LEMMA InsertedEntry ==
    ASSUME NEW map, NEW x, NEW S, NEW y
    PROVE  /\ replacements_of(Inserted(map, Entry(x, S)), y)
                = IF y = x THEN S ELSE replacements_of(map, y)
           /\ replacements_of(Entry(x, S), y) = IF y = x THEN S ELSE {y}
<1>1. replacements_of(Entry(x, S), y) = IF y = x THEN S ELSE {y}
  BY DEF Entry, replacements_of
<1>2. replacements_of(Inserted(map, Entry(x, S)), y)
        = IF y = x THEN S ELSE replacements_of(map, y)
  BY DEF Entry, Inserted, replacements_of
<1> QED BY <1>1, <1>2

-----------------------------------------------------------------------------
(* The fields of a record, after each way of adding to it.                 *)
RecordShape(r) ==
    r = [blocks |-> r.blocks, edges |-> r.edges,
         created_blocks |-> r.created_blocks, created_edges |-> r.created_edges]

(* The record a mutation starts from says nothing yet.                     *)
LEMMA NewFields ==
    /\ RecordShape(new) /\ new.created_blocks = {} /\ new.created_edges = {}
BY DEF RecordShape, new

(* record_block writes one entry of the block axis and nothing else.       *)
LEMMA RecordBlockFields ==
    ASSUME NEW r, RecordShape(r), NEW b, NEW S
    PROVE  LET q == record_block(r, b, S)
           IN  /\ RecordShape(q) /\ q.edges = r.edges
               /\ q.blocks = Inserted(r.blocks, Entry(b, S))
               /\ q.created_blocks = r.created_blocks
               /\ q.created_edges = r.created_edges
BY DEF RecordShape, record_block, Entry

(* record_edge writes one entry of the edge axis and nothing else.         *)
LEMMA RecordEdgeFields ==
    ASSUME NEW r, RecordShape(r), NEW e, NEW S
    PROVE  LET q == record_edge(r, e, S)
           IN  /\ RecordShape(q) /\ q.blocks = r.blocks
               /\ q.edges = Inserted(r.edges, Entry(e, S))
               /\ q.created_blocks = r.created_blocks
               /\ q.created_edges = r.created_edges
BY DEF RecordShape, record_edge, Entry

(* Removed edges are recorded with no replacement.                         *)
LEMMA RecordRemovedFields ==
    ASSUME NEW r, RecordShape(r), NEW E
    PROVE  LET q == record_removed_edges(r, E)
           IN  /\ RecordShape(q) /\ q.blocks = r.blocks
               /\ q.edges = Inserted(r.edges, [e \in E |-> {}])
               /\ q.created_blocks = r.created_blocks
               /\ q.created_edges = r.created_edges
BY DEF RecordShape, record_removed_edges

(* Kept edges are recorded as their own replacement.                       *)
LEMMA RecordKeptFields ==
    ASSUME NEW r, RecordShape(r), NEW E
    PROVE  LET q == record_kept_edges(r, E)
           IN  /\ RecordShape(q) /\ q.blocks = r.blocks
               /\ q.edges = Inserted(r.edges, [e \in E |-> {e}])
               /\ q.created_blocks = r.created_blocks
               /\ q.created_edges = r.created_edges
BY DEF RecordShape, record_kept_edges

(* A created identity joins its list and leaves the axes alone.            *)
LEMMA RecordCreatedFields ==
    ASSUME NEW r, RecordShape(r), NEW x
    PROVE  /\ LET q == record_created_block(r, x)
              IN  /\ RecordShape(q) /\ q.blocks = r.blocks /\ q.edges = r.edges
                  /\ q.created_blocks = r.created_blocks \cup {x}
                  /\ q.created_edges = r.created_edges
           /\ LET q == record_created_edge(r, x)
              IN  /\ RecordShape(q) /\ q.blocks = r.blocks /\ q.edges = r.edges
                  /\ q.created_blocks = r.created_blocks
                  /\ q.created_edges = r.created_edges \cup {x}
BY DEF RecordShape, record_created_block, record_created_edge
=============================================================================

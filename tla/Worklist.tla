------------------------------ MODULE Worklist ------------------------------
(***************************************************************************)
(* The worklist behind every fixpoint solver                               *)
(* (src/crates/cfglib/src/dataflow/worklist.rs): a row of bits and a       *)
(* cursor, the word below which no bit is set.  An index is found only at  *)
(* or above the cursor.                                                    *)
(***************************************************************************)
EXTENDS Integers, WellFoundedInduction, TLAPS

CONSTANT WordBits    \* bits in a word of the row

ASSUME WordAssumption == WordBits \in Nat \ {0}

Word(i) == i \div WordBits

(* A worklist of the given indices.                                        *)
of(S) == [queued |-> S, cursor |-> 0]

(* Mutant of insert: the cursor stays where it is.                         *)
insert_without_cursor(w, S) == [w EXCEPT !.queued = @ \cup S]

(* Every index of S is queued, once; the cursor moves back to the lowest   *)
(* word among them.                                                        *)
insert(w, S) ==
    [queued |-> w.queued \cup S,
     cursor |-> LET words == {w.cursor} \cup {Word(i) : i \in S}
                IN  CHOOSE k \in words : \A l \in words : k <= l]

(* i is what pop_first returns: the lowest bit of the first word, from the *)
(* cursor on, that has one.                                                *)
IsFirst(w, i) ==
    /\ i \in w.queued /\ w.cursor <= Word(i)
    /\ \A j \in w.queued :
          w.cursor <= Word(j) => \/ Word(i) < Word(j)
                                 \/ Word(i) = Word(j) /\ i <= j

(* Mutant of pop_first: the cursor steps back a word.                      *)
pop_first_stepping_back(w, i) ==
    [queued |-> w.queued \ {i}, cursor |-> Word(i) - 1]

pop_first(w, i) == [queued |-> w.queued \ {i}, cursor |-> Word(i)]

PopsNothing(w) == \A j \in w.queued : Word(j) < w.cursor
-----------------------------------------------------------------------------
(* What every solver relies on: the worklist loses no index, whatever the  *)
(* width of a word.                                                        *)

(* A nonempty set of naturals has a least element.                         *)
LEMMA LeastExists ==
    ASSUME NEW S \in SUBSET Nat, S # {}
    PROVE  \E k \in S : \A l \in S : k <= l
<1>1. IsWellFoundedOn(OpToRel(<, Nat), Nat)
  BY NatLessThanWellFounded
<1>2. PICK k \in S : \A y \in S : <<y, k>> \notin OpToRel(<, Nat)
  BY <1>1, WFMin
<1>3. \A y \in S : ~(y < k)
  BY <1>2 DEF OpToRel
<1> QED BY <1>3

(* Word numbers are naturals.                                              *)
LEMMA WordType ==
    ASSUME NEW i \in Nat
    PROVE  Word(i) \in Nat
BY WordAssumption DEF Word

(* Inserting moves the cursor to the lowest word concerned.                *)
LEMMA InsertCursor ==
    ASSUME NEW w, w.cursor \in Nat, NEW S \in SUBSET Nat
    PROVE  /\ insert(w, S).queued = w.queued \cup S
           /\ insert(w, S).cursor \in Nat
           /\ insert(w, S).cursor <= w.cursor
           /\ \A i \in S : insert(w, S).cursor <= Word(i)
<1> DEFINE words == {w.cursor} \cup {Word(i) : i \in S}
           low == CHOOSE k \in words : \A l \in words : k <= l
<1>1. words \in SUBSET Nat /\ words # {}
  BY WordType
<1>2. \E k \in words : \A l \in words : k <= l
  <2> HIDE DEF words
  <2> QED BY <1>1, LeastExists
<1>3. low \in words /\ \A l \in words : low <= l
  <2> HIDE DEF words
  <2> QED BY <1>2
<1>4. insert(w, S).queued = w.queued \cup S /\ insert(w, S).cursor = low
  BY DEF insert
<1>5. low \in Nat
  BY <1>1, <1>3
<1>6. w.cursor \in words /\ \A i \in S : Word(i) \in words
  OBVIOUS
<1> HIDE DEF words, low
<1> QED BY <1>3, <1>4, <1>5, <1>6

(* Nothing is queued below the cursor.                                     *)
Guarded(w) ==
    /\ w.queued \subseteq Nat /\ w.cursor \in Nat
    /\ \A i \in w.queued : w.cursor <= Word(i)

(* Popping takes one index and leaves the others above the cursor.         *)
LEMMA PopGuarded ==
    ASSUME NEW w, Guarded(w), NEW n, IsFirst(w, n)
    PROVE  /\ Guarded(pop_first(w, n))
           /\ pop_first(w, n).queued = w.queued \ {n}
<1>1. n \in Nat /\ n \in w.queued
  BY DEF Guarded, IsFirst
<1>2. Word(n) \in Nat /\ \A i \in w.queued : Word(i) \in Nat
  BY <1>1, WordType DEF Guarded
<1>3. \A i \in w.queued : Word(n) <= Word(i)
  BY <1>2 DEF IsFirst, Guarded
<1> QED BY <1>2, <1>3 DEF pop_first, Guarded

(* Whatever is inserted is above the cursor afterwards.                    *)
LEMMA InsertGuarded ==
    ASSUME NEW w, Guarded(w), NEW S \in SUBSET Nat
    PROVE  /\ Guarded(insert(w, S))
           /\ insert(w, S).queued = w.queued \cup S
<1> DEFINE v == insert(w, S)
<1>1. w.cursor \in Nat
  BY DEF Guarded
<1>2. /\ v.queued = w.queued \cup S /\ v.cursor \in Nat
      /\ v.cursor <= w.cursor /\ \A i \in S : v.cursor <= Word(i)
  BY <1>1, InsertCursor
<1> HIDE DEF v
<1>3. \A i \in w.queued : Word(i) \in Nat
  BY WordType DEF Guarded
<1>4. \A i \in w.queued : v.cursor <= Word(i)
  BY <1>1, <1>2, <1>3 DEF Guarded
<1>5. Guarded(v)
  BY <1>2, <1>4 DEF Guarded
<1> QED BY <1>2, <1>5 DEF v

(* A worklist that pops nothing is empty.                                  *)
LEMMA DrainedEmpty ==
    ASSUME NEW w, Guarded(w), PopsNothing(w)
    PROVE  w.queued = {}
<1>1. \A j \in w.queued : Word(j) \in Nat
  BY WordType DEF Guarded
<1>2. \A j \in w.queued : Word(j) < w.cursor /\ w.cursor <= Word(j)
  BY DEF Guarded, PopsNothing
<1>3. w.cursor \in Nat
  BY DEF Guarded
<1> QED BY <1>1, <1>2, <1>3
=============================================================================

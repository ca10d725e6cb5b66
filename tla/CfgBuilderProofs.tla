-------------------------- MODULE CfgBuilderProofs --------------------------
(***************************************************************************)
(* CfgBuilder takes exactly the streams whose scopes nest, and wires the   *)
(* jumps once, for streams of any length.                                  *)
(*   - What the markers say is a recursive function of a stream's ranges;  *)
(*     it is unfolded once, and the facts about ranges (they join, they    *)
(*     can be cut, their scopes are closed inside them) follow downward    *)
(*     from the stream's end.                                              *)
(*   - A stream has a stack: the scopes it leaves open, with whole scopes  *)
(*     between them.  Reading an instruction changes the stack as the      *)
(*     builder changes its own, and whether the instruction is in its      *)
(*     place is judged by the stack at the time it is read.                *)
(*   - While the stream is read the two stacks agree (NestInv); a refused  *)
(*     instruction is one no way of closing the open scopes can place.     *)
(*   - Every step keeps the graph in shape, so that resolve_jump_edges adds *)
(*     the edge of every jump whose label there is, and adds none again.   *)
(***************************************************************************)
EXTENDS CfgBuilder, FiniteSetTheorems, FunctionTheorems, SequenceTheorems, TLAPS

-----------------------------------------------------------------------------
(* Numbers are well ordered.                                               *)
LEMMA Least ==
    ASSUME NEW T \in SUBSET Nat, T # {}
    PROVE  \E m \in T : \A k \in T : m <= k
<1>1. IsWellFoundedOn(OpToRel(<, Nat), Nat)
  BY NatLessThanWellFounded
<1>2. PICK m \in T : \A k \in T : ~(<<k, m>> \in OpToRel(<, Nat))
  BY <1>1, WFMin
<1>3. \A k \in T : ~(k < m)
  BY <1>2 DEF OpToRel
<1> QED BY <1>3

(* What holds at a position when it holds at all to its right, holds at    *)
(* every position.                                                         *)
LEMMA Downward ==
    ASSUME NEW M \in Nat, NEW P,
           \A i \in 1..M : (\A k \in (i + 1)..M : k \in P) => i \in P
    PROVE  \A i \in 1..M : i \in P
<1> DEFINE T == {n \in 0..M : M - n \in 1..M /\ M - n \notin P}
<1> SUFFICES ASSUME NEW i \in 1..M, i \notin P PROVE FALSE
  OBVIOUS
<1>1. T \in SUBSET Nat /\ T # {}
  <2>1. M - i \in 0..M /\ M - (M - i) = i
    OBVIOUS
  <2>2. M - i \in T
    BY <2>1
  <2>3. \A n \in T : n \in Nat
    OBVIOUS
  <2> HIDE DEF T
  <2> QED BY <2>2, <2>3
<1>2. PICK m \in T : \A n \in T : m <= n
  BY <1>1, Least
<1>3. M - m \in 1..M /\ M - m \notin P
  BY <1>2
<1>4. ASSUME NEW k \in ((M - m) + 1)..M, k \notin P PROVE FALSE
  <2>1. m \in 0..M /\ M - k \in 0..M /\ M - (M - k) = k /\ k \in 1..M /\ M - k < m
    BY <1>2, <1>3
  <2>2. M - k \in T
    BY <1>4, <2>1
  <2> QED BY <1>2, <2>1, <2>2
<1> QED BY <1>3, <1>4

-----------------------------------------------------------------------------
(* Balanced is what its equation says: a solution is put together from the *)
(* last position to the first.                                             *)
LEMMA WholeReads ==
    ASSUME NEW s, Len(s) \in Nat, NEW a, NEW b, NEW i \in 1..(Len(s) + 1), NEW j \in 0..Len(s),
           \A k \in (i + 1)..(Len(s) + 1) : a[k] = b[k]
    PROVE  Whole(s, a, i, j) = Whole(s, b, i, j)
<1>1. CASE i > j
  BY <1>1 DEF Whole
<1>2. CASE ~(i > j)
  <2>1. a[i + 1] = b[i + 1]
    <3>1. i + 1 \in (i + 1)..(Len(s) + 1)
      BY <1>2
    <3> QED BY <3>1
  <2>2. \A k \in (i + 1)..j : a[k + 1] = b[k + 1]
    <3> SUFFICES ASSUME NEW k \in (i + 1)..j PROVE a[k + 1] = b[k + 1]
      OBVIOUS
    <3>1. k + 1 \in (i + 1)..(Len(s) + 1)
      BY <1>2
    <3> QED BY <3>1
  <2> QED BY <2>1, <2>2 DEF Whole
<1> QED BY <1>1, <1>2

Rows(s, b, m) ==
    \A i \in m..(Len(s) + 1) : b[i] = [j \in 0..Len(s) |-> Whole(s, b, i, j)]

LEMMA RowsAll ==
    ASSUME NEW s, Len(s) \in Nat
    PROVE  \E b : DOMAIN b = 1..(Len(s) + 1) /\ Rows(s, b, 1)
<1> DEFINE M == Len(s) + 1
           P == {m \in 1..M : \E b : DOMAIN b = m..M /\ Rows(s, b, m)}
<1>1. ASSUME NEW i \in 1..M, \A k \in (i + 1)..M : k \in P
      PROVE  i \in P
  <2>1. PICK b : \A k \in (i + 1)..M : b[k] = [j \in 0..Len(s) |-> Whole(s, b, k, j)]
    <3>1. CASE i = M
      <4>1. (i + 1)..M = {}
        BY <3>1
      <4> QED BY <4>1
    <3>2. CASE i # M
      <4>1. i + 1 \in (i + 1)..M
        BY <3>2
      <4>2. i + 1 \in P
        BY <1>1, <4>1
      <4>3. PICK b : Rows(s, b, i + 1)
        BY <4>2
      <4> QED BY <4>3 DEF Rows
    <3> QED BY <3>1, <3>2
  <2> DEFINE Row == [j \in 0..Len(s) |-> Whole(s, b, i, j)]
             c == [k \in i..M |-> IF k = i THEN Row ELSE b[k]]
  <2>2. DOMAIN c = i..M /\ c[i] = Row /\ \A k \in (i + 1)..M : c[k] = b[k]
    OBVIOUS
  <2>3. ASSUME NEW k \in i..M
        PROVE  c[k] = [j \in 0..Len(s) |-> Whole(s, c, k, j)]
    <3>1. ASSUME NEW j \in 0..Len(s)
          PROVE  Whole(s, c, k, j) = Whole(s, b, k, j)
      <4>1. \A l \in (k + 1)..(Len(s) + 1) : c[l] = b[l]
        BY <2>2
      <4>2. k \in 1..(Len(s) + 1)
        OBVIOUS
      <4> HIDE DEF c, M
      <4> QED BY <4>1, <4>2, WholeReads
    <3>2. c[k] = [j \in 0..Len(s) |-> Whole(s, b, k, j)]
      <4>1. k = i \/ k \in (i + 1)..M
        OBVIOUS
      <4> QED BY <2>1, <2>2, <4>1
    <3> HIDE DEF c
    <3> QED BY <3>1, <3>2
  <2> HIDE DEF c
  <2>4. Rows(s, c, i)
    BY <2>3 DEF Rows
  <2> QED BY <2>2, <2>4
<1>2. M \in Nat
  OBVIOUS
<1> HIDE DEF P
<1>3. \A i \in 1..M : i \in P
  BY <1>1, <1>2, Downward
<1>4. 1 \in P
  BY <1>3
<1> QED BY <1>4 DEF P

Bal(s, i, j) == Balanced(s)[i][j]

LEMMA BalancedUnfolds ==
    ASSUME NEW s, Len(s) \in Nat, NEW i \in 1..(Len(s) + 1), NEW j \in 0..Len(s)
    PROVE  Bal(s, i, j) <=>
             \/ i > j
             \/ s[i].effect \notin Openers \cup Closers /\ Bal(s, i + 1, j)
             \/ /\ s[i].effect \in Openers
                /\ \E k \in (i + 1)..j :
                      /\ s[k].effect = Closer[s[i].effect]
                      /\ Bal(s, i + 1, k - 1) /\ Bal(s, k + 1, j)
<1> DEFINE Solves(b) ==
             b = [m \in 1..(Len(s) + 1) |-> [n \in 0..Len(s) |-> Whole(s, b, m, n)]]
<1>1. Balanced(s) = CHOOSE b : Solves(b)
  BY DEF Balanced
<1>2. PICK f : DOMAIN f = 1..(Len(s) + 1) /\ Rows(s, f, 1)
  BY RowsAll
<1>3. PICK g : g = [m \in 1..(Len(s) + 1) |-> f[m]]
  OBVIOUS
<1>4. \A m \in 1..(Len(s) + 1) : g[m] = f[m]
  BY <1>3
<1>5. ASSUME NEW m \in 1..(Len(s) + 1), NEW n \in 0..Len(s)
      PROVE  Whole(s, g, m, n) = Whole(s, f, m, n)
  <2>1. \A k \in (m + 1)..(Len(s) + 1) : g[k] = f[k]
    BY <1>4
  <2> QED BY <2>1, WholeReads
<1>6. \A m \in 1..(Len(s) + 1) : g[m] = [n \in 0..Len(s) |-> Whole(s, g, m, n)]
  BY <1>2, <1>4, <1>5 DEF Rows
<1>7. Solves(g)
  BY <1>3, <1>6
<1> HIDE DEF Solves
<1>8. Solves(Balanced(s))
  BY <1>1, <1>7
<1>9. Balanced(s)[i][j] = Whole(s, Balanced(s), i, j)
  <2>1. PICK b : b = Balanced(s)
    OBVIOUS
  <2>2. b = [m \in 1..(Len(s) + 1) |-> [n \in 0..Len(s) |-> Whole(s, b, m, n)]]
    BY <1>8, <2>1 DEF Solves
  <2> DEFINE Row(m) == [n \in 0..Len(s) |-> Whole(s, b, m, n)]
  <2>3. b = [m \in 1..(Len(s) + 1) |-> Row(m)]
    BY <2>2
  <2>4. Row(i)[j] = Whole(s, b, i, j)
    OBVIOUS
  <2> HIDE DEF Row
  <2>5. b[i] = Row(i)
    BY <2>3
  <2> QED BY <2>1, <2>4, <2>5
<1> QED BY <1>9 DEF Bal, Whole

LEMMA Markers ==
    /\ \A o \in Openers : Closer[o] \in Closers
    /\ \A o, q \in Openers : Closer[o] = Closer[q] => o = q
    /\ \A o \in Openers : o \notin Closers
BY DEF Openers, Closers, Closer

LEMMA CloserAhead ==
    ASSUME NEW s, Len(s) \in Nat, NEW i \in 1..Len(s), NEW j \in i..Len(s),
           s[i].effect \in Closers
    PROVE  ~Bal(s, i, j)
<1>1. i \in 1..(Len(s) + 1) /\ j \in 0..Len(s) /\ ~(i > j)
  OBVIOUS
<1> QED BY <1>1, BalancedUnfolds, Markers

(* Whether a range is balanced can be seen in the range.                   *)
LEMMA BalancedLocal ==
    ASSUME NEW s, NEW t, Len(s) \in Nat, Len(t) \in Nat, Len(s) <= Len(t),
           NEW h \in 0..Len(s), \A k \in 1..h : t[k].effect = s[k].effect
    PROVE  \A i \in 1..(Len(s) + 1) : \A j \in 0..h : Bal(t, i, j) <=> Bal(s, i, j)
<1> DEFINE M == Len(s) + 1
           P == {i \in 1..M : \A j \in 0..h : Bal(t, i, j) <=> Bal(s, i, j)}
<1>1. ASSUME NEW i \in 1..M, \A k \in (i + 1)..M : k \in P
      PROVE  i \in P
  <2> SUFFICES ASSUME NEW j \in 0..h PROVE Bal(t, i, j) <=> Bal(s, i, j)
    OBVIOUS
  <2>1. /\ i \in 1..(Len(s) + 1) /\ i \in 1..(Len(t) + 1)
        /\ j \in 0..Len(s) /\ j \in 0..Len(t)
    OBVIOUS
  <2>2. \A k \in (i + 1)..M : \A l \in 0..h : Bal(t, k, l) <=> Bal(s, k, l)
    BY <1>1
  <2>3. CASE i > j
    BY <2>1, <2>3, BalancedUnfolds
  <2>4. CASE ~(i > j)
    <3>1. i + 1 \in (i + 1)..M /\ i \in 1..h
      BY <2>4
    <3>2. Bal(t, i + 1, j) <=> Bal(s, i + 1, j)
      BY <2>2, <3>1
    <3>3. t[i].effect = s[i].effect
      BY <3>1
    <3>4. ASSUME NEW k \in (i + 1)..j
          PROVE  /\ t[k].effect = s[k].effect
                 /\ Bal(t, i + 1, k - 1) <=> Bal(s, i + 1, k - 1)
                 /\ Bal(t, k + 1, j) <=> Bal(s, k + 1, j)
      <4>1. k \in 1..h /\ k - 1 \in 0..h /\ k + 1 \in (i + 1)..M
        OBVIOUS
      <4> QED BY <2>2, <3>1, <4>1
    <3> HIDE DEF P, M
    <3> QED BY ZenonT(40), <2>1, <3>2, <3>3, <3>4, BalancedUnfolds
  <2> QED BY <2>3, <2>4
<1>2. M \in Nat
  OBVIOUS
<1> HIDE DEF P
<1>3. \A i \in 1..M : i \in P
  BY <1>1, <1>2, Downward
<1> QED BY <1>3 DEF P

(* Balanced ranges join.                                                   *)
LEMMA BalancedJoin ==
    ASSUME NEW s, Len(s) \in Nat, NEW h \in 0..Len(s), NEW j \in h..Len(s),
           Bal(s, h + 1, j), NEW f \in 1..(h + 1), Bal(s, f, h)
    PROVE  Bal(s, f, j)
<1> DEFINE M == Len(s) + 1
           P == {i \in 1..M : i <= h + 1 /\ Bal(s, i, h) => Bal(s, i, j)}
<1>1. ASSUME NEW i \in 1..M, \A k \in (i + 1)..M : k \in P
      PROVE  i \in P
  <2> SUFFICES ASSUME i <= h + 1, Bal(s, i, h) PROVE Bal(s, i, j)
    OBVIOUS
  <2>1. i \in 1..(Len(s) + 1) /\ j \in 0..Len(s)
    OBVIOUS
  <2>2. CASE i = h + 1
    BY <2>2
  <2>3. CASE i # h + 1
    <3>1. i <= h /\ ~(i > h) /\ i <= j
      BY <2>3
    <3>2. CASE s[i].effect \notin Openers \cup Closers /\ Bal(s, i + 1, h)
      <4>1. i + 1 \in P /\ i + 1 <= h + 1
        BY <1>1, <3>1
      <4>2. Bal(s, i + 1, j)
        BY <3>2, <4>1
      <4> HIDE DEF P, M
      <4> QED BY <2>1, <3>2, <4>2, BalancedUnfolds
    <3>3. CASE /\ s[i].effect \in Openers
               /\ \E k \in (i + 1)..h :
                     /\ s[k].effect = Closer[s[i].effect]
                     /\ Bal(s, i + 1, k - 1) /\ Bal(s, k + 1, h)
      <4>1. PICK k \in (i + 1)..h : /\ s[k].effect = Closer[s[i].effect]
                                    /\ Bal(s, i + 1, k - 1) /\ Bal(s, k + 1, h)
        BY <3>3
      <4>2. k + 1 \in (i + 1)..M /\ k + 1 <= h + 1 /\ k \in (i + 1)..j
        BY <3>1
      <4>3. k + 1 \in P
        BY <1>1, <4>2
      <4>4. Bal(s, k + 1, j)
        BY <4>1, <4>2, <4>3
      <4> HIDE DEF P, M
      <4> QED BY <2>1, <3>3, <4>1, <4>2, <4>4, BalancedUnfolds
    <3> QED BY <2>1, <3>1, <3>2, <3>3, BalancedUnfolds
  <2> QED BY <2>2, <2>3
<1>2. M \in Nat /\ f \in 1..M
  OBVIOUS
<1> HIDE DEF P
<1>3. \A i \in 1..M : i \in P
  BY <1>1, <1>2, Downward
<1>4. f \in P /\ f <= h + 1
  BY <1>2, <1>3
<1> QED BY <1>4 DEF P

(* What is left of a balanced range after a balanced beginning is          *)
(* balanced.                                                               *)
LEMMA BalancedRest ==
    ASSUME NEW s, Len(s) \in Nat
    PROVE  \A i \in 1..(Len(s) + 1) : \A h, j \in 0..Len(s) :
              i <= h + 1 /\ h <= j /\ Bal(s, i, h) /\ Bal(s, i, j) => Bal(s, h + 1, j)
<1> DEFINE M == Len(s) + 1
           P == {i \in 1..M : \A h, j \in 0..Len(s) :
                    i <= h + 1 /\ h <= j /\ Bal(s, i, h) /\ Bal(s, i, j) => Bal(s, h + 1, j)}
<1>1. ASSUME NEW i \in 1..M, \A k \in (i + 1)..M : k \in P
      PROVE  i \in P
  <2> SUFFICES ASSUME NEW h \in 0..Len(s), NEW j \in 0..Len(s),
                      i <= h + 1, h <= j, Bal(s, i, h), Bal(s, i, j)
               PROVE  Bal(s, h + 1, j)
    OBVIOUS
  <2>1. \A k \in (i + 1)..M : \A m, n \in 0..Len(s) :
           k <= m + 1 /\ m <= n /\ Bal(s, k, m) /\ Bal(s, k, n) => Bal(s, m + 1, n)
    BY <1>1
  <2> HIDE DEF P
  <2>2. CASE i = h + 1
    BY <2>2
  <2>3. CASE i # h + 1 /\ s[i].effect \notin Openers
    <3>1. i <= h /\ i <= j /\ i + 1 \in (i + 1)..M /\ i + 1 <= h + 1
      BY <2>3
    <3>2. Bal(s, i + 1, h)
      BY SMTT(30), <2>3, <3>1, BalancedUnfolds
    <3>3. Bal(s, i + 1, j)
      BY SMTT(30), <2>3, <3>1, BalancedUnfolds
    <3> QED BY <2>1, <3>1, <3>2, <3>3
  <2>4. CASE i # h + 1 /\ s[i].effect \in Openers
    <3>1. i <= h /\ i <= j /\ i + 1 \in (i + 1)..M
      BY <2>4
    <3>2. PICK m \in (i + 1)..h : /\ s[m].effect = Closer[s[i].effect]
                                  /\ Bal(s, i + 1, m - 1) /\ Bal(s, m + 1, h)
      BY SMTT(30), <2>4, <3>1, BalancedUnfolds
    <3>3. PICK n \in (i + 1)..j : /\ s[n].effect = Closer[s[i].effect]
                                  /\ Bal(s, i + 1, n - 1) /\ Bal(s, n + 1, j)
      BY <2>4, <3>1, BalancedUnfolds
    <3>4. s[m].effect \in Closers /\ s[n].effect \in Closers
      BY <2>4, <3>2, <3>3, Markers
    <3>5. /\ m - 1 \in 0..Len(s) /\ n - 1 \in 0..Len(s)
          /\ i + 1 <= (m - 1) + 1 /\ i + 1 <= (n - 1) + 1
          /\ (m - 1) + 1 = m /\ (n - 1) + 1 = n
      OBVIOUS
    <3>6. ~(m < n)
      <4> SUFFICES ASSUME m < n PROVE FALSE
        OBVIOUS
      <4>1. m - 1 <= n - 1 /\ m \in 1..Len(s) /\ n - 1 \in m..Len(s)
        OBVIOUS
      <4>2. Bal(s, m, n - 1)
        BY <2>1, <3>1, <3>2, <3>3, <3>5, <4>1
      <4> QED BY <3>4, <4>1, <4>2, CloserAhead
    <3>7. ~(n < m)
      <4> SUFFICES ASSUME n < m PROVE FALSE
        OBVIOUS
      <4>1. n - 1 <= m - 1 /\ n \in 1..Len(s) /\ m - 1 \in n..Len(s)
        OBVIOUS
      <4>2. Bal(s, n, m - 1)
        BY <2>1, <3>1, <3>2, <3>3, <3>5, <4>1
      <4> QED BY <3>4, <4>1, <4>2, CloserAhead
    <3>8. m = n /\ m + 1 \in (i + 1)..M /\ m + 1 <= h + 1
      BY <3>6, <3>7
    <3> QED BY <2>1, <3>2, <3>3, <3>8
  <2> QED BY <2>2, <2>3, <2>4
<1>2. M \in Nat
  OBVIOUS
<1> HIDE DEF P
<1>3. \A i \in 1..M : i \in P
  BY <1>1, <1>2, Downward
<1> QED BY <1>3 DEF P

(* In a balanced range every scope is closed.                              *)
LEMMA BalancedCloses ==
    ASSUME NEW s, Len(s) \in Nat
    PROVE  \A i \in 1..(Len(s) + 1) : \A j \in 0..Len(s) : Bal(s, i, j) =>
              \A p \in i..j : s[p].effect \in Openers =>
                 \E k \in (p + 1)..j : /\ s[k].effect = Closer[s[p].effect]
                                       /\ Bal(s, p + 1, k - 1)
<1> DEFINE M == Len(s) + 1
           Shut(p, j) == \E k \in (p + 1)..j : /\ s[k].effect = Closer[s[p].effect]
                                               /\ Bal(s, p + 1, k - 1)
           P == {i \in 1..M : \A j \in 0..Len(s) : Bal(s, i, j) =>
                    \A p \in i..j : s[p].effect \in Openers => Shut(p, j)}
<1>1. ASSUME NEW i \in 1..M, \A k \in (i + 1)..M : k \in P
      PROVE  i \in P
  <2> SUFFICES ASSUME NEW j \in 0..Len(s), Bal(s, i, j), NEW p \in i..j,
                      s[p].effect \in Openers
               PROVE  Shut(p, j)
    OBVIOUS
  <2>1. \A k \in (i + 1)..M : \A n \in 0..Len(s) : Bal(s, k, n) =>
           \A q \in k..n : s[q].effect \in Openers => Shut(q, n)
    BY <1>1
  <2>2. i <= j /\ i + 1 \in (i + 1)..M
    OBVIOUS
  <2> HIDE DEF P
  <2>3. CASE s[i].effect \notin Openers
    <3>1. Bal(s, i + 1, j) /\ p # i
      BY <2>2, <2>3, BalancedUnfolds
    <3>2. p \in (i + 1)..j
      BY <3>1
    <3> HIDE DEF Shut
    <3> QED BY <2>1, <2>2, <3>1, <3>2
  <2>4. CASE s[i].effect \in Openers
    <3>1. PICK m \in (i + 1)..j : /\ s[m].effect = Closer[s[i].effect]
                                  /\ Bal(s, i + 1, m - 1) /\ Bal(s, m + 1, j)
      BY <2>2, <2>4, BalancedUnfolds
    <3>2. CASE p = i
      BY <3>1, <3>2
    <3>3. CASE p # i /\ p < m
      <4>1. p \in (i + 1)..(m - 1) /\ m - 1 \in 0..Len(s)
        BY <3>3
      <4>2. Shut(p, m - 1)
        <5> HIDE DEF Shut
        <5> QED BY <2>1, <2>2, <3>1, <4>1
      <4>3. \A k \in (p + 1)..(m - 1) : k \in (p + 1)..j
        OBVIOUS
      <4> QED BY <4>2, <4>3
    <3>4. CASE p = m
      BY <2>4, <3>1, <3>4, Markers
    <3>5. CASE p > m
      <4>1. p \in (m + 1)..j /\ m + 1 \in (i + 1)..M
        BY <3>5
      <4> HIDE DEF Shut
      <4> QED BY <2>1, <3>1, <4>1
    <3>6. p = i \/ (p # i /\ p < m) \/ p = m \/ p > m
      OBVIOUS
    <3> QED BY <3>2, <3>3, <3>4, <3>5, <3>6
  <2> QED BY <2>3, <2>4
<1>2. M \in Nat
  OBVIOUS
<1> HIDE DEF P
<1>3. \A i \in 1..M : i \in P
  BY <1>1, <1>2, Downward
<1> QED BY <1>3 DEF P

-----------------------------------------------------------------------------
(* The open scopes of a stream s: m of them, opened at g[1], .., g[m], with *)
(* balanced ranges between them.  g[0] and g[m + 1] are the stream's ends.  *)
Stack(s, m, g) ==
    /\ m \in Nat /\ g \in [0..(m + 1) -> 0..(Len(s) + 1)]
    /\ g[0] = 0 /\ g[m + 1] = Len(s) + 1
    /\ \A j, k \in 0..(m + 1) : j < k => g[j] < g[k]
    /\ \A k \in 1..m : s[g[k]].effect \in Openers
    /\ \A k \in 0..m : Bal(s, g[k] + 1, g[k + 1] - 1)

(* What lies on the stack is still open.                                   *)
LEMMA StackedOpen ==
    ASSUME NEW s, Len(s) \in Nat, NEW m, NEW g, Stack(s, m, g)
    PROVE  \A k \in 1..m : Closings(s, g[k]) = {}
<1> DEFINE P == {k \in 1..m : Closings(s, g[k]) = {}}
<1>1. ASSUME NEW k \in 1..m, \A n \in (k + 1)..m : n \in P
      PROVE  k \in P
  <2> SUFFICES ASSUME NEW c \in Closings(s, g[k]) PROVE FALSE
    OBVIOUS
  <2>1. /\ m \in Nat /\ k \in 0..(m + 1) /\ k + 1 \in 0..(m + 1) /\ k < k + 1 /\ k \in 0..m
        /\ 0 \in 0..(m + 1) /\ 0 < k
    BY DEF Stack
  <2>2. /\ g[k] \in 0..(Len(s) + 1) /\ g[k + 1] \in 0..(Len(s) + 1) /\ g[k] < g[k + 1]
        /\ g[0] < g[k] /\ g[0] = 0
        /\ s[g[k]].effect \in Openers /\ Bal(s, g[k] + 1, g[k + 1] - 1)
    BY <2>1 DEF Stack
  <2>3. /\ c \in (g[k] + 1)..Len(s) /\ s[c].effect = Closer[s[g[k]].effect]
        /\ Bal(s, g[k] + 1, c - 1)
    BY DEF Closings, Bal
  <2>4. s[c].effect \in Closers
    BY <2>2, <2>3, Markers
  <2>5. g[k] + 1 \in 1..(Len(s) + 1) /\ g[k + 1] - 1 \in 0..Len(s) /\ c - 1 \in 0..Len(s)
        /\ g[k] + 1 <= (c - 1) + 1 /\ g[k] + 1 <= (g[k + 1] - 1) + 1
        /\ (c - 1) + 1 = c /\ (g[k + 1] - 1) + 1 = g[k + 1]
    <3>1. PICK a : a = g[k]
      OBVIOUS
    <3>2. PICK b : b = g[k + 1]
      OBVIOUS
    <3>3. a \in 0..(Len(s) + 1) /\ b \in 0..(Len(s) + 1) /\ a < b /\ c \in (a + 1)..Len(s)
      BY <2>2, <2>3, <3>1, <3>2
    <3>4. a + 1 \in 1..(Len(s) + 1) /\ b - 1 \in 0..Len(s) /\ c - 1 \in 0..Len(s)
          /\ a + 1 <= (c - 1) + 1 /\ a + 1 <= (b - 1) + 1
          /\ (c - 1) + 1 = c /\ (b - 1) + 1 = b
      BY <3>3
    <3> QED BY <3>1, <3>2, <3>4
  <2>6. ~(c < g[k + 1])
    <3> SUFFICES ASSUME c < g[k + 1] PROVE FALSE
      OBVIOUS
    <3>1. c - 1 <= g[k + 1] - 1 /\ c \in 1..Len(s) /\ g[k + 1] - 1 \in c..Len(s)
      BY SMTT(30), <2>2, <2>3
    <3>2. Bal(s, c, g[k + 1] - 1)
      BY <2>2, <2>3, <2>5, <3>1, BalancedRest
    <3> QED BY <2>4, <3>1, <3>2, CloserAhead
  <2>7. g[k + 1] <= c /\ k + 1 \in (k + 1)..m
    <3>1. g[k + 1] <= c
      BY <2>2, <2>3, <2>6
    <3>2. k # m
      BY <2>3, <3>1 DEF Stack
    <3> QED BY <2>1, <3>1, <3>2
  <2>8. Closings(s, g[k + 1]) = {} /\ s[g[k + 1]].effect \in Openers
    <3>1. k + 1 \in 1..m
      BY <2>7
    <3> QED BY <1>1, <2>7, <3>1 DEF Stack
  <2>9. Bal(s, g[k + 1], c - 1)
    <3>1. g[k + 1] - 1 <= c - 1
      BY <2>2, <2>3, <2>7
    <3> QED BY <2>2, <2>3, <2>5, <3>1, BalancedRest
  <2>10. /\ g[k + 1] <= c - 1 /\ g[k + 1] \in 1..(Len(s) + 1) /\ g[k + 1] \in g[k + 1]..(c - 1)
    <3>1. g[k + 1] # c
      BY <2>4, <2>8, Markers
    <3> QED BY SMTT(30), <2>2, <2>3, <2>7, <3>1
  <2>11. PICK d \in (g[k + 1] + 1)..(c - 1) : /\ s[d].effect = Closer[s[g[k + 1]].effect]
                                             /\ Bal(s, g[k + 1] + 1, d - 1)
    BY <2>5, <2>8, <2>9, <2>10, BalancedCloses
  <2>12. d \in (g[k + 1] + 1)..Len(s)
    BY <2>3
  <2>13. d \in Closings(s, g[k + 1])
    BY <2>11, <2>12 DEF Closings, Bal
  <2> QED BY <2>8, <2>13
<1>2. m \in Nat
  BY DEF Stack
<1> HIDE DEF P
<1>3. \A k \in 1..m : k \in P
  BY <1>1, <1>2, Downward
<1> QED BY <1>3 DEF P

(* Every other scope is closed.                                            *)
LEMMA OthersClosed ==
    ASSUME NEW s, Len(s) \in Nat, NEW m, NEW g, Stack(s, m, g),
           NEW p \in 1..Len(s), s[p].effect \in Openers, \A k \in 1..m : p # g[k]
    PROVE  Closings(s, p) # {}
<1> DEFINE T == {k \in 0..(m + 1) : p <= g[k]}
<1>0. /\ m \in Nat /\ g[0] = 0 /\ g[m + 1] = Len(s) + 1
      /\ \A k \in 0..(m + 1) : g[k] \in 0..(Len(s) + 1)
      /\ \A k \in 0..m : Bal(s, g[k] + 1, g[k + 1] - 1)
  BY DEF Stack
<1>1. PICK n \in 0..(m + 1) : p <= g[n] /\ \A k \in 0..(m + 1) : p <= g[k] => n <= k
  <2>1. m + 1 \in T
    BY <1>0
  <2>2. \A k \in T : k \in Nat
    BY <1>0
  <2>3. PICK n \in T : \A k \in T : n <= k
    <3> HIDE DEF T
    <3> QED BY <2>1, <2>2, Least
  <2> QED BY <2>3
<1>2. n # 0
  BY <1>0, <1>1
<1>3. /\ n - 1 \in 0..(m + 1) /\ n - 1 \in 0..m /\ (n - 1) + 1 = n /\ ~(n <= n - 1)
  BY <1>0, <1>2
<1>4. g[n - 1] < p /\ g[n - 1] \in 0..(Len(s) + 1) /\ g[n] \in 0..(Len(s) + 1)
  BY SMTT(30), <1>0, <1>1, <1>3
<1>5. p # g[n]
  <2>1. CASE n = m + 1
    BY <1>0, <2>1
  <2>2. CASE n # m + 1
    <3>1. n \in 1..m
      BY <1>0, <1>2, <2>2
    <3> QED BY <3>1
  <2> QED BY <2>1, <2>2
<1>6. Bal(s, g[n - 1] + 1, g[n] - 1)
  BY <1>0, <1>3
<1>7. /\ g[n - 1] + 1 \in 1..(Len(s) + 1) /\ g[n] - 1 \in 0..Len(s)
      /\ p \in (g[n - 1] + 1)..(g[n] - 1)
  BY SMTT(30), <1>1, <1>4, <1>5
<1>8. PICK k \in (p + 1)..(g[n] - 1) : /\ s[k].effect = Closer[s[p].effect]
                                       /\ Bal(s, p + 1, k - 1)
  BY <1>6, <1>7, BalancedCloses
<1>9. k \in (p + 1)..Len(s)
  BY <1>7
<1>10. k \in Closings(s, p)
  BY <1>8, <1>9 DEF Closings, Bal
<1> QED BY <1>10

(* An ascending list, counted.                                             *)
LEMMA AscendingSlots ==
    ASSUME NEW m \in Nat, NEW g, \A k \in 1..m : g[k] \in Nat,
           \A j, k \in 1..m : j < k => g[j] < g[k]
    PROVE  LET O == {g[k] : k \in 1..m}
           IN  Cardinality(O) = m /\ \A k \in 1..m : Slot(O, k) = g[k]
<1> DEFINE O == {g[k] : k \in 1..m}
           Upto(n) == {g[k] : k \in 1..n}
<1>1. \A j, k \in 1..m : g[j] = g[k] => j = k
  <2> SUFFICES ASSUME NEW j \in 1..m, NEW k \in 1..m, g[j] = g[k] PROVE j = k
    OBVIOUS
  <2>1. ~(j < k) /\ ~(k < j)
    OBVIOUS
  <2> QED BY <2>1
<1>2. ASSUME NEW n \in 0..m
      PROVE  Cardinality(Upto(n)) = n
  <2> DEFINE f == [k \in 1..n |-> g[k]]
  <2>1. f \in Bijection(1..n, Upto(n))
    <3>1. f \in [1..n -> Upto(n)]
      OBVIOUS
    <3>2. \A j, k \in 1..n : f[j] = f[k] => j = k
      <4> SUFFICES ASSUME NEW j \in 1..n, NEW k \in 1..n, f[j] = f[k] PROVE j = k
        OBVIOUS
      <4>1. j \in 1..m /\ k \in 1..m /\ g[j] = g[k]
        OBVIOUS
      <4> QED BY <1>1, <4>1
    <3>3. \A t \in Upto(n) : \E k \in 1..n : f[k] = t
      OBVIOUS
    <3> HIDE DEF f, Upto
    <3> QED BY <3>1, <3>2, <3>3 DEF Bijection, Injection, Surjection, IsInjective
  <2>2. n \in Nat
    OBVIOUS
  <2> HIDE DEF f, Upto
  <2>3. ExistsBijection(1..n, Upto(n))
    BY <2>1 DEF ExistsBijection
  <2> QED BY <2>2, <2>3, FS_CountingElements
<1>3. Cardinality(O) = m
  <2>1. O = Upto(m) /\ m \in 0..m
    OBVIOUS
  <2> QED BY <1>2, <2>1
<1>4. ASSUME NEW k \in 1..m PROVE Rank(O, g[k]) = k
  <2>1. {t \in O : t <= g[k]} = Upto(k)
    <3>1. ASSUME NEW j \in 1..m PROVE g[j] <= g[k] <=> j <= k
      <4>1. CASE j < k
        BY <4>1
      <4>2. CASE j = k
        BY <4>2
      <4>3. CASE k < j
        BY <4>3
      <4> QED BY <4>1, <4>2, <4>3
    <3>2. \A j \in 1..k : j \in 1..m
      OBVIOUS
    <3>3. \A j \in 1..m : j <= k <=> j \in 1..k
      OBVIOUS
    <3> QED BY <3>1, <3>2, <3>3
  <2>2. k \in 0..m
    OBVIOUS
  <2> QED BY <1>2, <2>1, <2>2 DEF Rank
<1> HIDE DEF Upto
<1>5. ASSUME NEW k \in 1..m PROVE Slot(O, k) = g[k]
  <2>1. g[k] \in O /\ Rank(O, g[k]) = k
    BY <1>4
  <2>2. \A t \in O : Rank(O, t) = k => t = g[k]
    BY <1>4
  <2> HIDE DEF O
  <2> QED BY <2>1, <2>2 DEF Slot
<1> QED BY <1>3, <1>5

(* The completed stream: what is open is closed, the last first.           *)
IsStream(s) == s \in Seq([effect : FlowEffect, token : Nat])

LEMMA StreamLength ==
    ASSUME NEW s, IsStream(s)
    PROVE  Len(s) \in Nat /\ DOMAIN s = 1..Len(s)
BY DEF IsStream

LEMMA StackedAre ==
    ASSUME NEW s, IsStream(s), NEW m, NEW g, Stack(s, m, g)
    PROVE  /\ {i \in DOMAIN s : s[i].effect \in Openers /\ Closings(s, i) = {}}
                = {g[k] : k \in 1..m}
           /\ m \in Nat /\ \A k \in 1..m : g[k] \in 1..Len(s) /\ s[g[k]].effect \in Openers
           /\ \A j, k \in 1..m : j < k => g[j] < g[k]
<1>1. Len(s) \in Nat /\ DOMAIN s = 1..Len(s)
  BY StreamLength
<1>2. m \in Nat /\ \A k \in 1..m : s[g[k]].effect \in Openers
  BY DEF Stack
<1>3. ASSUME NEW k \in 1..m PROVE g[k] \in 1..Len(s)
  <2>1. 0 \in 0..(m + 1) /\ k \in 0..(m + 1) /\ m + 1 \in 0..(m + 1) /\ 0 < k /\ k < m + 1
    BY <1>2
  <2>2. g[k] \in 0..(Len(s) + 1) /\ g[0] < g[k] /\ g[k] < g[m + 1]
        /\ g[0] = 0 /\ g[m + 1] = Len(s) + 1
    BY <2>1 DEF Stack
  <2> QED BY <1>1, <2>2
<1>4. \A j, k \in 1..m : j < k => g[j] < g[k]
  <2>1. \A k \in 1..m : k \in 0..(m + 1)
    BY <1>2
  <2> QED BY <2>1 DEF Stack
<1>5. \A k \in 1..m : Closings(s, g[k]) = {}
  BY <1>1, StackedOpen
<1>6. \A p \in 1..Len(s) : s[p].effect \in Openers /\ Closings(s, p) = {} =>
         \E k \in 1..m : p = g[k]
  BY <1>1, OthersClosed
<1> QED BY <1>1, <1>2, <1>3, <1>4, <1>5, <1>6

LEMMA CompletedIs ==
    ASSUME NEW s, IsStream(s), NEW m, NEW g, Stack(s, m, g)
    PROVE  LET C == Completed(s)
           IN  /\ IsStream(C) /\ Len(C) = Len(s) + m
               /\ \A p \in 1..Len(s) : C[p] = s[p]
               /\ \A k \in 1..m : C[Len(s) + (m + 1 - k)].effect = Closer[s[g[k]].effect]
<1> DEFINE open == {i \in DOMAIN s : s[i].effect \in Openers /\ Closings(s, i) = {}}
           Ender(k) == [effect |-> Closer[s[g[m + 1 - k]].effect], token |-> 0]
           rest == [k \in 1..m |-> Ender(k)]
           R == [effect : FlowEffect, token : Nat]
<1>1. /\ open = {g[k] : k \in 1..m} /\ m \in Nat
      /\ \A k \in 1..m : g[k] \in 1..Len(s) /\ s[g[k]].effect \in Openers
      /\ \A j, k \in 1..m : j < k => g[j] < g[k]
  BY StackedAre
<1>2. Len(s) \in Nat /\ DOMAIN s = 1..Len(s)
  BY StreamLength
<1>3. Cardinality(open) = m /\ \A k \in 1..m : Slot(open, k) = g[k]
  <2>1. \A k \in 1..m : g[k] \in Nat
    BY <1>1, <1>2
  <2> HIDE DEF open
  <2> QED BY ZenonT(40), <1>1, <2>1, AscendingSlots
<1>4. \A k \in 1..m : m + 1 - k \in 1..m
  BY SMTT(30), <1>1
<1>5. Completed(s) = s \o rest
  <2> DEFINE fill == [k \in 1..m |->
                [effect |-> Closer[s[Slot(open, m + 1 - k)].effect], token |-> 0]]
  <2>1. Completed(s) = s \o fill
    BY <1>3 DEF Completed
  <2>2. fill = rest
    BY <1>3, <1>4
  <2> QED BY <2>1, <2>2
<1>6. \A k \in 1..m : Ender(k) \in R /\ Ender(k).effect = Closer[s[g[m + 1 - k]].effect]
  <2> SUFFICES ASSUME NEW k \in 1..m PROVE Closer[s[g[m + 1 - k]].effect] \in FlowEffect
    OBVIOUS
  <2>1. s[g[m + 1 - k]].effect \in Openers
    BY <1>1, <1>4
  <2>2. Closers \subseteq FlowEffect
    BY DEF Closers, FlowEffect
  <2> QED BY <2>1, <2>2, Markers
<1> HIDE DEF Ender, open
<1>7. rest \in Seq(R) /\ Len(rest) = m /\ \A k \in 1..m : rest[k] = Ender(k)
  <2>1. m \in Nat /\ \A k \in 1..m : Ender(k) \in R
    BY <1>1, <1>6
  <2> HIDE DEF R
  <2> QED BY <2>1
<1>8. s \in Seq(R)
  BY DEF IsStream
<1> HIDE DEF rest, R
<1>9. /\ s \o rest \in Seq(R) /\ Len(s \o rest) = Len(s) + m
      /\ \A p \in 1..Len(s) : (s \o rest)[p] = s[p]
      /\ \A k \in 1..m : (s \o rest)[Len(s) + k] = rest[k]
  BY <1>1, <1>7, <1>8
<1>10. ASSUME NEW k \in 1..m
       PROVE  (s \o rest)[Len(s) + (m + 1 - k)].effect = Closer[s[g[k]].effect]
  <2>1. m + 1 - k \in 1..m /\ m + 1 - (m + 1 - k) = k
    BY <1>1
  <2>2. (s \o rest)[Len(s) + (m + 1 - k)] = Ender(m + 1 - k)
    BY <1>7, <1>9, <2>1
  <2>3. Ender(m + 1 - k).effect = Closer[s[g[m + 1 - (m + 1 - k)]].effect]
    BY <1>6, <2>1
  <2> QED BY <2>1, <2>2, <2>3
<1>11. IsStream(s \o rest)
  BY <1>9 DEF IsStream, R
<1> QED BY <1>5, <1>9, <1>10, <1>11

LEMMA CompletedBalanced ==
    ASSUME NEW s, IsStream(s), NEW m, NEW g, Stack(s, m, g)
    PROVE  Bal(Completed(s), 1, Len(s) + m)
<1>1. PICK C : C = Completed(s)
  OBVIOUS
<1>2. /\ IsStream(C) /\ Len(C) = Len(s) + m
      /\ \A p \in 1..Len(s) : C[p] = s[p]
      /\ \A k \in 1..m : C[Len(s) + (m + 1 - k)].effect = Closer[s[g[k]].effect]
  BY <1>1, CompletedIs
<1>3. /\ m \in Nat /\ g[0] = 0 /\ g[m + 1] = Len(s) + 1
      /\ \A k \in 0..(m + 1) : g[k] \in 0..(Len(s) + 1)
      /\ \A j, k \in 0..(m + 1) : j < k => g[j] < g[k]
      /\ \A k \in 1..m : s[g[k]].effect \in Openers
      /\ \A k \in 0..m : Bal(s, g[k] + 1, g[k + 1] - 1)
  BY DEF Stack
<1>4. Len(s) \in Nat /\ Len(C) \in Nat /\ Len(s) <= Len(C)
  BY <1>2, <1>3, StreamLength
<1>5. ASSUME NEW k \in 0..m
      PROVE  /\ g[k] + 1 \in 1..(Len(s) + 1) /\ g[k + 1] - 1 \in 0..Len(s)
             /\ g[k] < g[k + 1] /\ g[k] \in 0..Len(s) /\ g[k + 1] \in 1..(Len(s) + 1)
             /\ Bal(C, g[k] + 1, g[k + 1] - 1)
  <2>1. k \in 0..(m + 1) /\ k + 1 \in 0..(m + 1) /\ k < k + 1
    BY <1>3
  <2>2. g[k] \in 0..(Len(s) + 1) /\ g[k + 1] \in 0..(Len(s) + 1) /\ g[k] < g[k + 1]
    BY <1>3, <2>1
  <2>3. /\ g[k] + 1 \in 1..(Len(s) + 1) /\ g[k + 1] - 1 \in 0..Len(s)
        /\ g[k] \in 0..Len(s) /\ g[k + 1] \in 1..(Len(s) + 1)
    <3>1. PICK a : a = g[k]
      OBVIOUS
    <3>2. PICK b : b = g[k + 1]
      OBVIOUS
    <3>3. a \in 0..(Len(s) + 1) /\ b \in 0..(Len(s) + 1) /\ a < b
      BY <2>2, <3>1, <3>2
    <3>4. /\ a + 1 \in 1..(Len(s) + 1) /\ b - 1 \in 0..Len(s)
          /\ a \in 0..Len(s) /\ b \in 1..(Len(s) + 1)
      BY <1>4, <3>3
    <3> QED BY <3>1, <3>2, <3>4
  <2>4. Len(s) \in 0..Len(s) /\ \A p \in 1..Len(s) : C[p].effect = s[p].effect
    BY <1>2, <1>4
  <2>5. Bal(C, g[k] + 1, g[k + 1] - 1) <=> Bal(s, g[k] + 1, g[k + 1] - 1)
    BY <1>4, <2>3, <2>4, BalancedLocal
  <2> QED BY <1>3, <2>2, <2>3, <2>5
<1> DEFINE P == {k \in 1..m : Bal(C, g[k], Len(s) + (m + 1 - k))}
<1>6. ASSUME NEW k \in 1..m, \A n \in (k + 1)..m : n \in P
      PROVE  k \in P
  <2> DEFINE q == Len(s) + (m + 1 - k)
  <2>1. /\ k \in 0..m /\ q \in (Len(s) + 1)..Len(C) /\ q - 1 \in Len(s)..Len(C)
    BY <1>2, <1>3, <1>4
  <2>2. g[k] < g[k + 1] /\ g[k + 1] \in 1..(Len(s) + 1) /\ g[k] \in 1..Len(s)
    <3>1. 0 \in 0..(m + 1) /\ k \in 0..(m + 1) /\ 0 < k
      BY <1>3
    <3>2. g[0] < g[k] /\ g[0] = 0
      BY <1>3, <3>1
    <3> QED BY SMTT(30), <1>5, <2>1, <3>2
  <2>3. C[g[k]].effect \in Openers /\ C[q].effect = Closer[C[g[k]].effect]
    BY <1>2, <1>3, <2>2
  <2>4. Bal(C, g[k] + 1, q - 1)
    <3>1. CASE k = m
      <4>1. q - 1 = g[k + 1] - 1
        BY <1>3, <1>4, <3>1
      <4> QED BY <1>5, <2>1, <4>1
    <3>2. CASE k # m
      <4>1. k + 1 \in (k + 1)..m /\ Len(s) + (m + 1 - (k + 1)) = q - 1
        BY <1>3, <1>4, <3>2
      <4>2. Bal(C, g[k + 1], q - 1)
        BY <1>6, <4>1
      <4> HIDE DEF q
      <4>3. PICK h : h = g[k + 1] - 1
        OBVIOUS
      <4>4. g[k + 1] = h + 1 /\ h \in 0..Len(s) /\ h \in 0..Len(C) /\ q - 1 \in h..Len(C)
        BY SMTT(30), <1>4, <2>1, <2>2, <4>3
      <4>5. g[k] + 1 \in 1..(h + 1)
        BY <2>2, <4>4
      <4>6. Bal(C, g[k] + 1, h) /\ Bal(C, h + 1, q - 1)
        BY <1>5, <2>1, <4>2, <4>3, <4>4
      <4> QED BY <1>4, <4>4, <4>5, <4>6, BalancedJoin
    <3> QED BY <3>1, <3>2
  <2> HIDE DEF q
  <2>5. /\ g[k] \in 1..(Len(C) + 1) /\ q \in 0..Len(C) /\ q \in (g[k] + 1)..q
        /\ q + 1 \in 1..(Len(C) + 1) /\ q + 1 > q
    BY <1>4, <2>1, <2>2
  <2>6. Bal(C, q + 1, q)
    BY <1>4, <2>5, BalancedUnfolds
  <2>7. Bal(C, g[k], q)
    BY <1>4, <2>3, <2>4, <2>5, <2>6, BalancedUnfolds
  <2> QED BY <2>7 DEF q
<1> HIDE DEF P
<1>7. \A k \in 1..m : k \in P
  BY <1>3, <1>6, Downward
<1>8. Bal(C, 1, g[1] - 1) /\ g[1] \in 1..(Len(s) + 1)
  <2>1. 0 \in 0..m
    BY <1>3
  <2>2. 0 + 1 = 1
    OBVIOUS
  <2> QED BY <1>3, <1>5, <2>1, <2>2
<1>9. Bal(C, 1, Len(s) + m)
  <2>1. CASE m = 0
    <3>1. g[1] - 1 = Len(s) + m
      BY <1>3, <1>4, <2>1
    <3> QED BY <1>8, <3>1
  <2>2. CASE m # 0
    <3>1. 1 \in 1..m
      BY <1>3, <2>2
    <3>2. Bal(C, g[1], Len(s) + (m + 1 - 1))
      BY <1>7, <3>1 DEF P
    <3>3. m + 1 - 1 = m
      BY <1>3
    <3>4. PICK h : h = g[1] - 1
      OBVIOUS
    <3>5. /\ g[1] = h + 1 /\ h \in 0..Len(C) /\ Len(s) + m \in h..Len(C) /\ 1 \in 1..(h + 1)
      BY SMTT(30), <1>2, <1>3, <1>4, <1>8, <3>4
    <3>6. Bal(C, 1, h) /\ Bal(C, h + 1, Len(s) + m)
      BY <1>8, <3>2, <3>3, <3>4, <3>5
    <3> QED BY <1>4, <3>5, <3>6, BalancedJoin
  <2> QED BY <2>1, <2>2
<1> QED BY <1>1, <1>9

-----------------------------------------------------------------------------
(* The scopes of the given kinds around p, by what stands before p: those  *)
(* that nothing before p closes.                                           *)
Enclosing(s, p, kinds) ==
    {i \in 1..(p - 1) : s[i].effect \in kinds /\ \A c \in Closings(s, i) : p <= c}
Inner(S) == IF S = {} THEN 0 ELSE CHOOSE i \in S : \A j \in S : j <= i

LEMMA EnclosingLocal ==
    ASSUME NEW s, NEW t, Len(s) \in Nat, Len(t) \in Nat, Len(s) <= Len(t),
           NEW p \in 1..(Len(s) + 1), \A k \in 1..(p - 1) : t[k].effect = s[k].effect,
           NEW kinds
    PROVE  Enclosing(t, p, kinds) = Enclosing(s, p, kinds)
<1>1. p - 1 \in 0..Len(s)
  OBVIOUS
<1>2. \A i \in 1..(Len(s) + 1) : \A j \in 0..(p - 1) : Bal(t, i, j) <=> Bal(s, i, j)
  BY <1>1, BalancedLocal
<1>3. ASSUME NEW i \in 1..(p - 1)
      PROVE  /\ t[i].effect = s[i].effect
             /\ (\A c \in Closings(t, i) : p <= c) <=> (\A c \in Closings(s, i) : p <= c)
  <2>1. i + 1 \in 1..(Len(s) + 1)
    OBVIOUS
  <2>2. ASSUME NEW c \in (i + 1)..(p - 1)
        PROVE  c \in Closings(t, i) <=> c \in Closings(s, i)
    <3>1. c \in 1..(p - 1) /\ c - 1 \in 0..(p - 1) /\ c \in (i + 1)..Len(s) /\ c \in (i + 1)..Len(t)
      OBVIOUS
    <3>2. Bal(t, i + 1, c - 1) <=> Bal(s, i + 1, c - 1)
      BY <1>2, <2>1, <3>1
    <3>3. t[i].effect = s[i].effect /\ t[c].effect = s[c].effect
      BY <3>1
    <3> QED BY <3>1, <3>2, <3>3 DEF Closings, Bal
  <2>3. \A c \in Closings(t, i) : c \in (i + 1)..Len(t) /\ (~(p <= c) => c \in (i + 1)..(p - 1))
    BY DEF Closings
  <2>4. \A c \in Closings(s, i) : c \in (i + 1)..Len(s) /\ (~(p <= c) => c \in (i + 1)..(p - 1))
    BY DEF Closings
  <2> QED BY <2>2, <2>3, <2>4
<1> QED BY <1>3 DEF Enclosing

(* A scope has one end at most.                                            *)
LEMMA OneClosing ==
    ASSUME NEW s, Len(s) \in Nat, NEW i \in 1..Len(s), s[i].effect \in Openers,
           NEW c \in Closings(s, i), NEW d \in Closings(s, i)
    PROVE  c = d
<1>1. ASSUME NEW a \in Closings(s, i), NEW b \in Closings(s, i), a < b PROVE FALSE
  <2>1. /\ a \in (i + 1)..Len(s) /\ b \in (i + 1)..Len(s)
        /\ s[a].effect = Closer[s[i].effect]
        /\ Bal(s, i + 1, a - 1) /\ Bal(s, i + 1, b - 1)
    BY DEF Closings, Bal
  <2>2. s[a].effect \in Closers
    BY <2>1, Markers
  <2>3. /\ i + 1 \in 1..(Len(s) + 1) /\ a - 1 \in 0..Len(s) /\ b - 1 \in 0..Len(s)
        /\ i + 1 <= (a - 1) + 1 /\ a - 1 <= b - 1 /\ (a - 1) + 1 = a
        /\ a \in 1..Len(s) /\ b - 1 \in a..Len(s)
    BY SMTT(30), <1>1, <2>1
  <2>4. Bal(s, a, b - 1)
    BY <2>1, <2>3, BalancedRest
  <2> QED BY <2>2, <2>3, <2>4, CloserAhead
<1>2. c \in Int /\ d \in Int
  BY DEF Closings
<1>3. ~(c < d) /\ ~(d < c)
  BY <1>1
<1> QED BY <1>2, <1>3

(* In a balanced stream that is what Around looks at.                      *)
LEMMA AroundEncloses ==
    ASSUME NEW t, Len(t) \in Nat, Bal(t, 1, Len(t)), NEW p \in 1..Len(t),
           NEW kinds \in SUBSET Openers
    PROVE  Around(t, p, kinds) = Inner(Enclosing(t, p, kinds))
<1>1. ASSUME NEW i \in 1..(p - 1), t[i].effect \in kinds
      PROVE  p <= Close(t, i) <=> \A c \in Closings(t, i) : p <= c
  <2>1. /\ 1 \in 1..(Len(t) + 1) /\ Len(t) \in 0..Len(t) /\ i \in 1..Len(t)
        /\ t[i].effect \in Openers
    BY <1>1
  <2>2. PICK k \in (i + 1)..Len(t) : t[k].effect = Closer[t[i].effect] /\ Bal(t, i + 1, k - 1)
    BY <2>1, BalancedCloses
  <2>3. k \in Closings(t, i)
    BY <2>2 DEF Closings, Bal
  <2>4. \A c \in Closings(t, i) : c = k
    BY <2>1, <2>3, OneClosing
  <2>5. Close(t, i) = k
    BY <2>3, <2>4 DEF Close
  <2> QED BY <2>3, <2>4, <2>5
<1> DEFINE A == {i \in 1..(p - 1) : t[i].effect \in kinds /\ p <= Close(t, i)}
<1>2. A = Enclosing(t, p, kinds)
  BY <1>1 DEF Enclosing
<1>3. Around(t, p, kinds) = IF A = {} THEN 0 ELSE CHOOSE i \in A : \A j \in A : j <= i
  BY DEF Around
<1> HIDE DEF A
<1>4. Around(t, p, kinds) = Inner(A)
  BY <1>3 DEF Inner
<1> QED BY <1>2, <1>4

(* The place of an instruction, judged when it is read.                    *)
DirectlyIn(s, p, kind) ==
    LET i == Inner(Enclosing(s, p, Openers)) IN i # 0 /\ s[i].effect = kind

Placed(s, p) ==
    /\ s[p].effect = "else" => DirectlyIn(s, p, "if")
    /\ s[p].effect = "case" => DirectlyIn(s, p, "switch")
    /\ s[p].effect \in {"break", "conditional_break"} =>
          Enclosing(s, p, {"loop", "switch"}) # {}
    /\ s[p].effect \in {"continue", "conditional_continue"} =>
          Enclosing(s, p, {"loop"}) # {}

LEMMA InnerIs ==
    ASSUME NEW n \in Nat, NEW S \in SUBSET (1..n)
    PROVE  /\ S # {} => Inner(S) \in S /\ \A j \in S : j <= Inner(S)
           /\ Inner(S) = 0 <=> S = {}
<1>1. CASE S = {}
  BY <1>1 DEF Inner
<1>2. CASE S # {}
  <2> DEFINE T == {k \in 0..n : n - k \in S}
  <2>1. T \in SUBSET Nat /\ T # {}
    <3>1. PICK i \in S : TRUE
      BY <1>2
    <3>2. n - i \in 0..n /\ n - (n - i) = i
      BY <3>1
    <3>3. n - i \in T
      BY <3>1, <3>2
    <3>4. \A k \in T : k \in Nat
      OBVIOUS
    <3> HIDE DEF T
    <3> QED BY <3>3, <3>4
  <2>2. PICK k \in T : \A l \in T : k <= l
    BY <2>1, Least
  <2>3. n - k \in S /\ k \in 0..n
    BY <2>2
  <2>4. ASSUME NEW j \in S PROVE j <= n - k
    <3>1. n - j \in T /\ j \in 1..n
      <4>1. n - j \in 0..n /\ n - (n - j) = j
        OBVIOUS
      <4> QED BY <4>1
    <3>2. k <= n - j
      BY <2>2, <3>1
    <3> QED BY <2>3, <3>1, <3>2
  <2>5. Inner(S) = CHOOSE i \in S : \A j \in S : j <= i
    BY <1>2 DEF Inner
  <2>6. Inner(S) \in S /\ \A j \in S : j <= Inner(S)
    BY <2>3, <2>4, <2>5
  <2> QED BY <1>2, <2>6
<1> QED BY <1>1, <1>2

LEMMA PlacedLocal ==
    ASSUME NEW s, NEW t, Len(s) \in Nat, Len(t) \in Nat, Len(s) <= Len(t),
           NEW p \in 1..Len(s), \A k \in 1..p : t[k].effect = s[k].effect
    PROVE  Placed(t, p) <=> Placed(s, p)
<1>1. p \in 1..(Len(s) + 1) /\ p \in 1..p /\ \A k \in 1..(p - 1) : k \in 1..p
  OBVIOUS
<1>2. \A kinds : Enclosing(t, p, kinds) = Enclosing(s, p, kinds)
  BY <1>1, EnclosingLocal
<1>3. ASSUME NEW kind PROVE DirectlyIn(t, p, kind) <=> DirectlyIn(s, p, kind)
  <2> DEFINE i == Inner(Enclosing(s, p, Openers))
  <2>1. Enclosing(s, p, Openers) \in SUBSET (1..(p - 1)) /\ p - 1 \in Nat
    BY DEF Enclosing
  <2>2. i # 0 => i \in 1..(p - 1)
    BY <2>1, InnerIs
  <2>3. i # 0 => t[i].effect = s[i].effect
    BY <1>1, <2>2
  <2> QED BY <1>2, <2>3 DEF DirectlyIn
<1> QED BY <1>1, <1>2, <1>3 DEF Placed

LEMMA InPlacePlaced ==
    ASSUME NEW t, Len(t) \in Nat, Bal(t, 1, Len(t)), NEW p \in 1..Len(t)
    PROVE  InPlace(t, p) <=> Placed(t, p)
<1>1. ASSUME NEW kinds \in SUBSET Openers
      PROVE  /\ Around(t, p, kinds) = Inner(Enclosing(t, p, kinds))
             /\ Around(t, p, kinds) # 0 <=> Enclosing(t, p, kinds) # {}
  <2>1. Around(t, p, kinds) = Inner(Enclosing(t, p, kinds))
    BY AroundEncloses
  <2>2. Enclosing(t, p, kinds) \in SUBSET (1..(p - 1)) /\ p - 1 \in Nat
    BY DEF Enclosing
  <2>3. Inner(Enclosing(t, p, kinds)) = 0 <=> Enclosing(t, p, kinds) = {}
    BY <2>2, InnerIs
  <2> QED BY <2>1, <2>3
<1>2. Openers \in SUBSET Openers /\ {"loop", "switch"} \in SUBSET Openers
      /\ {"loop"} \in SUBSET Openers
  BY DEF Openers
<1>3. \A kind : Directly(t, p, kind) <=> DirectlyIn(t, p, kind)
  BY <1>1, <1>2 DEF Directly, DirectlyIn
<1>4. /\ Around(t, p, {"loop", "switch"}) # 0 <=> Enclosing(t, p, {"loop", "switch"}) # {}
      /\ Around(t, p, {"loop"}) # 0 <=> Enclosing(t, p, {"loop"}) # {}
  BY <1>1, <1>2
<1> QED BY <1>3, <1>4 DEF InPlace, Placed

(* The completion of a stream with a stack is well nested exactly when all *)
(* that was read is in its place.                                          *)
LEMMA CompletedNests ==
    ASSUME NEW s, IsStream(s), NEW m, NEW g, Stack(s, m, g)
    PROVE  WellNested(Completed(s)) <=> \A p \in 1..Len(s) : Placed(s, p)
<1>1. PICK C : C = Completed(s)
  OBVIOUS
<1>2. /\ IsStream(C) /\ Len(C) = Len(s) + m
      /\ \A p \in 1..Len(s) : C[p] = s[p]
      /\ \A k \in 1..m : C[Len(s) + (m + 1 - k)].effect = Closer[s[g[k]].effect]
  BY <1>1, CompletedIs
<1>3. m \in Nat /\ \A k \in 1..m : s[g[k]].effect \in Openers
  BY DEF Stack
<1>4. /\ Len(s) \in Nat /\ Len(C) \in Nat /\ Len(s) <= Len(C) /\ DOMAIN C = 1..Len(C)
      /\ \A p \in 1..Len(s) : p \in 1..Len(C)
  BY <1>2, <1>3, StreamLength
<1>5. Bal(C, 1, Len(C))
  BY <1>1, <1>2, CompletedBalanced
<1>6. \A p \in 1..Len(C) : InPlace(C, p) <=> Placed(C, p)
  BY <1>4, <1>5, InPlacePlaced
<1>7. ASSUME NEW p \in 1..Len(s) PROVE Placed(C, p) <=> Placed(s, p)
  <2>1. \A k \in 1..p : k \in 1..Len(s)
    BY <1>4
  <2>2. \A k \in 1..p : C[k].effect = s[k].effect
    BY <1>2, <2>1
  <2> QED BY <1>4, <2>2, PlacedLocal
<1>8. ASSUME NEW p \in 1..Len(C), p > Len(s) PROVE Placed(C, p)
  <2>1. PICK k \in 1..m : p = Len(s) + (m + 1 - k)
    <3> DEFINE k == Len(s) + m + 1 - p
    <3>1. k \in 1..m /\ p = Len(s) + (m + 1 - k)
      BY <1>2, <1>3, <1>4, <1>8
    <3> QED BY <3>1
  <2>2. C[p].effect \in Closers
    BY <1>2, <1>3, <2>1, Markers
  <2> QED BY <2>2 DEF Placed, Closers
<1>9. WellNested(C) <=> \A p \in 1..Len(C) : Placed(C, p)
  BY <1>4, <1>5, <1>6 DEF WellNested, Bal
<1>10. \A p \in 1..Len(C) : p \in 1..Len(s) \/ p > Len(s)
  BY <1>4
<1>11. WellNested(C) <=> \A p \in 1..Len(s) : Placed(s, p)
  BY <1>4, <1>7, <1>8, <1>9, <1>10
<1> QED BY <1>1, <1>11

-----------------------------------------------------------------------------
(* One more instruction.                                                   *)
LEMMA Appended ==
    ASSUME NEW s, IsStream(s), NEW x \in [effect : FlowEffect, token : Nat]
    PROVE  LET t == Append(s, x)
           IN  /\ IsStream(t) /\ Len(t) = Len(s) + 1 /\ t[Len(s) + 1] = x
               /\ \A p \in 1..Len(s) : t[p] = s[p]
               /\ Len(s) \in Nat /\ Len(t) \in Nat /\ Len(s) <= Len(t)
<1> DEFINE R == [effect : FlowEffect, token : Nat]
<1>1. s \in Seq(R) /\ x \in R
  BY DEF IsStream
<1> HIDE DEF R
<1>2. /\ Append(s, x) \in Seq(R) /\ Len(Append(s, x)) = Len(s) + 1
      /\ Append(s, x)[Len(s) + 1] = x /\ \A p \in 1..Len(s) : Append(s, x)[p] = s[p]
      /\ Len(s) \in Nat
  BY <1>1
<1> QED BY <1>2 DEF IsStream, R

(* The stack up to its n-th element, the stream ending before position e.  *)
Cut(g, n, e) == [k \in 0..(n + 1) |-> IF k <= n THEN g[k] ELSE e]

(* t is s with one more instruction, balanced from the n-th element on.    *)
LEMMA Restacked ==
    ASSUME NEW s, NEW t, Len(s) \in Nat, Len(t) = Len(s) + 1,
           \A p \in 1..Len(s) : t[p] = s[p],
           NEW m, NEW g, Stack(s, m, g), NEW n \in 0..(m + 1),
           n = m + 1 => t[Len(s) + 1].effect \in Openers,
           Bal(t, g[n] + 1, Len(s) + 1)
    PROVE  Stack(t, n, Cut(g, n, Len(s) + 2))
<1> DEFINE h == Cut(g, n, Len(s) + 2)
<1>1. /\ m \in Nat /\ g[0] = 0 /\ g[m + 1] = Len(s) + 1
      /\ \A k \in 0..(m + 1) : g[k] \in 0..(Len(s) + 1)
      /\ \A j, k \in 0..(m + 1) : j < k => g[j] < g[k]
      /\ \A k \in 1..m : s[g[k]].effect \in Openers
      /\ \A k \in 0..m : Bal(s, g[k] + 1, g[k + 1] - 1)
  BY DEF Stack
<1>2. n \in Nat /\ n + 1 \in Nat /\ \A k \in 0..n : k \in 0..(m + 1)
  BY <1>1
<1>3. \A k \in 0..n : h[k] = g[k]
  BY <1>2 DEF Cut
<1>3a. h[n + 1] = Len(s) + 2
  BY <1>2 DEF Cut
<1>3b. h = [k \in 0..(n + 1) |-> h[k]]
  BY DEF Cut
<1> HIDE DEF h
<1>4. \A k \in 0..(n + 1) : k \in 0..n \/ k = n + 1
  BY <1>2
<1>5. \A k \in 0..(n + 1) : h[k] \in 0..(Len(t) + 1)
  <2>1. ASSUME NEW k \in 0..n PROVE h[k] \in 0..(Len(t) + 1)
    <3>1. g[k] \in 0..(Len(s) + 1) /\ h[k] = g[k]
      BY <1>1, <1>2, <1>3
    <3> QED BY <3>1
  <2>2. h[n + 1] \in 0..(Len(t) + 1)
    BY <1>3a
  <2> QED BY <1>4, <2>1, <2>2
<1>6. h \in [0..(n + 1) -> 0..(Len(t) + 1)]
  BY <1>3b, <1>5
<1>7. h[0] = 0 /\ h[n + 1] = Len(t) + 1
  BY <1>1, <1>2, <1>3, <1>3a
<1>8. ASSUME NEW j \in 0..(n + 1), NEW k \in 0..(n + 1), j < k PROVE h[j] < h[k]
  <2>1. j \in 0..n
    BY <1>2, <1>8
  <2>2. CASE k = n + 1
    <3>1. g[j] \in 0..(Len(s) + 1)
      BY <1>1, <1>2, <2>1
    <3> QED BY <1>3, <1>3a, <2>1, <2>2, <3>1
  <2>3. CASE k \in 0..n
    BY <1>1, <1>2, <1>3, <1>8, <2>1, <2>3
  <2> QED BY <1>4, <2>2, <2>3
<1>9. ASSUME NEW k \in 1..n PROVE t[h[k]].effect \in Openers
  <2>1. k \in 0..n /\ h[k] = g[k]
    BY <1>2, <1>3
  <2>2. CASE k = m + 1
    <3>1. n = m + 1
      BY <1>1, <1>2, <2>2
    <3> QED BY <1>1, <2>1, <2>2, <3>1
  <2>3. CASE k # m + 1
    <3>1. /\ k \in 1..m /\ 0 \in 0..(m + 1) /\ k \in 0..(m + 1) /\ m + 1 \in 0..(m + 1)
          /\ 0 < k /\ k < m + 1
      BY <1>1, <1>2, <2>3
    <3>2. g[0] < g[k] /\ g[k] < g[m + 1] /\ g[k] \in 0..(Len(s) + 1)
      BY <1>1, <3>1
    <3>3. g[k] \in 1..Len(s)
      BY SMTT(30), <1>1, <3>2
    <3> QED BY <1>1, <2>1, <3>1, <3>3
  <2> QED BY <2>2, <2>3
<1>10. ASSUME NEW k \in 0..n PROVE Bal(t, h[k] + 1, h[k + 1] - 1)
  <2>1. CASE k = n
    <3>1. h[k] = g[n] /\ h[k + 1] - 1 = Len(s) + 1
      BY <1>3, <1>3a, <2>1
    <3> QED BY <3>1
  <2>2. CASE k # n
    <3>1. k \in 0..m /\ k + 1 \in 0..n /\ k \in 0..(m + 1) /\ k + 1 \in 0..(m + 1) /\ k < k + 1
      BY <1>1, <1>2, <2>2
    <3>2. h[k] = g[k] /\ h[k + 1] = g[k + 1]
      BY <1>3, <3>1
    <3>3. PICK a : a = g[k]
      OBVIOUS
    <3>4. PICK b : b = g[k + 1]
      OBVIOUS
    <3>5. a \in 0..(Len(s) + 1) /\ b \in 0..(Len(s) + 1) /\ a < b
      BY <1>1, <3>1, <3>3, <3>4
    <3>6. /\ a + 1 \in 1..(Len(s) + 1) /\ b - 1 \in 0..Len(s) /\ Len(s) \in 0..Len(s)
          /\ Len(t) \in Nat /\ Len(s) <= Len(t)
      BY <3>5
    <3>7. \A p \in 1..Len(s) : t[p].effect = s[p].effect
      OBVIOUS
    <3>8. Bal(t, a + 1, b - 1) <=> Bal(s, a + 1, b - 1)
      BY <3>6, <3>7, BalancedLocal
    <3> QED BY <1>1, <3>1, <3>2, <3>3, <3>4, <3>8
  <2> QED BY <2>1, <2>2
<1>11. Stack(t, n, h)
  BY <1>2, <1>6, <1>7, <1>8, <1>9, <1>10 DEF Stack
<1> QED BY <1>11 DEF h

(* The open end of a stack, in the longer stream.                          *)
LEMMA StackEnd ==
    ASSUME NEW s, NEW t, Len(s) \in Nat, Len(t) \in Nat, Len(s) < Len(t),
           \A p \in 1..Len(s) : t[p] = s[p],
           NEW m, NEW g, Stack(s, m, g)
    PROVE  /\ m \in Nat /\ g[m] \in 0..Len(s) /\ Bal(t, g[m] + 1, Len(s))
           /\ m > 0 => /\ g[m] \in 1..Len(s) /\ g[m - 1] \in 0..(g[m] - 1)
                       /\ Bal(t, g[m - 1] + 1, g[m] - 1)
                       /\ t[g[m]].effect = s[g[m]].effect /\ s[g[m]].effect \in Openers
           /\ m = 0 => g[m] = 0
<1>1. /\ m \in Nat /\ g[0] = 0 /\ g[m + 1] = Len(s) + 1
      /\ \A k \in 0..(m + 1) : g[k] \in 0..(Len(s) + 1)
      /\ \A j, k \in 0..(m + 1) : j < k => g[j] < g[k]
      /\ \A k \in 1..m : s[g[k]].effect \in Openers
      /\ \A k \in 0..m : Bal(s, g[k] + 1, g[k + 1] - 1)
  BY DEF Stack
<1>2. Len(s) <= Len(t) /\ Len(s) \in 0..Len(s) /\ \A p \in 1..Len(s) : t[p].effect = s[p].effect
  OBVIOUS
<1>3. \A i \in 1..(Len(s) + 1) : \A j \in 0..Len(s) : Bal(t, i, j) <=> Bal(s, i, j)
  BY <1>2, BalancedLocal
<1>4. g[m] \in 0..Len(s) /\ Bal(t, g[m] + 1, Len(s))
  <2>1. m \in 0..(m + 1) /\ m + 1 \in 0..(m + 1) /\ m < m + 1 /\ m \in 0..m
    BY <1>1
  <2>2. g[m] \in 0..(Len(s) + 1) /\ g[m] < g[m + 1]
    BY <1>1, <2>1
  <2>3. g[m] \in 0..Len(s) /\ g[m] + 1 \in 1..(Len(s) + 1) /\ g[m + 1] - 1 = Len(s)
    BY SMTT(30), <1>1, <2>2
  <2>4. Bal(s, g[m] + 1, Len(s))
    BY <1>1, <2>1, <2>3
  <2> QED BY <1>2, <1>3, <2>3, <2>4
<1>5. ASSUME m > 0
      PROVE  /\ g[m] \in 1..Len(s) /\ g[m - 1] \in 0..(g[m] - 1)
             /\ Bal(t, g[m - 1] + 1, g[m] - 1)
             /\ t[g[m]].effect = s[g[m]].effect /\ s[g[m]].effect \in Openers
  <2>1. /\ m - 1 \in 0..(m + 1) /\ m \in 0..(m + 1) /\ m - 1 < m /\ m - 1 \in 0..m
        /\ (m - 1) + 1 = m /\ m \in 1..m
    BY <1>1, <1>5
  <2>2. PICK a : a = g[m - 1]
    OBVIOUS
  <2>3. PICK b : b = g[m]
    OBVIOUS
  <2>4. a \in 0..(Len(s) + 1) /\ a < b /\ b \in 0..Len(s)
    BY <1>1, <1>4, <2>1, <2>2, <2>3
  <2>5. b \in 1..Len(s) /\ a \in 0..(b - 1) /\ a + 1 \in 1..(Len(s) + 1) /\ b - 1 \in 0..Len(s)
    BY <2>4
  <2>6. Bal(s, a + 1, b - 1)
    BY <1>1, <2>1, <2>2, <2>3
  <2>7. Bal(t, a + 1, b - 1)
    BY <1>3, <2>5, <2>6
  <2> QED BY <1>1, <1>2, <2>1, <2>2, <2>3, <2>5, <2>7
<1> QED BY <1>1, <1>4, <1>5

LEMMA ReadNeutral ==
    ASSUME NEW s, IsStream(s), NEW x \in [effect : FlowEffect, token : Nat],
           NEW m, NEW g, Stack(s, m, g), x.effect \notin Openers \cup Closers
    PROVE  Stack(Append(s, x), m, Cut(g, m, Len(s) + 2))
<1>1. PICK t : t = Append(s, x)
  OBVIOUS
<1>2. /\ Len(t) = Len(s) + 1 /\ t[Len(s) + 1] = x
      /\ Len(s) \in Nat /\ \A p \in 1..Len(s) : t[p] = s[p]
  BY <1>1, Appended
<1>3. Len(s) \in Nat /\ Len(t) \in Nat /\ Len(s) < Len(t)
  BY <1>1, <1>2, Appended
<1>4. m \in Nat /\ g[m] \in 0..Len(s) /\ Bal(t, g[m] + 1, Len(s))
  BY <1>2, <1>3, StackEnd
<1>5. Bal(t, Len(s) + 1, Len(s) + 1)
  <2>1. /\ Len(s) + 1 \in 1..(Len(t) + 1) /\ Len(s) + 1 \in 0..Len(t)
        /\ (Len(s) + 1) + 1 \in 1..(Len(t) + 1) /\ (Len(s) + 1) + 1 > Len(s) + 1
    BY <1>2, <1>3
  <2>2. Bal(t, (Len(s) + 1) + 1, Len(s) + 1)
    BY <1>3, <2>1, BalancedUnfolds
  <2> QED BY <1>2, <1>3, <2>1, <2>2, BalancedUnfolds
<1>6. Bal(t, g[m] + 1, Len(s) + 1)
  <2>1. /\ Len(s) \in 0..Len(t) /\ Len(s) + 1 \in Len(s)..Len(t) /\ g[m] + 1 \in 1..(Len(s) + 1)
    BY <1>2, <1>3, <1>4
  <2> QED BY <1>3, <1>4, <1>5, <2>1, BalancedJoin
<1>7. m \in 0..(m + 1) /\ m # m + 1
  BY <1>4
<1> QED BY <1>1, <1>2, <1>3, <1>6, <1>7, Restacked

LEMMA ReadOpener ==
    ASSUME NEW s, IsStream(s), NEW x \in [effect : FlowEffect, token : Nat],
           NEW m, NEW g, Stack(s, m, g), x.effect \in Openers
    PROVE  Stack(Append(s, x), m + 1, Cut(g, m + 1, Len(s) + 2))
<1>1. PICK t : t = Append(s, x)
  OBVIOUS
<1>2. /\ Len(t) = Len(s) + 1 /\ t[Len(s) + 1] = x
      /\ Len(s) \in Nat /\ \A p \in 1..Len(s) : t[p] = s[p]
  BY <1>1, Appended
<1>3. Len(s) \in Nat /\ Len(t) \in Nat
  BY <1>1, Appended
<1>4. m + 1 \in 0..(m + 1) /\ g[m + 1] = Len(s) + 1
  BY DEF Stack
<1>5. Bal(t, g[m + 1] + 1, Len(s) + 1)
  <2>1. /\ (Len(s) + 1) + 1 \in 1..(Len(t) + 1) /\ Len(s) + 1 \in 0..Len(t)
        /\ (Len(s) + 1) + 1 > Len(s) + 1
    BY <1>2, <1>3
  <2>2. Bal(t, (Len(s) + 1) + 1, Len(s) + 1)
    BY <1>3, <2>1, BalancedUnfolds
  <2> QED BY <1>4, <2>2
<1> QED BY <1>1, <1>2, <1>3, <1>4, <1>5, Restacked

LEMMA ReadCloser ==
    ASSUME NEW s, IsStream(s), NEW x \in [effect : FlowEffect, token : Nat],
           NEW m, NEW g, Stack(s, m, g), m > 0, x.effect = Closer[s[g[m]].effect]
    PROVE  Stack(Append(s, x), m - 1, Cut(g, m - 1, Len(s) + 2))
<1>1. PICK t : t = Append(s, x)
  OBVIOUS
<1>2. /\ Len(t) = Len(s) + 1 /\ t[Len(s) + 1] = x
      /\ Len(s) \in Nat /\ \A p \in 1..Len(s) : t[p] = s[p]
  BY <1>1, Appended
<1>3. Len(s) \in Nat /\ Len(t) \in Nat /\ Len(s) < Len(t)
  BY <1>1, <1>2, Appended
<1>4. /\ m \in Nat /\ Bal(t, g[m] + 1, Len(s))
      /\ g[m] \in 1..Len(s) /\ g[m - 1] \in 0..(g[m] - 1)
      /\ Bal(t, g[m - 1] + 1, g[m] - 1)
      /\ t[g[m]].effect = s[g[m]].effect /\ s[g[m]].effect \in Openers
  BY <1>2, <1>3, StackEnd
<1>5. PICK b : b = g[m]
  OBVIOUS
<1>6. PICK a : a = g[m - 1]
  OBVIOUS
<1>7. PICK e : e = Len(s) + 1
  OBVIOUS
<1>8. /\ b \in 1..Len(s) /\ a \in 0..(b - 1) /\ e \in Nat /\ Len(t) = e /\ e - 1 = Len(s)
  BY <1>2, <1>3, <1>4, <1>5, <1>6, <1>7
<1>9. Bal(t, b, e)
  <2>1. /\ b \in 1..(Len(t) + 1) /\ e \in 0..Len(t) /\ e \in (b + 1)..e
        /\ e + 1 \in 1..(Len(t) + 1) /\ e + 1 > e
    BY <1>8
  <2>2. Bal(t, e + 1, e)
    BY <1>3, <2>1, BalancedUnfolds
  <2>3. t[b].effect \in Openers /\ t[e].effect = Closer[t[b].effect] /\ Bal(t, b + 1, e - 1)
    BY <1>2, <1>4, <1>5, <1>7, <1>8
  <2> QED BY <1>3, <2>1, <2>2, <2>3, BalancedUnfolds
<1>10. Bal(t, a + 1, e)
  <2>1. PICK h : h = b - 1
    OBVIOUS
  <2>2. h \in 0..Len(t) /\ e \in h..Len(t) /\ h + 1 = b /\ a + 1 \in 1..(h + 1)
    BY <1>8, <2>1
  <2>3. Bal(t, a + 1, h) /\ Bal(t, h + 1, e)
    BY <1>4, <1>5, <1>6, <1>9, <2>1, <2>2
  <2> QED BY <1>3, <2>2, <2>3, BalancedJoin
<1>11. m - 1 \in 0..(m + 1) /\ m - 1 # m + 1
  BY <1>4
<1>12. Bal(t, g[m - 1] + 1, Len(s) + 1)
  BY <1>6, <1>7, <1>10
<1> QED BY <1>1, <1>2, <1>3, <1>11, <1>12, Restacked

(* The completion of a stream begins with the stream.                      *)
LEMMA CompletedExtends ==
    ASSUME NEW s, IsStream(s)
    PROVE  LET C == Completed(s)
           IN  /\ Len(C) \in Nat /\ Len(s) <= Len(C)
               /\ \A p \in 1..Len(s) : C[p] = s[p]
<1> DEFINE open == {i \in DOMAIN s : s[i].effect \in Openers /\ Closings(s, i) = {}}
           n == Cardinality(open)
           Ender(k) == [effect |-> Closer[s[Slot(open, n + 1 - k)].effect], token |-> 0]
           rest == [k \in 1..n |-> Ender(k)]
           R == [effect : FlowEffect, token : Nat]
           S == R \cup {Ender(k) : k \in 1..n}
<1>1. Completed(s) = s \o rest
  BY DEF Completed
<1>2. n \in Nat
  <2>1. open \in SUBSET (1..Len(s)) /\ Len(s) \in Nat
    BY StreamLength
  <2> HIDE DEF open
  <2>2. IsFiniteSet(1..Len(s))
    BY <2>1, FS_Interval
  <2>3. IsFiniteSet(open)
    BY <2>1, <2>2, FS_Subset
  <2> QED BY <2>3, FS_CardinalityType
<1> HIDE DEF open, n, Ender
<1>3. rest \in Seq(S) /\ Len(rest) = n
  BY <1>2
<1>4. s \in Seq(S)
  <2>1. s \in Seq(R) /\ R \subseteq S
    BY DEF IsStream
  <2> HIDE DEF R, S
  <2> QED BY <2>1
<1> HIDE DEF rest, S
<1> QED BY <1>1, <1>2, <1>3, <1>4

(* A marker that closes nothing, or not what was opened last.              *)
LEMMA WrongCloser ==
    ASSUME NEW s, IsStream(s), NEW x \in [effect : FlowEffect, token : Nat],
           NEW m, NEW g, Stack(s, m, g), x.effect \in Closers,
           m > 0 => x.effect # Closer[s[g[m]].effect]
    PROVE  ~WellNested(Completed(Append(s, x)))
<1>1. PICK t : t = Append(s, x)
  OBVIOUS
<1>2. /\ IsStream(t) /\ Len(t) = Len(s) + 1 /\ t[Len(s) + 1] = x /\ Len(s) \in Nat
      /\ \A p \in 1..Len(s) : t[p] = s[p]
  BY <1>1, Appended
<1>3. PICK C : C = Completed(t)
  OBVIOUS
<1>4. /\ Len(C) \in Nat /\ Len(t) <= Len(C) /\ \A p \in 1..Len(t) : C[p] = t[p]
  BY <1>2, <1>3, CompletedExtends
<1>5. /\ Len(s) < Len(C) /\ C[Len(s) + 1] = x /\ \A p \in 1..Len(s) : C[p] = s[p]
  <2>1. Len(s) + 1 \in 1..Len(t) /\ \A p \in 1..Len(s) : p \in 1..Len(t)
    BY <1>2
  <2> QED BY <1>2, <1>4, <2>1
<1>6. /\ m \in Nat /\ g[m] \in 0..Len(s) /\ Bal(C, g[m] + 1, Len(s))
      /\ m > 0 => /\ g[m] \in 1..Len(s)
                  /\ C[g[m]].effect = s[g[m]].effect /\ s[g[m]].effect \in Openers
      /\ m = 0 => g[m] = 0
  BY SMTT(30), <1>2, <1>4, <1>5, StackEnd
<1> SUFFICES ASSUME Bal(C, 1, Len(C)) PROVE FALSE
  BY <1>1, <1>3 DEF WellNested, Bal
<1>7. PICK n : n = Len(s)
  OBVIOUS
<1>8. /\ n \in Nat /\ n + 1 \in 1..Len(C) /\ n \in 0..Len(C) /\ n <= Len(C)
      /\ Len(C) \in (n + 1)..Len(C) /\ C[n + 1].effect \in Closers
      /\ 1 \in 1..(Len(C) + 1) /\ Len(C) \in 0..Len(C)
  BY <1>2, <1>4, <1>5, <1>7
<1>9. CASE m = 0
  <2>1. Bal(C, 1, n) /\ 1 <= n + 1
    BY <1>6, <1>7, <1>8, <1>9
  <2>2. Bal(C, n + 1, Len(C))
    BY <1>4, <1>8, <2>1, BalancedRest
  <2> QED BY <1>4, <1>8, <2>2, CloserAhead
<1>10. CASE m > 0
  <2>1. PICK b : b = g[m]
    OBVIOUS
  <2>2. /\ b \in 1..n /\ C[b].effect \in Openers /\ Bal(C, b + 1, n)
        /\ x.effect # Closer[C[b].effect] /\ b \in 1..Len(C)
    BY <1>6, <1>7, <1>8, <1>10, <2>1
  <2>3. PICK c \in (b + 1)..Len(C) : C[c].effect = Closer[C[b].effect] /\ Bal(C, b + 1, c - 1)
    BY <1>4, <1>8, <2>2, BalancedCloses
  <2>4. /\ b + 1 \in 1..(Len(C) + 1) /\ c - 1 \in 0..Len(C) /\ b + 1 <= n + 1
        /\ b + 1 <= (c - 1) + 1 /\ (c - 1) + 1 = c /\ c \in 1..Len(C)
    BY SMTT(30), <1>8, <2>2, <2>3
  <2>5. CASE c <= n
    <3>1. c - 1 <= n /\ n \in c..Len(C)
      BY <1>8, <2>3, <2>5
    <3>2. Bal(C, c, n)
      BY <1>4, <1>8, <2>2, <2>3, <2>4, <3>1, BalancedRest
    <3>3. C[c].effect \in Closers
      BY <2>2, <2>3, Markers
    <3> QED BY <1>4, <2>4, <3>1, <3>2, <3>3, CloserAhead
  <2>6. CASE c = n + 1
    BY <1>5, <1>7, <2>2, <2>3, <2>6
  <2>7. CASE c > n + 1
    <3>1. n <= c - 1 /\ c - 1 \in (n + 1)..Len(C)
      BY <1>8, <2>3, <2>7
    <3>2. Bal(C, n + 1, c - 1)
      BY <1>4, <1>8, <2>2, <2>3, <2>4, <3>1, BalancedRest
    <3> QED BY <1>4, <1>8, <3>1, <3>2, CloserAhead
  <2> QED BY <1>8, <2>3, <2>5, <2>6, <2>7
<1> QED BY <1>6, <1>9, <1>10

-----------------------------------------------------------------------------
(* The builder's stack of scopes beside the open scopes of the stream.     *)
IsList(q) == \E S : q \in Seq(S)

Scope(r) ==
    /\ r \in [scope : {r.scope}, block : {r.block}, arm_exits : {r.arm_exits},
              break_exits : {r.break_exits}]
    /\ r.scope \in Openers /\ IsList(r.arm_exits) /\ IsList(r.break_exits)

ScopeList(sc) == (\E S : sc \in Seq(S)) /\ \A k \in 1..Len(sc) : Scope(sc[k])

Matches(sc, s, g) == \A k \in 1..Len(sc) : sc[k].scope = s[g[k]].effect

Nest(s, sc) ==
    /\ IsStream(s) /\ ScopeList(sc)
    /\ \E g : Stack(s, Len(sc), g) /\ Matches(sc, s, g)
    /\ \A p \in 1..Len(s) : Placed(s, p)

(* The scopes of the kinds an instruction asks for are there.              *)
Fits(sc, effect) ==
    /\ effect = "else" => sc # <<>> /\ sc[Len(sc)].scope = "if"
    /\ effect = "case" => sc # <<>> /\ sc[Len(sc)].scope = "switch"
    /\ effect \in {"break", "conditional_break"} =>
          \E k \in 1..Len(sc) : sc[k].scope \in {"loop", "switch"}
    /\ effect \in {"continue", "conditional_continue"} =>
          \E k \in 1..Len(sc) : sc[k].scope \in {"loop"}

LEMMA ScopeCount ==
    ASSUME NEW sc, ScopeList(sc)
    PROVE  Len(sc) \in Nat /\ DOMAIN sc = 1..Len(sc) /\ (sc = <<>> <=> Len(sc) = 0)
<1>1. PICK S : sc \in Seq(S)
  BY DEF ScopeList
<1> QED BY <1>1

LEMMA EnclosingTop ==
    ASSUME NEW s, IsStream(s), NEW x \in [effect : FlowEffect, token : Nat],
           NEW m, NEW g, Stack(s, m, g), NEW kinds \in SUBSET Openers
    PROVE  Enclosing(Append(s, x), Len(s) + 1, kinds)
             = {g[k] : k \in {j \in 1..m : s[g[j]].effect \in kinds}}
<1>1. PICK t : t = Append(s, x)
  OBVIOUS
<1>2. /\ Len(s) \in Nat /\ Len(t) \in Nat /\ Len(s) <= Len(t) /\ DOMAIN s = 1..Len(s)
      /\ \A p \in 1..Len(s) : t[p] = s[p]
  BY <1>1, Appended, StreamLength
<1>3. Enclosing(t, Len(s) + 1, kinds) = Enclosing(s, Len(s) + 1, kinds)
  <2>1. /\ Len(s) + 1 \in 1..(Len(s) + 1)
        /\ \A k \in 1..((Len(s) + 1) - 1) : t[k].effect = s[k].effect
    <3>1. (Len(s) + 1) - 1 = Len(s)
      BY <1>2
    <3> QED BY <1>2, <3>1
  <2> QED BY <1>2, <2>1, EnclosingLocal
<1>4. \A i \in 1..Len(s) : (\A c \in Closings(s, i) : Len(s) + 1 <= c) <=> Closings(s, i) = {}
  <2>1. \A i \in 1..Len(s) : \A c \in Closings(s, i) : c \in (i + 1)..Len(s)
    BY DEF Closings
  <2>2. \A i \in 1..Len(s) : \A c \in Closings(s, i) : ~(Len(s) + 1 <= c)
    BY <1>2, <2>1
  <2> QED BY <2>2
<1>5. (Len(s) + 1) - 1 = Len(s)
  BY <1>2
<1>6. Enclosing(s, Len(s) + 1, kinds)
        = {i \in 1..Len(s) : s[i].effect \in kinds /\ Closings(s, i) = {}}
  BY <1>4, <1>5 DEF Enclosing
<1>7. {i \in DOMAIN s : s[i].effect \in Openers /\ Closings(s, i) = {}} = {g[k] : k \in 1..m}
  BY StackedAre
<1>8. \A i : i \in 1..Len(s) /\ s[i].effect \in Openers /\ Closings(s, i) = {}
                <=> \E k \in 1..m : i = g[k]
  BY <1>2, <1>7
<1> QED BY <1>1, <1>3, <1>6, <1>8

LEMMA PlacedFits ==
    ASSUME NEW s, IsStream(s), NEW x \in [effect : FlowEffect, token : Nat],
           NEW sc, ScopeList(sc), NEW g, Stack(s, Len(sc), g), Matches(sc, s, g)
    PROVE  Placed(Append(s, x), Len(s) + 1) <=> Fits(sc, x.effect)
<1>1. PICK t : t = Append(s, x)
  OBVIOUS
<1>2. PICK m : m = Len(sc)
  OBVIOUS
<1>3. /\ Len(s) \in Nat /\ t[Len(s) + 1] = x /\ \A p \in 1..Len(s) : t[p] = s[p]
      /\ m \in Nat /\ (sc = <<>> <=> m = 0)
  BY <1>1, <1>2, Appended, ScopeCount
<1>4. ASSUME NEW kinds \in SUBSET Openers
      PROVE  Enclosing(t, Len(s) + 1, kinds)
               = {g[k] : k \in {j \in 1..m : sc[j].scope \in kinds}}
  <2>1. Enclosing(t, Len(s) + 1, kinds)
          = {g[k] : k \in {j \in 1..m : s[g[j]].effect \in kinds}}
    BY <1>1, <1>2, EnclosingTop
  <2>2. \A j \in 1..m : sc[j].scope = s[g[j]].effect
    BY <1>2 DEF Matches
  <2> QED BY <2>1, <2>2
<1>5. /\ \A k \in 1..m : g[k] \in 1..Len(s) /\ sc[k].scope \in Openers
      /\ \A j, k \in 1..m : j < k => g[j] < g[k]
  <2>1. /\ \A k \in 1..m : g[k] \in 1..Len(s)
        /\ \A j, k \in 1..m : j < k => g[j] < g[k]
    BY <1>2, StackedAre
  <2>2. \A k \in 1..m : sc[k].scope \in Openers
    BY <1>2 DEF ScopeList, Scope
  <2> QED BY <2>1, <2>2
<1>6. ASSUME NEW kinds \in SUBSET Openers
      PROVE  Enclosing(t, Len(s) + 1, kinds) # {} <=> \E k \in 1..m : sc[k].scope \in kinds
  <2>1. PICK E : E = Enclosing(t, Len(s) + 1, kinds)
    OBVIOUS
  <2>2. E = {g[k] : k \in {j \in 1..m : sc[j].scope \in kinds}}
    BY <1>4, <2>1
  <2> QED BY <2>1, <2>2
<1>7. ASSUME NEW kind
      PROVE  DirectlyIn(t, Len(s) + 1, kind) <=> m # 0 /\ sc[m].scope = kind
  <2> DEFINE E == Enclosing(t, Len(s) + 1, Openers)
  <2>1. E = {g[k] : k \in 1..m}
    <3>1. Openers \in SUBSET Openers
      OBVIOUS
    <3>2. E = {g[k] : k \in {j \in 1..m : sc[j].scope \in Openers}}
      BY <1>4, <3>1
    <3>3. {j \in 1..m : sc[j].scope \in Openers} = 1..m
      BY <1>5
    <3> QED BY <3>2, <3>3
  <2> HIDE DEF E
  <2>2. E \in SUBSET (1..Len(s))
    BY <1>5, <2>1
  <2>3. CASE m = 0
    <3>1. E = {}
      BY <2>1, <2>3
    <3>2. Inner(E) = 0
      BY <1>3, <2>2, <3>1, InnerIs
    <3> QED BY <2>3, <3>2 DEF DirectlyIn, E
  <2>4. CASE m # 0
    <3>1. m \in 1..m
      BY <1>3, <2>4
    <3>2. g[m] \in E
      BY <2>1, <3>1
    <3>3. Inner(E) \in E /\ \A j \in E : j <= Inner(E)
      BY <1>3, <2>2, <3>2, InnerIs
    <3>4. PICK k \in 1..m : Inner(E) = g[k]
      BY <2>1, <3>3
    <3>5. ~(k < m)
      <4>1. g[m] <= g[k] /\ g[m] \in Int /\ g[k] \in Int
        BY <1>5, <3>1, <3>2, <3>3, <3>4
      <4>2. ~(g[k] < g[m])
        BY <4>1
      <4> QED BY <1>5, <3>1, <4>2
    <3>6. k = m
      BY <1>3, <3>5
    <3>7. Inner(E) = g[m] /\ g[m] \in 1..Len(s) /\ g[m] # 0
      BY <1>5, <3>1, <3>4, <3>6
    <3>8. t[g[m]].effect = sc[m].scope
      BY <1>2, <1>3, <3>1, <3>7 DEF Matches
    <3> QED BY <2>4, <3>7, <3>8 DEF DirectlyIn, E
  <2> QED BY <2>3, <2>4
<1>8. {"loop", "switch"} \in SUBSET Openers /\ {"loop"} \in SUBSET Openers
  BY DEF Openers
<1>9. /\ Enclosing(t, Len(s) + 1, {"loop", "switch"}) # {}
           <=> \E k \in 1..m : sc[k].scope \in {"loop", "switch"}
      /\ Enclosing(t, Len(s) + 1, {"loop"}) # {}
           <=> \E k \in 1..m : sc[k].scope \in {"loop"}
  BY <1>6, <1>8
<1> QED BY <1>1, <1>2, <1>3, <1>7, <1>9 DEF Placed, Fits

(* What was in its place stays there.                                      *)
LEMMA PlacedStay ==
    ASSUME NEW s, IsStream(s), NEW x \in [effect : FlowEffect, token : Nat]
    PROVE  \A p \in 1..Len(s) : Placed(Append(s, x), p) <=> Placed(s, p)
<1>1. PICK t : t = Append(s, x)
  OBVIOUS
<1>2. /\ Len(s) \in Nat /\ Len(t) \in Nat /\ Len(s) <= Len(t)
      /\ \A p \in 1..Len(s) : t[p] = s[p]
  BY <1>1, Appended
<1>3. ASSUME NEW p \in 1..Len(s) PROVE Placed(t, p) <=> Placed(s, p)
  <2>1. \A k \in 1..p : t[k].effect = s[k].effect
    BY SMTT(30), <1>2
  <2> QED BY <1>2, <2>1, PlacedLocal
<1> QED BY <1>1, <1>3

(* The matching goes on over what the stack keeps.                         *)
CarriesOver(s, x, m, g, n) ==
    \A k \in 1..n : /\ Cut(g, n, Len(s) + 2)[k] = g[k]
                    /\ k <= m => Append(s, x)[g[k]] = s[g[k]]
                    /\ k = m + 1 => Append(s, x)[g[k]] = x

LEMMA MatchesCut ==
    ASSUME NEW s, IsStream(s), NEW x \in [effect : FlowEffect, token : Nat],
           NEW m, NEW g, Stack(s, m, g), NEW n \in 0..(m + 1)
    PROVE  CarriesOver(s, x, m, g, n)
<1> SUFFICES ASSUME NEW k \in 1..n
             PROVE  /\ Cut(g, n, Len(s) + 2)[k] = g[k]
                    /\ k <= m => Append(s, x)[g[k]] = s[g[k]]
                    /\ k = m + 1 => Append(s, x)[g[k]] = x
  BY DEF CarriesOver
<1>1. m \in Nat /\ g[m + 1] = Len(s) + 1 /\ \A j \in 1..m : g[j] \in 1..Len(s)
  BY StackedAre DEF Stack
<1>2. k \in 0..(n + 1) /\ k <= n
  BY <1>1
<1>3. Cut(g, n, Len(s) + 2)[k] = g[k]
  BY <1>2 DEF Cut
<1>4. /\ Append(s, x)[Len(s) + 1] = x /\ \A p \in 1..Len(s) : Append(s, x)[p] = s[p]
  BY Appended
<1>5. k <= m => k \in 1..m
  BY <1>1
<1> QED BY <1>1, <1>3, <1>4, <1>5

-----------------------------------------------------------------------------
(* How the open scopes of the stream go on with the builder's stack.       *)
LEMMA NestFrom ==
    ASSUME NEW s, IsStream(s), NEW x \in [effect : FlowEffect, token : Nat],
           NEW m, NEW g, Stack(s, m, g), \A p \in 1..Len(s) : Placed(s, p),
           Placed(Append(s, x), Len(s) + 1),
           NEW n \in 0..(m + 1), Stack(Append(s, x), n, Cut(g, n, Len(s) + 2)),
           NEW sc, ScopeList(sc), Len(sc) = n,
           \A k \in 1..n : /\ k <= m => sc[k].scope = s[g[k]].effect
                           /\ k = m + 1 => sc[k].scope = x.effect
    PROVE  Nest(Append(s, x), sc)
<1>1. PICK t : t = Append(s, x)
  OBVIOUS
<1>2. PICK h : h = Cut(g, n, Len(s) + 2)
  OBVIOUS
<1>3. /\ IsStream(t) /\ Len(t) = Len(s) + 1 /\ Len(s) \in Nat
  BY <1>1, Appended
<1>4. \A p \in 1..Len(t) : Placed(t, p)
  <2>1. \A p \in 1..Len(s) : Placed(t, p)
    BY <1>1, PlacedStay
  <2>2. Placed(t, Len(s) + 1)
    BY <1>1
  <2>3. \A p \in 1..Len(t) : p \in 1..Len(s) \/ p = Len(s) + 1
    BY <1>3
  <2> QED BY <2>1, <2>2, <2>3
<1>5. m \in Nat
  BY DEF Stack
<1>6. ASSUME NEW k \in 1..n PROVE sc[k].scope = t[h[k]].effect
  <2>0. CarriesOver(s, x, m, g, n)
    BY MatchesCut
  <2>1. /\ h[k] = g[k]
        /\ k <= m => t[g[k]] = s[g[k]]
        /\ k = m + 1 => t[g[k]] = x
    BY <1>1, <1>2, <2>0 DEF CarriesOver
  <2>2. k <= m \/ k = m + 1
    BY <1>5
  <2>3. CASE k <= m
    BY <2>1, <2>3
  <2>4. CASE k = m + 1
    BY <2>1, <2>4
  <2> QED BY <2>2, <2>3, <2>4
<1>7. Stack(t, Len(sc), h) /\ Matches(sc, t, h)
  BY <1>1, <1>2, <1>6 DEF Matches
<1> QED BY <1>1, <1>3, <1>4, <1>7 DEF Nest

LEMMA NestParts ==
    ASSUME NEW s, NEW sc, Nest(s, sc)
    PROVE  /\ IsStream(s) /\ ScopeList(sc) /\ Len(sc) \in Nat
           /\ (sc = <<>> <=> Len(sc) = 0)
           /\ \A p \in 1..Len(s) : Placed(s, p)
           /\ \E g : /\ Stack(s, Len(sc), g) /\ Matches(sc, s, g)
                     /\ \A k \in 1..Len(sc) : sc[k].scope = s[g[k]].effect
<1>1. PICK g : Stack(s, Len(sc), g) /\ Matches(sc, s, g)
  BY DEF Nest
<1>2. \A k \in 1..Len(sc) : sc[k].scope = s[g[k]].effect
  BY <1>1 DEF Matches
<1>3. /\ IsStream(s) /\ ScopeList(sc) /\ \A p \in 1..Len(s) : Placed(s, p)
  BY DEF Nest
<1> QED BY <1>1, <1>2, <1>3, ScopeCount

(* An instruction that is no marker and in its place leaves the scopes.    *)
LEMMA NestKept ==
    ASSUME NEW s, NEW sc, Nest(s, sc), NEW x \in [effect : FlowEffect, token : Nat],
           x.effect \notin Openers \cup Closers, Fits(sc, x.effect),
           NEW sc2, ScopeList(sc2), Len(sc2) = Len(sc),
           \A k \in 1..Len(sc) : sc2[k].scope = sc[k].scope
    PROVE  Nest(Append(s, x), sc2)
<1>1. /\ IsStream(s) /\ ScopeList(sc) /\ Len(sc) \in Nat
      /\ \A p \in 1..Len(s) : Placed(s, p)
  BY NestParts
<1>2. PICK g : /\ Stack(s, Len(sc), g) /\ Matches(sc, s, g)
               /\ \A k \in 1..Len(sc) : sc[k].scope = s[g[k]].effect
  BY NestParts
<1>3. PICK m : m = Len(sc)
  OBVIOUS
<1>4. /\ Stack(s, m, g) /\ Stack(Append(s, x), m, Cut(g, m, Len(s) + 2))
  BY <1>1, <1>2, <1>3, ReadNeutral
<1>5. Placed(Append(s, x), Len(s) + 1)
  BY <1>1, <1>2, PlacedFits
<1>6. m \in 0..(m + 1)
  BY <1>1, <1>3
<1>7. \A k \in 1..m : /\ k <= m => sc2[k].scope = s[g[k]].effect
                      /\ k = m + 1 => sc2[k].scope = x.effect
  <2>1. \A k \in 1..m : k # m + 1
    BY <1>1, <1>3
  <2> QED BY <1>2, <1>3, <2>1
<1> QED BY SMTT(30), <1>1, <1>3, <1>4, <1>5, <1>6, <1>7, NestFrom

LEMMA MarkersFit ==
    ASSUME NEW sc, NEW effect \in Openers \cup Closers
    PROVE  Fits(sc, effect)
BY DEF Fits, Openers, Closers

LEMMA NestOpened ==
    ASSUME NEW s, NEW sc, Nest(s, sc), NEW x \in [effect : FlowEffect, token : Nat],
           x.effect \in Openers,
           NEW sc2, ScopeList(sc2), Len(sc2) = Len(sc) + 1,
           \A k \in 1..Len(sc) : sc2[k].scope = sc[k].scope,
           sc2[Len(sc) + 1].scope = x.effect
    PROVE  Nest(Append(s, x), sc2)
<1>1. /\ IsStream(s) /\ ScopeList(sc) /\ Len(sc) \in Nat
      /\ \A p \in 1..Len(s) : Placed(s, p)
  BY NestParts
<1>2. PICK g : /\ Stack(s, Len(sc), g) /\ Matches(sc, s, g)
               /\ \A k \in 1..Len(sc) : sc[k].scope = s[g[k]].effect
  BY NestParts
<1>3. PICK m : m = Len(sc)
  OBVIOUS
<1>4. /\ Stack(s, m, g) /\ Stack(Append(s, x), m + 1, Cut(g, m + 1, Len(s) + 2))
  BY <1>1, <1>2, <1>3, ReadOpener
<1>5. Placed(Append(s, x), Len(s) + 1)
  BY <1>1, <1>2, PlacedFits, MarkersFit
<1>6. PICK n : n = m + 1
  OBVIOUS
<1>7. n \in 0..(m + 1) /\ Len(sc2) = n
  BY <1>1, <1>3, <1>6
<1>8. \A k \in 1..n : /\ k <= m => sc2[k].scope = s[g[k]].effect
                      /\ k = m + 1 => sc2[k].scope = x.effect
  <2>1. \A k \in 1..n : k <= m => k \in 1..m
    BY <1>1, <1>3, <1>6
  <2> QED BY <1>2, <1>3, <2>1
<1>9. Stack(Append(s, x), n, Cut(g, n, Len(s) + 2))
  BY <1>4, <1>6
<1> QED BY <1>1, <1>4, <1>5, <1>7, <1>8, <1>9, NestFrom

LEMMA NestClosed ==
    ASSUME NEW s, NEW sc, Nest(s, sc), NEW x \in [effect : FlowEffect, token : Nat],
           sc # <<>>, x.effect = Closer[sc[Len(sc)].scope],
           NEW sc2, ScopeList(sc2), Len(sc2) = Len(sc) - 1,
           \A k \in 1..(Len(sc) - 1) : sc2[k].scope = sc[k].scope
    PROVE  Nest(Append(s, x), sc2)
<1>1. /\ IsStream(s) /\ ScopeList(sc) /\ Len(sc) \in Nat /\ Len(sc) # 0
      /\ \A p \in 1..Len(s) : Placed(s, p)
  BY NestParts
<1>2. PICK g : /\ Stack(s, Len(sc), g) /\ Matches(sc, s, g)
               /\ \A k \in 1..Len(sc) : sc[k].scope = s[g[k]].effect
  BY NestParts
<1>3. PICK m : m = Len(sc)
  OBVIOUS
<1>4. m \in Nat /\ m > 0 /\ m \in 1..m
  BY <1>1, <1>3
<1>5. sc[m].scope = s[g[m]].effect /\ x.effect = Closer[s[g[m]].effect]
  BY <1>2, <1>3, <1>4
<1>6. /\ Stack(s, m, g) /\ Stack(Append(s, x), m - 1, Cut(g, m - 1, Len(s) + 2))
  BY <1>1, <1>2, <1>3, <1>4, <1>5, ReadCloser
<1>7. x.effect \in Closers
  <2>1. s[g[m]].effect \in Openers
    BY <1>4, <1>6 DEF Stack
  <2> QED BY <1>5, <2>1, Markers
<1>8. Placed(Append(s, x), Len(s) + 1)
  BY <1>1, <1>2, <1>7, PlacedFits, MarkersFit
<1>9. PICK n : n = m - 1
  OBVIOUS
<1>10. n \in 0..(m + 1) /\ Len(sc2) = n
  BY <1>3, <1>4, <1>9
<1>11. \A k \in 1..n : /\ k <= m => sc2[k].scope = s[g[k]].effect
                       /\ k = m + 1 => sc2[k].scope = x.effect
  <2>1. \A k \in 1..n : k \in 1..m /\ k \in 1..(Len(sc) - 1) /\ k # m + 1
    BY <1>3, <1>4, <1>9
  <2> QED BY <1>2, <1>3, <2>1
<1>12. Stack(Append(s, x), n, Cut(g, n, Len(s) + 2))
  BY <1>6, <1>9
<1> QED BY <1>1, <1>6, <1>8, <1>10, <1>11, <1>12, NestFrom

(* An instruction that the builder refuses has no place.                   *)
LEMMA NestRefusesCloser ==
    ASSUME NEW s, NEW sc, Nest(s, sc), NEW x \in [effect : FlowEffect, token : Nat],
           x.effect \in Closers, sc = <<>> \/ x.effect # Closer[sc[Len(sc)].scope]
    PROVE  ~WellNested(Completed(Append(s, x)))
<1>1. IsStream(s) /\ ScopeList(sc) /\ Len(sc) \in Nat /\ (sc = <<>> <=> Len(sc) = 0)
  BY NestParts
<1>2. PICK g : /\ Stack(s, Len(sc), g) /\ Matches(sc, s, g)
               /\ \A k \in 1..Len(sc) : sc[k].scope = s[g[k]].effect
  BY NestParts
<1>3. PICK m : m = Len(sc)
  OBVIOUS
<1>4. m > 0 => sc # <<>> /\ m \in 1..m
  BY <1>1, <1>3
<1>5. m > 0 => x.effect # Closer[s[g[m]].effect]
  BY <1>2, <1>3, <1>4
<1> QED BY <1>1, <1>2, <1>3, <1>5, WrongCloser

LEMMA NestRefusesOther ==
    ASSUME NEW s, NEW sc, Nest(s, sc), NEW x \in [effect : FlowEffect, token : Nat],
           x.effect \notin Openers \cup Closers, ~Fits(sc, x.effect)
    PROVE  ~WellNested(Completed(Append(s, x)))
<1>1. IsStream(s) /\ ScopeList(sc) /\ Len(sc) \in Nat
  BY NestParts
<1>2. PICK g : Stack(s, Len(sc), g) /\ Matches(sc, s, g)
  BY NestParts
<1>3. PICK t : t = Append(s, x)
  OBVIOUS
<1>4. PICK m : m = Len(sc)
  OBVIOUS
<1>5. Stack(t, m, Cut(g, m, Len(s) + 2))
  BY <1>1, <1>2, <1>3, <1>4, ReadNeutral
<1>6. ~Placed(t, Len(s) + 1)
  BY <1>1, <1>2, <1>3, PlacedFits
<1>7. IsStream(t) /\ Len(s) + 1 \in 1..Len(t)
  BY <1>1, <1>3, Appended
<1>8. WellNested(Completed(t)) <=> \A p \in 1..Len(t) : Placed(t, p)
  BY <1>5, <1>7, CompletedNests
<1> QED BY <1>3, <1>6, <1>7, <1>8

(* What is known of the stream while it is read and when it ends.          *)
LEMMA NestCompletes ==
    ASSUME NEW s, NEW sc, Nest(s, sc)
    PROVE  /\ WellNested(Completed(s))
           /\ WellNested(s) <=> sc = <<>>
<1>1. /\ IsStream(s) /\ ScopeList(sc) /\ Len(sc) \in Nat /\ (sc = <<>> <=> Len(sc) = 0)
      /\ \A p \in 1..Len(s) : Placed(s, p)
  BY NestParts
<1>2. PICK g : Stack(s, Len(sc), g)
  BY NestParts
<1>3. PICK m : m = Len(sc)
  OBVIOUS
<1>4. Stack(s, m, g) /\ m \in Nat
  BY <1>1, <1>2, <1>3
<1>5. WellNested(Completed(s))
  BY <1>1, <1>4, CompletedNests
<1>6. CASE sc = <<>>
  <2>1. m = 0
    BY <1>1, <1>3, <1>6
  <2>2. PICK C : C = Completed(s)
    OBVIOUS
  <2>3. /\ IsStream(C) /\ Len(C) = Len(s) + m /\ \A p \in 1..Len(s) : C[p] = s[p]
    BY <1>1, <1>4, <2>2, CompletedIs
  <2>4. Len(s) \in Nat /\ DOMAIN s = 1..Len(s) /\ DOMAIN C = 1..Len(C)
    BY <1>1, <2>3, StreamLength
  <2>5. Len(C) = Len(s)
    BY <2>1, <2>3, <2>4
  <2>6. C = s
    BY SMTT(30), <1>1, <2>3, <2>5 DEF IsStream
  <2> QED BY <1>5, <1>6, <2>2, <2>6
<1>7. CASE sc # <<>>
  <2>1. m \in 1..m
    BY <1>1, <1>3, <1>7
  <2>2. Len(s) \in Nat
    BY <1>1, StreamLength
  <2>3. Closings(s, g[m]) = {} /\ g[m] \in 1..Len(s) /\ s[g[m]].effect \in Openers
    BY <1>1, <1>4, <2>1, <2>2, StackedOpen, StackedAre
  <2>4. PICK b : b = g[m]
    OBVIOUS
  <2>5. b \in 1..Len(s) /\ s[b].effect \in Openers /\ Closings(s, b) = {}
    BY <2>3, <2>4
  <2> SUFFICES ASSUME Bal(s, 1, Len(s)) PROVE FALSE
    BY <1>5, <1>7 DEF WellNested, Bal
  <2>6. 1 \in 1..(Len(s) + 1) /\ Len(s) \in 0..Len(s)
    BY <2>2
  <2>7. PICK c \in (b + 1)..Len(s) : s[c].effect = Closer[s[b].effect] /\ Bal(s, b + 1, c - 1)
    BY <2>2, <2>5, <2>6, BalancedCloses
  <2>8. c \in Closings(s, b)
    BY <2>7 DEF Closings, Bal
  <2> QED BY <2>5, <2>8
<1> QED BY <1>5, <1>6, <1>7

-----------------------------------------------------------------------------
(* What the builder's operations do to its stack.                          *)
LEMMA ScopesAre ==
    ASSUME NEW b
    PROVE  /\ Scope(If(b)) /\ If(b).scope = "if"
           /\ Scope(Switch(b)) /\ Switch(b).scope = "switch"
           /\ Scope(Loop(b)) /\ Loop(b).scope = "loop"
<1>1. IsList(<<>>)
  <2>1. <<>> \in Seq({})
    OBVIOUS
  <2> QED BY <2>1 DEF IsList
<1> QED BY <1>1 DEF Scope, If, Switch, Loop, Openers

LEMMA ListAppend ==
    ASSUME NEW q, IsList(q), NEW b
    PROVE  IsList(Append(q, b))
<1>1. PICK S : q \in Seq(S)
  BY DEF IsList
<1>2. PICK T : T = S \cup {b}
  OBVIOUS
<1>3. q \in Seq(T) /\ b \in T
  BY <1>1, <1>2
<1>4. Append(q, b) \in Seq(T)
  BY <1>3
<1> QED BY <1>4 DEF IsList

LEMMA ScopeEdited ==
    ASSUME NEW r, Scope(r), NEW v, IsList(v)
    PROVE  /\ Scope([r EXCEPT !.arm_exits = v]) /\ [r EXCEPT !.arm_exits = v].scope = r.scope
           /\ Scope([r EXCEPT !.break_exits = v]) /\ [r EXCEPT !.break_exits = v].scope = r.scope
BY DEF Scope

LEMMA OuterList ==
    ASSUME NEW sc, ScopeList(sc), sc # <<>>
    PROVE  LET o == SubSeq(sc, 1, Len(sc) - 1)
           IN  /\ ScopeList(o) /\ Len(o) = Len(sc) - 1 /\ Len(sc) \in Nat \ {0}
               /\ \A k \in 1..(Len(sc) - 1) : o[k] = sc[k]
<1>1. PICK S : sc \in Seq(S)
  BY DEF ScopeList
<1>2. PICK o : o = SubSeq(sc, 1, Len(sc) - 1)
  OBVIOUS
<1>3. Len(sc) \in Nat \ {0}
  BY ScopeCount
<1>4. /\ o \in Seq(S) /\ Len(o) = Len(sc) - 1 /\ \A k \in 1..(Len(sc) - 1) : o[k] = sc[k]
  <2>1. PICK n : n = Len(sc) - 1
    OBVIOUS
  <2>2. n \in Nat /\ 1 \in Int /\ n \in Int /\ \A i \in 1..n : sc[i] \in S
    BY <1>1, <1>3, <2>1
  <2>3. /\ SubSeq(sc, 1, n) \in Seq(S)
        /\ Len(SubSeq(sc, 1, n)) = IF 1 <= n THEN n - 1 + 1 ELSE 0
        /\ \A i \in 1..(n - 1 + 1) : SubSeq(sc, 1, n)[i] = sc[1 + i - 1]
    BY <2>2, SubSeqProperties
  <2>4. /\ (IF 1 <= n THEN n - 1 + 1 ELSE 0) = n /\ n - 1 + 1 = n
        /\ \A i \in 1..n : 1 + i - 1 = i
    BY <2>2
  <2> QED BY <1>2, <2>1, <2>3, <2>4
<1>5. \A k \in 1..Len(o) : Scope(o[k])
  <2>1. \A k \in 1..Len(o) : k \in 1..Len(sc) /\ o[k] = sc[k]
    BY <1>3, <1>4
  <2> QED BY <2>1 DEF ScopeList
<1>6. ScopeList(o)
  BY <1>4, <1>5 DEF ScopeList
<1> QED BY <1>2, <1>3, <1>4, <1>6

LEMMA PushedList ==
    ASSUME NEW sc, ScopeList(sc), NEW r, Scope(r)
    PROVE  LET o == Append(sc, r)
           IN  /\ ScopeList(o) /\ Len(o) = Len(sc) + 1 /\ o[Len(sc) + 1] = r
               /\ \A k \in 1..Len(sc) : o[k] = sc[k]
<1>1. PICK S : sc \in Seq(S)
  BY DEF ScopeList
<1>2. PICK o : o = Append(sc, r)
  OBVIOUS
<1>3. PICK T : T = S \cup {r}
  OBVIOUS
<1>4. sc \in Seq(T) /\ r \in T
  BY <1>1, <1>3
<1>5. /\ o \in Seq(T) /\ Len(o) = Len(sc) + 1 /\ o[Len(sc) + 1] = r
      /\ \A k \in 1..Len(sc) : o[k] = sc[k]
  BY <1>2, <1>4
<1>6. \A k \in 1..Len(o) : Scope(o[k])
  <2>1. \A k \in 1..Len(o) : k \in 1..Len(sc) \/ k = Len(sc) + 1
    BY <1>5, ScopeCount
  <2> QED BY <1>5, <2>1 DEF ScopeList
<1>7. ScopeList(o)
  BY <1>5, <1>6 DEF ScopeList
<1> QED BY <1>2, <1>5, <1>7

(* sc2 is a stack of scopes of the same kinds.                             *)
Alike(sc, sc2) ==
    /\ ScopeList(sc2) /\ Len(sc2) = Len(sc)
    /\ \A k \in 1..Len(sc) : sc2[k].scope = sc[k].scope

LEMMA TopReplaced ==
    ASSUME NEW sc, ScopeList(sc), sc # <<>>, NEW r, Scope(r), r.scope = sc[Len(sc)].scope
    PROVE  Alike(sc, Append(SubSeq(sc, 1, Len(sc) - 1), r))
<1>1. PICK o : o = SubSeq(sc, 1, Len(sc) - 1)
  OBVIOUS
<1>2. /\ ScopeList(o) /\ Len(o) = Len(sc) - 1 /\ Len(sc) \in Nat \ {0}
      /\ \A k \in 1..(Len(sc) - 1) : o[k] = sc[k]
  BY <1>1, OuterList
<1>3. PICK q : q = Append(o, r)
  OBVIOUS
<1>4. /\ ScopeList(q) /\ Len(q) = Len(o) + 1 /\ q[Len(o) + 1] = r
      /\ \A k \in 1..Len(o) : q[k] = o[k]
  BY <1>2, <1>3, PushedList
<1>5. Len(q) = Len(sc) /\ Len(o) + 1 = Len(sc)
  BY <1>2, <1>4
<1>6. ASSUME NEW k \in 1..Len(sc) PROVE q[k].scope = sc[k].scope
  <2>1. CASE k = Len(sc)
    BY <1>4, <1>5, <2>1
  <2>2. CASE k # Len(sc)
    <3>1. k \in 1..(Len(sc) - 1)
      BY <1>2, <2>2
    <3>2. k \in 1..Len(o)
      BY <1>2, <3>1
    <3> QED BY <1>2, <1>4, <3>1, <3>2
  <2> QED BY <2>1, <2>2
<1> QED BY <1>1, <1>3, <1>4, <1>5, <1>6 DEF Alike

LEMMA OneReplaced ==
    ASSUME NEW sc, ScopeList(sc), NEW i \in 1..Len(sc), NEW b
    PROVE  Alike(sc, [sc EXCEPT ![i].break_exits = Append(@, b)])
<1>1. PICK S : sc \in Seq(S)
  BY DEF ScopeList
<1>2. PICK r : r = [sc[i] EXCEPT !.break_exits = Append(@, b)]
  OBVIOUS
<1>3. PICK o : o = [sc EXCEPT ![i] = r]
  OBVIOUS
<1>4. o = [sc EXCEPT ![i].break_exits = Append(@, b)]
  BY <1>2, <1>3
<1>5. Scope(r) /\ r.scope = sc[i].scope
  <2>1. Scope(sc[i])
    BY DEF ScopeList
  <2>2. IsList(Append(sc[i].break_exits, b))
    BY <2>1, ListAppend DEF Scope
  <2> QED BY <1>2, <2>1, <2>2, ScopeEdited
<1>6. PICK T : T = S \cup {r}
  OBVIOUS
<1>7. sc \in Seq(T) /\ r \in T
  BY <1>1, <1>6
<1>8. /\ o \in Seq(T) /\ Len(o) = Len(sc) /\ o[i] = r
      /\ \A k \in 1..Len(sc) : k # i => o[k] = sc[k]
  BY <1>3, <1>7
<1>9. \A k \in 1..Len(sc) : Scope(o[k]) /\ o[k].scope = sc[k].scope
  BY <1>5, <1>8 DEF ScopeList
<1>10. ScopeList(o)
  BY <1>8, <1>9 DEF ScopeList
<1> QED BY <1>4, <1>8, <1>9, <1>10 DEF Alike

LEMMA InnermostIs ==
    ASSUME ScopeList(scopes), NEW kinds
    PROVE  /\ Innermost(kinds) = 0 <=> ~\E k \in 1..Len(scopes) : scopes[k].scope \in kinds
           /\ Innermost(kinds) # 0 => Innermost(kinds) \in 1..Len(scopes)
<1> DEFINE S == {i \in DOMAIN scopes : scopes[i].scope \in kinds}
<1>1. Len(scopes) \in Nat /\ DOMAIN scopes = 1..Len(scopes)
  BY ScopeCount
<1>2. Innermost(kinds) = Inner(S)
  BY DEF Innermost, Inner
<1>3. S \in SUBSET (1..Len(scopes)) /\ (S = {} <=> ~\E k \in 1..Len(scopes) : scopes[k].scope \in kinds)
  BY <1>1
<1> HIDE DEF S
<1>4. /\ S # {} => Inner(S) \in S
      /\ Inner(S) = 0 <=> S = {}
  BY <1>1, <1>3, InnerIs
<1> QED BY <1>2, <1>3, <1>4

-----------------------------------------------------------------------------
(* One instruction: it is taken into the scopes, or refused for good.      *)
Refusals == {"UnmatchedElse", "UnmatchedEndIf", "UnmatchedSwitchCase",
             "UnmatchedEndSwitch", "UnmatchedEndLoop", "BreakOutsideScope",
             "ContinueOutsideLoop"}
Taken(x) == result' = result /\ Nest(Append(stream, x), scopes')
Refused(x) == result' \in Refusals /\ ~WellNested(Completed(Append(stream, x)))
IsInstruction(x) == x \in [effect : FlowEffect, token : Nat]

LEMMA TakesAlike ==
    ASSUME Nest(stream, scopes), NEW x, IsInstruction(x),
           x.effect \notin Openers \cup Closers, Fits(scopes, x.effect),
           result' = result, Alike(scopes, scopes')
    PROVE  Taken(x)
<1>1. PICK sc2 : sc2 = scopes'
  OBVIOUS
<1>2. /\ ScopeList(sc2) /\ Len(sc2) = Len(scopes)
      /\ \A k \in 1..Len(scopes) : sc2[k].scope = scopes[k].scope
  BY <1>1 DEF Alike
<1>3. Nest(Append(stream, x), sc2)
  BY <1>2, NestKept DEF IsInstruction
<1> QED BY <1>1, <1>3 DEF Taken

LEMMA TakesSame ==
    ASSUME Nest(stream, scopes), NEW x, IsInstruction(x),
           x.effect \notin Openers \cup Closers, Fits(scopes, x.effect),
           result' = result, scopes' = scopes
    PROVE  Taken(x)
<1>1. Alike(scopes, scopes')
  BY NestParts DEF Alike
<1> QED BY <1>1, TakesAlike

LEMMA RefusesOther ==
    ASSUME Nest(stream, scopes), NEW x, IsInstruction(x),
           x.effect \notin Openers \cup Closers, ~Fits(scopes, x.effect),
           result' \in Refusals
    PROVE  Refused(x)
<1>1. ~WellNested(Completed(Append(stream, x)))
  BY NestRefusesOther DEF IsInstruction
<1> QED BY <1>1 DEF Refused

LEMMA TakesOpener ==
    ASSUME Nest(stream, scopes), NEW x, IsInstruction(x),
           x.effect \in Openers, NEW r, Scope(r), r.scope = x.effect,
           result' = result, scopes' = Append(scopes, r)
    PROVE  Taken(x)
<1>1. PICK sc2 : sc2 = Append(scopes, r)
  OBVIOUS
<1>2. /\ ScopeList(sc2) /\ Len(sc2) = Len(scopes) + 1 /\ sc2[Len(scopes) + 1] = r
      /\ \A k \in 1..Len(scopes) : sc2[k] = scopes[k]
  BY <1>1, PushedList, NestParts
<1>3. \A k \in 1..Len(scopes) : sc2[k].scope = scopes[k].scope
  BY <1>2
<1>4. sc2[Len(scopes) + 1].scope = x.effect
  BY <1>2
<1>5. Nest(Append(stream, x), sc2)
  BY <1>2, <1>3, <1>4, NestOpened DEF IsInstruction
<1> QED BY <1>1, <1>5 DEF Taken

LEMMA ClosersOf ==
    Closer["if"] = "endif" /\ Closer["switch"] = "endswitch" /\ Closer["loop"] = "endloop"
BY DEF Closer

LEMMA TakesCloser ==
    ASSUME Nest(stream, scopes), NEW x, IsInstruction(x), NEW kind \in Openers,
           x.effect = Closer[kind], InScope(kind), result' = result, scopes' = Outer
    PROVE  Taken(x)
<1>1. PICK sc2 : sc2 = SubSeq(scopes, 1, Len(scopes) - 1)
  OBVIOUS
<1>2. scopes # <<>> /\ x.effect = Closer[scopes[Len(scopes)].scope]
  BY DEF InScope, Top
<1>3. /\ ScopeList(sc2) /\ Len(sc2) = Len(scopes) - 1
      /\ \A k \in 1..(Len(scopes) - 1) : sc2[k] = scopes[k]
  BY <1>1, <1>2, OuterList, NestParts
<1>4. \A k \in 1..(Len(scopes) - 1) : sc2[k].scope = scopes[k].scope
  BY <1>3
<1>5. Nest(Append(stream, x), sc2)
  BY <1>2, <1>3, <1>4, NestClosed DEF IsInstruction
<1> QED BY <1>1, <1>5 DEF Taken, Outer

LEMMA RefusesCloser ==
    ASSUME Nest(stream, scopes), NEW x, IsInstruction(x), NEW kind \in Openers,
           x.effect = Closer[kind], ~InScope(kind), result' \in Refusals
    PROVE  Refused(x)
<1>1. scopes = <<>> \/ x.effect # Closer[scopes[Len(scopes)].scope]
  <2> SUFFICES ASSUME scopes # <<>> PROVE x.effect # Closer[scopes[Len(scopes)].scope]
    OBVIOUS
  <2>1. scopes[Len(scopes)].scope # kind
    BY DEF InScope, Top
  <2>2. Len(scopes) \in 1..Len(scopes) /\ ScopeList(scopes)
    BY NestParts
  <2>3. scopes[Len(scopes)].scope \in Openers
    BY <2>2 DEF ScopeList, Scope
  <2> QED BY <2>1, <2>3, ClosersOf DEF Openers
<1>2. x.effect \in Closers
  BY ClosersOf DEF Openers, Closers
<1>3. ~WellNested(Completed(Append(stream, x)))
  BY <1>1, <1>2, NestRefusesCloser DEF IsInstruction
<1> QED BY <1>3 DEF Refused

LEMMA ArmEnds ==
    ASSUME Nest(stream, scopes), scopes # <<>>
    PROVE  Alike(scopes, ArmEnded)
<1>1. /\ ScopeList(scopes) /\ Len(scopes) \in 1..Len(scopes)
  BY NestParts
<1>2. PICK r : r = scopes[Len(scopes)]
  OBVIOUS
<1>3. Scope(r)
  BY <1>1, <1>2 DEF ScopeList
<1>4. PICK q : q = [r EXCEPT !.arm_exits = Append(@, current)]
  OBVIOUS
<1>5. Scope(q) /\ q.scope = r.scope
  <2>1. IsList(Append(r.arm_exits, current))
    BY <1>3, ListAppend DEF Scope
  <2> QED BY <1>3, <1>4, <2>1, ScopeEdited
<1>6. Alike(scopes, Append(SubSeq(scopes, 1, Len(scopes) - 1), q))
  BY <1>1, <1>2, <1>5, TopReplaced
<1> QED BY <1>2, <1>4, <1>6 DEF ArmEnded, Outer, Top

LEMMA BreakRecorded ==
    ASSUME Nest(stream, scopes), Innermost({"loop", "switch"}) # 0, NEW b
    PROVE  Alike(scopes, record_break(b))
<1>1. ScopeList(scopes)
  BY NestParts
<1>2. PICK i : i = Innermost({"loop", "switch"})
  OBVIOUS
<1>3. i \in 1..Len(scopes)
  BY <1>1, <1>2, InnermostIs
<1>4. Alike(scopes, [scopes EXCEPT ![i].break_exits = Append(@, b)])
  BY <1>1, <1>3, OneReplaced
<1> QED BY <1>2, <1>4 DEF record_break

(* What each of the builder's steps does to the stack and the result.      *)
Keeps(sc) == result' = result /\ scopes' = sc
Opens(r) == Keeps(Append(scopes, r))
Turns(kind, error) ==
    IF InScope(kind) THEN Keeps(ArmEnded) ELSE result' = error
Shuts(kind, error) ==
    IF InScope(kind) THEN Keeps(Outer) ELSE result' = error
Breaks == IF Innermost({"loop", "switch"}) = 0 THEN result' = "BreakOutsideScope"
          ELSE \E b : Keeps(record_break(b))
Continues == IF Innermost({"loop"}) = 0 THEN result' = "ContinueOutsideLoop"
             ELSE Keeps(scopes)

Plain == FlowEffect \ (Openers \cup Closers \cup
           {"else", "case", "break", "conditional_break", "continue",
            "conditional_continue"})

LEMMA StepsOfProcess ==
    ASSUME NEW effect, process(effect)
    PROVE  \/ effect \in Plain /\ Keeps(scopes)
           \/ effect = "if" /\ Opens(If(current))
           \/ effect = "switch" /\ Opens(Switch(current))
           \/ effect = "loop" /\ \E b : Opens(Loop(b))
           \/ effect = "else" /\ Turns("if", "UnmatchedElse")
           \/ effect = "case" /\ Turns("switch", "UnmatchedSwitchCase")
           \/ effect = "endif" /\ Shuts("if", "UnmatchedEndIf")
           \/ effect = "endswitch" /\ Shuts("switch", "UnmatchedEndSwitch")
           \/ effect = "endloop" /\ Shuts("loop", "UnmatchedEndLoop")
           \/ effect \in {"break", "conditional_break"} /\ Breaks
           \/ effect \in {"continue", "conditional_continue"} /\ Continues
<1>1. ASSUME NEW c, NEW b, NEW sc, Built(c, b, sc) PROVE Keeps(sc)
  BY <1>1 DEF Built, Keeps
<1>2. ASSUME NEW error, Fail(error) PROVE result' = error
  BY <1>2 DEF Fail
<1>3. CASE effect \in {"declaration", "fallthrough", "call", "conditional_call",
                       "indirect_call", "may_throw"} /\ Push
  <2>1. effect \in Plain
    BY <1>3 DEF Plain, FlowEffect, Openers, Closers
  <2>2. Keeps(scopes)
    BY <1>1, <1>3 DEF Push
  <2> QED BY <2>1, <2>2
<1>4. CASE effect = "if" /\ open_conditional
  <2>1. Opens(If(current))
    BY <1>1, <1>4 DEF open_conditional, Opens
  <2> QED BY <1>4, <2>1
<1>5. CASE effect = "else" /\ alternate_conditional
  <2>1. Turns("if", "UnmatchedElse")
    BY <1>1, <1>2, <1>5 DEF alternate_conditional, Turns
  <2> QED BY <1>5, <2>1
<1>6. CASE effect = "endif" /\ close_conditional
  <2>1. Shuts("if", "UnmatchedEndIf")
    BY <1>1, <1>2, <1>6 DEF close_conditional, Shuts
  <2> QED BY <1>6, <2>1
<1>7. CASE effect = "switch" /\ open_switch
  <2>1. Opens(Switch(current))
    BY <1>1, <1>7 DEF open_switch, Opens
  <2> QED BY <1>7, <2>1
<1>8. CASE effect = "case" /\ add_switch_case
  <2>1. Turns("switch", "UnmatchedSwitchCase")
    BY <1>1, <1>2, <1>8 DEF add_switch_case, Turns
  <2> QED BY <1>8, <2>1
<1>9. CASE effect = "endswitch" /\ close_switch
  <2>1. Shuts("switch", "UnmatchedEndSwitch")
    BY <1>1, <1>2, <1>9 DEF close_switch, Shuts
  <2> QED BY <1>9, <2>1
<1>10. CASE effect = "loop" /\ open_loop
  <2>1. Opens(Loop(Fresh(cfg, 1)))
    BY <1>1, <1>10 DEF open_loop, Opens
  <2> QED BY <1>10, <2>1
<1>11. CASE effect = "endloop" /\ close_loop
  <2>1. Shuts("loop", "UnmatchedEndLoop")
    BY <1>1, <1>2, <1>11 DEF close_loop, Shuts
  <2> QED BY <1>11, <2>1
<1>12. CASE effect = "break" /\ add_break
  <2>1. Breaks
    BY <1>1, <1>2, <1>12 DEF add_break, Breaks
  <2> QED BY <1>12, <2>1
<1>13. CASE effect = "conditional_break" /\ add_conditional_break
  <2>1. Breaks
    BY <1>1, <1>2, <1>13 DEF add_conditional_break, Breaks
  <2> QED BY <1>13, <2>1
<1>14. CASE effect = "continue" /\ add_continue
  <2>1. Continues
    BY <1>1, <1>2, <1>14 DEF add_continue, Continues
  <2> QED BY <1>14, <2>1
<1>15. CASE effect = "conditional_continue" /\ add_conditional_continue
  <2>1. Continues
    BY <1>1, <1>2, <1>15 DEF add_conditional_continue, Continues
  <2> QED BY <1>15, <2>1
<1>16. CASE effect \in {"return", "terminate", "jump", "indirect_jump"} /\ end_block
  <2>1. effect \in Plain
    BY <1>16 DEF Plain, FlowEffect, Openers, Closers
  <2>2. Keeps(scopes)
    BY <1>1, <1>16 DEF end_block
  <2> QED BY <2>1, <2>2
<1>17. CASE effect = "conditional_return" /\ add_conditional_return
  <2>1. effect \in Plain
    BY <1>17 DEF Plain, FlowEffect, Openers, Closers
  <2>2. Keeps(scopes)
    BY <1>1, <1>17 DEF add_conditional_return
  <2> QED BY <2>1, <2>2
<1>18. CASE effect = "label" /\ add_label
  <2>1. effect \in Plain
    BY <1>18 DEF Plain, FlowEffect, Openers, Closers
  <2>2. Keeps(scopes)
    BY <1>1, <1>18 DEF add_label
  <2> QED BY <2>1, <2>2
<1>19. CASE effect = "conditional_jump" /\ add_conditional_jump
  <2>1. effect \in Plain
    BY <1>19 DEF Plain, FlowEffect, Openers, Closers
  <2>2. Keeps(scopes)
    BY <1>1, <1>19 DEF add_conditional_jump
  <2> QED BY <2>1, <2>2
<1> QED BY <1>3, <1>4, <1>5, <1>6, <1>7, <1>8, <1>9, <1>10, <1>11, <1>12, <1>13,
           <1>14, <1>15, <1>16, <1>17, <1>18, <1>19 DEF process

(* A step of the builder takes its instruction, or refuses it for good.    *)
LEMMA ReadNests ==
    ASSUME Nest(stream, scopes), NEW x, IsInstruction(x), process(x.effect)
    PROVE  Taken(x) \/ Refused(x)
<1>1. ScopeList(scopes) /\ Len(scopes) \in Nat /\ (scopes = <<>> <=> Len(scopes) = 0)
  BY NestParts
<1>2. CASE x.effect \in Plain /\ Keeps(scopes)
  <2>1. x.effect \notin Openers \cup Closers /\ Fits(scopes, x.effect)
    BY <1>2 DEF Plain, Fits
  <2> QED BY <1>2, <2>1, TakesSame DEF Keeps
<1>3. CASE x.effect = "if" /\ Opens(If(current))
  <2>1. x.effect \in Openers
    BY <1>3 DEF Openers
  <2> QED BY <1>3, <2>1, TakesOpener, ScopesAre DEF Opens, Keeps
<1>4. CASE x.effect = "switch" /\ Opens(Switch(current))
  <2>1. x.effect \in Openers
    BY <1>4 DEF Openers
  <2> QED BY <1>4, <2>1, TakesOpener, ScopesAre DEF Opens, Keeps
<1>5. CASE x.effect = "loop" /\ \E b : Opens(Loop(b))
  <2>1. x.effect \in Openers
    BY <1>5 DEF Openers
  <2> QED BY <1>5, <2>1, TakesOpener, ScopesAre DEF Opens, Keeps
<1>6. ASSUME NEW kind, NEW error \in Refusals, Turns(kind, error),
             \/ x.effect = "else" /\ kind = "if"
             \/ x.effect = "case" /\ kind = "switch"
      PROVE  Taken(x) \/ Refused(x)
  <2>1. x.effect \notin Openers \cup Closers
    BY <1>6 DEF Openers, Closers
  <2>2. Fits(scopes, x.effect) <=> InScope(kind)
    BY <1>6 DEF Fits, InScope, Top
  <2>3. CASE InScope(kind)
    <3>1. result' = result /\ scopes' = ArmEnded /\ scopes # <<>>
      BY <1>6, <2>3 DEF Turns, Keeps, InScope
    <3>2. Alike(scopes, scopes')
      BY <3>1, ArmEnds
    <3> QED BY <2>1, <2>2, <2>3, <3>1, <3>2, TakesAlike
  <2>4. CASE ~InScope(kind)
    <3>1. result' \in Refusals
      BY <1>6, <2>4 DEF Turns
    <3> QED BY <2>1, <2>2, <2>4, <3>1, RefusesOther
  <2> QED BY <2>3, <2>4
<1>7. ASSUME NEW kind \in Openers, NEW error \in Refusals, Shuts(kind, error),
             x.effect = Closer[kind]
      PROVE  Taken(x) \/ Refused(x)
  <2>1. CASE InScope(kind)
    BY <1>7, <2>1, TakesCloser DEF Shuts, Keeps
  <2>2. CASE ~InScope(kind)
    BY <1>7, <2>2, RefusesCloser DEF Shuts
  <2> QED BY <2>1, <2>2
<1>8. CASE x.effect \in {"break", "conditional_break"} /\ Breaks
  <2>1. x.effect \notin Openers \cup Closers
    BY <1>8 DEF Openers, Closers
  <2>2. Fits(scopes, x.effect) <=> Innermost({"loop", "switch"}) # 0
    <3>1. Fits(scopes, x.effect) <=> \E k \in 1..Len(scopes) : scopes[k].scope \in {"loop", "switch"}
      BY <1>8 DEF Fits
    <3> QED BY <1>1, <3>1, InnermostIs
  <2>3. CASE Innermost({"loop", "switch"}) = 0
    <3>1. result' \in Refusals
      BY <1>8, <2>3 DEF Breaks, Refusals
    <3> QED BY <2>1, <2>2, <2>3, <3>1, RefusesOther
  <2>4. CASE Innermost({"loop", "switch"}) # 0
    <3>1. PICK b : Keeps(record_break(b))
      BY <1>8, <2>4 DEF Breaks
    <3>2. result' = result /\ Alike(scopes, scopes')
      BY <2>4, <3>1, BreakRecorded DEF Keeps
    <3> QED BY <2>1, <2>2, <2>4, <3>2, TakesAlike
  <2> QED BY <2>3, <2>4
<1>9. CASE x.effect \in {"continue", "conditional_continue"} /\ Continues
  <2>1. x.effect \notin Openers \cup Closers
    BY <1>9 DEF Openers, Closers
  <2>2. Fits(scopes, x.effect) <=> Innermost({"loop"}) # 0
    <3>1. Fits(scopes, x.effect) <=> \E k \in 1..Len(scopes) : scopes[k].scope \in {"loop"}
      BY <1>9 DEF Fits
    <3> QED BY <1>1, <3>1, InnermostIs
  <2>3. CASE Innermost({"loop"}) = 0
    <3>1. result' \in Refusals
      BY <1>9, <2>3 DEF Continues, Refusals
    <3> QED BY <2>1, <2>2, <2>3, <3>1, RefusesOther
  <2>4. CASE Innermost({"loop"}) # 0
    <3>1. result' = result /\ scopes' = scopes
      BY <1>9, <2>4 DEF Continues, Keeps
    <3> QED BY <2>1, <2>2, <2>4, <3>1, TakesSame
  <2> QED BY <2>3, <2>4
<1>10. /\ "UnmatchedElse" \in Refusals /\ "UnmatchedSwitchCase" \in Refusals
       /\ "UnmatchedEndIf" \in Refusals /\ "UnmatchedEndSwitch" \in Refusals
       /\ "UnmatchedEndLoop" \in Refusals
  BY DEF Refusals
<1>11. CASE x.effect = "else" /\ Turns("if", "UnmatchedElse")
  BY <1>6, <1>10, <1>11
<1>12. CASE x.effect = "case" /\ Turns("switch", "UnmatchedSwitchCase")
  BY <1>6, <1>10, <1>12
<1>13. "if" \in Openers /\ "switch" \in Openers /\ "loop" \in Openers
  BY DEF Openers
<1>14. CASE x.effect = "endif" /\ Shuts("if", "UnmatchedEndIf")
  BY <1>7, <1>10, <1>13, <1>14, ClosersOf
<1>15. CASE x.effect = "endswitch" /\ Shuts("switch", "UnmatchedEndSwitch")
  BY <1>7, <1>10, <1>13, <1>15, ClosersOf
<1>16. CASE x.effect = "endloop" /\ Shuts("loop", "UnmatchedEndLoop")
  BY <1>7, <1>10, <1>13, <1>16, ClosersOf
<1> QED BY StepsOfProcess, <1>2, <1>3, <1>4, <1>5, <1>8, <1>9, <1>11, <1>12, <1>14, <1>15, <1>16

-----------------------------------------------------------------------------
(* TakesExactlyNestedStreams without its case distinction.                 *)
Judged(s, r) ==
    /\ r = "building" => WellNested(Completed(s))
    /\ r = "ok" => WellNested(s)
    /\ r = "UnclosedScopes" => ~WellNested(s) /\ WellNested(Completed(s))
    /\ r \notin {"building", "ok", "UnclosedScopes"} => ~WellNested(Completed(s))

LEMMA TakesIsJudged == TakesExactlyNestedStreams <=> Judged(stream, result)
<1>1. CASE result = "building"
  BY <1>1 DEF TakesExactlyNestedStreams, Judged
<1>2. CASE result = "ok"
  BY <1>2 DEF TakesExactlyNestedStreams, Judged
<1>3. CASE result = "UnclosedScopes"
  BY <1>3 DEF TakesExactlyNestedStreams, Judged
<1>4. CASE result \notin {"building", "ok", "UnclosedScopes"}
  BY <1>4 DEF TakesExactlyNestedStreams, Judged
<1> QED BY <1>1, <1>2, <1>3, <1>4

(* While the stream is read the builder's stack is the stream's; a build   *)
(* that has ended was judged rightly.                                      *)
NestInv ==
    /\ result = "building" => Nest(stream, scopes)
    /\ Judged(stream, result)

LEMMA EmptyNests == Nest(<<>>, <<>>)
<1> DEFINE g == [k \in 0..1 |-> k]
<1>1. IsStream(<<>>) /\ Len(<<>>) = 0
  BY DEF IsStream
<1>2. ScopeList(<<>>)
  <2>1. <<>> \in Seq({}) /\ \A k \in 1..Len(<<>>) : FALSE
    BY <1>1
  <2> QED BY <2>1 DEF ScopeList
<1>3. PICK s : s = <<>>
  OBVIOUS
<1>4. Len(s) = 0 /\ Len(s) \in Nat
  BY <1>1, <1>3
<1>5. Bal(s, 1, 0)
  <2>1. 1 \in 1..(Len(s) + 1) /\ 0 \in 0..Len(s) /\ 1 > 0
    BY <1>4
  <2> QED BY <1>4, <2>1, BalancedUnfolds
<1>6. /\ g \in [0..1 -> 0..1] /\ g[0] = 0 /\ g[1] = 1
      /\ \A j, k \in 0..1 : j < k => g[j] < g[k]
  OBVIOUS
<1> HIDE DEF g
<1>7. Stack(s, 0, g)
  <2>1. 0 \in Nat /\ 0 + 1 = 1 /\ Len(s) + 1 = 1 /\ \A k \in 0..0 : k = 0
    BY <1>4
  <2>2. \A k \in 0..0 : g[k] + 1 = 1 /\ g[k + 1] - 1 = 0
    BY <1>6
  <2>3. \A k \in 1..0 : FALSE
    OBVIOUS
  <2> QED BY <1>5, <1>6, <2>1, <2>2, <2>3 DEF Stack
<1>8. Matches(<<>>, s, g)
  BY <1>1 DEF Matches
<1>9. \A p \in 1..Len(s) : FALSE
  BY <1>4
<1>10. IsStream(s) /\ Stack(s, Len(<<>>), g)
  BY <1>1, <1>3, <1>7
<1>11. Nest(s, <<>>)
  BY <1>2, <1>8, <1>9, <1>10 DEF Nest
<1> QED BY <1>3, <1>11

LEMMA NestInvInit ==
    ASSUME Init
    PROVE  NestInv
<1>1. stream = <<>> /\ scopes = <<>> /\ result = "building"
  BY DEF Init
<1>2. Nest(stream, scopes)
  BY <1>1, EmptyNests
<1>3. WellNested(Completed(stream))
  BY <1>2, NestCompletes
<1>4. Judged(stream, result)
  BY <1>1, <1>3 DEF Judged
<1> QED BY <1>2, <1>4 DEF NestInv

LEMMA InstructionsTyped ==
    ASSUME NEW x \in Instructions
    PROVE  IsInstruction(x)
<1>1. x \in [effect : Effects, token : Tokens \cup {0}]
  BY DEF Instructions
<1>2. Effects \subseteq FlowEffect /\ Tokens \cup {0} \subseteq Nat
  BY BuilderAssumption
<1> QED BY <1>1, <1>2 DEF IsInstruction

LEMMA ReadKeepsNestInv ==
    ASSUME NestInv, NEW x \in Instructions, Read(x)
    PROVE  NestInv'
<1>1. result = "building" /\ stream' = Append(stream, x) /\ process(x.effect)
  BY DEF Read
<1>2. Nest(stream, scopes)
  BY <1>1 DEF NestInv
<1>3. Taken(x) \/ Refused(x)
  BY <1>1, <1>2, ReadNests, InstructionsTyped
<1>4. PICK t : t = stream'
  OBVIOUS
<1>5. PICK r : r = result'
  OBVIOUS
<1>6. CASE Taken(x)
  <2>1. PICK sc2 : sc2 = scopes'
    OBVIOUS
  <2>2. r = "building" /\ Nest(t, sc2)
    BY <1>1, <1>4, <1>5, <1>6, <2>1 DEF Taken
  <2>3. WellNested(Completed(t))
    BY <2>2, NestCompletes
  <2>4. Judged(t, r)
    BY <2>2, <2>3 DEF Judged
  <2> QED BY <1>4, <1>5, <2>1, <2>2, <2>4 DEF NestInv
<1>7. CASE Refused(x)
  <2>1. r \in Refusals /\ ~WellNested(Completed(t))
    BY <1>1, <1>4, <1>5, <1>7 DEF Refused
  <2>2. r \notin {"building", "ok", "UnclosedScopes"}
    BY <2>1 DEF Refusals
  <2>3. Judged(t, r)
    BY <2>1, <2>2 DEF Judged
  <2> QED BY <1>4, <1>5, <2>2, <2>3 DEF NestInv
<1> QED BY <1>3, <1>6, <1>7

LEMMA FinishKeepsNestInv ==
    ASSUME NestInv, finish
    PROVE  NestInv'
<1>1. Nest(stream, scopes) /\ stream' = stream
  BY DEF NestInv, finish
<1>2. WellNested(Completed(stream)) /\ (WellNested(stream) <=> scopes = <<>>)
  BY <1>1, NestCompletes
<1>3. PICK r : r = result'
  OBVIOUS
<1>4. IF scopes # <<>> THEN r = "UnclosedScopes" ELSE r = "ok"
  BY <1>3 DEF finish, Fail
<1>5. Judged(stream, r) /\ r # "building"
  BY <1>2, <1>4 DEF Judged
<1> QED BY <1>1, <1>3, <1>5 DEF NestInv

LEMMA NestInvInductive ==
    ASSUME NestInv, [Next]_vars
    PROVE  NestInv'
<1>1. CASE \E instruction \in Instructions : Read(instruction)
  BY <1>1, ReadKeepsNestInv
<1>2. CASE finish
  BY <1>2, FinishKeepsNestInv
<1>3. CASE resolve_jump_edges
  BY <1>3 DEF resolve_jump_edges, NestInv
<1>4. CASE UNCHANGED vars
  BY <1>4 DEF vars, NestInv
<1> QED BY <1>1, <1>2, <1>3, <1>4 DEF Next

(* The structured builder takes the streams whose scopes nest and no       *)
(* others (builder.rs, build): reading goes on exactly as long as the open *)
(* scopes could still be closed with everything in its place, it ends well *)
(* for a well nested stream only, and every error has its reason in the    *)
(* stream.                                                                 *)
THEOREM NestedStreamsTaken == Spec => []TakesExactlyNestedStreams
<1>1. Init => NestInv
  BY NestInvInit
<1>2. NestInv /\ [Next]_vars => NestInv'
  BY NestInvInductive
<1>3. NestInv => TakesExactlyNestedStreams
  BY TakesIsJudged DEF NestInv
<1> QED BY <1>1, <1>2, <1>3, PTL DEF Spec

-----------------------------------------------------------------------------
(* The shape of the graph that is built: its lists are lists and what is   *)
(* live has a slot.                                                        *)
Shape(c) ==
    /\ c \in [instructions : {c.instructions}, edges : {c.edges},
              live_blocks : {c.live_blocks}, live_edges : {c.live_edges},
              entry : {c.entry}, regions : {c.regions}, cleanups : {c.cleanups}]
    /\ IsList(c.instructions) /\ IsList(c.edges)
    /\ c.live_blocks \subseteq 1..Len(c.instructions)
    /\ c.live_edges \subseteq 1..Len(c.edges)

LEMMA ListLength ==
    ASSUME NEW q, IsList(q)
    PROVE  Len(q) \in Nat /\ DOMAIN q = 1..Len(q)
<1>1. PICK S : q \in Seq(S)
  BY DEF IsList
<1> QED BY <1>1

LEMMA ListAppended ==
    ASSUME NEW q, IsList(q), NEW b
    PROVE  /\ IsList(Append(q, b)) /\ Len(Append(q, b)) = Len(q) + 1
<1>1. PICK S : q \in Seq(S)
  BY DEF IsList
<1>2. PICK T : T = S \cup {b}
  OBVIOUS
<1>3. q \in Seq(T) /\ b \in T
  BY <1>1, <1>2
<1>4. Append(q, b) \in Seq(T) /\ Len(Append(q, b)) = Len(q) + 1
  BY <1>3
<1> QED BY <1>4 DEF IsList

LEMMA ListSet ==
    ASSUME NEW q, IsList(q), NEW i, NEW v
    PROVE  IsList([q EXCEPT ![i] = v]) /\ Len([q EXCEPT ![i] = v]) = Len(q)
<1>1. PICK S : q \in Seq(S)
  BY DEF IsList
<1>2. PICK T : T = S \cup {v}
  OBVIOUS
<1>3. q \in Seq(T) /\ v \in T
  BY <1>1, <1>2
<1>4. [q EXCEPT ![i] = v] \in Seq(T) /\ Len([q EXCEPT ![i] = v]) = Len(q)
  <2>1. PICK n : n = Len(q)
    OBVIOUS
  <2>2. n \in Nat /\ q \in [1..n -> T]
    BY <1>3, <2>1
  <2>3. PICK f : f = [q EXCEPT ![i] = v]
    OBVIOUS
  <2>4. f \in [1..n -> T]
    BY <1>3, <2>2, <2>3
  <2>5. f \in Seq(T) /\ Len(f) = n
    BY <2>2, <2>4
  <2> QED BY <2>1, <2>3, <2>5
<1> QED BY <1>4 DEF IsList

(* Two lists one after the other, the second given by its elements.        *)
IsTable(r, n) == \E S : r \in [1..n -> S]

LEMMA ListJoined ==
    ASSUME NEW q, IsList(q), NEW r, NEW n \in Nat, IsTable(r, n)
    PROVE  /\ IsList(q \o r) /\ Len(q \o r) = Len(q) + n
           /\ \A k \in 1..Len(q) : (q \o r)[k] = q[k]
           /\ \A k \in 1..n : (q \o r)[Len(q) + k] = r[k]
           /\ n = 0 => q \o r = q
<1>1. PICK S : q \in Seq(S)
  BY DEF IsList
<1>0. PICK R : r \in [1..n -> R]
  BY DEF IsTable
<1>2. PICK T : T = S \cup R
  OBVIOUS
<1>3. q \in Seq(T)
  BY <1>1, <1>2
<1>4. r \in [1..n -> T]
  BY <1>0, <1>2
<1>5. r \in Seq(T) /\ Len(r) = n
  BY <1>4
<1>6. /\ q \o r \in Seq(T) /\ Len(q \o r) = Len(q) + n
      /\ \A k \in 1..Len(q) : (q \o r)[k] = q[k]
      /\ \A k \in 1..n : (q \o r)[Len(q) + k] = r[k]
  BY <1>3, <1>5
<1>7. n = 0 => q \o r = q
  BY <1>3, <1>5
<1> QED BY <1>6, <1>7 DEF IsList

LEMMA ShapePush ==
    ASSUME NEW c, Shape(c), NEW b
    PROVE  Shape(push(c, b))
<1>1. PICK v : v = Append(c.instructions[b], Here)
  OBVIOUS
<1>2. PICK q : q = [c.instructions EXCEPT ![b] = v]
  OBVIOUS
<1>3. IsList(q) /\ Len(q) = Len(c.instructions)
  BY <1>2, ListSet DEF Shape
<1>4. PICK d : d = [c EXCEPT !.instructions = q]
  OBVIOUS
<1>5. push(c, b) = d
  BY <1>1, <1>2, <1>4 DEF push, Shape
<1>6. Shape(d)
  BY <1>3, <1>4 DEF Shape
<1> QED BY <1>5, <1>6

LEMMA ShapeNewBlock ==
    ASSUME NEW c, Shape(c)
    PROVE  Shape(new_block(c))
<1>1. PICK q : q = Append(c.instructions, <<>>)
  OBVIOUS
<1>2. IsList(q) /\ Len(q) = Len(c.instructions) + 1 /\ Len(c.instructions) \in Nat
  BY <1>1, ListAppended, ListLength DEF Shape
<1>3. PICK B : B = c.live_blocks \cup {Len(c.instructions) + 1}
  OBVIOUS
<1>4. B \subseteq 1..Len(q)
  <2>1. Len(c.instructions) + 1 \in 1..Len(q) /\ 1..Len(c.instructions) \subseteq 1..Len(q)
    BY <1>2
  <2> QED BY <1>3, <2>1 DEF Shape
<1>5. PICK d : d = [c EXCEPT !.instructions = q, !.live_blocks = B]
  OBVIOUS
<1>6. new_block(c) = d
  BY <1>1, <1>3, <1>5 DEF new_block, Shape
<1>7. Shape(d)
  BY <1>2, <1>4, <1>5 DEF Shape
<1> QED BY <1>6, <1>7

LEMMA ShapeEdges ==
    ASSUME NEW c, Shape(c), NEW q, IsList(q), NEW n \in Nat, Len(q) = Len(c.edges) + n
    PROVE  Shape([c EXCEPT !.edges = q,
                           !.live_edges = @ \cup (Len(c.edges) + 1)..(Len(c.edges) + n)])
<1>1. Len(c.edges) \in Nat
  BY ListLength DEF Shape
<1>2. PICK E : E = c.live_edges \cup (Len(c.edges) + 1)..(Len(c.edges) + n)
  OBVIOUS
<1>3. E \subseteq 1..Len(q)
  <2>1. /\ (Len(c.edges) + 1)..(Len(c.edges) + n) \subseteq 1..Len(q)
        /\ 1..Len(c.edges) \subseteq 1..Len(q)
    BY <1>1
  <2> QED BY <1>2, <2>1 DEF Shape
<1>4. PICK d : d = [c EXCEPT !.edges = q, !.live_edges = E]
  OBVIOUS
<1>5. [c EXCEPT !.edges = q,
                !.live_edges = @ \cup (Len(c.edges) + 1)..(Len(c.edges) + n)] = d
  BY <1>2, <1>4 DEF Shape
<1>6. Shape(d)
  BY <1>3, <1>4 DEF Shape
<1> QED BY <1>5, <1>6

LEMMA ShapeAddEdge ==
    ASSUME NEW c, Shape(c), NEW a, NEW b, NEW kind
    PROVE  Shape(add_edge(c, a, b, kind))
<1>1. PICK q : q = Append(c.edges, [source |-> a, target |-> b, kind |-> kind])
  OBVIOUS
<1>2. IsList(q) /\ Len(q) = Len(c.edges) + 1 /\ Len(c.edges) \in Nat
  BY <1>1, ListAppended, ListLength DEF Shape
<1>3. PICK E : E = c.live_edges \cup {Len(c.edges) + 1}
  OBVIOUS
<1>4. E \subseteq 1..Len(q)
  <2>1. Len(c.edges) + 1 \in 1..Len(q) /\ 1..Len(c.edges) \subseteq 1..Len(q)
    BY <1>2
  <2> QED BY <1>3, <2>1 DEF Shape
<1>5. PICK d : d = [c EXCEPT !.edges = q, !.live_edges = E]
  OBVIOUS
<1>6. add_edge(c, a, b, kind) = d
  BY <1>1, <1>3, <1>5 DEF add_edge, Shape
<1>7. Shape(d)
  BY <1>2, <1>4, <1>5 DEF Shape
<1> QED BY <1>6, <1>7

LEMMA ShapeAddEdges ==
    ASSUME NEW c, Shape(c), NEW exits, IsList(exits), NEW b, NEW kind
    PROVE  Shape(add_edges(c, exits, b, kind))
<1>1. PICK n : n = Len(exits)
  OBVIOUS
<1>2. n \in Nat /\ DOMAIN exits = 1..n
  BY <1>1, ListLength
<1>3. PICK r : r = [i \in 1..n |-> [source |-> exits[i], target |-> b, kind |-> kind]]
  OBVIOUS
<1>4. IsTable(r, n)
  <2>1. r \in [1..n -> {[source |-> exits[i], target |-> b, kind |-> kind] : i \in 1..n}]
    BY <1>3
  <2> QED BY <2>1 DEF IsTable
<1>5. PICK old : old = c.edges
  OBVIOUS
<1>6. PICK q : q = old \o r
  OBVIOUS
<1>7. IsList(q) /\ Len(q) = Len(c.edges) + n
  <2>1. IsList(old)
    BY <1>5 DEF Shape
  <2>2. IsList(q) /\ Len(q) = Len(old) + n
    BY <1>2, <1>4, <1>6, <2>1, ListJoined
  <2> QED BY <1>5, <2>2
<1>8. add_edges(c, exits, b, kind)
        = [c EXCEPT !.edges = q,
                    !.live_edges = @ \cup (Len(c.edges) + 1)..(Len(c.edges) + n)]
  BY <1>1, <1>2, <1>3, <1>5, <1>6 DEF add_edges
<1>9. Shape([c EXCEPT !.edges = q,
                      !.live_edges = @ \cup (Len(c.edges) + 1)..(Len(c.edges) + n)])
  BY <1>2, <1>7, ShapeEdges
<1> QED BY <1>8, <1>9

LEMMA ShapeTrimLast ==
    ASSUME NEW c, Shape(c)
    PROVE  Shape(TrimLast(c))
<1>1. ASSUME NEW b PROVE Shape(remove_block(c, b))
  <2>1. PICK B : B = c.live_blocks \ {b}
    OBVIOUS
  <2>2. PICK E : E = c.live_edges \ Incident(c, b)
    OBVIOUS
  <2>3. PICK d : d = [c EXCEPT !.live_blocks = B, !.live_edges = E]
    OBVIOUS
  <2>4. remove_block(c, b) = d
    BY <2>1, <2>2, <2>3 DEF remove_block, Shape
  <2>5. Shape(d)
    BY <2>1, <2>2, <2>3 DEF Shape
  <2> QED BY <2>4, <2>5
<1> QED BY <1>1 DEF TrimLast

(* What holds at 0 and goes on from each number to the next.               *)
LEMMA Upward ==
    ASSUME NEW M \in Nat, NEW P, 0 \in P, \A k \in 1..M : k - 1 \in P => k \in P
    PROVE  \A k \in 0..M : k \in P
<1> DEFINE T == {k \in 0..M : k \notin P}
<1> SUFFICES ASSUME T # {} PROVE FALSE
  OBVIOUS
<1>1. \A k \in T : k \in Nat
  OBVIOUS
<1>2. PICK m \in T : \A k \in T : m <= k
  <2> HIDE DEF T
  <2> QED BY <1>1, Least
<1>3. m # 0 /\ m \in 1..M /\ m - 1 \in 0..M /\ ~(m <= m - 1)
  BY <1>2
<1>4. m - 1 \notin T
  BY <1>2, <1>3
<1>5. m - 1 \in P
  BY <1>3, <1>4
<1> QED BY <1>2, <1>3, <1>5

(* f lists what trimming c once, twice, .. up to m times leaves.           *)
Trims(c, f, m) ==
    f[0] = c /\ \A k \in 1..m : f[k] = TrimLast(f[k - 1])

LEMMA TrimsAll ==
    ASSUME NEW c, NEW M \in Nat
    PROVE  \E f : f = [k \in 0..M |-> IF k = 0 THEN c ELSE TrimLast(f[k - 1])]
<1> DEFINE P == {m \in 0..M : \E f : Trims(c, f, m)}
<1>1. 0 \in P
  <2> DEFINE f == [k \in 0..0 |-> c]
  <2>1. f[0] = c /\ \A k \in 1..0 : FALSE
    OBVIOUS
  <2> HIDE DEF f
  <2>2. Trims(c, f, 0)
    BY <2>1 DEF Trims
  <2> QED BY <2>2
<1>2. ASSUME NEW m \in 1..M, m - 1 \in P PROVE m \in P
  <2>1. PICK f : Trims(c, f, m - 1)
    BY <1>2
  <2>2. f[0] = c /\ \A k \in 1..(m - 1) : f[k] = TrimLast(f[k - 1])
    BY <2>1 DEF Trims
  <2>3. PICK v : v = TrimLast(f[m - 1])
    OBVIOUS
  <2> DEFINE h == [k \in 0..m |-> IF k = m THEN v ELSE f[k]]
  <2>4. h[m] = v /\ \A k \in 0..(m - 1) : h[k] = f[k]
    OBVIOUS
  <2> HIDE DEF h
  <2>5. h[0] = c
    BY <2>2, <2>4
  <2>6. ASSUME NEW k \in 1..m PROVE h[k] = TrimLast(h[k - 1])
    <3>1. k - 1 \in 0..(m - 1)
      OBVIOUS
    <3>2. h[k - 1] = f[k - 1]
      BY <2>4, <3>1
    <3>3. CASE k = m
      BY <2>3, <2>4, <3>2, <3>3
    <3>4. CASE k # m
      <4>1. k \in 0..(m - 1) /\ k \in 1..(m - 1)
        BY <3>4
      <4> QED BY <2>2, <2>4, <3>2, <4>1
    <3> QED BY <3>3, <3>4
  <2>7. Trims(c, h, m)
    BY <2>5, <2>6 DEF Trims
  <2> QED BY <2>7
<1>3. M \in P
  <2> HIDE DEF P
  <2>1. \A k \in 0..M : k \in P
    BY <1>1, <1>2, Upward
  <2> QED BY <2>1
<1>4. PICK f : Trims(c, f, M)
  BY <1>3
<1>5. f[0] = c /\ \A k \in 1..M : f[k] = TrimLast(f[k - 1])
  BY <1>4 DEF Trims
<1> DEFINE h == [k \in 0..M |-> f[k]]
<1>6. \A k \in 0..M : h[k] = f[k] /\ h[k] = IF k = 0 THEN c ELSE TrimLast(h[k - 1])
  <2>1. ASSUME NEW k \in 0..M PROVE h[k] = IF k = 0 THEN c ELSE TrimLast(h[k - 1])
    <3>1. CASE k = 0
      BY <1>5, <3>1
    <3>2. CASE k # 0
      <4>1. k \in 1..M /\ k - 1 \in 0..M
        BY <3>2
      <4>2. h[k] = f[k] /\ h[k - 1] = f[k - 1]
        BY <4>1
      <4> HIDE DEF h
      <4> QED BY <1>5, <3>2, <4>1, <4>2
    <3> QED BY <3>1, <3>2
  <2> QED BY <2>1
<1>7. h = [k \in 0..M |-> h[k]]
  OBVIOUS
<1> HIDE DEF h
<1>8. h = [k \in 0..M |-> IF k = 0 THEN c ELSE TrimLast(h[k - 1])]
  BY <1>6, <1>7
<1> QED BY <1>8

LEMMA ShapeTrim ==
    ASSUME NEW c, Shape(c)
    PROVE  Shape(trim_trailing_empty(c))
<1>1. PICK M : M = Len(c.instructions)
  OBVIOUS
<1>2. M \in Nat
  BY <1>1, ListLength DEF Shape
<1> DEFINE trimmed == CHOOSE f : f = [k \in 0..M |-> IF k = 0 THEN c ELSE TrimLast(f[k - 1])]
<1>3. trimmed = [k \in 0..M |-> IF k = 0 THEN c ELSE TrimLast(trimmed[k - 1])]
  BY <1>2, TrimsAll
<1>4. trim_trailing_empty(c) = trimmed[M]
  BY <1>1 DEF trim_trailing_empty
<1> HIDE DEF trimmed
<1>5. trimmed[0] = c /\ \A k \in 1..M : trimmed[k] = TrimLast(trimmed[k - 1])
  <2>1. \A k \in 0..M : trimmed[k] = IF k = 0 THEN c ELSE TrimLast(trimmed[k - 1])
    BY <1>3
  <2>2. 0 \in 0..M /\ \A k \in 1..M : k \in 0..M /\ k # 0
    BY <1>2
  <2> QED BY <2>1, <2>2
<1> DEFINE P == {k \in 0..M : Shape(trimmed[k])}
<1>6. 0 \in P
  BY <1>2, <1>5
<1>7. ASSUME NEW k \in 1..M, k - 1 \in P PROVE k \in P
  <2>1. PICK d : d = trimmed[k - 1]
    OBVIOUS
  <2>2. Shape(TrimLast(d))
    BY <1>7, <2>1, ShapeTrimLast
  <2>3. Shape(trimmed[k]) /\ k \in 0..M
    BY <1>2, <1>5, <2>1, <2>2
  <2> QED BY <2>3
<1>8. M \in P
  <2> HIDE DEF P
  <2>1. \A k \in 0..M : k \in P
    BY <1>2, <1>6, <1>7, Upward
  <2> QED BY <1>2, <2>1
<1> QED BY <1>4, <1>8

(* Every step of the builder keeps the graph in shape.                     *)
LEMMA ShapeBuilt ==
    ASSUME Shape(cfg), ScopeList(scopes), NEW effect, process(effect)
    PROVE  Shape(cfg')
<1>1. ASSUME NEW c, NEW b, NEW sc, Built(c, b, sc), Shape(c) PROVE Shape(cfg')
  BY <1>1 DEF Built
<1>2. ASSUME NEW error, Fail(error) PROVE Shape(cfg')
  BY <1>2 DEF Fail
<1>3. ASSUME NEW b PROVE Shape(push(cfg, b)) /\ Shape(new_block(push(cfg, b)))
                         /\ Shape(new_blocks(push(cfg, b), 2))
  BY ShapePush, ShapeNewBlock DEF new_blocks
<1>4. Shape(new_block(cfg))
  BY ShapeNewBlock
<1>5. ASSUME NEW kind, InScope(kind)
      PROVE  IsList(Append(Top.arm_exits, current)) /\ IsList(Top.break_exits)
  <2>1. Len(scopes) \in 1..Len(scopes)
    BY <1>5, ScopeCount DEF InScope
  <2>2. Scope(Top)
    BY <2>1 DEF ScopeList, Top
  <2> QED BY <2>2, ListAppend DEF Scope
<1>6. CASE effect \in {"declaration", "fallthrough", "call", "conditional_call",
                       "indirect_call", "may_throw"} /\ Push
  BY <1>1, <1>3, <1>6 DEF Push
<1>7. CASE open_conditional
  <2>1. Shape(add_edge(new_block(push(cfg, current)), current, Fresh(cfg, 1), "true"))
    BY <1>3, ShapeAddEdge
  <2> QED BY <1>1, <1>7, <2>1 DEF open_conditional
<1>8. CASE alternate_conditional
  <2>1. Shape(push(add_edge(new_block(cfg), Top.block, Fresh(cfg, 1), "false"), Fresh(cfg, 1)))
    BY <1>4, ShapeAddEdge, ShapePush
  <2> QED BY <1>1, <1>2, <1>8, <2>1 DEF alternate_conditional
<1>9. CASE close_conditional
  <2> DEFINE merged == add_edges(new_block(cfg), Append(Top.arm_exits, current),
                                 Fresh(cfg, 1), "fallthrough")
  <2>1. InScope("if") => Shape(merged)
    BY <1>4, <1>5, ShapeAddEdges
  <2> HIDE DEF merged
  <2>2. InScope("if") => Shape(add_edge(merged, Top.block, Fresh(cfg, 1), "false"))
    BY <2>1, ShapeAddEdge
  <2>3. \/ InScope("if") /\ Built(merged, Fresh(cfg, 1), Outer)
        \/ /\ InScope("if")
           /\ Built(add_edge(merged, Top.block, Fresh(cfg, 1), "false"), Fresh(cfg, 1), Outer)
        \/ Fail("UnmatchedEndIf")
    BY <1>9 DEF close_conditional, merged
  <2> QED BY <1>1, <1>2, <2>1, <2>2, <2>3
<1>10. CASE open_switch
  <2>1. Shape(add_edge(new_block(push(cfg, current)), current, Fresh(cfg, 1), "case"))
    BY <1>3, ShapeAddEdge
  <2> QED BY <1>1, <1>10, <2>1 DEF open_switch
<1>11. CASE add_switch_case
  <2>1. Shape(push(add_edge(new_block(cfg), Top.block, Fresh(cfg, 1), "case"), Fresh(cfg, 1)))
    BY <1>4, ShapeAddEdge, ShapePush
  <2> QED BY <1>1, <1>2, <1>11, <2>1 DEF add_switch_case
<1>12. CASE close_switch
  <2> DEFINE merged == add_edges(new_block(cfg), Append(Top.arm_exits, current),
                                 Fresh(cfg, 1), "fallthrough")
  <2>1. InScope("switch") => Shape(merged)
    BY <1>4, <1>5, ShapeAddEdges
  <2> HIDE DEF merged
  <2>2. InScope("switch") =>
          Shape(add_edges(merged, Top.break_exits, Fresh(cfg, 1), "unconditional"))
    BY <1>5, <2>1, ShapeAddEdges
  <2>3. \/ /\ InScope("switch")
           /\ Built(add_edges(merged, Top.break_exits, Fresh(cfg, 1), "unconditional"),
                    Fresh(cfg, 1), Outer)
        \/ Fail("UnmatchedEndSwitch")
    BY <1>12 DEF close_switch, merged
  <2> QED BY <1>1, <1>2, <2>2, <2>3
<1>13. CASE open_loop
  <2>1. Shape(add_edge(new_block(push(cfg, current)), current, Fresh(cfg, 1), "fallthrough"))
    BY <1>3, ShapeAddEdge
  <2> QED BY <1>1, <1>13, <2>1 DEF open_loop
<1>14. CASE close_loop
  <2> DEFINE closed == new_block(add_edge(cfg, current, Top.block, "back"))
  <2>1. Shape(closed)
    BY ShapeAddEdge, ShapeNewBlock
  <2> HIDE DEF closed
  <2>2. InScope("loop") =>
          Shape(add_edges(closed, Top.break_exits, Fresh(cfg, 1), "unconditional"))
    BY <1>5, <2>1, ShapeAddEdges
  <2>3. \/ /\ InScope("loop")
           /\ Built(add_edges(closed, Top.break_exits, Fresh(cfg, 1), "unconditional"),
                    Fresh(cfg, 1), Outer)
        \/ Fail("UnmatchedEndLoop")
    BY <1>14 DEF close_loop, closed
  <2> QED BY <1>1, <1>2, <2>2, <2>3
<1>15. CASE add_break
  BY <1>1, <1>2, <1>3, <1>15 DEF add_break
<1>16. ASSUME NEW c, Shape(c), NEW taken, NEW continuation
       PROVE  Shape(Branch(c, taken, continuation))
  BY <1>16, ShapeAddEdge DEF Branch
<1>17. CASE add_conditional_break
  BY <1>1, <1>2, <1>3, <1>16, <1>17 DEF add_conditional_break
<1>18. CASE add_continue
  <2>1. Shape(new_block(add_edge(push(cfg, current), current, loop_header, "back")))
    BY <1>3, ShapeAddEdge, ShapeNewBlock
  <2> QED BY <1>1, <1>2, <1>18, <2>1 DEF add_continue
<1>19. CASE add_conditional_continue
  BY <1>1, <1>2, <1>3, <1>16, <1>19 DEF add_conditional_continue
<1>20. CASE end_block
  BY <1>1, <1>3, <1>20 DEF end_block
<1>21. CASE add_conditional_return
  BY <1>1, <1>3, <1>16, <1>21 DEF add_conditional_return
<1>22. CASE add_label
  <2>1. Shape(push(add_edge(new_block(cfg), current, Fresh(cfg, 1), "fallthrough"), Fresh(cfg, 1)))
    BY <1>4, ShapeAddEdge, ShapePush
  <2> QED BY <1>1, <1>22, <2>1 DEF add_label
<1>23. CASE add_conditional_jump
  <2>1. Shape(add_edge(new_block(push(cfg, current)), current, Fresh(cfg, 1), "false"))
    BY <1>3, ShapeAddEdge
  <2> QED BY <1>1, <1>23, <2>1 DEF add_conditional_jump
<1> QED BY <1>6, <1>7, <1>8, <1>9, <1>10, <1>11, <1>12, <1>13, <1>14, <1>15, <1>17,
           <1>18, <1>19, <1>20, <1>21, <1>22, <1>23 DEF process

-----------------------------------------------------------------------------
(* resolve_jump_edges, with the stream it reads as a parameter.            *)
LabelIn(s, c, token) ==
    LET S == {b \in c.live_blocks :
                /\ c.instructions[b] # <<>>
                /\ s[Head(c.instructions[b])].effect = "label"
                /\ s[Head(c.instructions[b])].token = token}
    IN  IF S = {} THEN 0 ELSE CHOOSE b \in S : \A a \in S : a <= b
EndOf(s, c, b) == s[c.instructions[b][Len(c.instructions[b])]]
JumpsIn(s, c) ==
    {b \in c.live_blocks :
        /\ c.instructions[b] # <<>>
        /\ EndOf(s, c, b).effect \in {"jump", "conditional_jump"}
        /\ EndOf(s, c, b).token # 0}
EdgeFor(s, c, b) ==
    [source |-> b, target |-> LabelIn(s, c, EndOf(s, c, b).token),
     kind |-> IF EndOf(s, c, b).effect = "jump" THEN "jump" ELSE "true"]
UnwiredIn(s, c) ==
    {b \in JumpsIn(s, c) :
        /\ LabelIn(s, c, EndOf(s, c, b).token) # 0
        /\ \A e \in outgoing(c, b) : c.edges[e] # EdgeFor(s, c, b)}
UnresolvedIn(s, c) == {b \in JumpsIn(s, c) : LabelIn(s, c, EndOf(s, c, b).token) = 0}

(* d is c with the edges of wired, one after the other.                    *)
Wires(s, c, wired, d) ==
    LET n == Cardinality(wired)
    IN  d = [c EXCEPT
               !.edges = @ \o [k \in 1..n |-> EdgeFor(s, c, Slot(wired, k))],
               !.live_edges = @ \cup (Len(c.edges) + 1)..(Len(c.edges) + n)]

(* A number of a finite set of slots is the number of one slot only.       *)
LEMMA SlotsListed ==
    ASSUME NEW n \in Nat, NEW S \in SUBSET (1..n)
    PROVE  /\ Cardinality(S) \in Nat /\ (Cardinality(S) = 0 <=> S = {})
           /\ \A b \in S : \E k \in 1..Cardinality(S) : Slot(S, k) = b
<1>1. IsFiniteSet(1..n)
  BY FS_Interval
<1>2. IsFiniteSet(S)
  BY <1>1, FS_Subset
<1>3. Cardinality(S) \in Nat /\ (Cardinality(S) = 0 <=> S = {})
  BY <1>2, FS_CardinalityType, FS_EmptySet
<1>4. ASSUME NEW b \in S
      PROVE  Rank(S, b) \in 1..Cardinality(S) /\ \A a \in S : a < b => Rank(S, a) < Rank(S, b)
  <2> DEFINE T == {t \in S : t <= b}
  <2>1. T \in SUBSET S /\ b \in T
    BY <1>2
  <2>2. IsFiniteSet(T) /\ Cardinality(T) <= Cardinality(S)
    <3> HIDE DEF T
    <3> QED BY <1>2, <2>1, FS_Subset
  <2>3. Cardinality(T) \in Nat /\ Cardinality(T) # 0
    <3> HIDE DEF T
    <3> QED BY <2>1, <2>2, FS_CardinalityType, FS_EmptySet
  <2>4. ASSUME NEW a \in S, a < b PROVE Rank(S, a) < Cardinality(T)
    <3> DEFINE U == {t \in S : t <= a}
    <3>1. U \in SUBSET T /\ b \notin U
      <4>1. \A t \in S : t \in Int
        OBVIOUS
      <4>2. (\A t \in S : t <= a => t <= b) /\ ~(b <= a)
        BY <2>4, <4>1
      <4> QED BY <4>2
    <3>2. Rank(S, a) = Cardinality(U)
      BY DEF Rank
    <3> HIDE DEF T, U
    <3>3. IsFiniteSet(U) /\ Cardinality(U) <= Cardinality(T) /\ Cardinality(U) # Cardinality(T)
      BY <2>1, <2>2, <3>1, FS_Subset
    <3>4. Cardinality(U) \in Nat
      BY <3>3, FS_CardinalityType
    <3> QED BY <2>3, <3>2, <3>3, <3>4
  <2>5. Rank(S, b) = Cardinality(T)
    BY DEF Rank
  <2> HIDE DEF T
  <2>6. Rank(S, b) \in 1..Cardinality(S)
    BY <1>3, <2>2, <2>3, <2>5
  <2> QED BY <2>4, <2>5, <2>6
<1>5. \A a, b \in S : Rank(S, a) = Rank(S, b) => a = b
  <2> SUFFICES ASSUME NEW a \in S, NEW b \in S, Rank(S, a) = Rank(S, b) PROVE a = b
    OBVIOUS
  <2>1. Rank(S, a) \in Nat /\ Rank(S, b) \in Nat
    BY <1>3, <1>4
  <2>2. ~(a < b) /\ ~(b < a)
    BY <1>4, <2>1
  <2>3. a \in Int /\ b \in Int
    OBVIOUS
  <2> QED BY <2>2, <2>3
<1>6. ASSUME NEW b \in S PROVE Slot(S, Rank(S, b)) = b
  BY <1>5 DEF Slot
<1> QED BY <1>3, <1>4, <1>6

LEMMA WiredOnce ==
    ASSUME NEW s, NEW c, Shape(c), NEW d, NEW wired, wired = UnwiredIn(s, c), Wires(s, c, wired, d)
    PROVE  /\ Shape(d) /\ UnwiredIn(s, d) = {} /\ UnresolvedIn(s, d) = UnresolvedIn(s, c)
           /\ wired = {} => d = c /\ Cardinality(wired) = 0
<1>1. wired \in SUBSET (1..Len(c.instructions)) /\ Len(c.instructions) \in Nat
  <2>1. wired \subseteq c.live_blocks
    BY DEF UnwiredIn, JumpsIn
  <2> QED BY <2>1, ListLength DEF Shape
<1>2. PICK n : n = Cardinality(wired)
  OBVIOUS
<1>3. n \in Nat /\ (n = 0 <=> wired = {}) /\ \A b \in wired : \E k \in 1..n : Slot(wired, k) = b
  BY <1>1, <1>2, SlotsListed
<1>4. PICK r : r = [k \in 1..n |-> EdgeFor(s, c, Slot(wired, k))]
  OBVIOUS
<1>5. IsTable(r, n) /\ \A k \in 1..n : r[k] = EdgeFor(s, c, Slot(wired, k))
  <2>1. r \in [1..n -> {EdgeFor(s, c, Slot(wired, k)) : k \in 1..n}]
    BY <1>4
  <2>2. \A k \in 1..n : r[k] = EdgeFor(s, c, Slot(wired, k))
    BY <1>4
  <2> QED BY <2>1, <2>2 DEF IsTable
<1>6. PICK q : q = c.edges \o r
  OBVIOUS
<1>7. /\ IsList(q) /\ Len(q) = Len(c.edges) + n
      /\ \A k \in 1..Len(c.edges) : q[k] = c.edges[k]
      /\ \A k \in 1..n : q[Len(c.edges) + k] = r[k]
      /\ n = 0 => q = c.edges
  <2>1. PICK old : old = c.edges
    OBVIOUS
  <2>2. IsList(old) /\ q = old \o r
    BY <1>6, <2>1 DEF Shape
  <2>3. /\ IsList(q) /\ Len(q) = Len(old) + n
        /\ \A k \in 1..Len(old) : q[k] = old[k]
        /\ \A k \in 1..n : q[Len(old) + k] = r[k]
        /\ n = 0 => q = old
    BY <1>3, <1>5, <2>2, ListJoined
  <2> QED BY <2>1, <2>3
<1>8. d = [c EXCEPT !.edges = q,
                    !.live_edges = @ \cup (Len(c.edges) + 1)..(Len(c.edges) + n)]
  BY <1>2, <1>4, <1>6 DEF Wires
<1>9. Shape(d)
  BY <1>3, <1>7, <1>8, ShapeEdges
<1>10. PICK m : m = Len(c.edges)
  OBVIOUS
<1>11. m \in Nat /\ c.live_edges \subseteq 1..m
  BY <1>10, ListLength DEF Shape
<1>12. PICK E : E = c.live_edges \cup (m + 1)..(m + n)
  OBVIOUS
<1>13. /\ d.edges = q /\ d.live_edges = E /\ d.live_blocks = c.live_blocks
       /\ d.instructions = c.instructions
  BY <1>8, <1>10, <1>12 DEF Shape
<1>14. \A token : LabelIn(s, d, token) = LabelIn(s, c, token)
  BY <1>13 DEF LabelIn
<1>15. \A b : EndOf(s, d, b) = EndOf(s, c, b)
  BY <1>13 DEF EndOf
<1>16. JumpsIn(s, d) = JumpsIn(s, c)
  BY <1>13, <1>15 DEF JumpsIn
<1>17. \A b : EdgeFor(s, d, b) = EdgeFor(s, c, b)
  BY <1>14, <1>15 DEF EdgeFor
<1>18. UnresolvedIn(s, d) = UnresolvedIn(s, c)
  BY <1>14, <1>15, <1>16 DEF UnresolvedIn
<1>19. UnwiredIn(s, d) = {}
  <2> SUFFICES ASSUME NEW b \in UnwiredIn(s, d) PROVE FALSE
    OBVIOUS
  <2>1. /\ b \in JumpsIn(s, c) /\ LabelIn(s, c, EndOf(s, c, b).token) # 0
        /\ \A e \in outgoing(d, b) : d.edges[e] # EdgeFor(s, c, b)
    BY <1>14, <1>15, <1>16, <1>17 DEF UnwiredIn
  <2>2. PICK x : x = EdgeFor(s, c, b)
    OBVIOUS
  <2>3. x.source = b
    BY <2>2 DEF EdgeFor
  <2>4. \A e \in E : q[e] # x
    <3> SUFFICES ASSUME NEW e \in E, q[e] = x PROVE FALSE
      OBVIOUS
    <3>1. e \in outgoing(d, b)
      BY <1>13, <2>3 DEF outgoing
    <3> QED BY <1>13, <2>1, <2>2, <3>1
  <2>5. CASE b \in wired
    <3>1. PICK k \in 1..n : Slot(wired, k) = b
      BY <1>3, <2>5
    <3>2. q[m + k] = x
      BY <1>5, <1>7, <1>10, <2>2, <3>1
    <3>3. m + k \in E
      <4>1. m + k \in (m + 1)..(m + n)
        BY <1>3, <1>11
      <4> QED BY <1>12, <4>1
    <3> QED BY <2>4, <3>2, <3>3
  <2>6. CASE b \notin wired
    <3>1. PICK e \in outgoing(c, b) : c.edges[e] = x
      BY <2>1, <2>2, <2>6 DEF UnwiredIn
    <3>2. e \in c.live_edges
      BY <3>1 DEF outgoing
    <3>3. e \in E /\ q[e] = x
      BY <1>7, <1>10, <1>11, <1>12, <3>1, <3>2
    <3> QED BY <2>4, <3>3
  <2> QED BY <2>5, <2>6
<1>20. ASSUME wired = {} PROVE d = c /\ Cardinality(wired) = 0
  <2>1. n = 0 /\ q = c.edges
    BY <1>3, <1>7, <1>20
  <2>2. (m + 1)..(m + n) = {}
    BY <1>11, <2>1
  <2>3. d = [c EXCEPT !.edges = c.edges, !.live_edges = c.live_edges]
    BY <1>8, <1>10, <2>1, <2>2
  <2>4. d = c
    BY <2>3 DEF Shape
  <2> QED BY <1>2, <2>1, <2>4
<1> QED BY <1>9, <1>18, <1>19, <1>20

(* What is known of the graph and of the last resolution.                  *)
WiredInv ==
    /\ result \in {"building", "ok"} => Shape(cfg)
    /\ resolution.calls \in Nat
    /\ resolution.calls > 0 =>
          /\ result = "ok" /\ UnwiredIn(stream, cfg) = {}
          /\ resolution.unresolved = UnresolvedIn(stream, cfg)

LEMMA ResolutionIs ==
    ASSUME resolve_jump_edges
    PROVE  /\ Wires(stream, cfg, UnwiredIn(stream, cfg), cfg') /\ result = "ok"
           /\ resolution' = [calls |-> resolution.calls + 1,
                             resolved |-> Cardinality(UnwiredIn(stream, cfg)),
                             unresolved |-> UnresolvedIn(stream, cfg)]
           /\ UNCHANGED <<stream, scopes, result>>
<1>1. \A token : LabelBlock(cfg, token) = LabelIn(stream, cfg, token)
  BY DEF LabelBlock, LabelIn
<1>2. \A b : Last(cfg, b) = EndOf(stream, cfg, b)
  BY DEF Last, EndOf
<1>3. Jumping(cfg) = JumpsIn(stream, cfg)
  BY <1>2 DEF Jumping, JumpsIn
<1>4. \A b : JumpEdge(cfg, b) = EdgeFor(stream, cfg, b)
  BY <1>1, <1>2 DEF JumpEdge, EdgeFor
<1>5. Unwired(cfg) = UnwiredIn(stream, cfg)
  BY <1>1, <1>2, <1>3, <1>4 DEF Unwired, UnwiredIn
<1>6. {b \in Jumping(cfg) : LabelBlock(cfg, Last(cfg, b).token) = 0} = UnresolvedIn(stream, cfg)
  BY <1>1, <1>2, <1>3 DEF UnresolvedIn
<1>7. PICK wired : wired = Unwired(cfg)
  OBVIOUS
<1>8. PICK n : n = Cardinality(wired)
  OBVIOUS
<1>9. [k \in 1..n |-> JumpEdge(cfg, Slot(wired, k))]
        = [k \in 1..n |-> EdgeFor(stream, cfg, Slot(wired, k))]
  BY <1>4
<1>10. cfg' = [cfg EXCEPT
             !.edges = @ \o [k \in 1..n |-> JumpEdge(cfg, Slot(wired, k))],
             !.live_edges = @ \cup (Len(cfg.edges) + 1)..(Len(cfg.edges) + n)]
  BY <1>7, <1>8 DEF resolve_jump_edges
<1>11. Wires(stream, cfg, wired, cfg')
  BY <1>8, <1>9, <1>10 DEF Wires
<1>12. /\ resolution' = [calls |-> resolution.calls + 1, resolved |-> n,
                         unresolved |-> UnresolvedIn(stream, cfg)]
       /\ result = "ok" /\ UNCHANGED <<stream, scopes, result>>
  BY <1>6, <1>7, <1>8 DEF resolve_jump_edges
<1> QED BY <1>5, <1>7, <1>8, <1>11, <1>12

LEMMA WiredInvInit ==
    ASSUME Init
    PROVE  WiredInv
<1>1. IsList(<<>>) /\ IsList(<<<<>>>>) /\ Len(<<<<>>>>) = 1
  <2>1. <<>> \in Seq({}) /\ <<<<>>>> \in Seq({<<>>}) /\ Len(<<<<>>>>) = 1
    OBVIOUS
  <2> QED BY <2>1 DEF IsList
<1>2. Shape(cfg)
  <2>1. cfg = with_edge_payload
    BY DEF Init
  <2>2. /\ cfg.instructions = <<<<>>>> /\ cfg.edges = <<>>
        /\ cfg.live_blocks = {1} /\ cfg.live_edges = {}
        /\ cfg \in [instructions : {cfg.instructions}, edges : {cfg.edges},
              live_blocks : {cfg.live_blocks}, live_edges : {cfg.live_edges},
              entry : {cfg.entry}, regions : {cfg.regions}, cleanups : {cfg.cleanups}]
    BY <2>1 DEF with_edge_payload
  <2>3. {1} \subseteq 1..Len(cfg.instructions)
    BY <1>1, <2>2
  <2> QED BY <1>1, <2>2, <2>3 DEF Shape
<1>3. resolution.calls = 0
  BY DEF Init
<1> QED BY <1>2, <1>3 DEF WiredInv

LEMMA WiredInvStep ==
    ASSUME NestInv, WiredInv, [Next]_vars
    PROVE  WiredInv'
<1>1. CASE \E instruction \in Instructions : Read(instruction)
  <2>1. PICK x \in Instructions : Read(x)
    BY <1>1
  <2>2. result = "building" /\ process(x.effect)
    BY <2>1 DEF Read
  <2>3. ScopeList(scopes) /\ Shape(cfg)
    BY <2>2, NestParts DEF NestInv, WiredInv
  <2>4. Shape(cfg')
    BY <2>2, <2>3, ShapeBuilt
  <2>5. ~(resolution.calls > 0) /\ resolution.calls \in Nat
    BY <2>2 DEF WiredInv
  <2>6. resolution' = resolution
    BY <2>2 DEF process, Built, Fail, Push, end_block, open_conditional,
         alternate_conditional, close_conditional, open_switch, add_switch_case,
         close_switch, open_loop, close_loop, add_break, add_conditional_break,
         add_continue, add_conditional_continue, add_conditional_return,
         add_label, add_conditional_jump
  <2> QED BY <2>4, <2>5, <2>6 DEF WiredInv
<1>2. CASE finish
  <2>1. /\ result = "building" /\ resolution' = resolution
        /\ \/ result' = "UnclosedScopes"
           \/ cfg' = trim_trailing_empty(cfg)
    BY <1>2 DEF finish, Fail
  <2>2. Shape(cfg) /\ ~(resolution.calls > 0) /\ resolution.calls \in Nat
    BY <2>1 DEF WiredInv
  <2>3. Shape(trim_trailing_empty(cfg))
    BY <2>2, ShapeTrim
  <2>4. result' \in {"building", "ok"} => Shape(cfg')
    BY <2>1, <2>3
  <2> QED BY <2>1, <2>2, <2>4 DEF WiredInv
<1>3. CASE resolve_jump_edges
  <2>1. /\ Wires(stream, cfg, UnwiredIn(stream, cfg), cfg') /\ result = "ok"
        /\ resolution' = [calls |-> resolution.calls + 1,
                          resolved |-> Cardinality(UnwiredIn(stream, cfg)),
                          unresolved |-> UnresolvedIn(stream, cfg)]
        /\ UNCHANGED <<stream, scopes, result>>
    BY <1>3, ResolutionIs
  <2>2. Shape(cfg) /\ resolution.calls \in Nat
    BY <2>1 DEF WiredInv
  <2>3. PICK d : d = cfg'
    OBVIOUS
  <2>4. PICK wired : wired = UnwiredIn(stream, cfg)
    OBVIOUS
  <2>5. Wires(stream, cfg, wired, d)
    BY <2>1, <2>3, <2>4
  <2>6. /\ Shape(d) /\ UnwiredIn(stream, d) = {}
        /\ UnresolvedIn(stream, d) = UnresolvedIn(stream, cfg)
    BY <2>2, <2>4, <2>5, WiredOnce
  <2>7. stream' = stream /\ result' = "ok"
    BY <2>1
  <2>8. /\ resolution'.unresolved = UnresolvedIn(stream, cfg)
        /\ resolution'.calls \in Nat
    BY <2>1, <2>2
  <2> QED BY <2>3, <2>6, <2>7, <2>8 DEF WiredInv
<1>4. CASE UNCHANGED vars
  BY <1>4 DEF vars, WiredInv
<1> QED BY <1>1, <1>2, <1>3, <1>4 DEF Next

(* resolve_jump_edges wires every jump whose label there is the first time *)
(* it is called (builder.rs, resolve_jump_edges): called again, it adds no *)
(* edge, counts none and reports the same jumps as unresolved.             *)
THEOREM JumpsResolvedOnce == Spec => ResolvesOnce
<1> DEFINE Again == resolve_jump_edges /\ resolution.calls > 0 =>
                      /\ UNCHANGED cfg /\ resolution'.resolved = 0
                      /\ resolution'.unresolved = resolution.unresolved
<1>1. Init => NestInv /\ WiredInv
  BY NestInvInit, WiredInvInit
<1>2. NestInv /\ WiredInv /\ [Next]_vars => (NestInv /\ WiredInv)'
  BY NestInvInductive, WiredInvStep
<1>3. WiredInv => Again
  <2> SUFFICES ASSUME WiredInv, resolve_jump_edges, resolution.calls > 0
               PROVE  /\ cfg' = cfg /\ resolution'.resolved = 0
                      /\ resolution'.unresolved = resolution.unresolved
    OBVIOUS
  <2>1. /\ Wires(stream, cfg, UnwiredIn(stream, cfg), cfg')
        /\ resolution' = [calls |-> resolution.calls + 1,
                          resolved |-> Cardinality(UnwiredIn(stream, cfg)),
                          unresolved |-> UnresolvedIn(stream, cfg)]
    BY ResolutionIs
  <2>2. /\ Shape(cfg) /\ UnwiredIn(stream, cfg) = {}
        /\ resolution.unresolved = UnresolvedIn(stream, cfg)
    BY DEF WiredInv
  <2>3. PICK d : d = cfg'
    OBVIOUS
  <2>4. PICK wired : wired = UnwiredIn(stream, cfg)
    OBVIOUS
  <2>5. Wires(stream, cfg, wired, d) /\ wired = {}
    BY <2>1, <2>2, <2>3, <2>4
  <2>6. d = cfg /\ Cardinality(wired) = 0
    BY <2>2, <2>4, <2>5, WiredOnce
  <2> QED BY <2>1, <2>2, <2>3, <2>4, <2>6
<1>4. WiredInv => [Again]_vars
  BY <1>3
<1> QED BY <1>1, <1>2, <1>4, PTL DEF Spec, ResolvesOnce
=============================================================================

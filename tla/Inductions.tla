----------------------------- MODULE Inductions -----------------------------
(***************************************************************************)
(* Induction over the natural numbers for sets instead of operators, and   *)
(* functions defined by recursion on an interval.  The provers cannot      *)
(* instantiate an operator parameter, but they can find a set.             *)
(***************************************************************************)
EXTENDS WellFoundedInduction, TLAPS

LessThan == {ss \in Nat \X Nat : ss[1] < ss[2]}

(* Every nonempty set of natural numbers has a least element.              *)
LEMMA LeastElement ==
  ASSUME NEW T, T \subseteq Nat, T # {}
  PROVE  \E n \in T : \A m \in T : n <= m
<1>1. IsWellFoundedOn(LessThan, Nat)
  BY NatLessThanWellFounded DEF OpToRel, LessThan
<1>2. PICK n \in T : \A m \in T : <<m, n>> \notin LessThan
  BY <1>1, WFMin
<1>3. ASSUME NEW m \in T PROVE n <= m
  <2>1. m \in Nat /\ n \in Nat
    OBVIOUS
  <2>2. m < n => <<m, n>> \in LessThan
    BY <2>1 DEF LessThan
  <2> QED BY <1>2, <2>1, <2>2
<1> QED BY <1>3

(* Every nonempty bounded set of natural numbers has a greatest element.   *)
LEMMA GreatestElement ==
  ASSUME NEW S, S \subseteq Nat, S # {}, NEW b \in Nat, \A s \in S : s <= b
  PROVE  \E n \in S : \A m \in S : m <= n
<1> DEFINE T == {n \in Nat : \A s \in S : s <= n}
<1>1. T \subseteq Nat /\ b \in T
  OBVIOUS
<1>2. PICK n \in T : \A m \in T : n <= m
  <2> HIDE DEF T
  <2> QED BY <1>1, LeastElement
<1>3. n \in S
  <2> SUFFICES ASSUME n \notin S PROVE FALSE
    OBVIOUS
  <2>1. n \in Nat /\ \A s \in S : s <= n /\ s # n /\ s \in Nat
    OBVIOUS
  <2>2. n # 0 /\ n - 1 \in Nat
    <3>1. PICK s \in S : TRUE
      OBVIOUS
    <3> QED BY <2>1, <3>1
  <2>3. \A s \in S : s <= n - 1
    BY <2>1
  <2>4. n <= n - 1
    BY <1>2, <2>2, <2>3
  <2> QED
    BY <2>1, <2>4
<1> QED BY <1>3

(* A set with 0 and every successor of its members has every number.       *)
LEMMA SetInduction ==
  ASSUME NEW S, 0 \in S, \A n \in Nat : n \in S => n + 1 \in S
  PROVE  Nat \subseteq S
<1> SUFFICES ASSUME Nat \ S # {} PROVE FALSE
  OBVIOUS
<1>1. PICK n \in Nat \ S : \A m \in Nat \ S : n <= m
  BY LeastElement
<1>2. n # 0 /\ n - 1 \in Nat
  BY <1>1
<1>3. n - 1 \in S
  BY <1>1, <1>2
<1> QED BY <1>1, <1>2, <1>3

(* The same from l to h.                                                   *)
LEMMA IntervalInduction ==
  ASSUME NEW l \in Nat, NEW h \in Nat, NEW S, l \in S,
         \A n \in l..(h - 1) : n \in S => n + 1 \in S
  PROVE  l..h \subseteq S
<1> DEFINE T == {n \in Nat : n \in l..h => n \in S}
<1>1. 0 \in T
  OBVIOUS
<1>2. \A n \in Nat : n \in T => n + 1 \in T
  <2> SUFFICES ASSUME NEW n \in Nat, n \in T, n + 1 \in l..h
               PROVE  n + 1 \in S
    OBVIOUS
  <2>1. CASE n + 1 = l
    BY <2>1
  <2>2. CASE n + 1 # l
    BY <2>2
  <2> QED BY <2>1, <2>2
<1>3. Nat \subseteq T
  <2> HIDE DEF T
  <2> QED BY <1>1, <1>2, SetInduction
<1> QED BY <1>3

(* f starts with first and takes each value from the one before by a step. *)
Recurs(f, n, first, step) == f[0] = first /\ \A i \in 1..n : f[i] = step[i][f[i - 1]]

(* A function defined by recursion on 0..n, each value from the one before *)
(* by a step within D.                                                     *)
LEMMA RecursionOnInterval ==
  ASSUME NEW D, NEW first \in D, NEW n \in Nat, NEW step \in [1..n -> [D -> D]]
  PROVE  \E f \in [0..n -> D] : Recurs(f, n, first, step)
<1> USE DEF Recurs
<1> DEFINE S == {k \in Nat : k <= n => \E f \in [0..k -> D] : Recurs(f, k, first, step)}
<1>1. 0 \in S
  <2>1. [i \in 0..0 |-> first] \in [0..0 -> D] /\ Recurs([i \in 0..0 |-> first], 0, first, step)
    OBVIOUS
  <2> QED BY <2>1
<1>2. ASSUME NEW k \in Nat, k \in S PROVE k + 1 \in S
  <2> SUFFICES ASSUME k + 1 <= n PROVE \E f \in [0..(k + 1) -> D] : Recurs(f, k + 1, first, step)
    OBVIOUS
  <2>1. PICK f \in [0..k -> D] : Recurs(f, k, first, step)
    BY <1>2
  <2> DEFINE g == [i \in 0..(k + 1) |-> IF i = k + 1 THEN step[k + 1][f[k]] ELSE f[i]]
  <2>2. step[k + 1] \in [D -> D] /\ f[k] \in D
    OBVIOUS
  <2>3. g \in [0..(k + 1) -> D] /\ g[k + 1] = step[k + 1][f[k]] /\ \A i \in 0..k : g[i] = f[i]
    BY <2>2
  <2> HIDE DEF g
  <2>4. ASSUME NEW i \in 1..(k + 1) PROVE g[i] = step[i][g[i - 1]]
    <3>1. CASE i = k + 1
      BY <2>3, <3>1
    <3>2. CASE i \in 1..k
      BY <2>1, <2>3, <3>2
    <3> QED BY <3>1, <3>2
  <2>5. Recurs(g, k + 1, first, step)
    BY <2>1, <2>3, <2>4
  <2> QED BY <2>3, <2>5
<1>3. n \in S
  <2> HIDE DEF S
  <2> QED BY <1>1, <1>2, SetInduction
<1> QED BY <1>3
=============================================================================

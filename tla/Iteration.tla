------------------------------ MODULE Iteration ------------------------------
(***************************************************************************)
(* Induction, for the modules whose definitions count up to something.  A  *)
(* recursive function f[n \in 0 .. N] names whatever function solves its    *)
(* equation, if one does; the lemmas here give one, from the fact of the   *)
(* library that < is well-founded.                                         *)
(***************************************************************************)
EXTENDS Integers, WellFoundedInduction, TLAPS

\* The order of the natural numbers as a set of pairs.
Less == {p \in Nat \X Nat : p[1] < p[2]}

\* Every nonempty set of natural numbers has a least one.
LEMMA LeastNumber ==
    ASSUME NEW S, S \subseteq Nat, S # {}
    PROVE  \E m \in S : \A n \in S : m <= n
  <1>1. IsWellFoundedOn(Less, Nat)
    BY NatLessThanWellFounded DEF OpToRel, Less
  <1>2. PICK m \in S : \A n \in S : <<n, m>> \notin Less
    BY <1>1, WFMin
  <1>3. ASSUME NEW n \in S
        PROVE  m <= n
    <2>1. m \in Nat /\ n \in Nat
      OBVIOUS
    <2>2. n < m => <<n, m>> \in Less
      BY <2>1 DEF Less
    <2> QED
      BY <1>2, <2>1, <2>2
  <1> QED
    BY <1>3

\* A set that holds 0, and with every number the next one, holds all.
LEMMA Induction ==
    ASSUME NEW S, 0 \in S, \A n \in Nat : n \in S => n + 1 \in S
    PROVE  Nat \subseteq S
  <1> SUFFICES ASSUME NEW k \in Nat, k \notin S PROVE FALSE
    OBVIOUS
  <1> DEFINE Missed == {n \in Nat : n \notin S}
  <1>1. PICK m \in Missed : \A n \in Missed : m <= n
    BY LeastNumber
  <1>2. m # 0 /\ m - 1 \in Nat /\ m - 1 \notin Missed
    BY <1>1
  <1> QED
    BY <1>1, <1>2

\* f lists the values that step takes when it is iterated N times from first.
Lists(f, N, A, first, step) ==
    /\ f \in [0 .. N -> A]
    /\ f[0] = first
    /\ \A n \in 1 .. N : f[n] = step[<<n, f[n - 1]>>]

\* There is such a list.
LEMMA Iterates ==
    ASSUME NEW N \in Nat, NEW A, NEW first \in A, NEW step \in [Nat \X A -> A]
    PROVE  \E f : Lists(f, N, A, first, step)
  <1> DEFINE Good == {m \in Nat : \E f : Lists(f, m, A, first, step)}
  <1>1. 0 \in Good
    <2>1. Lists([n \in 0 .. 0 |-> first], 0, A, first, step)
      BY DEF Lists
    <2> QED
      BY <2>1
  <1>2. ASSUME NEW m \in Nat, m \in Good
        PROVE  m + 1 \in Good
    <2>1. PICK f : Lists(f, m, A, first, step)
      BY <1>2
    <2> DEFINE g == [n \in 0 .. m + 1 |-> IF n = m + 1 THEN step[<<m + 1, f[m]>>]
                                                       ELSE f[n]]
    <2>2. step[<<m + 1, f[m]>>] \in A
      BY <2>1 DEF Lists
    <2>3. g \in [0 .. m + 1 -> A] /\ g[0] = first
      BY <2>1, <2>2 DEF Lists
    <2>4. ASSUME NEW n \in 1 .. m + 1
          PROVE  g[n] = step[<<n, g[n - 1]>>]
      <3>1. n - 1 \in 0 .. m /\ g[n - 1] = f[n - 1]
        OBVIOUS
      <3>2. CASE n = m + 1
        <4>1. g[n] = step[<<m + 1, f[m]>>] /\ n - 1 = m
          BY <3>2
        <4> QED
          BY <3>1, <3>2, <4>1
      <3>3. CASE n # m + 1
        <4>1. n \in 1 .. m /\ g[n] = f[n]
          BY <3>3
        <4> QED
          BY <2>1, <3>1, <4>1 DEF Lists
      <3> QED
        BY <3>2, <3>3
    <2>5. Lists(g, m + 1, A, first, step)
      BY <2>3, <2>4 DEF Lists
    <2> HIDE DEF g
    <2> QED
      BY <2>5
  <1>3. N \in Good
    <2> HIDE DEF Good
    <2> QED
      BY <1>1, <1>2, Induction
  <1> QED
    BY <1>3

\* f and g start alike, and continue alike up to N.
RunsAlike(f, g, N) ==
    /\ f[0] = g[0]
    /\ \A n \in 1 .. N : f[n - 1] = g[n - 1] => f[n] = g[n]

\* Two such functions are the same.
LEMMA SameIteration ==
    ASSUME NEW N \in Nat, NEW f, NEW g, RunsAlike(f, g, N)
    PROVE  \A n \in 0 .. N : f[n] = g[n]
  <1> USE DEF RunsAlike
  <1> DEFINE Same == {n \in Nat : n <= N => f[n] = g[n]}
  <1>1. 0 \in Same
    OBVIOUS
  <1>2. ASSUME NEW n \in Nat, n \in Same
        PROVE  n + 1 \in Same
    <2>1. n + 1 <= N => n + 1 \in 1 .. N /\ (n + 1) - 1 = n
      OBVIOUS
    <2> QED
      BY <1>2, <2>1
  <1>3. Nat \subseteq Same
    <2> HIDE DEF Same
    <2> QED
      BY <1>1, <1>2, Induction
  <1> QED
    BY <1>3

\* f is the same without an end.
Repeats(f, A, first, step) ==
    /\ f \in [Nat -> A]
    /\ f[0] = first
    /\ \A n \in Nat : f[n + 1] = step[<<n + 1, f[n]>>]

\* There is such a sequence: the lists of all lengths agree.
LEMMA Repetition ==
    ASSUME NEW A, NEW first \in A, NEW step \in [Nat \X A -> A]
    PROVE  \E f : Repeats(f, A, first, step)
  <1> DEFINE list(n) == CHOOSE g : Lists(g, n, A, first, step)
             f == [n \in Nat |-> list(n)[n]]
  <1>1. ASSUME NEW n \in Nat
        PROVE  Lists(list(n), n, A, first, step)
    BY Iterates
  <1> HIDE DEF list
  <1>2. ASSUME NEW n \in Nat
        PROVE  /\ list(n)[n] \in A
               /\ list(n)[0] = first
               /\ \A k \in 1 .. n : list(n)[k] = step[<<k, list(n)[k - 1]>>]
    <2>1. n \in 0 .. n
      OBVIOUS
    <2> QED
      BY <1>1, <2>1 DEF Lists
  <1>3. ASSUME NEW n \in Nat
        PROVE  f[n + 1] = step[<<n + 1, f[n]>>]
    <2>1. n + 1 \in Nat /\ n + 1 \in 1 .. n + 1 /\ (n + 1) - 1 = n
      OBVIOUS
    <2>2. PICK g, h : g = list(n + 1) /\ h = list(n)
      OBVIOUS
    <2>3. RunsAlike(g, h, n)
      <3>1. \A k \in 1 .. n : k \in 1 .. n + 1
        OBVIOUS
      <3> QED
        BY <1>2, <2>1, <2>2, <3>1 DEF RunsAlike
    <2>4. g[n] = h[n]
      <3>1. \A k \in 0 .. n : g[k] = h[k]
        BY <2>3, SameIteration
      <3> QED
        BY <3>1
    <2>5. g[n + 1] = step[<<n + 1, g[n]>>]
      BY <1>2, <2>1, <2>2
    <2> QED
      BY <2>1, <2>2, <2>4, <2>5
  <1>4. f \in [Nat -> A] /\ f[0] = first
    BY <1>2
  <1> QED
    BY <1>3, <1>4 DEF Repeats

=============================================================================

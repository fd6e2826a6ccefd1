----------------------------- MODULE Induction -----------------------------
(***************************************************************************)
(* Induction and recursion over the natural numbers, without an operator   *)
(* as a parameter: a set of numbers has a least element, so a set of       *)
(* counterexamples is empty when it has no least one; and a function       *)
(* defined by a start and a step exists.                                   *)
(***************************************************************************)
EXTENDS Integers, NaturalsInduction, WellFoundedInduction, TLAPS

\* A set of natural numbers has a least element.
LEMMA Least ==
    ASSUME NEW S \in SUBSET Nat, S # {}
    PROVE  \E n \in S : \A m \in S : n <= m
<1>1. PICK n \in S : \A m \in S : <<m, n>> \notin OpToRel(<, Nat)
  BY NatLessThanWellFounded, WFMin
<1>2. ASSUME NEW m \in S PROVE n <= m
  <2>1. <<m, n>> \notin {ss \in Nat \X Nat : ss[1] < ss[2]}
    BY <1>1 DEF OpToRel
  <2>2. QED
    BY <2>1
<1>3. QED
  BY <1>2

\* A set that has 0 and, with a number, the next one, has them all.
LEMMA Every ==
    ASSUME NEW S \in SUBSET Nat, 0 \in S, \A n \in S : n + 1 \in S
    PROVE  S = Nat
<1> SUFFICES ASSUME Nat \ S # {} PROVE FALSE
  OBVIOUS
<1>1. PICK n \in Nat \ S : \A m \in Nat \ S : n <= m
  BY Least
<1>2. n # 0 /\ n - 1 \in Nat /\ ~(n <= n - 1)
  BY <1>1
<1>3. n - 1 \in S
  BY <1>1, <1>2
<1>4. (n - 1) + 1 = n
  BY <1>1
<1>5. QED
  BY <1>1, <1>3, <1>4

-----------------------------------------------------------------------------
(* g is the function from start by step, as far as n.                      *)

UpTo(n, g, S, start, step) ==
    /\ g \in [0..n -> S]
    /\ g[0] = start
    /\ \A m \in 0..(n - 1) : g[m + 1] = step[<<m, g[m]>>]

LEMMA UpToExists ==
    ASSUME NEW S, NEW start \in S, NEW step \in [Nat \X S -> S]
    PROVE  \A n \in Nat : \E g : UpTo(n, g, S, start, step)
<1> DEFINE Good == {n \in Nat : \E g : UpTo(n, g, S, start, step)}
<1>1. 0 \in Good
  <2>1. UpTo(0, [i \in 0..0 |-> start], S, start, step)
    BY DEF UpTo
  <2>2. QED
    BY <2>1
<1>2. ASSUME NEW n \in Good PROVE n + 1 \in Good
  <2>1. n \in Nat
    OBVIOUS
  <2>2. PICK g : UpTo(n, g, S, start, step)
    OBVIOUS
  <2> DEFINE h == [i \in 0..(n + 1) |-> IF i <= n THEN g[i] ELSE step[<<n, g[n]>>]]
  <2>3. g[n] \in S /\ step[<<n, g[n]>>] \in S
    BY <2>1, <2>2 DEF UpTo
  <2>4. h \in [0..(n + 1) -> S]
    BY <2>1, <2>2, <2>3 DEF UpTo
  <2>5. \A i \in 0..n : h[i] = g[i]
    BY <2>1
  <2>6. h[n + 1] = step[<<n, g[n]>>]
    BY <2>1
  <2>7. h[0] = start
    BY <2>1, <2>2, <2>5 DEF UpTo
  <2> HIDE DEF h
  <2>8. ASSUME NEW m \in 0..n PROVE h[m + 1] = step[<<m, h[m]>>]
    <3>1. CASE m = n
      BY <2>1, <2>5, <2>6, <3>1
    <3>2. CASE m # n
      <4>1. m \in 0..(n - 1) /\ m + 1 \in 0..n
        BY <2>1, <3>2
      <4>2. g[m + 1] = step[<<m, g[m]>>]
        BY <2>2, <4>1 DEF UpTo
      <4>3. QED
        BY <2>5, <4>1, <4>2
    <3>3. QED
      BY <3>1, <3>2
  <2>9. (n + 1) - 1 = n
    BY <2>1
  <2>10. UpTo(n + 1, h, S, start, step)
    BY <2>4, <2>7, <2>8, <2>9 DEF UpTo
  <2>11. QED
    BY <2>1, <2>10
<1>3. Good = Nat
  <2>1. Good \in SUBSET Nat
    OBVIOUS
  <2> HIDE DEF Good
  <2>2. QED
    BY <1>1, <1>2, <2>1, Every
<1>4. QED
  BY <1>3

LEMMA UpToUnique ==
    ASSUME NEW S, NEW start \in S, NEW step \in [Nat \X S -> S],
           NEW n \in Nat, NEW k \in Nat, n <= k, NEW g, NEW h,
           UpTo(n, g, S, start, step), UpTo(k, h, S, start, step)
    PROVE  \A i \in 0..n : g[i] = h[i]
<1> DEFINE Same == {i \in Nat : i <= n => g[i] = h[i]}
<1>1. 0 \in Same
  BY DEF UpTo
<1>2. ASSUME NEW i \in Same PROVE i + 1 \in Same
  <2> SUFFICES ASSUME i + 1 <= n PROVE g[i + 1] = h[i + 1]
    OBVIOUS
  <2>1. i \in 0..(n - 1) /\ i \in 0..(k - 1) /\ i <= n
    OBVIOUS
  <2>2. g[i + 1] = step[<<i, g[i]>>] /\ h[i + 1] = step[<<i, h[i]>>]
    BY <2>1 DEF UpTo
  <2>3. QED
    BY <2>1, <2>2
<1>3. Same = Nat
  <2>1. Same \in SUBSET Nat
    OBVIOUS
  <2> HIDE DEF Same
  <2>2. QED
    BY <1>1, <1>2, <2>1, Every
<1>4. QED
  BY <1>3

\* g is the function from start by step.
Follows(g, S, start, step) ==
    /\ g \in [Nat -> S]
    /\ g[0] = start
    /\ \A n \in Nat : g[n + 1] = step[<<n, g[n]>>]

\* A start and a step have their function.
LEMMA Recursion ==
    ASSUME NEW S, NEW start \in S, NEW step \in [Nat \X S -> S]
    PROVE  \E g : Follows(g, S, start, step)
<1> DEFINE G(n) == CHOOSE g : UpTo(n, g, S, start, step)
           h == [n \in Nat |-> G(n)[n]]
<1>1. \A n \in Nat : UpTo(n, G(n), S, start, step)
  BY UpToExists
<1> HIDE DEF G
<1>2. h \in [Nat -> S]
  <2>1. ASSUME NEW n \in Nat PROVE G(n)[n] \in S
    <3>1. G(n) \in [0..n -> S] /\ n \in 0..n
      BY <1>1 DEF UpTo
    <3>2. QED
      BY <3>1
  <2>2. QED
    BY <2>1
<1>3. h[0] = start
  BY <1>1 DEF UpTo
<1>4. ASSUME NEW n \in Nat PROVE h[n + 1] = step[<<n, h[n]>>]
  <2>1. n + 1 \in Nat /\ n <= n + 1 /\ n \in 0..n /\ n \in 0..((n + 1) - 1)
    OBVIOUS
  <2>2. UpTo(n, G(n), S, start, step) /\ UpTo(n + 1, G(n + 1), S, start, step)
    BY <1>1, <2>1
  <2>3. G(n)[n] = G(n + 1)[n]
    <3>1. \A g, f : UpTo(n, g, S, start, step) /\ UpTo(n + 1, f, S, start, step)
                      => \A i \in 0..n : g[i] = f[i]
      <4> HIDE DEF h
      <4>1. QED
        BY <2>1, UpToUnique
    <3>2. QED
      BY <2>1, <2>2, <3>1
  <2>4. G(n + 1)[n + 1] = step[<<n, G(n + 1)[n]>>]
    BY <2>1, <2>2 DEF UpTo
  <2>5. QED
    BY <2>1, <2>3, <2>4
<1>5. QED
  <2> HIDE DEF h
  <2>1. QED
    BY <1>2, <1>3, <1>4 DEF Follows
=============================================================================

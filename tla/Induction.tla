------------------------------ MODULE Induction ------------------------------
(***************************************************************************)
(* Induction over the natural numbers without an operator for what is       *)
(* shown: a property of numbers is the set of those that have it.            *)
(***************************************************************************)
EXTENDS Integers, WellFoundedInduction, TLAPS

\* A set of natural numbers that is not empty has a least element.
LEMMA LeastNumber ==
  ASSUME NEW T, T \subseteq Nat, T # {}
  PROVE  \E x \in T : \A y \in T : x <= y
<1> DEFINE R == OpToRel(<, Nat)
<1>1. IsWellFoundedOn(R, Nat)
  BY NatLessThanWellFounded
<1>2. \A x, y \in Nat : <<y, x>> \notin R => x <= y
  BY DEF OpToRel
<1> HIDE DEF R
<1>3. PICK x \in T : \A y \in T : <<y, x>> \notin R
  BY <1>1, WFMin
<1> QED
  BY <1>2, <1>3

\* What 0 has and every number below n passes on to the next, 0 to n have.
LEMMA UpTo ==
  ASSUME NEW n \in Nat, NEW S, 0 \in S, \A i \in 0 .. n - 1 : i \in S => i + 1 \in S
  PROVE  \A i \in 0 .. n : i \in S
<1> SUFFICES ASSUME NEW m \in 0 .. n, m \notin S PROVE FALSE
  OBVIOUS
<1> DEFINE T == {i \in 0 .. n : i \notin S}
<1>1. T # {} /\ T \subseteq Nat
  OBVIOUS
<1> HIDE DEF T
<1>2. PICK k \in T : \A i \in T : k <= i
  BY <1>1, LeastNumber
<1> USE DEF T
<1>3. k # 0 /\ k - 1 \in 0 .. n - 1 /\ k - 1 \notin T
  BY <1>2
<1> QED
  BY <1>3

\* The values of f start with s0, and step takes each to the next.
Steps(step, S, n) == step \in [S \X (1 .. n) -> S]
Iterates(f, step, s0, S, n) ==
    /\ f \in [0 .. n -> S] /\ f[0] = s0
    /\ \A i \in 1 .. n : f[i] = step[<<f[i - 1], i>>]

LEMMA Iterated ==
  ASSUME NEW S, NEW s0 \in S, NEW n \in Nat, NEW step, Steps(step, S, n)
  PROVE  \E f : Iterates(f, step, s0, S, n)
<1> DEFINE A == {m \in 0 .. n : \E f : Iterates(f, step, s0, S, m)}
<1>1. 0 \in A
  <2> DEFINE f == [i \in 0 .. 0 |-> s0]
  <2>1. Iterates(f, step, s0, S, 0)
    BY DEF Iterates
  <2> HIDE DEF f
  <2> QED
    BY <2>1
<1>2. ASSUME NEW m \in 0 .. n - 1, m \in A
      PROVE  m + 1 \in A
  <2>1. PICK f : Iterates(f, step, s0, S, m)
    BY <1>2
  <2> DEFINE next == step[<<f[m], m + 1>>]
             g == [i \in 0 .. m + 1 |-> IF i <= m THEN f[i] ELSE next]
  <2>2. <<f[m], m + 1>> \in S \X (1 .. n)
    BY <2>1 DEF Iterates
  <2>3. next \in S
    BY <2>2 DEF Steps
  <2>4. g \in [0 .. m + 1 -> S] /\ g[0] = s0
    BY <2>1, <2>3 DEF Iterates
  <2>5. ASSUME NEW i \in 1 .. m + 1
        PROVE  g[i] = step[<<g[i - 1], i>>]
    <3>1. CASE i \in 1 .. m
      BY <2>1, <3>1 DEF Iterates
    <3>2. CASE i = m + 1
      BY <2>1, <3>2 DEF Iterates
    <3> QED
      BY <3>1, <3>2
  <2> HIDE DEF g
  <2>6. Iterates(g, step, s0, S, m + 1)
    BY <2>4, <2>5 DEF Iterates
  <2> QED
    BY <2>6
<1> HIDE DEF A
<1>3. n \in A
  BY <1>1, <1>2, UpTo
<1> QED
  BY <1>3 DEF A
=============================================================================

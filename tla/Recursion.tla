------------------------------- MODULE Recursion -------------------------------
(***************************************************************************)
(* Induction over the natural numbers and the existence of recursively     *)
(* defined functions, with sets and functions in the place of operators:   *)
(* the lemmas through which the other proof modules reason about the       *)
(* recursive functions of the models.                                      *)
(***************************************************************************)
EXTENDS Integers, WellFoundedInduction, TLAPS

(* Every set of natural numbers that has an element has a least one.       *)
LEMMA LeastNatural ==
    ASSUME NEW S \in SUBSET Nat, S # {}
    PROVE  \E n \in S : \A m \in S : n <= m
<1>. DEFINE R == {p \in Nat \X Nat : p[1] < p[2]}
<1>1. IsWellFoundedOn(R, Nat)
  BY NatLessThanWellFounded DEF OpToRel
<1>2. \A m, n \in Nat : m < n => <<m, n>> \in R
  OBVIOUS
<1>. HIDE DEF R
<1>3. PICK n \in S : \A m \in S : ~ (<<m, n>> \in R)
  BY <1>1, WFMin
<1>4. \A m \in S : ~ (m < n)
  BY <1>2, <1>3
<1>5. n \in Nat /\ \A m \in S : m \in Nat
  OBVIOUS
<1>. QED BY <1>4, <1>5

(* Every set of natural numbers with an upper bound that has an element    *)
(* has a greatest one.                                                     *)
LEMMA GreatestNatural ==
    ASSUME NEW S \in SUBSET Nat, S # {}, NEW N \in Nat, \A n \in S : n <= N
    PROVE  \E n \in S : \A m \in S : m <= n
<1>. DEFINE T == {N - n : n \in S}
<1>1. T \in SUBSET Nat /\ T # {}
  <2>1. \A n \in S : n \in Nat /\ N - n \in Nat
    OBVIOUS
  <2>2. \A t \in T : t \in Nat
    BY <2>1
  <2>. QED BY <2>2
<1>2. PICK t \in T : \A u \in T : t <= u
  <2>. HIDE DEF T
  <2>. QED BY <1>1, LeastNatural
<1>3. PICK n \in S : t = N - n
  BY <1>2
<1>4. \A m \in S : N - m \in T /\ t <= N - m
  BY <1>2
<1>5. ASSUME NEW m \in S PROVE m <= n
  BY <1>3, <1>4
<1>. QED BY <1>5

(* Induction: a set of natural numbers that has 0 and the successor of     *)
(* each of its elements below N has every number up to N.                  *)
LEMMA InductionUpTo ==
    ASSUME NEW N \in Nat, NEW S, 0 \in S,
           \A n \in 0..N : n < N /\ n \in S => n + 1 \in S
    PROVE  \A n \in 0..N : n \in S
<1>. DEFINE Rest == {n \in 0..N : n \notin S}
<1>1. SUFFICES ASSUME Rest # {} PROVE FALSE
  OBVIOUS
<1>2. Rest \in SUBSET Nat
  OBVIOUS
<1>3. PICK n \in Rest : \A m \in Rest : n <= m
  <2>. HIDE DEF Rest
  <2>. QED BY <1>1, <1>2, LeastNatural
<1>4. n # 0 /\ n \in 1..N /\ n - 1 \in 0..N
  BY <1>3
<1>5. n - 1 \in S
  BY <1>3, <1>4
<1>. QED BY <1>3, <1>4, <1>5

(* The same for all natural numbers.                                       *)
LEMMA InductionOnNat ==
    ASSUME NEW S, 0 \in S, \A n \in Nat : n \in S => n + 1 \in S
    PROVE  Nat \subseteq S
<1>. SUFFICES ASSUME NEW N \in Nat PROVE N \in S
  OBVIOUS
<1>1. \A n \in 0..N : n < N /\ n \in S => n + 1 \in S
  OBVIOUS
<1>2. \A n \in 0..N : n \in S
  BY <1>1, InductionUpTo
<1>. QED BY <1>2

(* Recursions over 0..N: the value at 0 is a, the one at n is step of n    *)
(* and the value at n - 1.                                                 *)
Steps(N, A) == [(1..N) \X A -> A]
Solves(f, N, a, step) == f[0] = a /\ \A n \in 1..N : f[n] = step[<<n, f[n - 1]>>]

(* Such a recursion has a solution.                                        *)
LEMMA RecursionUpTo ==
    ASSUME NEW N \in Nat, NEW A, NEW a \in A, NEW step \in Steps(N, A)
    PROVE  \E f \in [0..N -> A] : Solves(f, N, a, step)
<1>. DEFINE S == {k \in 0..N : \E f \in [0..k -> A] : Solves(f, k, a, step)}
<1>1. 0 \in S
  <2>. DEFINE f == [n \in 0..0 |-> a]
  <2>1. f \in [0..0 -> A] /\ Solves(f, 0, a, step)
    BY DEF Solves
  <2>2. \E h \in [0..0 -> A] : Solves(h, 0, a, step)
    <3>. HIDE DEF f
    <3>. QED BY <2>1
  <2>. QED BY <2>2
<1>2. ASSUME NEW k \in 0..N, k < N, k \in S
      PROVE  k + 1 \in S
  <2>1. PICK f \in [0..k -> A] : Solves(f, k, a, step)
    BY <1>2
  <2>. DEFINE g == [n \in 0..(k + 1) |-> IF n = k + 1 THEN step[<<k + 1, f[k]>>] ELSE f[n]]
  <2>2. k + 1 \in 1..N /\ f[k] \in A /\ step[<<k + 1, f[k]>>] \in A
    BY <1>2 DEF Steps
  <2>3. g \in [0..(k + 1) -> A]
    BY <2>2
  <2>4. g[0] = a
    BY <2>1 DEF Solves
  <2>5. ASSUME NEW n \in 1..(k + 1)
        PROVE  g[n] = step[<<n, g[n - 1]>>]
    <3>1. CASE n = k + 1
      <4>1. k \in Int /\ n - 1 = k /\ k \in 0..k
        BY <3>1
      <4>2. g[k] = f[k] /\ g[k + 1] = step[<<k + 1, f[k]>>]
        BY <4>1
      <4>. QED BY <3>1, <4>1, <4>2
    <3>2. CASE n # k + 1
      <4>1. n \in 1..k /\ n - 1 \in 0..k
        BY <3>2
      <4>2. g[n] = f[n] /\ g[n - 1] = f[n - 1]
        BY <4>1
      <4>. QED BY <2>1, <4>1, <4>2 DEF Solves
    <3>. QED BY <3>1, <3>2
  <2>. HIDE DEF g
  <2>6. Solves(g, k + 1, a, step)
    BY <2>4, <2>5 DEF Solves
  <2>7. \E h \in [0..(k + 1) -> A] : Solves(h, k + 1, a, step)
    BY <2>3, <2>6
  <2>. QED BY <1>2, <2>7
<1>3. \A k \in 0..N : k \in S
  <2>. HIDE DEF S
  <2>. QED BY <1>1, <1>2, InductionUpTo
<1>. QED BY <1>3

(* Recursions over all natural numbers.                                    *)
NatSteps(A) == [(Nat \ {0}) \X A -> A]
SolvesOnNat(f, a, step) ==
    f[0] = a /\ \A n \in Nat \ {0} : f[n] = step[<<n, f[n - 1]>>]

(* They have a solution too: its value at n is that of any solution up to  *)
(* n.                                                                      *)
LEMMA RecursionOnNat ==
    ASSUME NEW A, NEW a \in A, NEW step \in NatSteps(A)
    PROVE  \E f \in [Nat -> A] : SolvesOnNat(f, a, step)
<1>. DEFINE upTo == [k \in Nat |-> CHOOSE f \in [0..k -> A] : Solves(f, k, a, step)]
            limit == [n \in Nat |-> upTo[n][n]]
<1>1. ASSUME NEW k \in Nat
      PROVE  \E f \in [0..k -> A] : Solves(f, k, a, step)
  <2>. DEFINE stepTo == [p \in (1..k) \X A |-> step[p]]
  <2>1. stepTo \in Steps(k, A)
    BY DEF Steps, NatSteps
  <2>2. PICK f \in [0..k -> A] : Solves(f, k, a, stepTo)
    <3>. HIDE DEF stepTo
    <3>. QED BY <2>1, RecursionUpTo
  <2>3. \A n \in 1..k : n - 1 \in 0..k /\ f[n - 1] \in A
    OBVIOUS
  <2>4. Solves(f, k, a, step)
    BY <2>2, <2>3 DEF Solves
  <2>. QED BY <2>4
<1>2. ASSUME NEW k \in Nat
      PROVE  upTo[k] \in [0..k -> A] /\ Solves(upTo[k], k, a, step)
  <2>1. upTo[k] = CHOOSE f \in [0..k -> A] : Solves(f, k, a, step)
    OBVIOUS
  <2>. HIDE DEF upTo
  <2>. QED BY <1>1, <2>1
<1>. HIDE DEF upTo
<1>3. ASSUME NEW n \in Nat \ {0}
      PROVE  upTo[n][n - 1] = upTo[n - 1][n - 1]
  <2>. DEFINE S == {k \in 0..(n - 1) : upTo[n][k] = upTo[n - 1][k]}
  <2>1. n - 1 \in Nat /\ 0 \in S
    BY <1>2 DEF Solves
  <2>2. ASSUME NEW k \in 0..(n - 1), k < n - 1, k \in S
        PROVE  k + 1 \in S
    <3>1. k + 1 \in 1..n /\ k + 1 \in 1..(n - 1) /\ (k + 1) - 1 = k
      BY <2>2
    <3>2. upTo[n][k + 1] = step[<<k + 1, upTo[n][(k + 1) - 1]>>]
      BY <1>2, <3>1 DEF Solves
    <3>3. upTo[n - 1][k + 1] = step[<<k + 1, upTo[n - 1][(k + 1) - 1]>>]
      BY <1>2, <2>1, <3>1 DEF Solves
    <3>. QED BY <2>2, <3>1, <3>2, <3>3
  <2>3. \A k \in 0..(n - 1) : k \in S
    <3>. HIDE DEF S
    <3>. QED BY <2>1, <2>2, InductionUpTo
  <2>. QED BY <2>1, <2>3
<1>4. limit \in [Nat -> A]
  <2>1. \A n \in Nat : upTo[n][n] \in A
    BY <1>2
  <2>. QED BY <2>1
<1>5. limit[0] = a
  BY <1>2 DEF Solves
<1>6. ASSUME NEW n \in Nat \ {0}
      PROVE  limit[n] = step[<<n, limit[n - 1]>>]
  <2>1. n \in 1..n /\ n - 1 \in Nat
    OBVIOUS
  <2>2. upTo[n][n] = step[<<n, upTo[n][n - 1]>>]
    BY <1>2, <2>1 DEF Solves
  <2>. QED BY <1>3, <2>1, <2>2
<1>. HIDE DEF limit
<1>. QED BY <1>4, <1>5, <1>6 DEF SolvesOnNat
================================================================================

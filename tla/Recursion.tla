------------------------------ MODULE Recursion ------------------------------
(***************************************************************************)
(* Induction and recursion over the naturals in a form that needs no       *)
(* operator parameter: a set of naturals, a step function.  The proofs     *)
(* about Pow2, probe paths and build_bins, and about the loop of           *)
(* nsync_mu_unlock_slow_ over its new waiters, rest on these lemmas.       *)
(***************************************************************************)
EXTENDS Integers, WellFoundedInduction, TLAPS

(* Every non-empty set of naturals has a least element.  (No code is       *)
(* behind it: it replaces the library's induction rules.)                  *)
LEMMA LeastNat ==
  ASSUME NEW T \in SUBSET Nat, T # {}
  PROVE  \E m \in T : \A k \in T : m <= k
<1> DEFINE R == {ss \in Nat \X Nat : ss[1] < ss[2]}
<1>0. OpToRel(<, Nat) = R
  BY Zenon DEF OpToRel
<1>1. IsWellFoundedOn(R, Nat)
  BY <1>0, NatLessThanWellFounded
<1> HIDE DEF R
<1>2. PICK m \in T : \A k \in T : ~(<<k, m>> \in R)
  BY <1>1, WFMin
<1>3. ASSUME NEW k \in T PROVE m <= k
  <2>1. k \in Nat /\ m \in Nat /\ <<k, m>> \in Nat \X Nat
    OBVIOUS
  <2>2. <<k, m>> \in R <=> k < m
    BY <2>1 DEF R
  <2> QED BY <1>2, <2>1, <2>2
<1> QED BY <1>3

(* A set of naturals with zero and the successor of each element is Nat.   *)
LEMMA InductiveSet ==
  ASSUME NEW T \in SUBSET Nat, 0 \in T, \A n \in T : n + 1 \in T
  PROVE  T = Nat
<1> SUFFICES ASSUME Nat \ T # {} PROVE FALSE
  OBVIOUS
<1>1. PICK m \in Nat \ T : \A k \in Nat \ T : m <= k
  BY LeastNat
<1>2. m # 0 /\ m - 1 \in Nat
  BY <1>1
<1>3. m - 1 \in T
  BY <1>1, <1>2
<1> QED BY <1>1, <1>3

(* The values g takes on 0 .. n when it follows the step function F.       *)
Follows(g, n, s0, F) ==
  /\ g[0] = s0
  /\ \A k \in 0 .. n - 1 : g[k + 1] = F[<<k, g[k]>>]

(* f is the sequence in S that starts with s0 and follows F for ever.      *)
Unfolds(f, S, s0, F) ==
  /\ f \in [Nat -> S]
  /\ f[0] = s0
  /\ \A n \in Nat : f[n + 1] = F[<<n, f[n]>>]

(* Primitive recursion: a start and a step function determine a sequence.  *)
LEMMA RecursionExists ==
  ASSUME NEW S, NEW s0 \in S, NEW F \in [Nat \X S -> S]
  PROVE  \E f : Unfolds(f, S, s0, F)
<1> DEFINE T == {n \in Nat : \E g \in [0 .. n -> S] : Follows(g, n, s0, F)}
<1>1. T = Nat
  <2>1. 0 \in T
    <3>1. [i \in 0 .. 0 |-> s0] \in [0 .. 0 -> S] /\ Follows([i \in 0 .. 0 |-> s0], 0, s0, F)
      BY DEF Follows
    <3> QED BY <3>1
  <2>2. ASSUME NEW n \in T PROVE n + 1 \in T
    <3>1. PICK g \in [0 .. n -> S] : Follows(g, n, s0, F)
      OBVIOUS
    <3> DEFINE h == [i \in 0 .. n + 1 |-> IF i = n + 1 THEN F[<<n, g[n]>>] ELSE g[i]]
    <3>2. n \in Nat /\ g[n] \in S /\ F[<<n, g[n]>>] \in S
      OBVIOUS
    <3>3. h \in [0 .. n + 1 -> S]
      BY <3>2
    <3>4. h[0] = s0
      BY <3>1, <3>2 DEF Follows
    <3>5. ASSUME NEW k \in 0 .. (n + 1) - 1 PROVE h[k + 1] = F[<<k, h[k]>>]
      <4>1. CASE k = n
        <5>1. h[n + 1] = F[<<n, g[n]>>] /\ h[n] = g[n]
          BY <3>2
        <5> QED BY <4>1, <5>1
      <4>2. CASE k # n
        BY <4>2, <3>1, <3>2 DEF Follows
      <4> QED BY <4>1, <4>2
    <3>6. Follows(h, n + 1, s0, F)
      BY <3>4, <3>5 DEF Follows
    <3> QED BY <3>2, <3>3, <3>6
  <2> HIDE DEF T
  <2>3. T \subseteq Nat
    BY DEF T
  <2> QED BY <2>1, <2>2, <2>3, InductiveSet
<1>2. \A n \in Nat : \E g \in [0 .. n -> S] : Follows(g, n, s0, F)
  BY <1>1
<1> HIDE DEF T
<1> DEFINE G == [n \in Nat |-> CHOOSE g \in [0 .. n -> S] : Follows(g, n, s0, F)]
<1>3. ASSUME NEW n \in Nat PROVE G[n] \in [0 .. n -> S] /\ Follows(G[n], n, s0, F)
  BY <1>2
<1> HIDE DEF G
<1>4. ASSUME NEW n \in Nat PROVE \A i \in 0 .. n : G[n + 1][i] = G[n][i]
  <2> DEFINE U == {i \in Nat : i <= n => G[n + 1][i] = G[n][i]}
  <2>1. 0 \in U
    BY <1>3 DEF Follows
  <2>2. ASSUME NEW i \in U PROVE i + 1 \in U
    <3> SUFFICES ASSUME i + 1 <= n PROVE G[n + 1][i + 1] = G[n][i + 1]
      OBVIOUS
    <3>1. G[n][i + 1] = F[<<i, G[n][i]>>]
      BY <1>3 DEF Follows
    <3>2. n + 1 \in Nat /\ i \in 0 .. (n + 1) - 1
      OBVIOUS
    <3>3. G[n + 1][i + 1] = F[<<i, G[n + 1][i]>>]
      BY <1>3, <3>2 DEF Follows
    <3>4. G[n + 1][i] = G[n][i]
      OBVIOUS
    <3> QED BY <3>1, <3>3, <3>4
  <2> HIDE DEF U
  <2>3. U = Nat
    <3>1. U \subseteq Nat
      BY DEF U
    <3> QED BY <2>1, <2>2, <3>1, InductiveSet
  <2> QED BY <2>3 DEF U
<1> DEFINE f == [n \in Nat |-> G[n][n]]
<1>5. f \in [Nat -> S]
  BY <1>3
<1>6. f[0] = s0
  BY <1>3 DEF Follows
<1>7. ASSUME NEW n \in Nat PROVE f[n + 1] = F[<<n, f[n]>>]
  <2>1. n + 1 \in Nat /\ n \in 0 .. (n + 1) - 1
    OBVIOUS
  <2>2. G[n + 1][n + 1] = F[<<n, G[n + 1][n]>>]
    BY <1>3, <2>1 DEF Follows
  <2> QED BY <1>4, <2>1, <2>2
<1> QED BY <1>5, <1>6, <1>7 DEF Unfolds
=============================================================================

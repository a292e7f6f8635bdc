----------------------------- MODULE Recursion -----------------------------
(***************************************************************************)
(* Induction and recursion over the numbers up to a bound, with sets and       *)
(* functions where the library has operators: a loop over a list that a module  *)
(* writes as a recursive function is reasoned about with these.                 *)
(***************************************************************************)
EXTENDS Integers, WellFoundedInduction, TLAPS

\* A set of natural numbers that is not empty has a least one.
LEMMA LeastNatural ==
  ASSUME NEW T \in SUBSET Nat, T # {}
  PROVE  \E m \in T : \A n \in T : m <= n
<1> DEFINE R == OpToRel(<, Nat)
<1>1. IsWellFoundedOn(R, Nat)
  BY NatLessThanWellFounded
<1>2. \A n, m \in Nat : n < m => <<n, m>> \in R
  BY DEF OpToRel
<1> HIDE DEF R
<1>3. PICK m \in T : \A n \in T : ~ (<<n, m>> \in R)
  BY <1>1, WFMin
<1>4. ASSUME NEW n \in T PROVE m <= n
  <2>1. n \in Nat /\ m \in Nat
    OBVIOUS
  <2>2. ~ (n < m)
    BY <1>2, <1>3, <2>1
  <2> QED
    BY <2>1, <2>2
<1> QED
  BY <1>4

\* What holds of 0, and of every number up to N with the one before it, holds up to N.
LEMMA UpTo ==
  ASSUME NEW N \in Nat, NEW T, 0 \in T, \A n \in 1 .. N : n - 1 \in T => n \in T
  PROVE  0 .. N \subseteq T
<1> SUFFICES ASSUME NEW k \in 0 .. N, k \notin T PROVE FALSE
  OBVIOUS
<1> DEFINE Missed == {n \in 0 .. N : n \notin T}
<1>1. PICK m \in Missed : \A n \in Missed : m <= n
  <2> k \in Missed /\ Missed \in SUBSET Nat
    OBVIOUS
  <2> QED
    BY LeastNatural
<1>2. m # 0 /\ m \in 1 .. N
  OBVIOUS
<1>3. m - 1 \in 0 .. N /\ m - 1 \notin Missed
  BY <1>1, <1>2
<1> QED
  BY <1>2, <1>3

\* f has the values that N steps of G, each on the value before it, make of b.
Iterates(f, N, V, b, G) ==
  /\ f \in [0 .. N -> V] /\ f[0] = b
  /\ \A n \in 1 .. N : f[n] = G[<<n, f[n - 1]>>]

\* Steps that stay in a set can be iterated.
LEMMA IterationExists ==
  ASSUME NEW N \in Nat, NEW V, NEW b \in V, NEW G \in [(1 .. N) \X V -> V]
  PROVE  \E f : Iterates(f, N, V, b, G)
<1> DEFINE Good(f, k) == f[0] = b /\ \A n \in 1 .. k : f[n] = G[<<n, f[n - 1]>>]
           T == {k \in 0 .. N : \E f \in [0 .. N -> V] : Good(f, k)}
<1>1. 0 \in T
  <2> DEFINE f == [n \in 0 .. N |-> b]
  <2>1. f \in [0 .. N -> V] /\ Good(f, 0)
    OBVIOUS
  <2> HIDE DEF f
  <2>2. QED
    BY <2>1
<1>2. ASSUME NEW k \in 1 .. N, k - 1 \in T PROVE k \in T
  <2>1. PICK f \in [0 .. N -> V] : Good(f, k - 1)
    BY <1>2
  <2> DEFINE v == G[<<k, f[k - 1]>>]
             g == [f EXCEPT ![k] = v]
  <2>2. v \in V
    OBVIOUS
  <2> HIDE DEF v
  <2>3. g \in [0 .. N -> V] /\ g[0] = b /\ g[k] = v /\ \A n \in 0 .. N : n # k => g[n] = f[n]
    BY <2>1, <2>2
  <2> HIDE DEF g
  <2>4. ASSUME NEW n \in 1 .. k PROVE g[n] = G[<<n, g[n - 1]>>]
    <3>1. CASE n = k
      <4>1. n - 1 \in 0 .. N /\ n - 1 # k
        OBVIOUS
      <4> QED
        BY <3>1, <4>1, <2>3 DEF v
    <3>2. CASE n # k
      <4>1. n - 1 \in 0 .. N /\ n - 1 # k /\ n \in 0 .. N /\ n \in 1 .. k - 1
        BY <3>2
      <4> QED
        BY <3>2, <4>1, <2>3, <2>1
    <3> QED
      BY <3>1, <3>2
  <2>5. Good(g, k)
    BY <2>3, <2>4
  <2> HIDE DEF Good
  <2> QED
    BY <2>3, <2>5
<1>3. N \in T
  <2> HIDE DEF T
  <2>1. 0 .. N \subseteq T
    BY <1>1, <1>2, UpTo
  <2> QED
    BY <2>1
<1>4. PICK f \in [0 .. N -> V] : Good(f, N)
  BY <1>3
<1> QED
  BY <1>4 DEF Iterates
=============================================================================

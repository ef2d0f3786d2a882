----------------------------- MODULE Recursion -----------------------------
(***************************************************************************)
(* When a recursive function is what its definition says.  TLA+ defines    *)
(* f[x \in S] == e as some function that satisfies the equation; these     *)
(* lemmas show that one exists, for the walks along chains and trees.      *)
(***************************************************************************)
EXTENDS Integers, NaturalsInduction, WellFoundedInduction, TLAPS

\* A set of numbers that is not empty has a least element.
LEMMA Least ==
  ASSUME NEW T, T \subseteq Nat, T # {}
  PROVE  \E x \in T : \A y \in T : x <= y
<1> DEFINE R == OpToRel(<, Nat)
<1>1. IsWellFoundedOn(R, Nat)
  BY NatLessThanWellFounded
<1>2. PICK x \in T : \A y \in T : ~ (<<y, x>> \in R)
  <2> HIDE DEF R
  <2> QED
    BY <1>1, WFMin
<1>3. \A y \in T : ~ (y < x)
  BY <1>2 DEF OpToRel
<1>4. QED
  BY <1>3

\* Induction, for a set.
LEMMA Induct ==
  ASSUME NEW S, 0 \in S, \A m \in Nat : m \in S => m + 1 \in S
  PROVE  \A m \in Nat : m \in S
<1>1. SUFFICES ASSUME NEW m \in Nat, m \notin S PROVE FALSE
  OBVIOUS
<1>2. PICK x \in Nat \ S : \A y \in Nat \ S : x <= y
  <2> DEFINE T == Nat \ S
  <2>1. T \subseteq Nat /\ T # {}
    BY <1>1
  <2> HIDE DEF T
  <2>2. \E x \in T : \A y \in T : x <= y
    BY <2>1, Least
  <2>3. QED
    BY <2>2 DEF T
<1>3. x # 0 /\ x - 1 \in Nat /\ x - 1 \in S
  BY <1>2
<1>4. QED
  BY <1>2, <1>3

\* H, one round of a recursive definition, uses values at lower ranks only.
Descends(S, V, rank, H) ==
  /\ rank \in [S -> Nat] /\ H \in [[S -> V] -> [S -> V]]
  /\ \A f, g \in [S -> V], s \in S :
       (\A u \in S : rank[u] < rank[s] => f[u] = g[u]) => H[f][s] = H[g][s]

\* Then there is a function that one round does not change.
THEOREM Recursive ==
  ASSUME NEW S, NEW V, V # {}, NEW rank, NEW H, Descends(S, V, rank, H)
  PROVE  \E w \in [S -> V] : w = H[w]
<1>0. /\ rank \in [S -> Nat] /\ H \in [[S -> V] -> [S -> V]]
      /\ \A f, g \in [S -> V], s \in S :
           (\A u \in S : rank[u] < rank[s] => f[u] = g[u]) => H[f][s] = H[g][s]
  BY DEF Descends
<1> USE <1>0
<1> DEFINE Good(f, m) == \A s \in S : rank[s] < m => f[s] = H[f][s]
<1>1. \A m \in Nat : \E f \in [S -> V] : Good(f, m)
  <2> DEFINE N == {m \in Nat : \E f \in [S -> V] : Good(f, m)}
  <2>1. 0 \in N
    <3>1. PICK v \in V : TRUE
      OBVIOUS
    <3>2. [s \in S |-> v] \in [S -> V]
      OBVIOUS
    <3>3. \A s \in S : ~ (rank[s] < 0)
      OBVIOUS
    <3>4. QED
      BY <3>2, <3>3
  <2>2. \A m \in Nat : m \in N => m + 1 \in N
    <3>1. SUFFICES ASSUME NEW m \in Nat, NEW f \in [S -> V], Good(f, m)
                   PROVE  Good(H[f], m + 1) /\ H[f] \in [S -> V]
      OBVIOUS
    <3>2. H[f] \in [S -> V]
      OBVIOUS
    <3>3. ASSUME NEW s \in S, rank[s] < m + 1 PROVE H[f][s] = H[H[f]][s]
      <4>1. \A u \in S : rank[u] < rank[s] => f[u] = H[f][u]
        BY <3>1, <3>3
      <4>2. QED
        BY <3>2, <4>1
    <3>4. QED
      BY <3>2, <3>3
  <2> HIDE DEF N
  <2>3. \A m \in Nat : m \in N
    BY <2>1, <2>2, Induct
  <2>4. QED
    BY <2>3 DEF N
<1>2. ASSUME NEW f \in [S -> V], NEW g \in [S -> V], NEW m \in Nat, Good(f, m), Good(g, m),
             NEW s \in S, rank[s] < m
      PROVE  f[s] = g[s]
  <2> DEFINE B == {u \in S : rank[u] < m /\ f[u] # g[u]}
             T == {rank[u] : u \in B}
  <2>1. SUFFICES ASSUME s \in B PROVE FALSE
    BY <1>2
  <2>2. T \subseteq Nat /\ T # {}
    <3>1. rank[s] \in T
      BY <2>1
    <3>2. \A u \in B : rank[u] \in Nat
      OBVIOUS
    <3>3. QED
      BY <3>1, <3>2
  <2>3. PICK x \in T : \A y \in T : x <= y
    <3> HIDE DEF T
    <3>1. QED
      BY <2>2, Least
  <2>4. PICK u \in B : rank[u] = x
    BY <2>3
  <2>5. \A v \in S : rank[v] < rank[u] => f[v] = g[v]
    <3>1. SUFFICES ASSUME NEW v \in S, rank[v] < rank[u], f[v] # g[v] PROVE FALSE
      OBVIOUS
    <3>2. rank[v] < m
      BY <2>4, <3>1
    <3>3. v \in B
      BY <3>1, <3>2
    <3>4. x <= rank[v]
      BY <2>3, <3>3
    <3>5. QED
      BY <2>4, <3>1, <3>4
  <2>6. H[f][u] = H[g][u]
    BY <2>5
  <2>7. QED
    BY <1>2, <2>4, <2>6
<1> DEFINE G(m) == CHOOSE f \in [S -> V] : Good(f, m)
           w == [s \in S |-> G(rank[s] + 1)[s]]
<1>3. \A m \in Nat : G(m) \in [S -> V] /\ Good(G(m), m)
  BY <1>1
<1> HIDE DEF G
<1>4. w \in [S -> V]
  BY <1>3
<1>5. ASSUME NEW s \in S PROVE w[s] = H[w][s]
  <2> DEFINE g == G(rank[s] + 1)
  <2>1. g \in [S -> V] /\ Good(g, rank[s] + 1)
    BY <1>3
  <2>2. ASSUME NEW u \in S, rank[u] < rank[s] PROVE w[u] = g[u]
    <3>1. G(rank[u] + 1) \in [S -> V] /\ Good(G(rank[u] + 1), rank[u] + 1)
      BY <1>3
    <3>2. Good(g, rank[u] + 1)
      BY <2>1, <2>2
    <3>3. G(rank[u] + 1)[u] = g[u]
      <4> HIDE DEF g
      <4> DEFINE e == G(rank[u] + 1)
                 m == rank[u] + 1
      <4>1. e \in [S -> V] /\ Good(e, m) /\ m \in Nat /\ rank[u] < m
        BY <3>1
      <4>2. Good(g, m)
        BY <3>2
      <4> HIDE DEF e, m
      <4>3. e[u] = g[u]
        BY <1>2, <2>1, <4>1, <4>2
      <4>4. QED
        BY <4>3 DEF e
    <3>4. QED
      BY <3>3
  <2>3. H[g][s] = H[w][s]
    <3> HIDE DEF g, w
    <3>1. QED
      BY <1>4, <2>1, <2>2
  <2>4. g[s] = H[g][s]
    BY <2>1
  <2>5. QED
    BY <2>3, <2>4
<1>6. H[w] \in [S -> V]
  BY <1>4
<1>7. w = H[w]
  <2> HIDE DEF w
  <2>1. QED
    BY <1>4, <1>5, <1>6
<1>8. QED
  BY <1>4, <1>7

=============================================================================

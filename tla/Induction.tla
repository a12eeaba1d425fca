----------------------------- MODULE Induction ------------------------------
(***************************************************************************)
(* Induction over the natural numbers, as facts about sets of numbers: a   *)
(* nonempty set has a least member, a set that holds 0 and every successor *)
(* is Nat. With them, a table that is defined from each entry to the next  *)
(* exists, so that a recursive function satisfies its own equation.        *)
(***************************************************************************)
EXTENDS Integers, TLAPS, WellFoundedInduction

LEMMA LeastNatural ==
    ASSUME NEW T \in SUBSET Nat, T # {}
    PROVE  \E n \in T : \A m \in T : n <= m
<1> DEFINE Less == {p \in Nat \X Nat : p[1] < p[2]}
<1>1. IsWellFoundedOn(Less, Nat)
  BY NatLessThanWellFounded DEF OpToRel
<1> HIDE DEF Less
<1>2. PICK n \in T : \A m \in T : ~(<<m, n>> \in Less)
  BY <1>1, WFMin
<1>3. ASSUME NEW m \in T PROVE n <= m
  <2>1. m \in Nat /\ n \in Nat /\ ~(<<m, n>> \in Less)
    BY <1>2
  <2>2. m < n => <<m, n>> \in Less
    BY <2>1 DEF Less
  <2> QED BY <2>1, <2>2
<1> QED BY <1>3

LEMMA NatSetInduction ==
    ASSUME NEW T \in SUBSET Nat, 0 \in T, \A n \in T : n + 1 \in T
    PROVE  T = Nat
<1> SUFFICES ASSUME Nat \ T # {} PROVE FALSE
  OBVIOUS
<1>1. PICK n \in Nat \ T : \A m \in Nat \ T : n <= m
  <2>1. Nat \ T \in SUBSET Nat
    OBVIOUS
  <2> QED BY <2>1, LeastNatural
<1>2. n # 0 /\ n - 1 \in Nat
  BY <1>1
<1>3. n - 1 \in T
  BY <1>1, <1>2
<1>4. (n - 1) + 1 \in T
  BY <1>3
<1> QED BY <1>1, <1>2, <1>4

\* The same up to a bound.
LEMMA UpToInduction ==
    ASSUME NEW n \in Nat, NEW T, 0 \in T,
           \A k \in 0..(n - 1) : k \in T => k + 1 \in T
    PROVE  \A k \in 0..n : k \in T
<1> DEFINE U == {k \in Nat : k <= n => k \in T}
<1>1. 0 \in U
  OBVIOUS
<1>2. ASSUME NEW k \in U PROVE k + 1 \in U
  <2>1. CASE k + 1 <= n
    <3>1. k \in Nat /\ k \in 0..(n - 1)
      BY <2>1
    <3>2. k \in T
      BY <2>1, <3>1
    <3> QED BY <3>1, <3>2
  <2>2. CASE ~(k + 1 <= n)
    BY <2>2
  <2> QED BY <2>1, <2>2
<1>3. U = Nat
  <2> HIDE DEF U
  <2>1. U \in SUBSET Nat
    BY DEF U
  <2> QED BY <1>1, <1>2, <2>1, NatSetInduction
<1> QED BY <1>3

\* Each entry is made of the one before it.
IsTable(f, n, first, step) ==
    f[0] = first /\ \A k \in 1..n : f[k] = step[<<k, f[k - 1]>>]

LEMMA TableExists ==
    ASSUME NEW n \in Nat, NEW V, NEW first \in V,
           NEW step, \A k \in 1..n : \A v \in V : step[<<k, v>>] \in V
    PROVE  \E f \in [0..n -> V] : IsTable(f, n, first, step)
<1> DEFINE T == {m \in 0..n : \E f \in [0..m -> V] : IsTable(f, m, first, step)}
<1>1. 0 \in T
  <2> DEFINE g == [k \in 0..0 |-> first]
  <2>1. g \in [0..0 -> V] /\ IsTable(g, 0, first, step)
    BY DEF IsTable
  <2>2. \E f \in [0..0 -> V] : IsTable(f, 0, first, step)
    <3> HIDE DEF g
    <3> QED BY <2>1
  <2> QED BY <2>2
<1>2. ASSUME NEW m \in 0..(n - 1), m \in T PROVE m + 1 \in T
  <2>1. PICK f \in [0..m -> V] : IsTable(f, m, first, step)
    BY <1>2
  <2> DEFINE g == [k \in 0..(m + 1) |-> IF k <= m THEN f[k] ELSE step[<<m + 1, f[m]>>]]
  <2>2. step[<<m + 1, f[m]>>] \in V
    <3>1. m + 1 \in 1..n /\ m \in 0..m
      OBVIOUS
    <3>2. f[m] \in V
      BY <3>1
    <3> DEFINE k == m + 1
               w == f[m]
    <3>3. k \in 1..n /\ w \in V
      BY <3>1, <3>2
    <3> HIDE DEF k, w, g
    <3>4. step[<<k, w>>] \in V
      BY <3>3
    <3> QED BY <3>4 DEF k, w
  <2>3. g \in [0..(m + 1) -> V]
    BY <2>2
  <2>4. g[0] = first
    BY <2>1 DEF IsTable
  <2>5. ASSUME NEW k \in 1..(m + 1) PROVE g[k] = step[<<k, g[k - 1]>>]
    <3>1. CASE k <= m
      <4>1. g[k] = f[k] /\ g[k - 1] = f[k - 1] /\ k \in 1..m
        BY <3>1
      <4> QED BY <2>1, <4>1 DEF IsTable
    <3>2. CASE k = m + 1
      <4>1. g[k] = step[<<m + 1, f[m]>>] /\ g[k - 1] = f[m]
        BY <3>2
      <4> QED BY <3>2, <4>1
    <3> QED BY <3>1, <3>2
  <2>6. \E h \in [0..(m + 1) -> V] : IsTable(h, m + 1, first, step)
    <3>1. IsTable(g, m + 1, first, step)
      BY <2>4, <2>5 DEF IsTable
    <3> HIDE DEF g
    <3> QED BY <2>3, <3>1
  <2>7. m + 1 \in 0..n
    OBVIOUS
  <2> QED BY <2>6, <2>7
<1>3. n \in T
  <2> HIDE DEF T
  <2>1. \A k \in 0..n : k \in T
    BY <1>1, <1>2, UpToInduction
  <2> QED BY <2>1
<1> QED BY <1>3
=============================================================================

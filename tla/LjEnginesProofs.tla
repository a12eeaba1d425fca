-------------------------- MODULE LjEnginesProofs ---------------------------
(***************************************************************************)
(* The four properties of LjEngines, for every number of particles, block  *)
(* size and potential. The argument: the terms that one particle's         *)
(* partners add are a row, Forces(p) and Energies(p); a thread adds up its *)
(* row from the left, and the CPU, which goes by pairs, is at every moment *)
(* somewhere in every row. A sum that stays finite is exact, so what       *)
(* completes is a sum of integers, in which order and grouping do not      *)
(* matter.                                                                 *)
(***************************************************************************)
EXTENDS LjEngines, Induction

-----------------------------------------------------------------------------
(* Sums *)

LEMMA SumsTable ==
    ASSUME NEW v \in [Particles -> Int]
    PROVE  /\ Sums(v) \in [0..N -> Int]
           /\ Sums(v)[0] = 0
           /\ \A k \in 1..N : Sums(v)[k] = Sums(v)[k - 1] + v[k]
<1> DEFINE step == [p \in (1..N) \X Int |-> p[2] + v[p[1]]]
<1> DEFINE Equation(f) == f = [i \in 0..N |-> IF i = 0 THEN 0 ELSE f[i - 1] + v[i]]
<1>1. N \in Nat
  BY LjAssumption
<1>2. \A k \in 1..N : \A x \in Int : step[<<k, x>>] = x + v[k] /\ step[<<k, x>>] \in Int
  BY DEF Particles
<1>3. PICK f \in [0..N -> Int] : IsTable(f, N, 0, step)
  <2> HIDE DEF step
  <2>1. \A k \in 1..N : \A x \in Int : step[<<k, x>>] \in Int
    BY <1>2
  <2>2. 0 \in Int
    OBVIOUS
  <2> HIDE DEF Equation
  <2> QED BY <1>1, <2>1, <2>2, TableExists, Zenon
<1>4. \A k \in 0..N : f[k] = IF k = 0 THEN 0 ELSE f[k - 1] + v[k]
  <2> HIDE DEF step
  <2> TAKE k \in 0..N
  <2>1. CASE k = 0
    BY <1>3, <2>1 DEF IsTable
  <2>2. CASE k # 0
    <3>1. k \in 1..N /\ k - 1 \in 0..N
      BY <1>1, <2>2
    <3> QED BY <1>2, <1>3, <2>2, <3>1 DEF IsTable
  <2> QED BY <2>1, <2>2
<1>5. Equation(f)
  <2>1. f = [k \in 0..N |-> f[k]]
    OBVIOUS
  <2> HIDE DEF step
  <2> QED BY <1>4, <2>1, Zenon
<1>6. Equation(Sums(v))
  <2>1. Sums(v) = CHOOSE g : Equation(g)
    BY DEF Sums
  <2> HIDE DEF Equation
  <2> QED BY <1>5, <2>1
<1>7. /\ Sums(v) = [k \in 0..N |-> Sums(v)[k]]
      /\ Sums(v)[0] = 0
      /\ \A k \in 1..N : Sums(v)[k] = Sums(v)[k - 1] + v[k]
  <2> DEFINE s == Sums(v)
  <2>1. Equation(s)
    BY <1>6
  <2> HIDE DEF s
  <2>2. s = [k \in 0..N |-> s[k]] /\ \A k \in 0..N : s[k] = IF k = 0 THEN 0 ELSE s[k - 1] + v[k]
    BY <2>1, Zenon
  <2> HIDE DEF Equation
  <2>3. s[0] = 0
    <3>1. 0 \in 0..N
      BY <1>1
    <3> QED BY <2>2, <3>1
  <2>4. ASSUME NEW k \in 1..N PROVE s[k] = s[k - 1] + v[k]
    <3>1. k \in 0..N /\ k # 0
      BY <1>1
    <3> QED BY <2>2, <3>1, Zenon
  <2>5. s = Sums(v)
    BY DEF s
  <2> QED BY <2>2, <2>3, <2>4, <2>5, Zenon
<1>8. Sums(v)[0] = 0 /\ \A k \in 1..N : Sums(v)[k] = Sums(v)[k - 1] + v[k]
  BY <1>7, Zenon
<1>9. \A k \in 0..N : Sums(v)[k] \in Int
  <2> HIDE DEF step, Equation
  <2> DEFINE T == {k \in 0..N : Sums(v)[k] \in Int}
  <2>1. 0 \in T
    BY <1>1, <1>8
  <2>2. ASSUME NEW k \in 0..(N - 1), k \in T PROVE k + 1 \in T
    <3>1. k + 1 \in 0..N /\ k + 1 \in 1..N /\ (k + 1) - 1 = k
      BY <1>1
    <3>2. v[k + 1] \in Int
      BY <3>1 DEF Particles
    <3> QED BY <1>8, <2>2, <3>1, <3>2
  <2>3. \A k \in 0..N : k \in T
    <3> HIDE DEF T
    <3> QED BY <1>1, <2>1, <2>2, UpToInduction
  <2> QED BY <2>3
<1> QED BY <1>7, <1>8, <1>9
LEMMA PlusIsDouble ==
    ASSUME NEW x \in Double, NEW y \in Double
    PROVE  Plus(x, y) \in Double
BY DEF Plus, Finite, Double

LEMMA RunningTable ==
    ASSUME NEW v \in [Particles -> Double]
    PROVE  /\ Running(v) \in [0..N -> Double]
           /\ Running(v)[0] = 0
           /\ \A k \in 1..N : Running(v)[k] = Plus(Running(v)[k - 1], v[k])
<1> DEFINE step == [p \in (1..N) \X Double |-> Plus(p[2], v[p[1]])]
<1> DEFINE Equation(f) == f = [i \in 0..N |-> IF i = 0 THEN 0 ELSE Plus(f[i - 1], v[i])]
<1>1. N \in Nat
  BY LjAssumption
<1>2. \A k \in 1..N : \A x \in Double : step[<<k, x>>] = Plus(x, v[k]) /\ step[<<k, x>>] \in Double
  BY PlusIsDouble DEF Particles
<1>3. PICK f \in [0..N -> Double] : IsTable(f, N, 0, step)
  <2> HIDE DEF step
  <2>1. \A k \in 1..N : \A x \in Double : step[<<k, x>>] \in Double
    BY <1>2
  <2>2. 0 \in Double
    BY LjAssumption DEF Double
  <2> HIDE DEF Equation
  <2> QED BY <1>1, <2>1, <2>2, TableExists, Zenon
<1>4. \A k \in 0..N : f[k] = IF k = 0 THEN 0 ELSE Plus(f[k - 1], v[k])
  <2> HIDE DEF step
  <2> TAKE k \in 0..N
  <2>1. CASE k = 0
    BY <1>3, <2>1 DEF IsTable
  <2>2. CASE k # 0
    <3>1. k \in 1..N /\ k - 1 \in 0..N
      BY <1>1, <2>2
    <3> QED BY <1>2, <1>3, <2>2, <3>1 DEF IsTable
  <2> QED BY <2>1, <2>2
<1>5. Equation(f)
  <2>1. f = [k \in 0..N |-> f[k]]
    OBVIOUS
  <2> HIDE DEF step
  <2> QED BY <1>4, <2>1, Zenon
<1>6. Equation(Running(v))
  <2>1. Running(v) = CHOOSE g : Equation(g)
    BY DEF Running
  <2> HIDE DEF Equation
  <2> QED BY <1>5, <2>1
<1>7. /\ Running(v) = [k \in 0..N |-> Running(v)[k]]
      /\ Running(v)[0] = 0
      /\ \A k \in 1..N : Running(v)[k] = Plus(Running(v)[k - 1], v[k])
  <2> DEFINE s == Running(v)
  <2>1. Equation(s)
    BY <1>6
  <2> HIDE DEF s
  <2>2. s = [k \in 0..N |-> s[k]] /\ \A k \in 0..N : s[k] = IF k = 0 THEN 0 ELSE Plus(s[k - 1], v[k])
    BY <2>1, Zenon
  <2> HIDE DEF Equation
  <2>3. s[0] = 0
    <3>1. 0 \in 0..N
      BY <1>1
    <3> QED BY <2>2, <3>1
  <2>4. ASSUME NEW k \in 1..N PROVE s[k] = Plus(s[k - 1], v[k])
    <3>1. k \in 0..N /\ k # 0
      BY <1>1
    <3> QED BY <2>2, <3>1, Zenon
  <2>5. s = Running(v)
    BY DEF s
  <2> QED BY <2>2, <2>3, <2>4, <2>5, Zenon
<1>8. Running(v)[0] = 0 /\ \A k \in 1..N : Running(v)[k] = Plus(Running(v)[k - 1], v[k])
  BY <1>7, Zenon
<1>9. \A k \in 0..N : Running(v)[k] \in Double
  <2> HIDE DEF step, Equation
  <2> DEFINE T == {k \in 0..N : Running(v)[k] \in Double}
  <2>1. 0 \in T
    BY <1>1, <1>8, LjAssumption DEF Double
  <2>2. ASSUME NEW k \in 0..(N - 1), k \in T PROVE k + 1 \in T
    <3>1. k + 1 \in 0..N /\ k + 1 \in 1..N /\ (k + 1) - 1 = k
      BY <1>1
    <3>2. v[k + 1] \in Double
      BY <3>1 DEF Particles
    <3> QED BY <1>8, <2>2, <3>1, <3>2, PlusIsDouble
  <2>3. \A k \in 0..N : k \in T
    <3> HIDE DEF T
    <3> QED BY <1>1, <2>1, <2>2, UpToInduction
  <2> QED BY <2>3
<1> QED BY <1>7, <1>8, <1>9
LEMMA SumIsLast ==
    ASSUME NEW v \in [Particles -> Int]
    PROVE  Sum(v) = Sums(v)[N] /\ Sum(v) \in Int
BY SumsTable, LjAssumption DEF Sum

LEMMA SumsAdd ==
    ASSUME NEW u \in [Particles -> Int], NEW v \in [Particles -> Int],
           NEW w \in [Particles -> Int], \A i \in Particles : u[i] = v[i] + w[i]
    PROVE  \A k \in 0..N : Sums(u)[k] = Sums(v)[k] + Sums(w)[k]
<1> DEFINE T == {k \in 0..N : Sums(u)[k] = Sums(v)[k] + Sums(w)[k]}
<1>1. N \in Nat
  BY LjAssumption
<1>2. Sums(u) \in [0..N -> Int] /\ Sums(u)[0] = 0 /\ Sums(v) \in [0..N -> Int] /\ Sums(v)[0] = 0 /\ Sums(w) \in [0..N -> Int] /\ Sums(w)[0] = 0
  BY SumsTable
<1>3. 0 \in T
  BY <1>1, <1>2
<1>4. ASSUME NEW k \in 0..(N - 1), k \in T PROVE k + 1 \in T
  <2>1. k + 1 \in 1..N /\ k + 1 \in 0..N /\ k + 1 \in Particles /\ (k + 1) - 1 = k /\ k \in 0..N
    BY <1>1 DEF Particles
  <2>2. /\ Sums(u)[k + 1] = Sums(u)[k] + u[k + 1]
        /\ u[k + 1] \in Int /\ Sums(u)[k] \in Int
        /\ Sums(v)[k + 1] = Sums(v)[k] + v[k + 1]
        /\ v[k + 1] \in Int /\ Sums(v)[k] \in Int
        /\ Sums(w)[k + 1] = Sums(w)[k] + w[k + 1]
        /\ w[k + 1] \in Int /\ Sums(w)[k] \in Int
    <3>1. \A j \in 1..N : Sums(u)[j] = Sums(u)[j - 1] + u[j] /\ Sums(v)[j] = Sums(v)[j - 1] + v[j] /\ Sums(w)[j] = Sums(w)[j - 1] + w[j]
      BY SumsTable
    <3> QED BY <3>1, <2>1, <1>2
  <2>3. Sums(u)[k] = Sums(v)[k] + Sums(w)[k] /\ u[k + 1] = v[k + 1] + w[k + 1]
    BY <1>4, <2>1
  <2> QED BY <2>1, <2>2, <2>3
<1>5. \A k \in 0..N : k \in T
  <2> HIDE DEF T
  <2> QED BY <1>1, <1>3, <1>4, UpToInduction
<1> QED BY <1>5

LEMMA SumsNegate ==
    ASSUME NEW u \in [Particles -> Int], NEW v \in [Particles -> Int],
           \A i \in Particles : u[i] = -v[i]
    PROVE  \A k \in 0..N : Sums(u)[k] = -Sums(v)[k]
<1> DEFINE T == {k \in 0..N : Sums(u)[k] = -Sums(v)[k]}
<1>1. N \in Nat
  BY LjAssumption
<1>2. Sums(u) \in [0..N -> Int] /\ Sums(u)[0] = 0 /\ Sums(v) \in [0..N -> Int] /\ Sums(v)[0] = 0
  BY SumsTable
<1>3. 0 \in T
  BY <1>1, <1>2
<1>4. ASSUME NEW k \in 0..(N - 1), k \in T PROVE k + 1 \in T
  <2>1. k + 1 \in 1..N /\ k + 1 \in 0..N /\ k + 1 \in Particles /\ (k + 1) - 1 = k /\ k \in 0..N
    BY <1>1 DEF Particles
  <2>2. /\ Sums(u)[k + 1] = Sums(u)[k] + u[k + 1]
        /\ u[k + 1] \in Int /\ Sums(u)[k] \in Int
        /\ Sums(v)[k + 1] = Sums(v)[k] + v[k + 1]
        /\ v[k + 1] \in Int /\ Sums(v)[k] \in Int
    <3>1. \A j \in 1..N : Sums(u)[j] = Sums(u)[j - 1] + u[j] /\ Sums(v)[j] = Sums(v)[j - 1] + v[j]
      BY SumsTable
    <3> QED BY <3>1, <2>1, <1>2
  <2>3. Sums(u)[k] = -Sums(v)[k] /\ u[k + 1] = -v[k + 1]
    BY <1>4, <2>1
  <2> QED BY <2>1, <2>2, <2>3
<1>5. \A k \in 0..N : k \in T
  <2> HIDE DEF T
  <2> QED BY <1>1, <1>3, <1>4, UpToInduction
<1> QED BY <1>5

LEMMA SumsMonotone ==
    ASSUME NEW u \in [Particles -> Int], NEW v \in [Particles -> Int],
           \A i \in Particles : u[i] <= v[i]
    PROVE  \A k \in 0..N : Sums(u)[k] <= Sums(v)[k]
<1> DEFINE T == {k \in 0..N : Sums(u)[k] <= Sums(v)[k]}
<1>1. N \in Nat
  BY LjAssumption
<1>2. Sums(u) \in [0..N -> Int] /\ Sums(u)[0] = 0 /\ Sums(v) \in [0..N -> Int] /\ Sums(v)[0] = 0
  BY SumsTable
<1>3. 0 \in T
  BY <1>1, <1>2
<1>4. ASSUME NEW k \in 0..(N - 1), k \in T PROVE k + 1 \in T
  <2>1. k + 1 \in 1..N /\ k + 1 \in 0..N /\ k + 1 \in Particles /\ (k + 1) - 1 = k /\ k \in 0..N
    BY <1>1 DEF Particles
  <2>2. /\ Sums(u)[k + 1] = Sums(u)[k] + u[k + 1]
        /\ u[k + 1] \in Int /\ Sums(u)[k] \in Int
        /\ Sums(v)[k + 1] = Sums(v)[k] + v[k + 1]
        /\ v[k + 1] \in Int /\ Sums(v)[k] \in Int
    <3>1. \A j \in 1..N : Sums(u)[j] = Sums(u)[j - 1] + u[j] /\ Sums(v)[j] = Sums(v)[j - 1] + v[j]
      BY SumsTable
    <3> QED BY <3>1, <2>1, <1>2
  <2>3. Sums(u)[k] <= Sums(v)[k] /\ u[k + 1] <= v[k + 1]
    BY <1>4, <2>1
  <2> QED BY <2>1, <2>2, <2>3
<1>5. \A k \in 0..N : k \in T
  <2> HIDE DEF T
  <2> QED BY <1>1, <1>3, <1>4, UpToInduction
<1> QED BY <1>5

\* No partial sum is larger than the sum of the magnitudes.
LEMMA MagnitudesTyped ==
    ASSUME NEW v \in [Particles -> Int]
    PROVE  /\ Magnitudes(v) \in [Particles -> Int]
           /\ \A i \in Particles : 0 <= Magnitudes(v)[i] /\ v[i] <= Magnitudes(v)[i]
                                   /\ -v[i] <= Magnitudes(v)[i]
BY DEF Magnitudes, Absolute

LEMMA SumsOfMagnitudes ==
    ASSUME NEW v \in [Particles -> Int]
    PROVE  \A k \in 0..N : /\ -Sums(Magnitudes(v))[k] <= Sums(v)[k]
                           /\ Sums(v)[k] <= Sums(Magnitudes(v))[k]
<1> DEFINE m == Magnitudes(v)
<1>a. m \in [Particles -> Int] /\ \A i \in Particles : v[i] <= m[i] /\ -v[i] <= m[i]
  BY MagnitudesTyped
<1> HIDE DEF m
<1> DEFINE T == {k \in 0..N : -Sums(m)[k] <= Sums(v)[k] /\ Sums(v)[k] <= Sums(m)[k]}
<1>1. N \in Nat
  BY LjAssumption
<1>2. Sums(m) \in [0..N -> Int] /\ Sums(m)[0] = 0 /\ Sums(v) \in [0..N -> Int] /\ Sums(v)[0] = 0
  BY SumsTable, <1>a
<1>3. 0 \in T
  BY <1>1, <1>2
<1>4. ASSUME NEW k \in 0..(N - 1), k \in T PROVE k + 1 \in T
  <2>1. k + 1 \in 1..N /\ k + 1 \in 0..N /\ k + 1 \in Particles /\ (k + 1) - 1 = k /\ k \in 0..N
    BY <1>1 DEF Particles
  <2>2. /\ Sums(m)[k + 1] = Sums(m)[k] + m[k + 1]
        /\ m[k + 1] \in Int /\ Sums(m)[k] \in Int
        /\ Sums(v)[k + 1] = Sums(v)[k] + v[k + 1]
        /\ v[k + 1] \in Int /\ Sums(v)[k] \in Int
    <3>1. \A j \in 1..N : Sums(m)[j] = Sums(m)[j - 1] + m[j] /\ Sums(v)[j] = Sums(v)[j - 1] + v[j]
      BY SumsTable, <1>a
    <3> QED BY <3>1, <2>1, <1>2, <1>a
  <2>3. -Sums(m)[k] <= Sums(v)[k] /\ Sums(v)[k] <= Sums(m)[k]
        /\ v[k + 1] <= m[k + 1] /\ -v[k + 1] <= m[k + 1]
    BY <1>4, <2>1, <1>a
  <2> QED BY <2>1, <2>2, <2>3
<1>5. \A k \in 0..N : k \in T
  <2> HIDE DEF T
  <2> QED BY <1>1, <1>3, <1>4, UpToInduction
<1> QED BY <1>5 DEF m

LEMMA SumsGrow ==
    ASSUME NEW v \in [Particles -> Int], \A i \in Particles : 0 <= v[i],
           NEW j \in 0..N
    PROVE  Sums(v)[j] <= Sums(v)[N]
<1> DEFINE T == {k \in 0..N : j <= k => Sums(v)[j] <= Sums(v)[k]}
<1>1. N \in Nat
  BY LjAssumption
<1>2. Sums(v) \in [0..N -> Int] /\ Sums(v)[0] = 0
  BY SumsTable
<1>3. 0 \in T
  BY <1>1, <1>2
<1>4. ASSUME NEW k \in 0..(N - 1), k \in T PROVE k + 1 \in T
  <2>1. k + 1 \in 1..N /\ k + 1 \in 0..N /\ k + 1 \in Particles /\ (k + 1) - 1 = k /\ k \in 0..N
    BY <1>1 DEF Particles
  <2>2. /\ Sums(v)[k + 1] = Sums(v)[k] + v[k + 1]
        /\ v[k + 1] \in Int /\ Sums(v)[k] \in Int
    <3>1. \A l \in 1..N : Sums(v)[l] = Sums(v)[l - 1] + v[l]
      BY SumsTable
    <3> QED BY <3>1, <2>1, <1>2
  <2>3. 0 <= v[k + 1] /\ (j <= k => Sums(v)[j] <= Sums(v)[k]) /\ Sums(v)[j] \in Int
    BY <1>2, <1>4, <2>1
  <2>4. CASE j <= k
    BY <2>1, <2>2, <2>3, <2>4
  <2>5. CASE j > k
    <3>1. j <= k + 1 => j = k + 1
      BY <2>1, <2>5
    <3>2. Sums(v)[k + 1] \in Int
      BY <1>2, <2>1
    <3> QED BY <2>1, <3>1, <3>2
  <2> QED BY <2>1, <2>4, <2>5
<1>5. \A k \in 0..N : k \in T
  <2> HIDE DEF T
  <2> QED BY <1>1, <1>3, <1>4, UpToInduction
<1> QED BY <1>5, <1>1

\* Two entries change.
LEMMA SumsOfTwoChanged ==
    ASSUME NEW u \in [Particles -> Int], NEW v \in [Particles -> Int],
           NEW i \in Particles, NEW j \in Particles, i < j, NEW a \in Int, NEW b \in Int,
           u[i] = v[i] + a, u[j] = v[j] + b,
           \A p \in Particles \ {i, j} : u[p] = v[p]
    PROVE  Sum(u) = Sum(v) + a + b
<1> DEFINE T == {k \in 0..N : Sums(u)[k] = Sums(v)[k] + (IF i <= k THEN a ELSE 0) + (IF j <= k THEN b ELSE 0)}
<1>1. N \in Nat
  BY LjAssumption
<1>2. Sums(u) \in [0..N -> Int] /\ Sums(u)[0] = 0 /\ Sums(v) \in [0..N -> Int] /\ Sums(v)[0] = 0
  BY SumsTable
<1>3. 0 \in T
  BY <1>1, <1>2 DEF Particles
<1>4. ASSUME NEW k \in 0..(N - 1), k \in T PROVE k + 1 \in T
  <2>1. k + 1 \in 1..N /\ k + 1 \in 0..N /\ k + 1 \in Particles /\ (k + 1) - 1 = k /\ k \in 0..N
    BY <1>1 DEF Particles
  <2>2. /\ Sums(u)[k + 1] = Sums(u)[k] + u[k + 1]
        /\ u[k + 1] \in Int /\ Sums(u)[k] \in Int
        /\ Sums(v)[k + 1] = Sums(v)[k] + v[k + 1]
        /\ v[k + 1] \in Int /\ Sums(v)[k] \in Int
    <3>1. \A l \in 1..N : Sums(u)[l] = Sums(u)[l - 1] + u[l] /\ Sums(v)[l] = Sums(v)[l - 1] + v[l]
      BY SumsTable
    <3> QED BY <3>1, <2>1, <1>2
  <2>3. Sums(u)[k] = Sums(v)[k] + (IF i <= k THEN a ELSE 0) + (IF j <= k THEN b ELSE 0)
    BY <1>4, <2>1
  <2>4. i \in Int /\ j \in Int
    BY DEF Particles
  <2>5. CASE k + 1 = i
    BY <2>1, <2>2, <2>3, <2>4, <2>5
  <2>6. CASE k + 1 = j
    BY <2>1, <2>2, <2>3, <2>4, <2>6
  <2>7. CASE k + 1 \notin {i, j}
    <3>1. u[k + 1] = v[k + 1] /\ (i <= k + 1 <=> i <= k) /\ (j <= k + 1 <=> j <= k)
      BY <2>1, <2>4, <2>7
    <3> QED BY <2>1, <2>2, <2>3, <3>1
  <2> QED BY <2>5, <2>6, <2>7
<1>5. \A k \in 0..N : k \in T
  <2> HIDE DEF T
  <2> QED BY <1>1, <1>3, <1>4, UpToInduction
<1>6. N \in 0..N /\ i <= N /\ j <= N
  BY <1>1 DEF Particles
<1>7. Sums(u)[N] = Sums(v)[N] + (IF i <= N THEN a ELSE 0) + (IF j <= N THEN b ELSE 0)
  BY <1>5, <1>6
<1>8. Sums(u)[N] \in Int /\ Sums(v)[N] \in Int
  BY <1>2, <1>6
<1> HIDE DEF T
<1> QED BY <1>6, <1>7, <1>8 DEF Sum

-----------------------------------------------------------------------------
(* Sums of doubles. Once a sum is Inf it stays so: one that is finite is exact. *)

Whole(v) == [j \in Particles |-> IF v[j] = Inf THEN 0 ELSE v[j]]

LEMMA WholeIsExact ==
    ASSUME NEW v \in [Particles -> Double]
    PROVE  /\ Whole(v) \in [Particles -> Int]
           /\ \A j \in Particles : v[j] # Inf => Whole(v)[j] = v[j]
BY DEF Whole, Double

LEMMA PlusIsExact ==
    ASSUME NEW x \in Double, NEW y \in Double, Plus(x, y) # Inf
    PROVE  x # Inf /\ y # Inf /\ x \in Int /\ y \in Int /\ Plus(x, y) = x + y
<1>1. x # Inf /\ y # Inf /\ Plus(x, y) = x + y
  BY Zenon DEF Plus, Finite
<1>2. \A d \in Double : d # Inf => d \in Int
  BY DEF Double
<1> QED BY <1>1, <1>2

LEMMA FiniteSumsAreExact ==
    ASSUME NEW v \in [Particles -> Double]
    PROVE  \A k \in 0..N : Running(v)[k] # Inf =>
                /\ Running(v)[k] = Sums(Whole(v))[k]
                /\ \A j \in 1..k : v[j] # Inf
<1> DEFINE w == Whole(v)
<1>a. w \in [Particles -> Int] /\ \A j \in Particles : v[j] # Inf => w[j] = v[j]
  BY WholeIsExact
<1> HIDE DEF w
<1> DEFINE T == {k \in 0..N : Running(v)[k] # Inf =>
                    Running(v)[k] = Sums(w)[k] /\ \A j \in 1..k : v[j] # Inf}
<1>1. N \in Nat
  BY LjAssumption
<1>2. Sums(w)[0] = 0 /\ Running(v)[0] = 0
  BY SumsTable, RunningTable, <1>a
<1>3. 0 \in T
  BY <1>1, <1>2
<1>4. ASSUME NEW k \in 0..(N - 1), k \in T PROVE k + 1 \in T
  <2>1. k + 1 \in 1..N /\ k + 1 \in 0..N /\ k + 1 \in Particles /\ (k + 1) - 1 = k /\ k \in 0..N
    BY <1>1 DEF Particles
  <2>2. Sums(w)[k + 1] = Sums(w)[k] + w[k + 1]
    BY SumsTable, <1>a, <2>1
  <2>3. Running(v)[k + 1] = Plus(Running(v)[k], v[k + 1])
    BY RunningTable, <2>1
  <2>4. Running(v)[k] \in Double /\ v[k + 1] \in Double
    BY RunningTable, <2>1
  <2>5. SUFFICES ASSUME Running(v)[k + 1] # Inf
                 PROVE  /\ Running(v)[k + 1] = Sums(w)[k + 1]
                        /\ \A j \in 1..(k + 1) : v[j] # Inf
    BY <2>1
  <2>6. /\ Running(v)[k] # Inf /\ v[k + 1] # Inf
        /\ Running(v)[k + 1] = Running(v)[k] + v[k + 1]
    BY <2>3, <2>4, <2>5, PlusIsExact
  <2>7. Running(v)[k] = Sums(w)[k] /\ \A j \in 1..k : v[j] # Inf
    BY <1>4, <2>6
  <2>8. \A j \in 1..(k + 1) : j \in 1..k \/ j = k + 1
    BY <2>1
  <2>9. w[k + 1] = v[k + 1]
    BY <1>a, <2>1, <2>6
  <2> QED BY <2>2, <2>6, <2>7, <2>8, <2>9
<1>5. \A k \in 0..N : k \in T
  <2> HIDE DEF T
  <2> QED BY <1>1, <1>3, <1>4, UpToInduction
<1> QED BY <1>5 DEF w

\* With room for the magnitudes no sum leaves the doubles.
LEMMA RoomKeepsSumsFinite ==
    ASSUME NEW v \in [Particles -> Double], \A j \in Particles : v[j] # Inf,
           Sum(Magnitudes(v)) <= Big
    PROVE  /\ v \in [Particles -> Int]
           /\ \A k \in 0..N : /\ Running(v)[k] = Sums(v)[k]
                              /\ Sums(v)[k] \in -Big..Big
<1> DEFINE m == Magnitudes(v)
<1>a. v \in [Particles -> Int]
  BY DEF Double
<1>b. m \in [Particles -> Int] /\ \A j \in Particles : 0 <= m[j]
  BY <1>a, MagnitudesTyped
<1>c. \A k \in 0..N : -Sums(m)[k] <= Sums(v)[k] /\ Sums(v)[k] <= Sums(m)[k]
  BY <1>a, SumsOfMagnitudes
<1>d. Sums(m)[N] <= Big
  BY DEF Sum
<1> HIDE DEF m
<1>e. \A k \in 0..N : Sums(v)[k] \in -Big..Big
  <2> TAKE k \in 0..N
  <2>1. Sums(m)[k] <= Sums(m)[N]
    BY <1>b, SumsGrow
  <2>2. Sums(m)[k] \in Int /\ Sums(m)[N] \in Int /\ Sums(v)[k] \in Int /\ Big \in Int
    BY <1>a, <1>b, SumsTable, LjAssumption
  <2> QED BY <1>c, <1>d, <2>1, <2>2
<1> DEFINE T == {k \in 0..N : Running(v)[k] = Sums(v)[k]}
<1>1. N \in Nat
  BY LjAssumption
<1>2. Sums(v)[0] = 0 /\ Running(v)[0] = 0
  BY SumsTable, RunningTable, <1>a
<1>3. 0 \in T
  BY <1>1, <1>2
<1>4. ASSUME NEW k \in 0..(N - 1), k \in T PROVE k + 1 \in T
  <2>1. k + 1 \in 1..N /\ k + 1 \in 0..N /\ k + 1 \in Particles /\ (k + 1) - 1 = k /\ k \in 0..N
    BY <1>1 DEF Particles
  <2>2. Sums(v)[k + 1] = Sums(v)[k] + v[k + 1]
    BY SumsTable, <1>a, <2>1
  <2>3. Running(v)[k + 1] = Plus(Sums(v)[k], v[k + 1])
    BY RunningTable, <1>4, <2>1
  <2>4. Sums(v)[k] \in -Big..Big /\ Sums(v)[k + 1] \in -Big..Big /\ v[k + 1] # Inf
    BY <1>e, <2>1
  <2>5. Sums(v)[k] # Inf
    BY <2>4, LjAssumption
  <2> QED BY <2>1, <2>2, <2>3, <2>4, <2>5 DEF Plus, Finite
<1>5. \A k \in 0..N : k \in T
  <2> HIDE DEF T
  <2> QED BY <1>1, <1>3, <1>4, UpToInduction
<1> QED BY <1>5, <1>a, <1>e

-----------------------------------------------------------------------------
(* Action and reaction: what every particle exerts on every other adds up to nothing. *)

LEMMA AntisymmetricSum ==
    ASSUME NEW A \in [Particles -> [Particles -> Int]],
           \A i, j \in Particles : A[i][j] = -A[j][i]
    PROVE  Sum([p \in Particles |-> Sum(A[p])]) = 0
<1> DEFINE Upto(k) == [p \in Particles |-> Sums(A[p])[k]]
<1> DEFINE Column(k) == [p \in Particles |-> A[p][k]]
<1> DEFINE T == {k \in 0..N : Sums(Upto(k))[k] = 0}
<1>1. N \in Nat
  BY LjAssumption
<1>2. Sums(Upto(0))[0] = 0
  <2>1. Upto(0) \in [Particles -> Int]
    BY <1>1, SumsTable
  <2> QED BY <2>1, SumsTable
<1>3. 0 \in T
  BY <1>1, <1>2
<1>4. ASSUME NEW k \in 0..(N - 1), k \in T PROVE k + 1 \in T
  <2>1. k + 1 \in 1..N /\ k + 1 \in 0..N /\ k + 1 \in Particles /\ (k + 1) - 1 = k /\ k \in 0..N
    BY <1>1 DEF Particles
  <2>2. Upto(k) \in [Particles -> Int] /\ Upto(k + 1) \in [Particles -> Int]
    BY SumsTable, <2>1
  <2>3. Column(k + 1) \in [Particles -> Int] /\ A[k + 1] \in [Particles -> Int]
    BY <2>1
  <2>4. \A p \in Particles : Upto(k + 1)[p] = Upto(k)[p] + Column(k + 1)[p]
    <3> TAKE p \in Particles
    <3>1. A[p] \in [Particles -> Int]
      OBVIOUS
    <3>2. \A j \in 1..N : Sums(A[p])[j] = Sums(A[p])[j - 1] + A[p][j]
      BY <3>1, SumsTable
    <3> QED BY <2>1, <3>2
  <2>5. \A p \in Particles : Column(k + 1)[p] = -A[k + 1][p]
    BY <2>1
  <2>6. A[k + 1][k + 1] = 0
    <3>1. A[k + 1][k + 1] = -A[k + 1][k + 1] /\ A[k + 1][k + 1] \in Int
      BY <2>1
    <3>2. \A x \in Int : x = -x => x = 0
      OBVIOUS
    <3> HIDE DEF T
    <3> QED BY <3>1, <3>2, Zenon
  <2>7. Upto(k + 1)[k + 1] = Sums(A[k + 1])[k] + A[k + 1][k + 1]
    <3>1. \A j \in 1..N : Sums(A[k + 1])[j] = Sums(A[k + 1])[j - 1] + A[k + 1][j]
      BY <2>3, SumsTable
    <3> QED BY <2>1, <3>1
  <2>8. Sums(A[k + 1])[k] \in Int
    BY <2>1, <2>3, SumsTable
  <2> HIDE DEF Upto, Column
  <2>9. Sums(Upto(k + 1))[k] = Sums(Upto(k))[k] + Sums(Column(k + 1))[k]
    BY <2>1, <2>2, <2>3, <2>4, SumsAdd
  <2>10. Sums(Column(k + 1))[k] = -Sums(A[k + 1])[k]
    BY <2>1, <2>3, <2>5, SumsNegate
  <2>11. Sums(Upto(k + 1))[k + 1] = Sums(Upto(k + 1))[k] + Upto(k + 1)[k + 1]
    <3>1. \A j \in 1..N : Sums(Upto(k + 1))[j] = Sums(Upto(k + 1))[j - 1] + Upto(k + 1)[j]
      BY <2>2, SumsTable
    <3> QED BY <2>1, <3>1
  <2>12. Sums(Upto(k))[k] = 0
    BY <1>4
  <2>13. Sums(Upto(k + 1))[k + 1] = 0
    BY <2>6, <2>7, <2>8, <2>9, <2>10, <2>11, <2>12
  <2> QED BY <2>1, <2>13
<1>5. \A k \in 0..N : k \in T
  <2> HIDE DEF T
  <2> QED BY <1>1, <1>3, <1>4, UpToInduction
<1>6. Sums(Upto(N))[N] = 0
  BY <1>1, <1>5
<1>7. Upto(N) = [p \in Particles |-> Sum(A[p])]
  BY DEF Sum
<1> QED BY <1>6, <1>7 DEF Sum
-----------------------------------------------------------------------------
(* The terms of the sums, as functions of the input *)

InputOK == position \in [Particles -> Sites] /\ cutoff2 \in Cutoffs

LEMMA PairsAreSymmetric ==
    ASSUME InputOK, NEW i \in Particles, NEW j \in Particles
    PROVE  /\ r2(i, j) \in Int /\ r2(i, j) = r2(j, i)
           /\ dx(i, j) \in Int /\ dx(j, i) = -dx(i, j)
           /\ Near(i, j) <=> Near(j, i)
           /\ ~Near(i, i)
<1>1. position[i] \in Int /\ position[j] \in Int
  BY LjAssumption DEF InputOK
<1>2. \A a, b \in Int : a - b \in Int /\ b - a = -(a - b) /\ (a - b) * (a - b) = (b - a) * (b - a)
                      /\ (a - b) * (a - b) \in Int
  OBVIOUS
<1>3. dx(i, j) \in Int /\ dx(j, i) = -dx(i, j)
  BY <1>1, <1>2 DEF dx
<1>4. r2(i, j) \in Int /\ r2(i, j) = r2(j, i)
  BY <1>1, <1>2 DEF r2, dx
<1> QED BY <1>3, <1>4 DEF Near

LEMMA ActionIsReaction ==
    ASSUME InputOK, NEW i \in Particles, NEW j \in Particles, Near(i, j)
    PROVE  /\ Energy[r2(i, j)] \in Double
           /\ fdx(i, j) \in Double
           /\ fdx(i, j) # Inf => fdx(j, i) # Inf /\ fdx(j, i) = -fdx(i, j)
<1> DEFINE s == Strength[r2(i, j)]
<1>1. s \in Double /\ Energy[r2(i, j)] \in Double
  <2>1. position[i] \in Sites /\ position[j] \in Sites /\ cutoff2 \in Cutoffs
    BY DEF InputOK
  <2>2. r2(i, j) # 0 /\ r2(i, j) <= cutoff2
    BY DEF Near
  <2>3. r2(i, j) = (position[i] - position[j]) * (position[i] - position[j])
    BY DEF r2, dx
  <2>4. \A a, b \in Sites, c \in Cutoffs :
           (a - b) * (a - b) # 0 /\ (a - b) * (a - b) <= c =>
               Energy[(a - b) * (a - b)] \in Double /\ Strength[(a - b) * (a - b)] \in Double
    BY LjAssumption
  <2> QED BY <2>1, <2>2, <2>3, <2>4
<1>2. dx(i, j) \in Int /\ dx(j, i) = -dx(i, j) /\ r2(i, j) = r2(j, i)
  BY PairsAreSymmetric
<1>3. fdx(i, j) = Times(s, dx(i, j)) /\ fdx(j, i) = Times(s, -dx(i, j))
  BY <1>2 DEF fdx
<1>4. \A x \in Double, y \in Int :
         /\ Times(x, y) \in Double
         /\ Times(x, y) # Inf => Times(x, -y) # Inf /\ Times(x, -y) = -Times(x, y)
  <2> TAKE x \in Double, y \in Int
  <2>1. CASE x = Inf
    BY <2>1 DEF Times, Finite, Double
  <2>2. CASE x # Inf
    <3>1. x \in Int /\ Big \in Int /\ Inf \notin Int
      BY <2>2, LjAssumption DEF Double
    <3>2. \A a, b \in Int : a * b \in Int /\ a * (-b) = -(a * b)
      OBVIOUS
    <3>3. x * y \in Int /\ x * (-y) = -(x * y)
      BY <3>1, <3>2
    <3>4. x * y \in -Big..Big <=> x * (-y) \in -Big..Big
      BY <3>1, <3>3
    <3>5. /\ Times(x, y) = IF x * y \in -Big..Big THEN x * y ELSE Inf
          /\ Times(x, -y) = IF x * (-y) \in -Big..Big THEN x * (-y) ELSE Inf
      BY <2>2, Zenon DEF Times, Finite
    <3>6. CASE x * y \in -Big..Big
      <4>1. Times(x, y) = x * y /\ Times(x, -y) = x * (-y)
        BY <3>4, <3>5, <3>6
      <4> QED BY <3>1, <3>3, <3>4, <3>6, <4>1 DEF Double
    <3>7. CASE x * y \notin -Big..Big
      BY <3>5, <3>7 DEF Double
    <3> QED BY <3>6, <3>7
  <2> QED BY <2>1, <2>2
<1> HIDE DEF s
<1> QED BY <1>1, <1>2, <1>3, <1>4

LEMMA TermsTyped ==
    ASSUME InputOK, NEW p \in Particles
    PROVE  /\ Forces(p) \in [Particles -> Double]
           /\ Energies(p) \in [Particles -> Double]
           /\ Forces(p)[p] = 0 /\ Energies(p)[p] = 0
<1>1. 0 \in Double
  BY LjAssumption DEF Double
<1>2. \A j \in Particles : /\ Forces(p)[j] \in Double
                           /\ Energies(p)[j] \in Double
  BY <1>1, ActionIsReaction DEF Forces, Energies
<1>3. ~Near(p, p)
  BY PairsAreSymmetric
<1> QED BY <1>2, <1>3 DEF Forces, Energies

LEMMA EnergiesAreShared ==
    ASSUME InputOK, NEW i \in Particles, NEW j \in Particles
    PROVE  Energies(i)[j] = Energies(j)[i]
BY PairsAreSymmetric DEF Energies

LEMMA InputIsRigid ==
    ASSUME UNCHANGED <<position, cutoff2>>
    PROVE  /\ \A i, j \in Particles : r2(i, j)' = r2(i, j)
           /\ \A p \in Particles : Forces(p)' = Forces(p) /\ Energies(p)' = Energies(p)
           /\ Roomy' = Roomy /\ Coincident' = Coincident /\ InputOK' = InputOK
BY DEF Forces, Energies, Near, fdx, r2, dx, Roomy, Coincident, InputOK

\* Adding nothing leaves a sum as it is: a particle is not its own partner.
LEMMA SelfAddsNothing ==
    ASSUME NEW v \in [Particles -> Double], NEW p \in Particles, v[p] = 0
    PROVE  Running(v)[p] = Running(v)[p - 1]
<1>1. Running(v)[p] = Plus(Running(v)[p - 1], 0) /\ Running(v)[p - 1] \in Double
  BY RunningTable, LjAssumption DEF Particles
<1>2. \A x \in Double : Plus(x, 0) = x
  BY LjAssumption DEF Plus, Finite, Double
<1> QED BY <1>1, <1>2
-----------------------------------------------------------------------------
(* The loop of the CPU, as far as it has come *)

PairOK ==
    /\ pair \in (1..N) \X (2..(N + 1)) /\ pair[1] < pair[2]
    /\ pair[2] = N + 1 => pair[1] = N

\* When <<i, j>> is next, particle p has met the particles up to this one.
SeenAt(p, i, j) ==
    IF p < i THEN N ELSE IF p = i THEN j - 1 ELSE IF p < j THEN i ELSE i - 1
Seen(p) == SeenAt(p, pair[1], pair[2])

\* A pair brings each of its two particles one further, and the end of a row lets the
\* next particle pass itself.
LEMMA SeenStep ==
    ASSUME NEW i \in Particles, NEW j \in Particles, i < j, NEW p \in Particles,
           NEW next, next = NextPair(i, j)
    PROVE  LET met == IF p = i THEN j ELSE IF p = j THEN i ELSE SeenAt(p, i, j)
           IN  /\ SeenAt(p, next[1], next[2]) \in 0..N /\ met \in 0..N
               /\ \/ SeenAt(p, next[1], next[2]) = met
                  \/ SeenAt(p, next[1], next[2]) = p /\ met = p - 1
<1>1. N \in Nat
  BY LjAssumption
<1>2. CASE j < N
  <2>1. next[1] = i /\ next[2] = j + 1
    BY <1>2 DEF NextPair
  <2> QED BY <1>1, <1>2, <2>1 DEF SeenAt, Particles
<1>3. CASE j = N
  <2>1. next[1] = i + 1 /\ next[2] = i + 2
    BY <1>3 DEF NextPair, Particles
  <2> QED BY <1>1, <1>3, <2>1 DEF SeenAt, Particles
<1> QED BY <1>2, <1>3, <1>1 DEF Particles

LEMMA SeenBefore ==
    ASSUME NEW i \in Particles, NEW j \in Particles, i < j
    PROVE  SeenAt(i, i, j) = j - 1 /\ SeenAt(j, i, j) = i - 1
BY DEF SeenAt, Particles

LEMMA SeenTyped ==
    ASSUME PairOK, NEW p \in Particles
    PROVE  Seen(p) \in 0..N /\ (pair[2] = N + 1 => Seen(p) = N)
<1>1. N \in Nat /\ pair[1] \in 1..N /\ pair[2] \in 2..(N + 1)
  BY LjAssumption DEF PairOK
<1> QED BY <1>1 DEF PairOK, Seen, SeenAt, Particles

LEMMA NextPairOK ==
    ASSUME NEW i \in Particles, NEW j \in Particles, i < j
    PROVE  LET next == NextPair(i, j)
           IN  /\ next \in (1..N) \X (2..(N + 1)) /\ next[1] < next[2]
               /\ next[2] = N + 1 => next[1] = N
<1>1. N \in Nat
  BY LjAssumption
<1>2. CASE j < N
  BY <1>1, <1>2 DEF NextPair, Particles
<1>3. CASE j = N
  BY <1>1, <1>3 DEF NextPair, Particles
<1> QED BY <1>1, <1>2, <1>3 DEF Particles

\* The grid of the kernel has a thread for every particle.
LEMMA GridCovers ==
    Blocks \in Nat /\ N <= Blocks * ThreadsPerBlock
<1>1. N \in Nat /\ ThreadsPerBlock \in Nat /\ ThreadsPerBlock > 0
      /\ N + ThreadsPerBlock - 1 \in Nat
  BY LjAssumption
<1>2. \A a, t \in Nat : t > 0 => a \div t \in Nat /\ a - (t - 1) <= t * (a \div t)
  OBVIOUS
<1>3. Blocks \in Nat /\ (N + ThreadsPerBlock - 1) - (ThreadsPerBlock - 1) <= ThreadsPerBlock * Blocks
  BY <1>1, <1>2 DEF Blocks
<1>4. \A b, t \in Nat : t * b = b * t
  OBVIOUS
<1>5. ThreadsPerBlock * Blocks = Blocks * ThreadsPerBlock
  BY <1>1, <1>3, <1>4
<1>6. (N + ThreadsPerBlock - 1) - (ThreadsPerBlock - 1) = N
  BY <1>1
<1> QED BY <1>3, <1>5, <1>6
-----------------------------------------------------------------------------
(* The inductive invariant *)

\* The sums of the CPU are those of the kernel's threads, each as far as the loop has come.
EnergyMet == [p \in Particles |-> Sums(Whole(Energies(p)))[Seen(p)]]
ForcesSoFar == \A p \in Particles : forces[p] = Running(Forces(p))[Seen(p)]
EnergySoFar == energy # Inf => 2 * energy = Sum(EnergyMet)
RoomSoFar == Roomy => energy # Inf
ApartSoFar ==
    \A a, b \in Particles :
        a < b /\ (a < pair[1] \/ (a = pair[1] /\ b < pair[2])) => r2(a, b) # 0
CpuAnswer ==
    \/ cpu = Pending
    \/ cpu = Fault("CoincidentParticles") /\ Coincident
    \/ /\ pair[2] = N + 1
       /\ \/ /\ cpu = Success(energy, forces)
             /\ energy # Inf /\ \A p \in Particles : forces[p] # Inf
          \/ /\ cpu = Fault("NonFinite")
             /\ energy = Inf \/ \E p \in Particles : forces[p] = Inf

CpuInv ==
    /\ InputOK /\ PairOK
    /\ energy \in Double /\ forces \in [Particles -> Double]
    /\ ForcesSoFar /\ EnergySoFar /\ RoomSoFar /\ ApartSoFar
    /\ CpuAnswer

LEMMA ZeroIsDouble == 0 \in Double /\ \A x \in Double : Plus(x, 0) = x
BY LjAssumption DEF Double, Plus, Finite

LEMMA CpuPairAdds ==
    ASSUME CpuInv, CpuPair, r2(pair[1], pair[2]) # 0,
           NEW i, i = pair[1], NEW j, j = pair[2]
    PROVE  /\ i \in Particles /\ j \in Particles /\ i < j
           /\ pair' = NextPair(i, j)
           /\ energy' = Plus(energy, Energies(i)[j])
           /\ forces' \in [Particles -> Double]
           /\ \A p \in Particles :
                 forces'[p] = IF p = i THEN Plus(forces[p], Forces(p)[j])
                              ELSE IF p = j THEN Plus(forces[p], Forces(p)[i])
                              ELSE forces[p]
           /\ UNCHANGED <<position, cutoff2, cpu>>
<1>1. i \in Particles /\ j \in Particles /\ i < j
  BY LjAssumption DEF CpuInv, PairOK, CpuPair, Particles
<1>2. UNCHANGED <<position, cutoff2, cpu>> /\ pair' = NextPair(i, j)
  BY DEF CpuPair
<1>3. r2(i, j) = r2(j, i) /\ r2(i, j) # 0 /\ r2(i, j) \in Int /\ cutoff2 \in Int
  BY <1>1, PairsAreSymmetric, LjAssumption DEF CpuInv, InputOK
<1>4. /\ Forces(i)[j] = IF Near(i, j) THEN fdx(i, j) ELSE 0
      /\ Forces(j)[i] = IF Near(j, i) THEN fdx(j, i) ELSE 0
      /\ Energies(i)[j] = IF Near(i, j) THEN Energy[r2(i, j)] ELSE 0
  BY <1>1 DEF Forces, Energies
<1>5. CASE r2(i, j) > cutoff2
  <2>1. ~Near(i, j) /\ ~Near(j, i)
    BY <1>3, <1>5 DEF Near
  <2>2. energy' = energy /\ forces' = forces
    BY <1>5 DEF CpuPair
  <2>3. Forces(i)[j] = 0 /\ Forces(j)[i] = 0 /\ Energies(i)[j] = 0
    BY <1>4, <2>1
  <2>4. energy \in Double /\ forces \in [Particles -> Double]
    BY DEF CpuInv
  <2> QED BY <1>1, <1>2, <2>2, <2>3, <2>4, ZeroIsDouble
<1>6. CASE ~(r2(i, j) > cutoff2)
  <2>1. Near(i, j) /\ Near(j, i)
    BY <1>1, <1>3, <1>6 DEF Near, Particles
  <2>2. /\ energy' = Plus(energy, Energy[r2(i, j)])
        /\ forces' = [forces EXCEPT ![i] = Plus(@, fdx(i, j)), ![j] = Plus(@, fdx(j, i))]
    BY <1>6 DEF CpuPair
  <2>3. fdx(i, j) \in Double /\ fdx(j, i) \in Double
    BY <1>1, <2>1, ActionIsReaction DEF CpuInv
  <2>4. forces \in [Particles -> Double] /\ i # j
    BY <1>1 DEF CpuInv, Particles
  <2>5. \A p \in Particles : Plus(forces[p], fdx(i, j)) \in Double /\ Plus(forces[p], fdx(j, i)) \in Double
    BY <2>3, <2>4, PlusIsDouble
  <2>6. forces' \in [Particles -> Double]
    BY <1>1, <2>2, <2>4, <2>5
  <2>7. \A p \in Particles :
           forces'[p] = IF p = i THEN Plus(forces[p], fdx(i, j))
                        ELSE IF p = j THEN Plus(forces[p], fdx(j, i)) ELSE forces[p]
    BY <1>1, <2>2, <2>4
  <2>8. Forces(i)[j] = fdx(i, j) /\ Forces(j)[i] = fdx(j, i) /\ Energies(i)[j] = Energy[r2(i, j)]
    BY <1>4, <2>1
  <2> QED BY <1>1, <1>2, <2>2, <2>6, <2>7, <2>8
<1> QED BY <1>5, <1>6

\* The energy that two particles share is counted at both.
LEMMA EnergyMeets ==
    ASSUME CpuInv, CpuPair, r2(pair[1], pair[2]) # 0
    PROVE  /\ EnergyMet \in [Particles -> Int] /\ EnergyMet' \in [Particles -> Int]
           /\ Energies(pair[1])[pair[2]] # Inf =>
                 Sum(EnergyMet') = Sum(EnergyMet) + 2 * Energies(pair[1])[pair[2]]
<1> DEFINE i == pair[1]
<1> DEFINE j == pair[2]
<1> DEFINE w(p) == Whole(Energies(p))
<1> DEFINE seen(p) == SeenAt(p, NextPair(i, j)[1], NextPair(i, j)[2])
<1>1. /\ i \in Particles /\ j \in Particles /\ i < j /\ pair' = NextPair(i, j)
      /\ UNCHANGED <<position, cutoff2>>
  BY CpuPairAdds
<1>2. \A p \in Particles : Energies(p)' = Energies(p)
  BY <1>1, InputIsRigid
<1>3. \A p \in Particles : Energies(p) \in [Particles -> Double] /\ Energies(p)[p] = 0
  BY TermsTyped DEF CpuInv
<1>4. \A p \in Particles :
         /\ w(p) \in [Particles -> Int] /\ w(p)[p] = 0
         /\ Sums(w(p)) \in [0..N -> Int]
         /\ \A k \in 1..N : Sums(w(p))[k] = Sums(w(p))[k - 1] + w(p)[k]
  <2> TAKE p \in Particles
  <2>1. w(p) \in [Particles -> Int]
    BY <1>3, WholeIsExact
  <2>2. w(p)[p] = 0
    BY <1>3, LjAssumption DEF Whole
  <2> HIDE DEF w
  <2> QED BY <2>1, <2>2, SumsTable
<1>5. EnergyMet = [p \in Particles |-> Sums(w(p))[SeenAt(p, i, j)]]
  BY DEF EnergyMet, Seen
<1>6. EnergyMet' = [p \in Particles |-> Sums(w(p))[seen(p)]]
  BY <1>1, <1>2 DEF EnergyMet, Seen
<1>7. \A p \in Particles :
         LET met == IF p = i THEN j ELSE IF p = j THEN i ELSE SeenAt(p, i, j)
         IN  /\ seen(p) \in 0..N /\ met \in 0..N
             /\ seen(p) = met \/ (seen(p) = p /\ met = p - 1)
  BY <1>1, SeenStep
<1> HIDE DEF seen
<1>8. \A p \in Particles : SeenAt(p, i, j) \in 0..N
  BY SeenTyped DEF Seen, CpuInv
<1>9. EnergyMet \in [Particles -> Int] /\ EnergyMet' \in [Particles -> Int]
  <2> HIDE DEF w, i, j
  <2> QED BY <1>4, <1>5, <1>6, <1>7, <1>8
<1>10. \A p \in Particles :
          EnergyMet'[p] = Sums(w(p))[IF p = i THEN j ELSE IF p = j THEN i ELSE SeenAt(p, i, j)]
  <2> TAKE p \in Particles
  <2> HIDE DEF w, i, j
  <2>1. Sums(w(p))[p] = Sums(w(p))[p - 1]
    <3>1. Sums(w(p))[p] = Sums(w(p))[p - 1] + w(p)[p]
      BY <1>4 DEF Particles
    <3>2. Sums(w(p))[p - 1] \in Int
      BY <1>4, LjAssumption DEF Particles
    <3> QED BY <1>4, <3>1, <3>2
  <2> QED BY <1>6, <1>7, <2>1
<1>11. /\ EnergyMet[i] = Sums(w(i))[j - 1] /\ EnergyMet'[i] = EnergyMet[i] + w(i)[j]
       /\ EnergyMet[j] = Sums(w(j))[i - 1] /\ EnergyMet'[j] = EnergyMet[j] + w(j)[i]
  <2> HIDE DEF w
  <2>1. SeenAt(i, i, j) = j - 1 /\ SeenAt(j, i, j) = i - 1 /\ i # j
    BY <1>1, SeenBefore DEF Particles
  <2>2. EnergyMet[i] = Sums(w(i))[j - 1] /\ EnergyMet[j] = Sums(w(j))[i - 1]
    BY <1>1, <1>5, <2>1
  <2>3. EnergyMet'[i] = Sums(w(i))[j] /\ EnergyMet'[j] = Sums(w(j))[i]
    BY <1>1, <1>10, <2>1
  <2>4. i \in 1..N /\ j \in 1..N
    BY <1>1 DEF Particles
  <2> QED BY <1>1, <1>4, <2>2, <2>3, <2>4
<1>12. \A p \in Particles \ {i, j} : EnergyMet'[p] = EnergyMet[p]
  BY <1>5, <1>10
<1>13. ASSUME Energies(i)[j] # Inf
       PROVE  Sum(EnergyMet') = Sum(EnergyMet) + 2 * Energies(i)[j]
  <2> DEFINE e == Energies(i)[j]
  <2>1. w(i)[j] = e /\ w(j)[i] = e /\ e \in Int
    <3>1. Energies(j)[i] = e
      BY <1>1, EnergiesAreShared DEF CpuInv
    <3>2. w(i)[j] = e /\ w(j)[i] = e
      BY <1>1, <1>13, <3>1 DEF Whole
    <3>3. w(i)[j] \in Int
      BY <1>1, <1>4
    <3> QED BY <3>2, <3>3
  <2> HIDE DEF w, e, i, j
  <2>2. EnergyMet'[i] = EnergyMet[i] + e /\ EnergyMet'[j] = EnergyMet[j] + e
    BY <1>11, <2>1
  <2> DEFINE u == EnergyMet'
  <2> DEFINE v == EnergyMet
  <2>3. u \in [Particles -> Int] /\ v \in [Particles -> Int] /\ u[i] = v[i] + e /\ u[j] = v[j] + e
        /\ \A p \in Particles \ {i, j} : u[p] = v[p]
    BY <1>9, <1>12, <2>2
  <2>4. Sum(v) \in Int
    BY <2>3, SumIsLast
  <2>5. Sum(u) = Sum(v) + e + e
    <3> HIDE DEF u, v
    <3> QED BY <1>1, <2>1, <2>3, SumsOfTwoChanged
  <2>6. Sum(u) = Sum(v) + 2 * e
    BY <2>1, <2>4, <2>5
  <2> QED BY <2>6 DEF e
<1> QED BY <1>9, <1>13

\* Whatever is met of the energies, there is room for it.
LEMMA RoomForEnergies ==
    ASSUME InputOK, Roomy, NEW seen \in [Particles -> 0..N]
    PROVE  Sum([p \in Particles |-> Sums(Whole(Energies(p)))[seen[p]]]) \in -Big..Big
<1> DEFINE u == [p \in Particles |-> Sums(Whole(Energies(p)))[seen[p]]]
<1> DEFINE room == [p \in Particles |-> Sum(Magnitudes(Energies(p)))]
<1>1. ASSUME NEW p \in Particles
      PROVE  /\ u[p] \in Int /\ room[p] \in Int
             /\ -room[p] <= u[p] /\ u[p] <= room[p]
  <2> DEFINE e == Energies(p)
  <2>1. e \in [Particles -> Double] /\ \A j \in Particles : e[j] # Inf
    BY TermsTyped DEF Roomy, Finite
  <2>2. e \in [Particles -> Int] /\ Whole(e) = e
    BY <2>1 DEF Double, Whole
  <2> DEFINE m == Magnitudes(e)
  <2>3. m \in [Particles -> Int] /\ \A j \in Particles : 0 <= m[j]
    BY <2>2, MagnitudesTyped
  <2>4. seen[p] \in 0..N
    OBVIOUS
  <2>5. -Sums(m)[seen[p]] <= Sums(e)[seen[p]] /\ Sums(e)[seen[p]] <= Sums(m)[seen[p]]
    BY <2>2, <2>4, SumsOfMagnitudes
  <2>6. u[p] = Sums(e)[seen[p]] /\ room[p] = Sums(m)[N]
    BY <2>2 DEF Sum
  <2> HIDE DEF e, m
  <2>7. Sums(m)[seen[p]] <= Sums(m)[N]
    BY <2>3, <2>4, SumsGrow
  <2>8. Sums(m)[seen[p]] \in Int /\ Sums(e)[seen[p]] \in Int /\ Sums(m)[N] \in Int
    <3>1. Sums(m) \in [0..N -> Int] /\ Sums(e) \in [0..N -> Int]
      BY <2>2, <2>3, SumsTable
    <3>2. N \in 0..N
      BY LjAssumption
    <3> QED BY <2>4, <3>1, <3>2
  <2> HIDE DEF u, room
  <2> QED BY <2>5, <2>6, <2>7, <2>8
<1>2. u \in [Particles -> Int] /\ room \in [Particles -> Int]
  <2>1. u = [p \in Particles |-> u[p]] /\ room = [p \in Particles |-> room[p]]
    OBVIOUS
  <2> HIDE DEF u, room
  <2> QED BY <1>1, <2>1
<1>3. Sum(room) <= Big
  BY DEF Roomy
<1> DEFINE minus == [p \in Particles |-> -room[p]]
<1>4. minus \in [Particles -> Int] /\ \A p \in Particles : minus[p] = -room[p]
  <2> HIDE DEF room
  <2> QED BY <1>2
<1> HIDE DEF u, room, minus
<1>5. N \in 0..N /\ Big \in Nat
  BY LjAssumption
<1>6. Sums(u)[N] <= Sums(room)[N]
  BY <1>1, <1>2, <1>5, SumsMonotone
<1>7. Sums(minus)[N] <= Sums(u)[N]
  BY <1>1, <1>2, <1>4, <1>5, SumsMonotone
<1>8. Sums(minus)[N] = -Sums(room)[N]
  BY <1>2, <1>4, <1>5, SumsNegate
<1>9. Sums(u)[N] \in Int /\ Sums(room)[N] \in Int
  BY <1>2, <1>5, SumsTable
<1>10. Sum(u) \in -Big..Big
  BY <1>3, <1>5, <1>6, <1>7, <1>8, <1>9 DEF Sum
<1> QED BY <1>10 DEF u

LEMMA CpuInit == Init => CpuInv
<1> SUFFICES ASSUME Init PROVE CpuInv
  OBVIOUS
<1>1. InputOK /\ PairOK /\ pair[1] = 1 /\ pair[2] = 2
  BY LjAssumption DEF Init, InputOK, PairOK
<1>2. energy = 0 /\ energy \in Double /\ forces \in [Particles -> Double] /\ cpu = Pending
      /\ \A p \in Particles : forces[p] = 0
  BY ZeroIsDouble DEF Init
<1>3. \A p \in Particles : p \in 1..N /\ (Seen(p) = 0 \/ (p = 1 /\ Seen(p) = p))
  BY <1>1 DEF Seen, SeenAt, Particles
<1>4. \A p \in Particles : Running(Forces(p))[Seen(p)] = 0
  <2> TAKE p \in Particles
  <2>1. Forces(p) \in [Particles -> Double] /\ Forces(p)[p] = 0
    BY <1>1, TermsTyped
  <2>2. Running(Forces(p))[0] = 0 /\ Running(Forces(p))[p] = Running(Forces(p))[p - 1]
    BY <2>1, RunningTable, SelfAddsNothing
  <2> QED BY <1>3, <2>2
<1>5. \A p \in Particles : EnergyMet[p] = 0
  <2> TAKE p \in Particles
  <2> DEFINE w == Whole(Energies(p))
  <2>1. Energies(p) \in [Particles -> Double] /\ Energies(p)[p] = 0
    BY <1>1, TermsTyped
  <2>2. w \in [Particles -> Int]
    BY <2>1, WholeIsExact
  <2>3. w[p] = 0
    BY <2>1 DEF Whole
  <2>4. EnergyMet[p] = Sums(w)[Seen(p)]
    BY DEF EnergyMet
  <2> HIDE DEF w
  <2>5. Sums(w)[0] = 0 /\ \A k \in 1..N : Sums(w)[k] = Sums(w)[k - 1] + w[k]
    BY <2>2, SumsTable
  <2>6. p = 1 => Sums(w)[1] = 0
    <3>1. 1 \in 1..N
      BY LjAssumption
    <3>2. Sums(w)[1] = Sums(w)[1 - 1] + w[1]
      BY <2>5, <3>1
    <3> QED BY <2>3, <2>5, <3>2
  <2> QED BY <1>3, <2>4, <2>5, <2>6
<1>6. Sum(EnergyMet) = 0
  <2>1. EnergyMet \in [Particles -> Int]
    BY <1>5 DEF EnergyMet
  <2>2. \A k \in 0..N : Sums(EnergyMet)[k] = -Sums(EnergyMet)[k]
    BY <1>5, <2>1, SumsNegate
  <2>3. Sum(EnergyMet) = -Sum(EnergyMet) /\ Sum(EnergyMet) \in Int
    BY <2>1, <2>2, SumIsLast, LjAssumption
  <2>4. \A x \in Int : x = -x => x = 0
    OBVIOUS
  <2> QED BY <2>3, <2>4, Zenon
<1>7. ForcesSoFar /\ EnergySoFar /\ RoomSoFar
  BY <1>2, <1>4, <1>6, LjAssumption DEF ForcesSoFar, EnergySoFar, RoomSoFar
<1>8. ApartSoFar
  BY <1>1 DEF ApartSoFar, Particles
<1> QED BY <1>1, <1>2, <1>7, <1>8 DEF CpuInv, CpuAnswer

LEMMA CpuPairKeeps ==
    ASSUME CpuInv, CpuPair
    PROVE  CpuInv'
<1> DEFINE i == pair[1]
<1> DEFINE j == pair[2]
<1>1. cpu = Pending /\ j <= N /\ i \in Particles /\ j \in Particles /\ i < j
  BY LjAssumption DEF CpuInv, PairOK, CpuPair, Particles
<1>2. CASE r2(i, j) = 0
  <2>1. /\ UNCHANGED <<position, cutoff2, pair, energy, forces>>
        /\ cpu' = Fault("CoincidentParticles")
    BY <1>2 DEF CpuPair
  <2>2. Coincident
    BY <1>1, <1>2 DEF Coincident, Particles
  <2>3. CpuAnswer'
    BY <2>1, <2>2, InputIsRigid DEF CpuAnswer
  <2>4. /\ \A p \in Particles : Seen(p)' = Seen(p) /\ Forces(p)' = Forces(p) /\ Energies(p)' = Energies(p)
        /\ \A a, b \in Particles : r2(a, b)' = r2(a, b)
        /\ Roomy' = Roomy /\ InputOK' = InputOK /\ PairOK' = PairOK
    BY <2>1, InputIsRigid DEF Seen, PairOK
  <2>5. EnergyMet' = EnergyMet
    BY <2>4 DEF EnergyMet
  <2>6. ForcesSoFar' /\ EnergySoFar' /\ RoomSoFar' /\ ApartSoFar'
    BY <2>1, <2>4, <2>5 DEF CpuInv, ForcesSoFar, EnergySoFar, RoomSoFar, ApartSoFar
  <2> QED BY <2>1, <2>3, <2>4, <2>6 DEF CpuInv
<1>3. CASE r2(i, j) # 0
  <2> DEFINE x == Energies(i)[j]
  <2>1. /\ pair' = NextPair(i, j)
        /\ energy' = Plus(energy, x)
        /\ forces' \in [Particles -> Double]
        /\ \A p \in Particles :
              forces'[p] = IF p = i THEN Plus(forces[p], Forces(p)[j])
                           ELSE IF p = j THEN Plus(forces[p], Forces(p)[i])
                           ELSE forces[p]
        /\ UNCHANGED <<position, cutoff2, cpu>>
    BY <1>3, CpuPairAdds
  <2>2. /\ \A p \in Particles : Forces(p)' = Forces(p) /\ Energies(p)' = Energies(p)
        /\ \A a, b \in Particles : r2(a, b)' = r2(a, b)
        /\ Roomy' = Roomy /\ InputOK' = InputOK /\ InputOK
    BY <2>1, InputIsRigid DEF CpuInv
  <2>3. PairOK'
    BY <1>1, <2>1, NextPairOK DEF PairOK
  <2>4. x \in Double /\ energy \in Double /\ energy' \in Double
    BY <1>1, <2>1, <2>2, TermsTyped, PlusIsDouble DEF CpuInv
  <2>5. ForcesSoFar'
    <3> SUFFICES ASSUME NEW p \in Particles
                 PROVE  forces'[p] = Running(Forces(p))[Seen(p)']
      BY <2>2 DEF ForcesSoFar
    <3> DEFINE f == Running(Forces(p))
    <3> DEFINE met == IF p = i THEN j ELSE IF p = j THEN i ELSE SeenAt(p, i, j)
    <3>1. Forces(p) \in [Particles -> Double] /\ Forces(p)[p] = 0
      BY <2>2, TermsTyped
    <3>2. f[p] = f[p - 1] /\ \A k \in 1..N : f[k] = Plus(f[k - 1], Forces(p)[k])
      BY <3>1, SelfAddsNothing, RunningTable
    <3>3. Seen(p)' = met \/ (Seen(p)' = p /\ met = p - 1)
      <4>1. Seen(p)' = SeenAt(p, NextPair(i, j)[1], NextPair(i, j)[2])
        BY <2>1 DEF Seen
      <4> QED BY <1>1, <4>1, SeenStep
    <3>4. f[Seen(p)'] = f[met]
      <4> HIDE DEF f, met
      <4> QED BY <3>2, <3>3
    <3>5. forces[p] = f[SeenAt(p, i, j)]
      BY DEF CpuInv, ForcesSoFar, Seen
    <3>6. SeenAt(i, i, j) = j - 1 /\ SeenAt(j, i, j) = i - 1 /\ i # j /\ i \in 1..N /\ j \in 1..N
      BY <1>1, SeenBefore DEF Particles
    <3> HIDE DEF f, i, j
    <3>7. forces'[p] = f[met]
      <4>1. CASE p = i
        BY <2>1, <3>2, <3>5, <3>6, <4>1
      <4>2. CASE p = j
        BY <2>1, <3>2, <3>5, <3>6, <4>2
      <4>3. CASE p # i /\ p # j
        BY <2>1, <3>5, <4>3
      <4> QED BY <4>1, <4>2, <4>3
    <3> QED BY <3>4, <3>7 DEF f
  <2>6. /\ EnergyMet' \in [Particles -> Int] /\ EnergyMet \in [Particles -> Int]
        /\ x # Inf => Sum(EnergyMet') = Sum(EnergyMet) + 2 * x
    BY <1>3, EnergyMeets
  <2>7. Sum(EnergyMet) \in Int /\ (energy # Inf => 2 * energy = Sum(EnergyMet))
    BY <2>6, SumIsLast DEF CpuInv, EnergySoFar
  <2>8. EnergySoFar'
    <3> HIDE DEF x
    <3> SUFFICES ASSUME energy' # Inf PROVE 2 * energy' = Sum(EnergyMet')
      BY DEF EnergySoFar
    <3>1. energy # Inf /\ x # Inf /\ energy \in Int /\ x \in Int /\ energy' = energy + x
      BY <2>1, <2>4, PlusIsExact
    <3> QED BY <2>6, <2>7, <3>1
  <2>9. RoomSoFar'
    <3> SUFFICES ASSUME Roomy PROVE energy' # Inf
      BY <2>2 DEF RoomSoFar
    <3> DEFINE seen == [p \in Particles |-> Seen(p)']
    <3>1. \A p \in Particles : Seen(p)' \in 0..N
      BY <1>1, <2>1, SeenStep DEF Seen
    <3>2. seen \in [Particles -> 0..N]
      BY <3>1
    <3>3. EnergyMet' = [p \in Particles |-> Sums(Whole(Energies(p)))[seen[p]]]
      BY <2>2 DEF EnergyMet
    <3>4. Sum(EnergyMet') \in -Big..Big
      <4> HIDE DEF seen
      <4> QED BY <2>2, <3>2, <3>3, RoomForEnergies
    <3>5. energy # Inf /\ x # Inf
      BY <1>1 DEF CpuInv, RoomSoFar, Roomy, Finite
    <3> HIDE DEF x
    <3>6. energy \in Int /\ x \in Int /\ Big \in Nat
      BY <2>4, <3>5, LjAssumption DEF Double
    <3>7. 2 * (energy + x) \in -Big..Big
      BY <2>6, <2>7, <3>4, <3>5, <3>6
    <3>8. energy + x \in -Big..Big
      BY <3>6, <3>7
    <3>9. energy' = energy + x /\ energy + x \in Int
      <4>1. energy' = energy + x
        BY <2>1, <3>5, <3>8, Zenon DEF Plus, Finite
      <4> QED BY <3>6, <4>1
    <3> QED BY <3>9, LjAssumption
  <2>10. ApartSoFar'
    <3> SUFFICES ASSUME NEW a \in Particles, NEW b \in Particles, a < b,
                        a < pair'[1] \/ (a = pair'[1] /\ b < pair'[2])
                 PROVE  r2(a, b) # 0
      BY <2>2 DEF ApartSoFar
    <3>1. a < i \/ (a = i /\ b < j) \/ (a = i /\ b = j)
      <4>1. CASE j < N
        <5>1. pair'[1] = i /\ pair'[2] = j + 1
          BY <2>1, <4>1 DEF NextPair
        <5> QED BY <1>1, <5>1 DEF Particles
      <4>2. CASE j = N
        <5>1. pair'[1] = i + 1 /\ pair'[2] = i + 2
          BY <1>1, <2>1, <4>2 DEF NextPair, Particles
        <5> HIDE DEF i, j
        <5> QED BY <1>1, <4>2, <5>1 DEF Particles
      <4>3. j < N \/ j = N
        BY <1>1, LjAssumption DEF Particles
      <4> QED BY <4>1, <4>2, <4>3
    <3> QED BY <1>3, <3>1 DEF CpuInv, ApartSoFar
  <2>11. CpuAnswer'
    BY <1>1, <2>1 DEF CpuAnswer
  <2> QED BY <2>1, <2>2, <2>3, <2>4, <2>5, <2>8, <2>9, <2>10, <2>11 DEF CpuInv
<1> QED BY <1>2, <1>3

\* The other steps leave the loop of the CPU where it is.
LEMMA CpuStays ==
    ASSUME CpuInv, UNCHANGED <<position, cutoff2, pair, energy, forces>>, CpuAnswer'
    PROVE  CpuInv'
<1>1. /\ \A p \in Particles : Seen(p)' = Seen(p) /\ Forces(p)' = Forces(p) /\ Energies(p)' = Energies(p)
      /\ \A a, b \in Particles : r2(a, b)' = r2(a, b)
      /\ Roomy' = Roomy /\ InputOK' = InputOK /\ PairOK' = PairOK
  BY InputIsRigid DEF Seen, PairOK
<1>2. EnergyMet' = EnergyMet
  BY <1>1 DEF EnergyMet
<1>3. ForcesSoFar' /\ EnergySoFar' /\ RoomSoFar' /\ ApartSoFar'
  BY <1>1, <1>2 DEF CpuInv, ForcesSoFar, EnergySoFar, RoomSoFar, ApartSoFar
<1> QED BY <1>1, <1>3 DEF CpuInv

LEMMA CpuReturnKeeps ==
    ASSUME CpuInv, CpuReturn
    PROVE  CpuInv'
<1>1. pair[2] = N + 1
  BY LjAssumption DEF CpuInv, PairOK, CpuReturn
<1>2. UNCHANGED <<position, cutoff2, pair, energy, forces>>
  BY DEF CpuReturn
<1>3. CpuAnswer'
  BY <1>1 DEF CpuReturn, CpuAnswer, Finite
<1> QED BY <1>2, <1>3, CpuStays

-----------------------------------------------------------------------------
(* The threads of the kernel *)

Grid == 1..(Blocks * ThreadsPerBlock)
Stored(t) == [e |-> Running(Energies(t))[N], f |-> Running(Forces(t))[N]]

\* A thread that is under way has the sums up to its next partner; one that is not, and
\* that has a particle, has stored them.
GridOK ==
    /\ thread \in [Grid -> [next : 0..(N + 1), e : Double, f : Double]]
    /\ \A t \in Grid :
          IF thread[t].next = 0 THEN t \in Particles => device[t] = Stored(t)
          ELSE /\ t \in Particles
               /\ thread[t].e = Running(Energies(t))[thread[t].next - 1]
               /\ thread[t].f = Running(Forces(t))[thread[t].next - 1]

DeviceTotal == Running([p \in Particles |-> Running(Energies(p))[N]])[N]
CudaAnswer ==
    \/ cuda \in {Pending, Fault("runtime_error")}
    \/ /\ DeviceTotal # Inf /\ \A p \in Particles : Running(Forces(p))[N] # Inf
       /\ cuda = Success(DeviceTotal \div 2, [p \in Particles |-> Running(Forces(p))[N]])
    \/ /\ DeviceTotal = Inf \/ \E p \in Particles : Running(Forces(p))[N] = Inf
       /\ cuda = Fault("NonFinite")

CudaInv ==
    /\ device \in [Particles -> [e : Double \cup {Unwritten}, f : Double \cup {Unwritten}]]
    /\ thread = <<>> \/ GridOK
    /\ CudaAnswer

LjInv == CpuInv /\ CudaInv

LEMMA StoredTyped ==
    ASSUME InputOK, NEW t \in Particles, NEW k \in 0..N
    PROVE  /\ Running(Energies(t))[k] \in Double /\ Running(Forces(t))[k] \in Double
           /\ Stored(t) \in [e : Double, f : Double]
<1>1. Running(Energies(t)) \in [0..N -> Double] /\ Running(Forces(t)) \in [0..N -> Double]
  BY TermsTyped, RunningTable
<1>2. N \in 0..N
  BY LjAssumption
<1> QED BY <1>1, <1>2 DEF Stored

LEMMA VisitAdds ==
    ASSUME InputOK, GridOK, NEW t \in Grid, t \in Particles, NEW j \in Particles
    PROVE  Visit(t, j) = [next |-> j + 1,
                          e |-> Plus(thread[t].e, Energies(t)[j]),
                          f |-> Plus(thread[t].f, Forces(t)[j])]
<1>1. thread[t] \in [next : 0..(N + 1), e : Double, f : Double]
  BY DEF GridOK
<1>2. r2(t, j) \in Int /\ cutoff2 \in Int
  BY PairsAreSymmetric, LjAssumption DEF InputOK
<1>3. CASE Near(t, j)
  <2>1. ~(j = t \/ r2(t, j) = 0 \/ r2(t, j) > cutoff2)
    BY <1>2, <1>3 DEF Near
  <2>2. Energies(t)[j] = Energy[r2(t, j)] /\ Forces(t)[j] = fdx(t, j)
    BY <1>3 DEF Energies, Forces
  <2> QED BY <2>1, <2>2, Zenon DEF Visit
<1>4. CASE ~Near(t, j)
  <2>1. j = t \/ r2(t, j) = 0 \/ r2(t, j) > cutoff2
    BY <1>2, <1>4 DEF Near
  <2>2. Energies(t)[j] = 0 /\ Forces(t)[j] = 0
    BY <1>4 DEF Energies, Forces
  <2>3. Plus(thread[t].e, 0) = thread[t].e /\ Plus(thread[t].f, 0) = thread[t].f
    BY <1>1, ZeroIsDouble
  <2>4. Visit(t, j) = [thread[t] EXCEPT !.next = j + 1]
    BY <2>1 DEF Visit
  <2>5. [thread[t] EXCEPT !.next = j + 1]
            = [next |-> j + 1, e |-> thread[t].e, f |-> thread[t].f]
    BY <1>1
  <2> QED BY <2>2, <2>3, <2>4, <2>5
<1> QED BY <1>3, <1>4

\* What the proof of a step of the kernel needs of the input.
LEMMA TablesStay ==
    ASSUME UNCHANGED <<position, cutoff2>>
    PROVE  /\ \A p \in Particles : /\ Forces(p)' = Forces(p) /\ Energies(p)' = Energies(p)
                                   /\ Stored(p)' = Stored(p)
           /\ DeviceTotal' = DeviceTotal
           /\ UNCHANGED cuda /\ CudaAnswer => CudaAnswer'
<1>1. \A p \in Particles : Forces(p)' = Forces(p) /\ Energies(p)' = Energies(p)
  BY InputIsRigid
<1>2. DeviceTotal' = DeviceTotal /\ \A p \in Particles : Stored(p)' = Stored(p)
  BY <1>1 DEF DeviceTotal, Stored
<1> QED BY <1>1, <1>2 DEF CudaAnswer

LEMMA CudaInit == Init => CudaInv
BY DEF Init, CudaInv, CudaAnswer, NoMemory

LEMMA LaunchKeeps ==
    ASSUME LjInv, Launch
    PROVE  CudaInv'
<1>1. UNCHANGED <<position, cutoff2, device, cuda>> /\ InputOK
  BY DEF Launch, LjInv, CpuInv
<1>2. thread' = [t \in Grid |-> IF t <= N THEN [next |-> 1, e |-> 0, f |-> 0]
                                         ELSE [next |-> 0, e |-> 0, f |-> 0]]
  BY DEF Launch, Grid, Idle
<1>3. thread' \in [Grid -> [next : 0..(N + 1), e : Double, f : Double]]
  BY <1>2, ZeroIsDouble, LjAssumption
<1>4. \A t \in Grid : t \in Particles <=> t <= N
  BY GridCovers, LjAssumption DEF Grid, Particles
<1>5. \A t \in Particles : Running(Energies(t))[0] = 0 /\ Running(Forces(t))[0] = 0
  BY <1>1, TermsTyped, RunningTable
<1>6. \A t \in Particles : Energies(t)' = Energies(t) /\ Forces(t)' = Forces(t)
  BY <1>1, TablesStay
<1>7. GridOK'
  <2> SUFFICES ASSUME NEW t \in Grid
               PROVE  IF thread'[t].next = 0 THEN t \in Particles => device'[t] = Stored(t)'
                      ELSE /\ t \in Particles
                           /\ thread'[t].e = Running(Energies(t)')[thread'[t].next - 1]
                           /\ thread'[t].f = Running(Forces(t)')[thread'[t].next - 1]
    BY <1>3 DEF GridOK, Grid
  <2>1. CASE t <= N
    <3>1. t \in Particles /\ thread'[t] = [next |-> 1, e |-> 0, f |-> 0]
      BY <1>2, <1>4, <2>1
    <3> QED BY <1>5, <1>6, <3>1
  <2>2. CASE ~(t <= N)
    <3>1. t \notin Particles /\ thread'[t] = [next |-> 0, e |-> 0, f |-> 0]
      BY <1>2, <1>4, <2>2
    <3> QED BY <3>1
  <2> QED BY <2>1, <2>2
<1>8. CudaAnswer'
  BY <1>1, TablesStay DEF LjInv, CudaInv
<1> QED BY <1>1, <1>7, <1>8 DEF LjInv, CudaInv

LEMMA ThreadStepKeeps ==
    ASSUME LjInv, NEW t \in DOMAIN thread, ThreadStep(t)
    PROVE  CudaInv'
<1> DEFINE j == thread[t].next
<1>1. UNCHANGED <<position, cutoff2, device, cuda>> /\ InputOK
  BY DEF ThreadStep, LjInv, CpuInv
<1>2. GridOK /\ t \in Grid
  BY DEF LjInv, CudaInv, GridOK
<1>3. j \in Particles /\ j # 0 /\ j - 1 \in 0..N /\ j + 1 \in 0..(N + 1) /\ j + 1 # 0 /\ (j + 1) - 1 = j
  BY LjAssumption DEF ThreadStep, Particles
<1>4. t \in Particles /\ thread[t].e = Running(Energies(t))[j - 1]
      /\ thread[t].f = Running(Forces(t))[j - 1]
  BY <1>2, <1>3 DEF GridOK
<1>5. Running(Energies(t))[j] = Plus(thread[t].e, Energies(t)[j])
      /\ Running(Forces(t))[j] = Plus(thread[t].f, Forces(t)[j])
  <2>1. Energies(t) \in [Particles -> Double] /\ Forces(t) \in [Particles -> Double]
    BY <1>1, <1>4, TermsTyped
  <2>2. j \in 1..N
    BY <1>3 DEF Particles
  <2> HIDE DEF j
  <2> QED BY <1>4, <2>1, <2>2, RunningTable
<1>6. thread' = [thread EXCEPT ![t] = [next |-> j + 1, e |-> Running(Energies(t))[j],
                                       f |-> Running(Forces(t))[j]]]
  BY <1>1, <1>2, <1>3, <1>4, <1>5, VisitAdds DEF ThreadStep
<1>7. j \in 0..N /\ Running(Energies(t))[j] \in Double /\ Running(Forces(t))[j] \in Double
  <2>1. j \in 0..N
    BY <1>3, LjAssumption DEF Particles
  <2> QED BY <1>1, <1>4, <2>1, StoredTyped
<1> DEFINE next == [next |-> j + 1, e |-> Running(Energies(t))[j], f |-> Running(Forces(t))[j]]
<1>8. next \in [next : 0..(N + 1), e : Double, f : Double]
  <2> HIDE DEF j
  <2> QED BY <1>3, <1>7
<1>9. \A p \in Particles : /\ Forces(p)' = Forces(p) /\ Energies(p)' = Energies(p)
                           /\ Stored(p)' = Stored(p)
  BY <1>1, TablesStay
<1>10. GridOK'
  <2>1. thread' \in [Grid -> [next : 0..(N + 1), e : Double, f : Double]]
    <3> HIDE DEF next, j
    <3>1. thread' = [thread EXCEPT ![t] = next]
      BY <1>6 DEF next
    <3> QED BY <1>2, <1>8, <3>1 DEF GridOK
  <2> SUFFICES ASSUME NEW q \in Grid
               PROVE  IF thread'[q].next = 0 THEN q \in Particles => device'[q] = Stored(q)'
                      ELSE /\ q \in Particles
                           /\ thread'[q].e = Running(Energies(q)')[thread'[q].next - 1]
                           /\ thread'[q].f = Running(Forces(q)')[thread'[q].next - 1]
    BY <2>1 DEF GridOK, Grid
  <2>2. CASE q = t
    <3>1. thread'[q] = next
      BY <1>2, <1>6, <2>2 DEF GridOK
    <3>2. thread'[q].next = j + 1 /\ thread'[q].e = Running(Energies(t))[j]
          /\ thread'[q].f = Running(Forces(t))[j]
      BY <3>1
    <3> HIDE DEF j, next
    <3> QED BY <1>3, <1>4, <1>9, <2>2, <3>2
  <2>3. CASE q # t
    <3>1. thread'[q] = thread[q] /\ device'[q] = device[q]
      BY <1>1, <1>2, <1>6, <2>3 DEF GridOK
    <3> QED BY <1>2, <1>9, <3>1 DEF GridOK
  <2> QED BY <2>2, <2>3
<1>11. CudaAnswer'
  BY <1>1, TablesStay DEF LjInv, CudaInv
<1> QED BY <1>1, <1>10, <1>11 DEF LjInv, CudaInv

LEMMA ThreadStoreKeeps ==
    ASSUME LjInv, NEW t \in DOMAIN thread, ThreadStore(t)
    PROVE  CudaInv'
<1>1. UNCHANGED <<position, cutoff2, cuda>> /\ InputOK /\ N \in 0..N /\ N + 1 # 0 /\ (N + 1) - 1 = N
  BY LjAssumption DEF ThreadStore, LjInv, CpuInv
<1>2. GridOK /\ t \in Grid /\ thread[t].next = N + 1
  BY DEF LjInv, CudaInv, GridOK, ThreadStore
<1>3. t \in Particles /\ thread[t].e = Running(Energies(t))[N] /\ thread[t].f = Running(Forces(t))[N]
  BY <1>1, <1>2 DEF GridOK
<1>4. device' = [device EXCEPT ![t] = Stored(t)]
  BY <1>3 DEF ThreadStore, Stored
<1>5. Stored(t) \in [e : Double, f : Double]
  BY <1>1, <1>3, StoredTyped
<1>6. device' \in [Particles -> [e : Double \cup {Unwritten}, f : Double \cup {Unwritten}]]
  BY <1>3, <1>4, <1>5 DEF LjInv, CudaInv
<1>7. thread' = [thread EXCEPT ![t] = [next |-> 0, e |-> 0, f |-> 0]]
  BY DEF ThreadStore, Idle
<1>8. \A p \in Particles : /\ Forces(p)' = Forces(p) /\ Energies(p)' = Energies(p)
                           /\ Stored(p)' = Stored(p)
  BY <1>1, TablesStay
<1>9. GridOK'
  <2>1. thread' \in [Grid -> [next : 0..(N + 1), e : Double, f : Double]]
    BY <1>2, <1>7, ZeroIsDouble, LjAssumption DEF GridOK
  <2> SUFFICES ASSUME NEW q \in Grid
               PROVE  IF thread'[q].next = 0 THEN q \in Particles => device'[q] = Stored(q)'
                      ELSE /\ q \in Particles
                           /\ thread'[q].e = Running(Energies(q)')[thread'[q].next - 1]
                           /\ thread'[q].f = Running(Forces(q)')[thread'[q].next - 1]
    BY <2>1 DEF GridOK, Grid
  <2>2. CASE q = t
    <3>1. thread'[q].next = 0
      BY <1>2, <1>7, <2>2 DEF GridOK
    <3>2. device'[q] = Stored(q)
      BY <1>3, <1>4, <2>2 DEF LjInv, CudaInv
    <3> QED BY <1>8, <3>1, <3>2
  <2>3. CASE q # t
    <3>1. thread'[q] = thread[q]
      BY <1>2, <1>7, <2>3 DEF GridOK
    <3>2. q \in Particles => device'[q] = device[q]
      BY <1>4, <2>3 DEF LjInv, CudaInv
    <3> QED BY <1>2, <1>8, <3>1, <3>2 DEF GridOK
  <2> QED BY <2>2, <2>3
<1>10. CudaAnswer'
  BY <1>1, TablesStay DEF LjInv, CudaInv
<1> QED BY <1>6, <1>9, <1>10 DEF CudaInv

\* When every thread is done every particle has its sums, and nothing else is read.
LEMMA CopyBackKeeps ==
    ASSUME LjInv, CopyBack
    PROVE  CudaInv'
<1>1. UNCHANGED <<position, cutoff2, thread, device>> /\ InputOK /\ N \in 0..N
  BY LjAssumption DEF CopyBack, LjInv, CpuInv
<1>2. GridOK /\ \A t \in Grid : thread[t].next = 0
  BY DEF CopyBack, LjInv, CudaInv, GridOK
<1>3. \A p \in Particles : p \in Grid
  <2>1. N \in Nat /\ Blocks * ThreadsPerBlock \in Nat /\ N <= Blocks * ThreadsPerBlock
    BY GridCovers, LjAssumption
  <2> DEFINE all == Blocks * ThreadsPerBlock
  <2> HIDE DEF all
  <2>2. \A p \in 1..N : p \in 1..all
    BY <2>1 DEF all
  <2> QED BY <2>2 DEF all, Grid, Particles
<1>4. \A p \in Particles : /\ device[p] = Stored(p)
                           /\ device[p].e = Running(Energies(p))[N]
                           /\ device[p].f = Running(Forces(p))[N]
                           /\ device[p].e # Unwritten
  <2> TAKE p \in Particles
  <2>1. device[p] = Stored(p)
    BY <1>2, <1>3 DEF GridOK
  <2>2. Running(Energies(p))[N] # Unwritten
    BY <1>1, StoredTyped, LjAssumption DEF Double
  <2> QED BY <2>1, <2>2 DEF Stored
<1>5. [p \in Particles |-> device[p].e] = [p \in Particles |-> Running(Energies(p))[N]]
  BY <1>4
<1>6. total_twice = DeviceTotal
  BY <1>5 DEF total_twice, DeviceTotal
<1>7. [p \in Particles |-> device[p].f] = [p \in Particles |-> Running(Forces(p))[N]]
  BY <1>4
<1>8. cuda' = IF DeviceTotal = Inf \/ \E p \in Particles : Running(Forces(p))[N] = Inf
              THEN Fault("NonFinite")
              ELSE Success(DeviceTotal \div 2, [p \in Particles |-> Running(Forces(p))[N]])
  BY <1>4, <1>6, <1>7 DEF CopyBack, CudaTotal, Finite
<1>9. \A p \in Particles : /\ Forces(p)' = Forces(p) /\ Energies(p)' = Energies(p)
                           /\ Stored(p)' = Stored(p)
  BY <1>1, TablesStay
<1>10. DeviceTotal' = DeviceTotal
  BY <1>1, TablesStay
<1>11. CudaAnswer'
  <2>1. [p \in Particles |-> Running(Forces(p)')[N]] = [p \in Particles |-> Running(Forces(p))[N]]
    BY <1>9
  <2> QED BY <1>8, <1>9, <1>10, <2>1 DEF CudaAnswer
<1>12. GridOK'
  <2> USE DEF Grid
  <2> QED BY <1>1, <1>2, <1>9 DEF GridOK
<1> QED BY <1>1, <1>11, <1>12 DEF LjInv, CudaInv

LEMMA CudaFailsKeeps ==
    ASSUME LjInv, CudaFails
    PROVE  CudaInv'
<1>1. UNCHANGED <<position, cutoff2, thread, device>> /\ cuda' = Fault("runtime_error")
  BY DEF CudaFails
<1>2. CudaAnswer'
  BY <1>1 DEF CudaAnswer
<1>3. GridOK => GridOK'
  BY <1>1, TablesStay DEF GridOK, Grid
<1> QED BY <1>1, <1>2, <1>3 DEF LjInv, CudaInv

\* The steps of the CPU leave the device alone.
LEMMA CudaStays ==
    ASSUME LjInv, UNCHANGED <<position, cutoff2, thread, device, cuda>>
    PROVE  CudaInv'
<1>1. CudaAnswer' /\ (GridOK => GridOK')
  BY TablesStay DEF LjInv, CudaInv, GridOK, Grid
<1> QED BY <1>1 DEF LjInv, CudaInv

-----------------------------------------------------------------------------
(* The invariant, and what it says *)

\* The sums of both engines, and the answers made of them, are those of the same terms at
\* every step of the loop and of the threads, in every interleaving of the threads.
THEOREM LjInvHolds == Spec => []LjInv
<1>1. Init => LjInv
  BY CpuInit, CudaInit DEF LjInv
<1>2. LjInv /\ [Next]_vars => LjInv'
  <2> SUFFICES ASSUME LjInv, [Next]_vars PROVE LjInv'
    OBVIOUS
  <2> USE DEF LjInv
  <2>1. CASE CpuPair
    <3>1. UNCHANGED <<position, cutoff2, thread, device, cuda>>
      BY <2>1 DEF CpuPair
    <3> QED BY <2>1, <3>1, CpuPairKeeps, CudaStays
  <2>2. CASE CpuReturn
    <3>1. UNCHANGED <<position, cutoff2, thread, device, cuda>>
      BY <2>2 DEF CpuReturn
    <3> QED BY <2>2, <3>1, CpuReturnKeeps, CudaStays
  <2>3. ASSUME UNCHANGED <<position, cutoff2, pair, energy, forces, cpu>> PROVE CpuInv'
    <3>1. CpuAnswer'
      BY <2>3, InputIsRigid DEF CpuInv, CpuAnswer
    <3> QED BY <2>3, <3>1, CpuStays
  <2>4. CASE Launch
    <3>1. UNCHANGED <<position, cutoff2, pair, energy, forces, cpu>>
      BY <2>4 DEF Launch
    <3> QED BY <2>3, <2>4, <3>1, LaunchKeeps
  <2>5. CASE CopyBack
    <3>1. UNCHANGED <<position, cutoff2, pair, energy, forces, cpu>>
      BY <2>5 DEF CopyBack
    <3> QED BY <2>3, <2>5, <3>1, CopyBackKeeps
  <2>6. CASE CudaFails
    <3>1. UNCHANGED <<position, cutoff2, pair, energy, forces, cpu>>
      BY <2>6 DEF CudaFails
    <3> QED BY <2>3, <2>6, <3>1, CudaFailsKeeps
  <2>7. ASSUME NEW t \in DOMAIN thread, ThreadStep(t) PROVE LjInv'
    <3>1. UNCHANGED <<position, cutoff2, pair, energy, forces, cpu>>
      BY <2>7 DEF ThreadStep
    <3> QED BY <2>3, <2>7, <3>1, ThreadStepKeeps
  <2>8. ASSUME NEW t \in DOMAIN thread, ThreadStore(t) PROVE LjInv'
    <3>1. UNCHANGED <<position, cutoff2, pair, energy, forces, cpu>>
      BY <2>8 DEF ThreadStore
    <3> QED BY <2>3, <2>8, <3>1, ThreadStoreKeeps
  <2>9. CASE UNCHANGED vars
    <3>1. UNCHANGED <<position, cutoff2, pair, energy, forces, cpu, thread, device, cuda>>
      BY <2>9 DEF vars
    <3> QED BY <2>3, <3>1, CudaStays
  <2> QED BY <2>1, <2>2, <2>4, <2>5, <2>6, <2>7, <2>8, <2>9 DEF Next, Terminated
<1> QED BY <1>1, <1>2, PTL DEF Spec

LEMMA AnswersTold ==
    /\ ~Pending.ok /\ Pending.fault = "pending"
    /\ \A f : ~Fault(f).ok /\ Fault(f).fault = f
    /\ \A e, f : /\ Success(e, f).ok /\ Success(e, f).fault = "none"
                /\ Success(e, f).total_energy = e /\ Success(e, f).forces = f
BY DEF Pending, Fault, Success

\* Whichever engine completes, every force is the exact sum of finite terms.
LEMMA ForcesAreExact ==
    ASSUME LjInv
    PROVE  \A r \in {cpu, cuda} : r.ok =>
              /\ \A p \in Particles : Running(Forces(p))[N] # Inf
              /\ r.forces = [p \in Particles |-> Running(Forces(p))[N]]
<1>1. ASSUME cpu.ok
      PROVE  /\ \A p \in Particles : Running(Forces(p))[N] # Inf
             /\ cpu.forces = [p \in Particles |-> Running(Forces(p))[N]]
  <2>1. /\ pair[2] = N + 1 /\ cpu = Success(energy, forces)
        /\ \A p \in Particles : forces[p] # Inf
    BY <1>1, AnswersTold DEF LjInv, CpuInv, CpuAnswer
  <2>2. \A p \in Particles : forces[p] = Running(Forces(p))[N]
    BY <2>1, SeenTyped DEF LjInv, CpuInv, ForcesSoFar
  <2>3. forces = [p \in Particles |-> forces[p]]
    BY DEF LjInv, CpuInv
  <2> QED BY <2>1, <2>2, <2>3, AnswersTold
<1>2. ASSUME cuda.ok
      PROVE  /\ \A p \in Particles : Running(Forces(p))[N] # Inf
             /\ cuda.forces = [p \in Particles |-> Running(Forces(p))[N]]
  BY <1>2, AnswersTold DEF LjInv, CudaInv, CudaAnswer
<1> QED BY <1>1, <1>2

LEMMA EnginesAgreeFromInv == LjInv => EnginesAgree
<1> SUFFICES ASSUME LjInv, cpu.ok, cuda.ok
             PROVE  cpu.total_energy = cuda.total_energy /\ cpu.forces = cuda.forces
  BY DEF EnginesAgree
<1>1. cpu.forces = cuda.forces
  BY ForcesAreExact
<1>2. pair[2] = N + 1 /\ energy # Inf /\ cpu.total_energy = energy
  BY AnswersTold DEF LjInv, CpuInv, CpuAnswer
<1>3. DeviceTotal # Inf /\ cuda.total_energy = DeviceTotal \div 2
  BY AnswersTold DEF LjInv, CudaInv, CudaAnswer
<1>4. InputOK /\ PairOK /\ N \in 0..N
  BY LjAssumption DEF LjInv, CpuInv
<1> DEFINE d == [p \in Particles |-> Running(Energies(p))[N]]
<1>5. d \in [Particles -> Double]
  BY <1>4, StoredTyped
<1>6. DeviceTotal = Sums(Whole(d))[N] /\ \A p \in Particles : d[p] # Inf
  <2>1. DeviceTotal = Running(d)[N]
    BY DEF DeviceTotal
  <2> HIDE DEF d
  <2> QED BY <1>3, <1>4, <1>5, <2>1, FiniteSumsAreExact DEF Particles
<1>7. \A p \in Particles : d[p] = Sums(Whole(Energies(p)))[N]
  BY <1>4, <1>6, TermsTyped, FiniteSumsAreExact
<1>8. \A p \in Particles : Seen(p) = N
  BY <1>2, <1>4, SeenTyped
<1>9. Whole(d) = EnergyMet
  BY <1>6, <1>7, <1>8 DEF Whole, EnergyMet
<1>10. DeviceTotal = 2 * energy
  BY <1>2, <1>6, <1>9 DEF LjInv, CpuInv, EnergySoFar, Sum
<1>11. energy \in Int
  BY <1>2 DEF LjInv, CpuInv, Double
<1>12. (2 * energy) \div 2 = energy
  BY <1>11
<1> QED BY <1>1, <1>2, <1>3, <1>10, <1>12

\* The two engines, of which one visits each pair once and the other twice, give the same
\* energy and the same forces to every input that both complete: for every number of
\* particles, potential, cutoff and block size, however the threads interleave.
THEOREM EnginesAgreeHolds == Spec => []EnginesAgree
BY LjInvHolds, EnginesAgreeFromInv, PTL

LEMMA CoincidentIsReportedFromInv == LjInv => CoincidentIsReported
<1> SUFFICES ASSUME LjInv, cpu # Pending
             PROVE  Coincident <=> cpu.fault = "CoincidentParticles"
  BY DEF CoincidentIsReported
<1>1. CASE cpu = Fault("CoincidentParticles") /\ Coincident
  BY <1>1, AnswersTold
<1>2. CASE pair[2] = N + 1 /\ cpu.fault \in {"none", "NonFinite"}
  <2>1. pair[1] = N /\ N \in Nat
    BY <1>2, LjAssumption DEF LjInv, CpuInv, PairOK
  <2>2. \A a, b \in Particles : a < b => r2(a, b) # 0
    BY <1>2, <2>1 DEF LjInv, CpuInv, ApartSoFar, Particles
  <2>3. \A a, b \in Particles : r2(a, b) = r2(b, a)
    BY PairsAreSymmetric DEF LjInv, CpuInv
  <2>4. ~Coincident
    <3> SUFFICES ASSUME NEW a \in Particles, NEW b \in Particles, a # b, r2(a, b) = 0
                 PROVE  FALSE
      BY DEF Coincident
    <3>1. a < b \/ b < a
      BY DEF Particles
    <3> QED BY <2>2, <2>3, <3>1
  <2> QED BY <1>2, <2>4
<1>3. CASE cpu = Success(energy, forces) \/ cpu = Fault("NonFinite")
  <2>1. cpu.fault \in {"none", "NonFinite"}
    BY <1>3, AnswersTold
  <2>2. cpu.fault # "CoincidentParticles" /\ cpu # Pending
    BY <2>1
  <2>3. pair[2] = N + 1
    <3>1. CASE cpu = Fault("CoincidentParticles")
      BY <2>2, <3>1, AnswersTold
    <3>2. CASE cpu # Fault("CoincidentParticles")
      BY <3>2, <2>2 DEF LjInv, CpuInv, CpuAnswer
    <3> QED BY <3>1, <3>2
  <2> QED BY <1>2, <2>1, <2>3
<1> QED BY <1>1, <1>3 DEF LjInv, CpuInv, CpuAnswer

\* A coincident pair is answered as such, and nothing else is, wherever in the loop it
\* comes, however many particles there are.
THEOREM CoincidentIsReportedHolds == Spec => []CoincidentIsReported
BY LjInvHolds, CoincidentIsReportedFromInv, PTL

LEMMA ForcesBalanceFromInv == LjInv => ForcesBalance
<1> SUFFICES ASSUME LjInv, NEW r \in {cpu, cuda}, r.ok
             PROVE  Sum(r.forces) = 0
  BY DEF ForcesBalance
<1>1. /\ \A p \in Particles : Running(Forces(p))[N] # Inf
      /\ r.forces = [p \in Particles |-> Running(Forces(p))[N]]
  BY ForcesAreExact
<1>2. InputOK /\ N \in 0..N
  BY LjAssumption DEF LjInv, CpuInv
<1>3. \A p \in Particles : Forces(p) \in [Particles -> Double]
  BY <1>2, TermsTyped
<1>4. \A p \in Particles : /\ Running(Forces(p))[N] = Sums(Whole(Forces(p)))[N]
                           /\ \A j \in Particles : Forces(p)[j] # Inf
  BY <1>1, <1>2, <1>3, FiniteSumsAreExact DEF Particles
<1> DEFINE A == [p \in Particles |-> Whole(Forces(p))]
<1>5. A \in [Particles -> [Particles -> Int]]
  BY <1>3, WholeIsExact
<1>6. \A i, j \in Particles : Forces(i)[j] = -Forces(j)[i]
  <2> TAKE i, j \in Particles
  <2>1. CASE Near(i, j)
    <3>1. Near(j, i)
      BY <1>2, <2>1, PairsAreSymmetric
    <3>2. Forces(i)[j] = fdx(i, j) /\ Forces(j)[i] = fdx(j, i)
      BY <2>1, <3>1 DEF Forces
    <3>3. fdx(i, j) = -fdx(j, i)
      BY <1>2, <1>4, <3>1, <3>2, ActionIsReaction
    <3> QED BY <3>2, <3>3
  <2>2. CASE ~Near(i, j)
    <3>1. ~Near(j, i)
      BY <1>2, <2>2, PairsAreSymmetric
    <3>2. Forces(i)[j] = 0 /\ Forces(j)[i] = 0
      BY <2>2, <3>1 DEF Forces
    <3>3. \A x \in Int : x + x = 0 => x = -x
      OBVIOUS
    <3>4. 0 \in Int /\ 0 + 0 = 0
      OBVIOUS
    <3> QED BY <3>2, <3>3, <3>4, Zenon
  <2> QED BY <2>1, <2>2
<1>7. \A i, j \in Particles : A[i][j] = -A[j][i]
  BY <1>4, <1>6 DEF Whole
<1>8. r.forces = [p \in Particles |-> Sum(A[p])]
  BY <1>1, <1>4 DEF Sum
<1> HIDE DEF A
<1> QED BY <1>5, <1>7, <1>8, AntisymmetricSum

\* The forces of whatever completes add up to nothing, by the law of action and reaction
\* and because every pair is met from both sides.
THEOREM ForcesBalanceHolds == Spec => []ForcesBalance
BY LjInvHolds, ForcesBalanceFromInv, PTL

LEMMA EntryBelowSum ==
    ASSUME NEW v \in [Particles -> Int], \A i \in Particles : 0 <= v[i],
           NEW p \in Particles
    PROVE  v[p] <= Sum(v)
<1>1. p - 1 \in 0..N /\ p \in 0..N /\ p \in 1..N /\ N \in 0..N
  BY LjAssumption DEF Particles
<1>2. Magnitudes(v) = v
  BY DEF Magnitudes, Absolute
<1>3. -Sums(v)[p - 1] <= Sums(v)[p - 1]
  <2>1. \A k \in 0..N : -Sums(v)[k] <= Sums(v)[k]
    BY <1>2, SumsOfMagnitudes
  <2> QED BY <1>1, <2>1
<1>4. Sums(v)[p] <= Sums(v)[N]
  BY <1>1, SumsGrow
<1>5. Sums(v)[p] = Sums(v)[p - 1] + v[p]
  BY <1>1, SumsTable
<1>6. Sums(v)[p] \in Int /\ Sums(v)[p - 1] \in Int /\ Sums(v)[N] \in Int /\ v[p] \in Int
  BY <1>1, SumsTable
<1> QED BY <1>3, <1>4, <1>5, <1>6 DEF Sum

LEMMA RoomForTheDevice ==
    ASSUME InputOK, Roomy
    PROVE  /\ DeviceTotal # Inf
           /\ \A p \in Particles : Running(Forces(p))[N] # Inf
<1>1. N \in 0..N /\ Inf \notin Int /\ Big \in Nat
  BY LjAssumption
<1>2. ASSUME NEW p \in Particles PROVE Running(Forces(p))[N] # Inf
  <2>1. /\ Forces(p) \in [Particles -> Double] /\ \A j \in Particles : Forces(p)[j] # Inf
        /\ Sum(Magnitudes(Forces(p))) <= Big
    BY TermsTyped DEF Roomy, Finite
  <2>2. Running(Forces(p))[N] \in -Big..Big
    BY <1>1, <2>1, RoomKeepsSumsFinite
  <2> QED BY <1>1, <2>2
<1> DEFINE room == [p \in Particles |-> Sum(Magnitudes(Energies(p)))]
<1> DEFINE d == [p \in Particles |-> Running(Energies(p))[N]]
<1>3. ASSUME NEW p \in Particles
      PROVE  /\ Energies(p) \in [Particles -> Int]
             /\ \A j \in Particles : Energies(p)[j] # Inf
             /\ room[p] \in Int /\ 0 <= room[p]
             /\ -room[p] <= Sums(Energies(p))[N] /\ Sums(Energies(p))[N] <= room[p]
             /\ Sums(Energies(p))[N] \in Int
  <2> DEFINE e == Energies(p)
  <2> DEFINE m == Magnitudes(e)
  <2>1. e \in [Particles -> Double] /\ \A j \in Particles : e[j] # Inf
    BY TermsTyped DEF Roomy, Finite
  <2>2. e \in [Particles -> Int]
    BY <2>1 DEF Double
  <2>3. m \in [Particles -> Int]
    BY <2>2, MagnitudesTyped
  <2>4. room[p] = Sums(m)[N]
    BY DEF Sum
  <2>5. -Sums(m)[N] <= Sums(e)[N] /\ Sums(e)[N] <= Sums(m)[N]
    BY <1>1, <2>2, SumsOfMagnitudes
  <2> HIDE DEF e, m, room
  <2>6. Sums(m)[N] \in Int /\ Sums(e)[N] \in Int
    BY <1>1, <2>2, <2>3, SumsTable
  <2>7. 0 <= Sums(m)[N]
    BY <2>5, <2>6
  <2>8. /\ e \in [Particles -> Int] /\ \A j \in Particles : e[j] # Inf
        /\ room[p] \in Int /\ 0 <= room[p]
        /\ -room[p] <= Sums(e)[N] /\ Sums(e)[N] <= room[p] /\ Sums(e)[N] \in Int
    BY <2>1, <2>2, <2>4, <2>5, <2>6, <2>7
  <2> QED BY <2>8 DEF e
<1>4. room \in [Particles -> Int] /\ Sum(room) <= Big
  BY <1>3 DEF Roomy
<1>5. \A p \in Particles : d[p] = Sums(Energies(p))[N]
  <2> TAKE p \in Particles
  <2>1. room[p] <= Sum(room) /\ Sum(room) \in Int
    <3>1. \A q \in Particles : 0 <= room[q]
      BY <1>3
    <3> HIDE DEF room
    <3> QED BY <1>4, <3>1, EntryBelowSum, SumIsLast
  <2>2. Sum(Magnitudes(Energies(p))) <= Big
    <3>1. room[p] = Sum(Magnitudes(Energies(p)))
      OBVIOUS
    <3>2. room[p] \in Int /\ room[p] <= Sum(room) /\ Sum(room) <= Big /\ Sum(room) \in Int /\ Big \in Int
      BY <1>1, <1>3, <1>4, <2>1
    <3>3. room[p] <= Big
      <4> HIDE DEF room
      <4> QED BY <3>2
    <3> QED BY <3>1, <3>3
  <2>3. Energies(p) \in [Particles -> Double]
    BY TermsTyped
  <2>4. Running(Energies(p))[N] = Sums(Energies(p))[N]
    BY <1>1, <1>3, <2>2, <2>3, RoomKeepsSumsFinite
  <2> QED BY <2>4
<1>6. d \in [Particles -> Int] /\ d \in [Particles -> Double] /\ \A p \in Particles : d[p] # Inf
  <2>1. d \in [Particles -> Double]
    BY <1>1, StoredTyped
  <2>2. \A p \in Particles : d[p] \in Int
    BY <1>3, <1>5
  <2> QED BY <1>1, <2>1, <2>2
<1>7. Sum(Magnitudes(d)) <= Big
  <2> DEFINE m == Magnitudes(d)
  <2>1. m \in [Particles -> Int]
    BY <1>6, MagnitudesTyped
  <2>2. \A p \in Particles : m[p] <= room[p]
    <3> TAKE p \in Particles
    <3>1. d[p] \in Int /\ room[p] \in Int /\ -room[p] <= d[p] /\ d[p] <= room[p]
      BY <1>3, <1>5
    <3>2. m[p] = IF d[p] < 0 THEN -d[p] ELSE d[p]
      BY DEF Magnitudes, Absolute
    <3> HIDE DEF d, room, m
    <3> QED BY <3>1, <3>2
  <2> HIDE DEF d, room, m
  <2>3. Sums(m)[N] <= Sums(room)[N]
    BY <1>1, <1>4, <2>1, <2>2, SumsMonotone
  <2>4. Sums(m)[N] \in Int /\ Sums(room)[N] \in Int
    BY <1>1, <1>4, <2>1, SumsTable
  <2> QED BY <1>1, <1>4, <2>3, <2>4 DEF m, Sum
<1>8. DeviceTotal \in -Big..Big
  <2>1. DeviceTotal = Running(d)[N]
    BY DEF DeviceTotal
  <2> HIDE DEF d
  <2> QED BY <1>1, <1>6, <1>7, <2>1, RoomKeepsSumsFinite
<1> QED BY <1>1, <1>2, <1>8

LEMMA RoomyInputsCompleteFromInv == LjInv => RoomyInputsComplete
<1> SUFFICES ASSUME LjInv, ~Coincident, Roomy
             PROVE  /\ cpu.fault \in {"pending", "none"}
                    /\ cuda.fault \in {"pending", "none", "runtime_error"}
  BY DEF RoomyInputsComplete
<1>1. InputOK /\ N \in 0..N
  BY LjAssumption DEF LjInv, CpuInv
<1>2. DeviceTotal # Inf /\ \A p \in Particles : Running(Forces(p))[N] # Inf
  BY <1>1, RoomForTheDevice
<1>3. cuda.fault \in {"pending", "none", "runtime_error"}
  BY <1>2, AnswersTold DEF LjInv, CudaInv, CudaAnswer
<1>4. energy # Inf
  BY DEF LjInv, CpuInv, RoomSoFar
<1>5. pair[2] = N + 1 => \A p \in Particles : forces[p] # Inf
  BY <1>2, SeenTyped DEF LjInv, CpuInv, ForcesSoFar
<1>6. cpu = Pending \/ cpu = Success(energy, forces)
  BY <1>4, <1>5 DEF LjInv, CpuInv, CpuAnswer
<1> QED BY <1>3, <1>6, AnswersTold

\* An input with no coincident pair, and whose sums fit in a double in any order, is
\* answered by both engines, for every number of particles and every launch that no CUDA
\* call fails: no thread is missing, none reads what it should not, nothing overflows.
THEOREM RoomyInputsCompleteHolds == Spec => []RoomyInputsComplete
BY LjInvHolds, RoomyInputsCompleteFromInv, PTL
=============================================================================

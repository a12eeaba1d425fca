---------------------------- MODULE KalmanProofs ----------------------------
(***************************************************************************)
(* CompletedIsFinite, InverseIsInverse and StepIsBayes for any prime, any  *)
(* problems with arrays of any size, and any bound on the overflows. The   *)
(* numbers are closed under all that the filter computes, division         *)
(* included, because every number but 0 has an inverse; so a NaN comes of  *)
(* an overflow and of nothing else. They are a field; so a step of the     *)
(* elimination loses no solution of the system it started from, and at the *)
(* end the system is solved, or what is left of it takes some vector to    *)
(* zero. Products of matrices over them associate and distribute; with the *)
(* gain that the elimination gives, the Joseph form is (I - K H) P, and    *)
(* the precision of the Bayes update takes it to the identity.             *)
(***************************************************************************)
EXTENDS KalmanFilter, Induction, SequenceTheorems

-----------------------------------------------------------------------------
(* Arithmetic modulo a prime *)

\* There is one remainder.
LEMMA OneRemainder ==
    ASSUME NEW n \in Nat \ {0}, NEW q \in Int, NEW r \in 0..(n - 1)
    PROVE  (n * q + r) % n = r
OBVIOUS

\* What is left of a division.
LEMMA Division ==
    ASSUME NEW n \in Nat \ {0}, NEW a \in Int
    PROVE  a % n \in 0..(n - 1) /\ \E q \in Int : a = n * q + (a % n)
<1>1. a % n \in 0..(n - 1)
  OBVIOUS
<1>2. a \div n \in Int /\ a = n * (a \div n) + (a % n)
  OBVIOUS
<1> QED BY <1>1, <1>2

LEMMA PrimeIsPositive == Prime \in Nat \ {0} /\ Prime >= 3
BY KalmanAssumption

\* Every number but 0 has an inverse: the least remainder of a multiple of it divides
\* the prime.
LEMMA InverseExists ==
    ASSUME NEW a \in Numbers, a # 0
    PROVE  \E b \in Numbers : (a * b) % Prime = 1
<1> DEFINE n == Prime
           T == {r \in 1..(n - 1) : \E b \in Nat, q \in Int : a * b = n * q + r}
<1>0. n \in Nat \ {0} /\ n >= 3 /\ a \in 1..(n - 1)
  BY PrimeIsPositive DEF Numbers
<1> HIDE DEF n
<1>1. a \in T
  <2>1. 1 \in Nat /\ 0 \in Int /\ a * 1 = n * 0 + a
    BY <1>0
  <2> QED BY <1>0, <2>1
<1>2. PICK g \in T : \A s \in T : g <= s
  <2>1. T \in SUBSET Nat /\ T # {}
    <3>1. 1..(n - 1) \subseteq Nat
      BY <1>0
    <3>2. T \subseteq 1..(n - 1)
      OBVIOUS
    <3> HIDE DEF T
    <3> QED BY <1>1, <3>1, <3>2
  <2> HIDE DEF T
  <2> QED BY <2>1, LeastNatural
<1>3. PICK b \in Nat, q \in Int : a * b = n * q + g
  BY <1>2
<1>4. g \in 1..(n - 1) /\ g \in Nat \ {0} /\ g < n
  BY <1>0, <1>2
<1>5. n % g = 0
  <2> DEFINE r == n % g
  <2>1. r \in 0..(g - 1) /\ \E c \in Int : n = g * c + r
    <3>1. n \in Int /\ g \in Nat \ {0}
      BY <1>0, <1>4
    <3>2. n % g \in 0..(g - 1) /\ \E c \in Int : n = g * c + (n % g)
      BY <3>1, Division
    <3> QED BY <3>2, Zenon
  <2> HIDE DEF r
  <2>2. PICK c \in Int : n = g * c + r
    BY <2>1
  <2> SUFFICES ASSUME r # 0 PROVE FALSE
    BY DEF r
  <2>3. r \in 1..(n - 1) /\ r < g
    BY <1>0, <1>4, <2>1
  <2>4. c \in Nat
    <3> SUFFICES ASSUME c < 0 PROVE FALSE
      BY <2>2
    <3>1. g * c <= -g
      <4>1. -c - 1 \in Nat
        BY <2>2
      <4>2. g * (-c - 1) \in Nat
        BY <1>4, <4>1
      <4> QED BY <1>4, <2>2, <4>2
    <3> DEFINE gc == g * c
    <3>2. gc \in Int /\ gc <= -g /\ n = gc + r
      BY <1>4, <2>2, <3>1
    <3> HIDE DEF gc
    <3> QED BY <1>0, <1>4, <2>3, <3>2
  \* r = n - g c is the remainder of a times n - 1 times b c.
  <2>5. a * ((n - 1) * (b * c)) = n * (a * (b * c) - q * c - 1) + r
    <3>1. a * ((n - 1) * (b * c)) = n * (a * (b * c)) - (a * b) * c
      BY <1>0, <1>3, <2>2
    <3>2. (a * b) * c = n * (q * c) + g * c
      <4>1. (n * q + g) * c = n * (q * c) + g * c
        BY <1>0, <1>3, <1>4, <2>2
      <4> QED BY <1>3, <4>1
    <3>3. g * c = n - r
      BY <1>0, <1>4, <2>1, <2>2
    <3>4. n * (a * (b * c) - q * c - 1) = n * (a * (b * c)) - n * (q * c) - n
      BY <1>0, <1>3, <2>2
    <3> DEFINE p1 == a * ((n - 1) * (b * c))
               p2 == n * (a * (b * c))
               p3 == (a * b) * c
               p4 == n * (q * c)
               p5 == g * c
               p6 == n * (a * (b * c) - q * c - 1)
    <3>5. p2 \in Int /\ p3 \in Int /\ p4 \in Int /\ p5 \in Int
      <4>1. a \in Int /\ n \in Int /\ g \in Int
        BY <1>0, <1>4
      <4>2. b \in Int /\ c \in Int /\ q \in Int
        BY <1>3, <2>2
      <4> QED BY <4>1, <4>2
    <3>6. p1 = p2 - p3 /\ p3 = p4 + p5 /\ p5 = n - r /\ p6 = p2 - p4 - n
      BY <3>1, <3>2, <3>3, <3>4, Zenon
    <3> HIDE DEF p1, p2, p3, p4, p5, p6
    <3>7. p1 = p6 + r
      BY <1>0, <2>3, <3>5, <3>6
    <3> QED BY <3>7 DEF p1, p6
  <2>6. (n - 1) * (b * c) \in Nat /\ a * (b * c) - q * c - 1 \in Int
    <3>1. n - 1 \in Nat /\ b * c \in Nat
      BY <1>0, <1>3, <2>4
    <3> QED BY <1>0, <1>3, <2>2, <3>1
  <2>7. r \in T
    BY <2>3, <2>5, <2>6
  <2>8. g <= r
    BY <1>2, <2>7
  <2> QED BY <1>4, <2>3, <2>8
<1>6. g = 1
  <2> SUFFICES ASSUME g # 1 PROVE FALSE
    OBVIOUS
  <2>1. g \in 2..(n - 1)
    BY <1>0, <1>4
  <2>2. g \in 2..(Prime - 1) /\ Prime % g = 0
    BY <1>5, <2>1 DEF n
  <2> HIDE DEF T
  <2> QED BY <2>2, KalmanAssumption, Zenon
<1> DEFINE d == b % n
<1>7. PICK k \in Int : d \in 0..(n - 1) /\ b = n * k + d
  <2>0. b \in Int /\ n \in Nat \ {0}
    BY <1>0
  <2>1. b % n \in 0..(n - 1) /\ \E k \in Int : b = n * k + (b % n)
    BY <2>0, Division
  <2> QED BY <2>1, Zenon
<1> HIDE DEF d
<1>8. a * d = n * (q - a * k) + 1
  <2>1. a * b = n * (a * k) + a * d
    BY <1>0, <1>3, <1>7
  <2>2. n * (q - a * k) = n * q - n * (a * k)
    BY <1>0, <1>3, <1>7
  <2>3. a * b = n * q + 1
    BY <1>3, <1>6
  <2> DEFINE p1 == a * b
             p2 == n * (a * k)
             p3 == a * d
             p4 == n * q
             p5 == n * (q - a * k)
  <2>4. /\ p1 \in Int /\ p2 \in Int /\ p3 \in Int /\ p4 \in Int
        /\ p1 = p2 + p3 /\ p5 = p4 - p2 /\ p1 = p4 + 1
    BY <1>0, <1>3, <1>7, <2>1, <2>2, <2>3
  <2> HIDE DEF p1, p2, p3, p4, p5
  <2>5. p3 = p5 + 1
    BY <2>4
  <2> QED BY <2>5 DEF p3, p5
<1>9. (a * d) % n = 1
  <2>1. q - a * k \in Int /\ 1 \in 0..(n - 1)
    BY <1>0, <1>3, <1>7
  <2> DEFINE c == q - a * k
  <2>2. c \in Int /\ a * d = n * c + 1
    BY <1>8, <2>1
  <2> HIDE DEF c
  <2>3. (n * c + 1) % n = 1
    BY <1>0, <2>1, <2>2, OneRemainder
  <2> QED BY <2>2, <2>3
<1> QED BY <1>7, <1>9 DEF n, Numbers

-----------------------------------------------------------------------------
(* What is computed from numbers is a number, and from doubles a double *)

Closed(D) ==
    /\ 0 \in D /\ 1 \in D
    /\ \A a, b \in D : Add(a, b) \in D /\ Mul(a, b) \in D /\ Mean(a, b) \in D
    /\ \A a \in D : Neg(a) \in D /\ (a # 0 => Inv(a) \in D)

LEMMA Remainder == \A a \in Int : a % Prime \in Numbers
BY PrimeIsPositive DEF Numbers

LEMMA InverseOfNumber ==
    ASSUME NEW a \in Numbers, a # 0
    PROVE  Inv(a) \in Numbers /\ (a * Inv(a)) % Prime = 1
<1>1. a # NaN
  BY KalmanAssumption DEF Numbers
<1>2. Inv(a) = CHOOSE b \in Numbers : (a * b) % Prime = 1
  BY <1>1 DEF Inv
<1>3. \E b \in Numbers : (a * b) % Prime = 1
  BY InverseExists
<1> DEFINE One(b) == (a * b) % Prime = 1
<1> HIDE DEF One
<1>4. Inv(a) = CHOOSE b \in Numbers : One(b)
  BY <1>2 DEF One
<1>5. \E b \in Numbers : One(b)
  BY <1>3 DEF One
<1>6. Inv(a) \in Numbers /\ One(Inv(a))
  BY <1>4, <1>5
<1> QED BY <1>6 DEF One

LEMMA NumbersAreInt ==
    /\ Numbers \subseteq Int /\ NaN \notin Numbers /\ 0 \in Numbers /\ 1 \in Numbers
    /\ (Prime + 1) \div 2 \in Numbers
BY KalmanAssumption DEF Numbers

LEMMA NumbersClosed == Closed(Numbers)
<1>1. \A a, b \in Numbers : Add(a, b) \in Numbers /\ Mul(a, b) \in Numbers
  <2> SUFFICES ASSUME NEW a \in Numbers, NEW b \in Numbers
               PROVE  Add(a, b) \in Numbers /\ Mul(a, b) \in Numbers
    OBVIOUS
  <2>1. a + b \in Int /\ a * b \in Int /\ NaN \notin {a, b}
    BY NumbersAreInt
  <2>2. Add(a, b) = (a + b) % Prime /\ Mul(a, b) = (a * b) % Prime
    BY <2>1 DEF Add, Mul
  <2> QED BY <2>1, <2>2, Remainder
<1>2. \A a, b \in Numbers : Mean(a, b) \in Numbers
  BY <1>1, NumbersAreInt DEF Mean
<1>3. \A a \in Numbers : Neg(a) \in Numbers
  <2> SUFFICES ASSUME NEW a \in Numbers PROVE Neg(a) \in Numbers
    OBVIOUS
  <2>1. Prime - a \in Int /\ a # NaN
    BY NumbersAreInt, PrimeIsPositive
  <2>2. Neg(a) = (Prime - a) % Prime
    BY <2>1 DEF Neg
  <2> QED BY <2>1, <2>2, Remainder
<1> QED BY <1>1, <1>2, <1>3, InverseOfNumber, NumbersAreInt DEF Closed

LEMMA DoublesClosed == Closed(Doubles)
<1>1. \A a \in Doubles : a \in Numbers \/ a = NaN
  BY DEF Doubles
<1>2. \A a, b : NaN \in {a, b} => Add(a, b) = NaN /\ Mul(a, b) = NaN
  BY DEF Add, Mul
<1>3. Neg(NaN) = NaN /\ Inv(NaN) = NaN
  BY DEF Neg, Inv
<1>4. \A a, b \in Doubles : Add(a, b) \in Doubles /\ Mul(a, b) \in Doubles
  BY <1>1, <1>2, NumbersClosed DEF Closed, Doubles
<1>5. \A a, b \in Doubles : Mean(a, b) \in Doubles
  <2>1. (Prime + 1) \div 2 \in Doubles
    BY NumbersAreInt DEF Doubles
  <2> DEFINE half == (Prime + 1) \div 2
  <2> HIDE DEF half
  <2>2. \A a, b : Mean(a, b) = Mul(half, Add(a, b))
    BY DEF Mean, half
  <2> QED BY <1>4, <2>1, <2>2 DEF half
<1>6. \A a \in Doubles : Neg(a) \in Doubles /\ (a # 0 => Inv(a) \in Doubles)
  BY <1>1, <1>3, NumbersClosed DEF Closed, Doubles
<1> QED BY <1>4, <1>5, <1>6, NumbersAreInt DEF Closed, Doubles

-----------------------------------------------------------------------------
(* Matrices *)

Mat(D, r, c) == [1..r -> [1..c -> D]]

LEMMA MatrixSize ==
    ASSUME NEW D, NEW r \in Nat \ {0}, NEW c \in Nat \ {0}, NEW a \in Mat(D, r, c)
    PROVE  Rows(a) = 1..r /\ Cols(a) = 1..c /\ Len(a) = r
<1>1. DOMAIN a = 1..r /\ \A i \in 1..r : a[i] \in [1..c -> D]
  BY DEF Mat
<1>2. DOMAIN a[1] = 1..c
  BY <1>1
<1>3. a \in Seq([1..c -> D]) /\ Len(a) = r
  BY DEF Mat
<1> QED BY <1>1, <1>2, <1>3 DEF Rows, Cols

LEMMA RowSize ==
    ASSUME NEW D, NEW c \in Nat, NEW row \in [1..c -> D]
    PROVE  Len(row) = c
<1>1. row \in Seq(D) /\ Len(row) = c
  OBVIOUS
<1> QED BY <1>1

\* A row of a meets a column of b.
Meet(D, a, b, i, j, n) ==
    /\ n \in Nat /\ Len(a[i]) = n
    /\ \A k \in 1..n : a[i][k] \in D /\ b[k][j] \in D

\* The partial sums of an entry.
LEMMA EntrySums ==
    ASSUME NEW D, Closed(D), NEW a, NEW b, NEW i, NEW j, NEW n, Meet(D, a, b, i, j, n)
    PROVE  \E s : /\ \A k \in 0..n : /\ s[k] \in D
                                     /\ s[k] = IF k = 0 THEN 0
                                               ELSE IF a[i][k] = 0 THEN s[k - 1]
                                               ELSE Add(s[k - 1], Mul(a[i][k], b[k][j]))
                  /\ Entry(a, b, i, j) = s[n]
<1> DEFINE Equation(f) == f = [k \in 0..Len(a[i]) |-> IF k = 0 THEN 0
                                 ELSE IF a[i][k] = 0 THEN f[k - 1]
                                 ELSE Add(f[k - 1], Mul(a[i][k], b[k][j]))]
           step == [p \in (1..n) \X D |->
                       IF a[i][p[1]] = 0 THEN p[2] ELSE Add(p[2], Mul(a[i][p[1]], b[p[1]][j]))]
           s == CHOOSE f : Equation(f)
<1>1. n \in Nat /\ Len(a[i]) = n /\ \A k \in 1..n : a[i][k] \in D /\ b[k][j] \in D
  BY DEF Meet
<1>2. \A k \in 1..n : \A x0 \in D :
         /\ step[<<k, x0>>] = IF a[i][k] = 0 THEN x0 ELSE Add(x0, Mul(a[i][k], b[k][j]))
         /\ step[<<k, x0>>] \in D
  BY <1>1 DEF Closed
<1>3. PICK f \in [0..n -> D] : IsTable(f, n, 0, step)
  <2> HIDE DEF step
  <2>1. \A k \in 1..n : \A x0 \in D : step[<<k, x0>>] \in D
    BY <1>2
  <2>2. 0 \in D
    BY DEF Closed
  <2> HIDE DEF Equation
  <2> QED BY <1>1, <2>1, <2>2, TableExists, Zenon
<1>4. \A k \in 0..n : f[k] = IF k = 0 THEN 0
                             ELSE IF a[i][k] = 0 THEN f[k - 1]
                             ELSE Add(f[k - 1], Mul(a[i][k], b[k][j]))
  <2> HIDE DEF step
  <2> TAKE k \in 0..n
  <2>1. CASE k = 0
    BY <1>3, <2>1 DEF IsTable
  <2>2. CASE k # 0
    <3>1. k \in 1..n /\ k - 1 \in 0..n
      BY <1>1, <2>2
    <3> QED BY <1>2, <1>3, <2>2, <3>1 DEF IsTable
  <2> QED BY <2>1, <2>2
<1>5. Equation(f)
  <2>1. f = [k \in 0..n |-> f[k]]
    OBVIOUS
  <2> HIDE DEF step
  <2> QED BY <1>1, <1>4, <2>1, Zenon
<1>6. Equation(s)
  <2> HIDE DEF Equation
  <2> QED BY <1>5
<1>7. Entry(a, b, i, j) = s[Len(a[i])]
  BY Zenon DEF Entry
<1> HIDE DEF s, step
<1>8. \A k \in 0..n : s[k] = IF k = 0 THEN 0
                             ELSE IF a[i][k] = 0 THEN s[k - 1]
                             ELSE Add(s[k - 1], Mul(a[i][k], b[k][j]))
  BY <1>1, <1>6, Zenon
<1> HIDE DEF Equation
<1> DEFINE T == {k \in 0..n : s[k] \in D}
<1>9. 0 \in T
  BY <1>1, <1>8 DEF Closed
<1>10. ASSUME NEW k \in 0..(n - 1), k \in T PROVE k + 1 \in T
  <2>1. k + 1 \in 0..n /\ k + 1 \in 1..n /\ k + 1 # 0 /\ (k + 1) - 1 = k
    BY <1>1
  <2>2. s[k + 1] = IF a[i][k + 1] = 0 THEN s[k] ELSE Add(s[k], Mul(a[i][k + 1], b[k + 1][j]))
    BY <1>8, <2>1
  <2>3. s[k] \in D /\ a[i][k + 1] \in D /\ b[k + 1][j] \in D
    BY <1>1, <1>10, <2>1
  <2> QED BY <2>1, <2>2, <2>3 DEF Closed
<1>11. \A k \in 0..n : k \in T
  <2> HIDE DEF T
  <2> QED BY <1>1, <1>9, <1>10, UpToInduction
<1>12. \A k \in 0..n : s[k] \in D
  BY <1>11
<1> QED BY <1>1, <1>7, <1>8, <1>12

LEMMA EntryIsClosed ==
    ASSUME NEW D, Closed(D), NEW a, NEW b, NEW i, NEW j, NEW n, Meet(D, a, b, i, j, n)
    PROVE  Entry(a, b, i, j) \in D
<1>1. n \in 0..n
  BY DEF Meet
<1> QED BY <1>1, EntrySums

LEMMA ProductIsClosed ==
    ASSUME NEW D, Closed(D), NEW r \in Nat \ {0}, NEW n \in Nat \ {0}, NEW c \in Nat \ {0},
           NEW a \in Mat(D, r, n), NEW b \in Mat(D, n, c)
    PROVE  matmul(a, b) \in Mat(D, r, c)
<1>1. Rows(a) = 1..r /\ Cols(b) = 1..c
  BY MatrixSize
<1>2. ASSUME NEW i \in 1..r, NEW j \in 1..c PROVE Entry(a, b, i, j) \in D
  <2>1. Len(a[i]) = n
    <3>1. a[i] \in [1..n -> D]
      BY DEF Mat
    <3> QED BY <3>1, RowSize
  <2>2. \A k \in 1..n : a[i][k] \in D /\ b[k][j] \in D
    BY DEF Mat
  <2>3. Meet(D, a, b, i, j, n)
    BY <2>1, <2>2 DEF Meet
  <2> QED BY <2>3, EntryIsClosed
<1>3. matmul(a, b) = [i \in 1..r |-> [j \in 1..c |-> Entry(a, b, i, j)]]
  BY <1>1, Zenon DEF matmul
<1> QED BY <1>2, <1>3 DEF Mat

LEMMA TransposeIsClosed ==
    ASSUME NEW D, NEW r \in Nat \ {0}, NEW c \in Nat \ {0}, NEW a \in Mat(D, r, c)
    PROVE  transpose(a) \in Mat(D, c, r)
<1>1. Rows(a) = 1..r /\ Cols(a) = 1..c
  BY MatrixSize
<1>2. transpose(a) = [j \in 1..c |-> [i \in 1..r |-> a[i][j]]]
  BY <1>1, Zenon DEF transpose
<1> QED BY <1>2 DEF Mat

LEMMA SumIsClosed ==
    ASSUME NEW D, Closed(D), NEW r \in Nat \ {0}, NEW c \in Nat \ {0},
           NEW a \in Mat(D, r, c), NEW b \in Mat(D, r, c)
    PROVE  Plus(a, b) \in Mat(D, r, c) /\ Minus(a, b) \in Mat(D, r, c)
<1>1. Rows(a) = 1..r /\ Cols(a) = 1..c
  BY MatrixSize
<1>2. /\ Plus(a, b) = [i \in 1..r |-> [j \in 1..c |-> Add(a[i][j], b[i][j])]]
      /\ Minus(a, b) = [i \in 1..r |-> [j \in 1..c |-> Add(a[i][j], Neg(b[i][j]))]]
  BY <1>1, Zenon DEF Plus, Minus
<1>3. \A i \in 1..r, j \in 1..c : a[i][j] \in D /\ b[i][j] \in D
  BY DEF Mat
<1>4. \A i \in 1..r, j \in 1..c :
         Add(a[i][j], b[i][j]) \in D /\ Add(a[i][j], Neg(b[i][j])) \in D
  BY <1>3 DEF Closed
<1> QED BY <1>2, <1>4 DEF Mat

LEMMA IdentityIsClosed ==
    ASSUME NEW D, Closed(D), NEW k \in Nat \ {0}
    PROVE  Identity(k) \in Mat(D, k, k)
BY DEF Identity, Matrix, Mat, Closed

LEMMA TripleIsClosed ==
    ASSUME NEW D, Closed(D), NEW r \in Nat \ {0}, NEW n \in Nat \ {0},
           NEW m \in Nat \ {0}, NEW c \in Nat \ {0},
           NEW a \in Mat(D, r, n), NEW b \in Mat(D, n, m), NEW d \in Mat(D, m, c)
    PROVE  Product(a, b, d) \in Mat(D, r, c)
<1>1. matmul(a, b) \in Mat(D, r, m)
  BY ProductIsClosed
<1> DEFINE ab == matmul(a, b)
<1> HIDE DEF ab
<1>2. ab \in Mat(D, r, m)
  BY <1>1 DEF ab
<1>3. matmul(ab, d) \in Mat(D, r, c)
  BY <1>2, ProductIsClosed
<1> QED BY <1>3 DEF Product, ab

LEMMA SquareIsClosed ==
    ASSUME NEW D, Closed(D), NEW r \in Nat \ {0}, NEW n \in Nat \ {0},
           NEW a \in Mat(D, r, n), NEW b \in Mat(D, n, n)
    PROVE  Product(a, b, transpose(a)) \in Mat(D, r, r)
<1> DEFINE t == transpose(a)
<1>1. t \in Mat(D, n, r)
  BY TransposeIsClosed
<1> HIDE DEF t
<1>2. Product(a, b, t) \in Mat(D, r, r)
  BY <1>1, TripleIsClosed
<1> QED BY <1>2 DEF t

\* The Joseph form, before its halves are taken together.
Joseph(p, gain, h, noise) ==
    LET IKH == Minus(Identity(Len(p)), matmul(gain, h))
    IN  Plus(Product(IKH, p, transpose(IKH)), Product(gain, noise, transpose(gain)))

LEMMA JosephIsClosed ==
    ASSUME NEW D, Closed(D), NEW n \in Nat \ {0}, NEW m \in Nat \ {0},
           NEW p \in Mat(D, n, n), NEW gain \in Mat(D, n, m),
           NEW h \in Mat(D, m, n), NEW noise \in Mat(D, m, m)
    PROVE  Joseph(p, gain, h, noise) \in Mat(D, n, n)
<1> DEFINE IKH == Minus(Identity(Len(p)), matmul(gain, h))
           joseph == Plus(Product(IKH, p, transpose(IKH)), Product(gain, noise, transpose(gain)))
<1>1. IKH \in Mat(D, n, n)
  <2>1. Len(p) = n
    BY MatrixSize
  <2>2. matmul(gain, h) \in Mat(D, n, n) /\ Identity(n) \in Mat(D, n, n)
    BY ProductIsClosed, IdentityIsClosed
  <2> DEFINE one == Identity(n)
             kh == matmul(gain, h)
  <2>3. IKH = Minus(one, kh)
    BY <2>1
  <2>4. one \in Mat(D, n, n) /\ kh \in Mat(D, n, n)
    BY <2>2
  <2> HIDE DEF one, kh, IKH
  <2> QED BY <2>3, <2>4, SumIsClosed
<1>2. joseph \in Mat(D, n, n)
  <2> DEFINE left == Product(IKH, p, transpose(IKH))
             right == Product(gain, noise, transpose(gain))
  <2> HIDE DEF IKH
  <2>1. left \in Mat(D, n, n)
    BY <1>1, SquareIsClosed
  <2>2. right \in Mat(D, n, n)
    BY SquareIsClosed
  <2> HIDE DEF left, right
  <2>3. Plus(left, right) \in Mat(D, n, n)
    BY <2>1, <2>2, SumIsClosed
  <2> QED BY <2>3 DEF left, right
<1> QED BY <1>2, Zenon DEF Joseph

LEMMA UpdateIsClosed ==
    ASSUME NEW D, Closed(D), NEW n \in Nat \ {0}, NEW m \in Nat \ {0},
           NEW p \in Mat(D, n, n), NEW gain \in Mat(D, n, m),
           NEW h \in Mat(D, m, n), NEW noise \in Mat(D, m, m)
    PROVE  covariance_update(p, gain, h, noise) \in Mat(D, n, n)
<1> DEFINE joseph == Joseph(p, gain, h, noise)
<1>1. covariance_update(p, gain, h, noise) =
        [i \in Rows(joseph) |-> [j \in Cols(joseph) |->
            IF i = j THEN joseph[i][j] ELSE Mean(joseph[i][j], joseph[j][i])]]
  BY Zenon DEF covariance_update, Joseph
<1>2. joseph \in Mat(D, n, n)
  BY JosephIsClosed
<1> HIDE DEF joseph
<1>3. Rows(joseph) = 1..n /\ Cols(joseph) = 1..n
  BY <1>2, MatrixSize
<1>4. \A i, j \in 1..n : joseph[i][j] \in D
  BY <1>2 DEF Mat
<1>5. \A i, j \in 1..n : (IF i = j THEN joseph[i][j] ELSE Mean(joseph[i][j], joseph[j][i])) \in D
  BY <1>4 DEF Closed
<1> QED BY <1>1, <1>3, <1>5 DEF Mat

-----------------------------------------------------------------------------
(* invert *)

LEMMA MagnitudeOfNumber ==
    \A a \in Numbers : fabs(a) \in 0..Prime
BY PrimeIsPositive DEF Numbers, fabs

\* Of the candidates there is a greatest, and of the greatest a first.
LEMMA PivotIsRow ==
    ASSUME NEW n \in Nat \ {0}, NEW a \in Mat(Doubles, n, n), NEW col \in 1..n
    PROVE  Pivot(a, col) \in 1..n
<1> DEFINE candidates == {r \in Rows(a) : r >= col /\ a[r][col] # NaN}
           greatest == {r \in candidates :
                           \A s \in candidates : fabs(a[s][col]) <= fabs(a[r][col])}
           pivot == CHOOSE r \in greatest : \A s \in greatest : r <= s
<1>1. Rows(a) = 1..n
  BY MatrixSize
<1>2. CASE a[col][col] = NaN
  BY <1>2 DEF Pivot
<1>3. CASE a[col][col] # NaN
  <2>1. Pivot(a, col) = pivot
    BY <1>3, Zenon DEF Pivot
  <2>2. col \in candidates /\ candidates \subseteq 1..n
    BY <1>1, <1>3
  <2>3. \A r \in candidates : a[r][col] \in Numbers
    BY <2>2 DEF Mat, Doubles
  <2>4. \A r \in candidates : fabs(a[r][col]) \in 0..Prime
    BY <2>3, MagnitudeOfNumber
  <2> DEFINE T == {d \in 0..Prime : \E r \in candidates : Prime - fabs(a[r][col]) = d}
  <2>5. Prime \in Nat
    BY PrimeIsPositive
  <2>6. \A r \in candidates : Prime - fabs(a[r][col]) \in T
    BY <2>4, <2>5
  <2>7. PICK d \in T : \A e \in T : d <= e
    <3>1. T \subseteq 0..Prime /\ 0..Prime \subseteq Nat
      BY <2>5
    <3>2. T # {}
      BY <2>2, <2>6
    <3> HIDE DEF T
    <3> QED BY <3>1, <3>2, LeastNatural
  <2>8. PICK r \in candidates : Prime - fabs(a[r][col]) = d
    BY <2>7
  <2>9. \A s \in candidates : fabs(a[s][col]) <= fabs(a[r][col])
    <3> TAKE s \in candidates
    <3>1. Prime - fabs(a[s][col]) \in T
      BY <2>6
    <3>2. d <= Prime - fabs(a[s][col])
      BY <2>7, <3>1
    <3>3. fabs(a[s][col]) \in 0..Prime /\ fabs(a[r][col]) \in 0..Prime
      BY <2>4
    <3> QED BY <2>5, <2>8, <3>2, <3>3
  <2> HIDE DEF candidates, T
  <2>10. r \in greatest /\ greatest \subseteq 1..n
    BY <2>2, <2>8, <2>9
  <2> HIDE DEF greatest
  <2>11. \E s \in greatest : \A t \in greatest : s <= t
    <3>1. greatest \subseteq Nat /\ greatest # {}
      BY <2>10
    <3> QED BY <3>1, LeastNatural
  <2>12. pivot \in greatest
    BY <2>11
  <2> QED BY <2>1, <2>10, <2>12
<1> QED BY <1>2, <1>3

LEMMA RowOperations ==
    ASSUME NEW D, Closed(D), NEW n \in Nat \ {0}, NEW a \in Mat(D, n, n),
           NEW r \in 1..n, NEW s \in 1..n, NEW by \in D, NEW factor \in [1..n -> D]
    PROVE  /\ Swap(a, r, s) \in Mat(D, n, n)
           /\ Scale(a, r, by) \in Mat(D, n, n)
           /\ Clear(a, r, factor) \in Mat(D, n, n)
<1>1. \A i \in 1..n : a[i] \in [1..n -> D]
  BY DEF Mat
<1>2. DOMAIN a = 1..n
  BY DEF Mat
<1>3. Swap(a, r, s) \in Mat(D, n, n)
  BY <1>1, <1>2 DEF Swap, Mat
<1>4. Scale(a, r, by) \in Mat(D, n, n)
  <2> DEFINE row == [j \in DOMAIN a[r] |-> Mul(a[r][j], by)]
  <2>1. row \in [1..n -> D]
    BY <1>1 DEF Closed
  <2>2. Scale(a, r, by) = [a EXCEPT ![r] = row]
    BY DEF Scale
  <2> HIDE DEF row
  <2> QED BY <1>1, <1>2, <2>1, <2>2 DEF Mat
<1>5. Clear(a, r, factor) \in Mat(D, n, n)
  <2>1. Rows(a) = 1..n /\ Cols(a) = 1..n
    BY MatrixSize
  <2> DEFINE row(i) == IF i = r \/ factor[i] = 0 THEN a[i]
                       ELSE [j \in 1..n |-> Add(a[i][j], Neg(Mul(factor[i], a[r][j])))]
  <2>2. Clear(a, r, factor) = [i \in 1..n |-> row(i)]
    BY <2>1, Zenon DEF Clear
  <2>3. ASSUME NEW i \in 1..n PROVE row(i) \in [1..n -> D]
    <3>1. \A j \in 1..n : Add(a[i][j], Neg(Mul(factor[i], a[r][j]))) \in D
      <4>1. \A j \in 1..n : a[i][j] \in D /\ a[r][j] \in D /\ factor[i] \in D
        BY <1>1
      <4> QED BY <4>1 DEF Closed
    <3> QED BY <1>1, <3>1
  <2> HIDE DEF row
  <2> QED BY <2>2, <2>3 DEF Mat
<1> QED BY <1>3, <1>4, <1>5

Working(D, n) == [a : Mat(D, n, n), out : Mat(D, n, n), regular : BOOLEAN]

LEMMA EliminateIsClosed ==
    ASSUME NEW D, Closed(D), D \subseteq Doubles, NEW n \in Nat \ {0},
           NEW w \in Working(D, n), NEW col \in 1..n
    PROVE  Eliminate(w, col) \in Working(D, n)
<1> DEFINE pivot == Pivot(w.a, col)
           a == Swap(w.a, col, pivot)
           out == Swap(w.out, col, pivot)
           by == Inv(a[col][col])
           factor == [r \in Rows(a) |-> a[r][col]]
<1>1. w.a \in Mat(D, n, n) /\ w.out \in Mat(D, n, n) /\ w.regular \in BOOLEAN
  BY DEF Working
<1>2. pivot \in 1..n
  <2>1. w.a \in Mat(Doubles, n, n)
    BY <1>1 DEF Mat
  <2> QED BY <2>1, PivotIsRow
<1>3. CASE w.a[pivot][col] = 0
  <2>1. Eliminate(w, col) = [w EXCEPT !.regular = FALSE]
    BY <1>3 DEF Eliminate
  <2> QED BY <2>1 DEF Working
<1>4. CASE w.a[pivot][col] # 0
  <2>1. Eliminate(w, col) = [a |-> Clear(Scale(a, col, by), col, factor),
                             out |-> Clear(Scale(out, col, by), col, factor),
                             regular |-> w.regular]
    BY <1>4, Zenon DEF Eliminate
  <2>2. a \in Mat(D, n, n) /\ out \in Mat(D, n, n)
    <3> HIDE DEF pivot
    <3>1. 0 \in D /\ [i \in 1..n |-> 0] \in [1..n -> D]
      BY DEF Closed
    <3> QED BY <1>1, <1>2, <3>1, RowOperations
  <2>3. a[col][col] = w.a[pivot][col]
    <3> HIDE DEF pivot
    <3>1. DOMAIN w.a = 1..n
      BY <1>1 DEF Mat
    <3> QED BY <1>2, <3>1 DEF Swap
  <2> HIDE DEF a, out, pivot
  <2>4. by \in D
    <3>1. a[col][col] \in D /\ a[col][col] # 0
      BY <1>4, <2>2, <2>3 DEF Mat
    <3> QED BY <3>1 DEF Closed
  <2>5. factor \in [1..n -> D]
    <3>1. Rows(a) = 1..n
      BY <2>2, MatrixSize
    <3> QED BY <2>2, <3>1 DEF Mat
  <2> HIDE DEF by, factor
  <2> DEFINE sa == Scale(a, col, by)
             so == Scale(out, col, by)
  <2>6. sa \in Mat(D, n, n) /\ so \in Mat(D, n, n)
    BY <2>2, <2>4, <2>5, RowOperations
  <2> HIDE DEF sa, so
  <2>7. Clear(sa, col, factor) \in Mat(D, n, n) /\ Clear(so, col, factor) \in Mat(D, n, n)
    BY <2>4, <2>5, <2>6, RowOperations
  <2>8. Eliminate(w, col) = [a |-> Clear(sa, col, factor), out |-> Clear(so, col, factor),
                             regular |-> w.regular]
    BY <2>1 DEF sa, so
  <2> QED BY <1>1, <2>7, <2>8 DEF Working
<1> QED BY <1>3, <1>4

\* The steps of an inversion.
LEMMA InvertSteps ==
    ASSUME NEW D, Closed(D), D \subseteq Doubles, NEW n \in Nat \ {0}, NEW a \in Mat(D, n, n)
    PROVE  \E w : /\ invert(a) = w[n]
                  /\ w[0] = [a |-> a, out |-> Identity(n), regular |-> TRUE]
                  /\ \A k \in 1..n : w[k] = IF w[k - 1].regular THEN Eliminate(w[k - 1], k)
                                            ELSE w[k - 1]
                  /\ \A k \in 0..n : w[k] \in Working(D, n)
<1> DEFINE first == [a |-> a, out |-> Identity(Len(a)), regular |-> TRUE]
           Equation(f) == f = [col \in 0..Len(a) |->
                                 IF col = 0 THEN [a |-> a, out |-> Identity(Len(a)), regular |-> TRUE]
                                 ELSE IF f[col - 1].regular THEN Eliminate(f[col - 1], col)
                                 ELSE f[col - 1]]
           step == [p \in (1..n) \X Working(D, n) |->
                       IF p[2].regular THEN Eliminate(p[2], p[1]) ELSE p[2]]
           w == CHOOSE f : Equation(f)
<1>1. Len(a) = n
  BY MatrixSize
<1>2. first \in Working(D, n)
  <2>1. Identity(n) \in Mat(D, n, n)
    BY IdentityIsClosed
  <2> QED BY <1>1, <2>1 DEF Working
<1>3. \A k \in 1..n : \A v0 \in Working(D, n) :
         /\ step[<<k, v0>>] = IF v0.regular THEN Eliminate(v0, k) ELSE v0
         /\ step[<<k, v0>>] \in Working(D, n)
  BY EliminateIsClosed
<1>4. PICK f \in [0..n -> Working(D, n)] : IsTable(f, n, first, step)
  <2> HIDE DEF step, first, Equation
  <2>1. \A k \in 1..n : \A v0 \in Working(D, n) : step[<<k, v0>>] \in Working(D, n)
    BY <1>3
  <2>2. n \in Nat
    OBVIOUS
  <2> QED BY <1>2, <2>1, <2>2, TableExists, Zenon
<1> HIDE DEF step
<1>5. \A k \in 0..n : f[k] = IF k = 0 THEN first
                             ELSE IF f[k - 1].regular THEN Eliminate(f[k - 1], k)
                             ELSE f[k - 1]
  <2> HIDE DEF first
  <2> TAKE k \in 0..n
  <2>1. CASE k = 0
    BY <1>4, <2>1 DEF IsTable
  <2>2. CASE k # 0
    <3>1. k \in 1..n /\ k - 1 \in 0..n
      BY <2>2
    <3>2. f[k - 1] \in Working(D, n) /\ f[k] = step[<<k, f[k - 1]>>]
      BY <1>4, <3>1 DEF IsTable
    <3>3. f[k] = IF f[k - 1].regular THEN Eliminate(f[k - 1], k) ELSE f[k - 1]
      BY <1>3, <3>1, <3>2
    <3> QED BY <2>2, <3>3
  <2> QED BY <2>1, <2>2
<1>6. Equation(f)
  <2>1. f = [k \in 0..n |-> f[k]]
    OBVIOUS
  <2> QED BY <1>1, <1>5, <2>1, Zenon
<1>7. Equation(w)
  <2> HIDE DEF Equation
  <2> QED BY <1>6
<1>8. invert(a) = w[Len(a)]
  BY Zenon DEF invert
<1> HIDE DEF w
<1>9. \A k \in 0..n : w[k] = IF k = 0 THEN first
                             ELSE IF w[k - 1].regular THEN Eliminate(w[k - 1], k)
                             ELSE w[k - 1]
  BY <1>1, <1>7, Zenon
<1> HIDE DEF Equation, first
<1> DEFINE T == {k \in 0..n : w[k] \in Working(D, n)}
<1>10. 0 \in T
  BY <1>2, <1>9
<1>11. ASSUME NEW k \in 0..(n - 1), k \in T PROVE k + 1 \in T
  <2>1. k + 1 \in 0..n /\ k + 1 \in 1..n /\ k + 1 # 0 /\ (k + 1) - 1 = k
    OBVIOUS
  <2>2. w[k + 1] = IF w[k].regular THEN Eliminate(w[k], k + 1) ELSE w[k]
    BY <1>9, <2>1
  <2>3. w[k] \in Working(D, n)
    BY <1>11
  <2>4. Eliminate(w[k], k + 1) \in Working(D, n)
    BY <2>1, <2>3, EliminateIsClosed
  <2> QED BY <2>1, <2>2, <2>3, <2>4
<1>12. \A k \in 0..n : k \in T
  <2> HIDE DEF T
  <2>1. n \in Nat
    OBVIOUS
  <2> QED BY <1>10, <1>11, <2>1, UpToInduction
<1>13. \A k \in 0..n : w[k] \in Working(D, n)
  BY <1>12
<1>14. w[0] = [a |-> a, out |-> Identity(n), regular |-> TRUE]
  <2>1. 0 \in 0..n
    OBVIOUS
  <2>2. w[0] = first
    BY <1>9, <2>1
  <2> QED BY <1>1, <2>2 DEF first
<1>15. \A k \in 1..n : w[k] = IF w[k - 1].regular THEN Eliminate(w[k - 1], k) ELSE w[k - 1]
  <2> TAKE k \in 1..n
  <2>1. k \in 0..n /\ k # 0
    OBVIOUS
  <2> QED BY <1>9, <2>1
<1>16. invert(a) = w[n]
  BY <1>1, <1>8
<1> HIDE DEF T
<1> QED BY <1>13, <1>14, <1>15, <1>16

LEMMA InvertIsClosed ==
    ASSUME NEW D, Closed(D), D \subseteq Doubles, NEW n \in Nat \ {0}, NEW a \in Mat(D, n, n)
    PROVE  invert(a) \in Working(D, n)
<1>1. n \in 0..n
  OBVIOUS
<1>2. PICK w : invert(a) = w[n] /\ \A k \in 0..n : w[k] \in Working(D, n)
  BY InvertSteps, Zenon
<1> QED BY <1>1, <1>2

-----------------------------------------------------------------------------
(* The invariant *)

\* What a step has stored.
Stored(D, n, m) ==
    [x : Mat(D, n, 1), P : Mat(D, n, n), v : Mat(D, m, 1), S : Mat(D, m, m), K : Mat(D, n, m)]

\* A problem that no rule refuses.
Given(q) ==
    /\ q.n \in Nat \ {0} /\ q.m \in Nat \ {0} /\ q.steps \in Nat \ {0}
    /\ q.F \in Mat(Numbers, q.n, q.n) /\ q.H \in Mat(Numbers, q.m, q.n)
    /\ q.Q \in Mat(Numbers, q.n, q.n) /\ q.R \in Mat(Numbers, q.m, q.m)
    /\ q.P0 \in Mat(Numbers, q.n, q.n) /\ q.x0 \in Mat(Numbers, q.n, 1)
    /\ \A k \in 1..q.steps : q.z[k] \in Mat(Numbers, q.m, 1)

\* Every array is of its shape and over D, as far as the step has come.
Over(D) ==
    LET n == problem.n
        m == problem.m
    IN  /\ x \in Mat(D, n, 1) /\ P \in Mat(D, n, n)
        /\ result \in Seq(Stored(D, n, m))
        /\ pc \in {"innovate", "gain"} => x_pred \in Mat(D, n, 1) /\ P_pred \in Mat(D, n, n)
        /\ pc = "gain" => v \in Mat(D, m, 1) /\ S \in Mat(D, m, m) /\ S_inv \in Mat(D, m, m)

\* What doubles can be: no NaN is born but of an overflow.
Born(k) == IF k = 0 THEN Numbers ELSE Doubles

KalmanInv ==
    /\ problem \in Problems /\ overflows \in Nat
    /\ pc = "validate" => result = <<>> /\ fault = "none"
    /\ pc \in {"predict", "innovate", "gain"} =>
           Given(problem) /\ Over(Born(overflows)) /\ fault = "none"
    /\ pc = "predict" => Len(result) <= problem.steps
    /\ pc \in {"innovate", "gain"} => Len(result) < problem.steps
    /\ pc = "done" /\ fault = "none" => \A k \in 1..problem.steps : AllFinite(result[k])
    /\ fault = "overflow" => overflows > 0

LEMMA BornIsClosed ==
    ASSUME NEW k
    PROVE  Closed(Born(k)) /\ Numbers \subseteq Born(k) /\ Born(k) \subseteq Doubles
BY NumbersClosed, DoublesClosed DEF Born, Doubles

LEMMA WiderMatrix ==
    ASSUME NEW D, NEW E, D \subseteq E, NEW r, NEW c
    PROVE  Mat(D, r, c) \subseteq Mat(E, r, c)
BY DEF Mat

LEMMA WiderStored ==
    ASSUME NEW D, NEW E, D \subseteq E, NEW n, NEW m
    PROVE  Seq(Stored(D, n, m)) \subseteq Seq(Stored(E, n, m))
<1>1. Stored(D, n, m) \subseteq Stored(E, n, m)
  BY WiderMatrix DEF Stored
<1> DEFINE T == Stored(D, n, m)
           U == Stored(E, n, m)
<1>2. T \subseteq U
  BY <1>1
<1> HIDE DEF T, U
<1>3. Seq(T) \subseteq Seq(U)
  BY <1>2
<1> QED BY <1>3 DEF T, U

LEMMA WiderOver ==
    ASSUME NEW D, NEW E, D \subseteq E, Over(D)
    PROVE  Over(E)
BY WiderMatrix, WiderStored DEF Over

LEMMA MatrixOfNumbers ==
    ASSUME NEW a \in Seq(Seq(Doubles)), NEW r \in Nat \ {0}, NEW c \in Nat \ {0},
           IsMatrix(a, r, c), Finite(a)
    PROVE  a \in Mat(Numbers, r, c)
<1>1. DOMAIN a = 1..r /\ \A i \in 1..r : DOMAIN a[i] = 1..c
  BY DEF IsMatrix
<1>2. Rows(a) = 1..r /\ Cols(a) = 1..c
  BY <1>1 DEF Rows, Cols
<1>3. \A i \in 1..r : a[i] \in Seq(Doubles)
  BY <1>1
<1>4. ASSUME NEW i \in 1..r PROVE a[i] \in [1..c -> Numbers]
  <2> DEFINE row == a[i]
  <2>1. row \in Seq(Doubles) /\ DOMAIN row = 1..c /\ \A j \in 1..c : row[j] # NaN
    BY <1>1, <1>2, <1>3 DEF Finite
  <2> HIDE DEF row
  <2>2. \A j \in 1..c : row[j] \in Numbers
    BY <2>1 DEF Doubles
  <2>3. row = [j \in 1..c |-> row[j]]
    BY <2>1
  <2>4. row \in [1..c -> Numbers]
    BY <2>2, <2>3
  <2> QED BY <2>4 DEF row
<1>5. a = [i \in 1..r |-> a[i]]
  BY <1>1
<1> QED BY <1>4, <1>5 DEF Mat

LEMMA NumbersAreFinite ==
    ASSUME NEW r \in Nat \ {0}, NEW c \in Nat \ {0}, NEW a \in Mat(Numbers, r, c)
    PROVE  Finite(a)
<1>1. Rows(a) = 1..r /\ Cols(a) = 1..c
  BY MatrixSize
<1>2. \A i \in 1..r, j \in 1..c : a[i][j] # NaN
  BY NumbersAreInt DEF Mat
<1> QED BY <1>1, <1>2 DEF Finite

RuleNames == {"shape", "not finite", "provenance", "P0", "Q", "R"}

\* A refusal names a rule, and without one every rule is kept.
LEMMA RefusalCases ==
    ASSUME NEW q
    PROVE  \/ Refusal(q) \in RuleNames
           \/ Refusal(q) = "none" /\ \A r \in RuleNames : ~Breaks(q, r)
<1> DEFINE broken == {k \in DOMAIN Rules : Breaks(q, Rules[k])}
<1>1. DOMAIN Rules = 1..6
  BY DEF Rules
<1>a. /\ Rules[1] = "shape" /\ Rules[2] = "not finite" /\ Rules[3] = "provenance"
      /\ Rules[4] = "P0" /\ Rules[5] = "Q" /\ Rules[6] = "R"
  BY DEF Rules
<1>2. \A k \in 1..6 : Rules[k] \in RuleNames
  <2> TAKE k \in 1..6
  <2>1. k = 1 \/ k = 2 \/ k = 3 \/ k = 4 \/ k = 5 \/ k = 6
    OBVIOUS
  <2> QED BY <1>a, <2>1, Zenon DEF RuleNames
<1>3. \A r \in RuleNames : \E k \in 1..6 : Rules[k] = r
  <2>1. 1 \in 1..6 /\ 2 \in 1..6 /\ 3 \in 1..6 /\ 4 \in 1..6 /\ 5 \in 1..6 /\ 6 \in 1..6
    OBVIOUS
  <2> QED BY <1>a, <2>1, Zenon DEF RuleNames
<1>4. CASE broken = {}
  <2>1. Refusal(q) = "none"
    BY <1>4, Zenon DEF Refusal
  <2>2. \A k \in 1..6 : ~Breaks(q, Rules[k])
    BY <1>1, <1>4
  <2> QED BY <1>3, <2>1, <2>2
<1>5. CASE broken # {}
  <2> DEFINE first == CHOOSE k \in broken : \A l \in broken : k <= l
  <2>1. Refusal(q) = Rules[first]
    BY <1>5, Zenon DEF Refusal
  <2>2. \E k \in broken : \A l \in broken : k <= l
    <3>1. broken \subseteq 1..6
      BY <1>1
    <3> HIDE DEF broken
    <3>2. broken \subseteq Nat
      BY <3>1
    <3> QED BY <1>5, <3>2, LeastNatural
  <2>3. first \in broken
    <3> HIDE DEF broken
    <3> QED BY <2>2
  <2>4. first \in 1..6
    BY <1>1, <2>3
  <2> HIDE DEF first
  <2> QED BY <1>2, <2>1, <2>4
<1> QED BY <1>4, <1>5
\* A problem that is not refused is of numbers, and its arrays fit together.
LEMMA UnrefusedIsGiven ==
    ASSUME NEW q, IsProblem(q), Refusal(q) = "none"
    PROVE  Given(q)
<1>1. \A r \in RuleNames : ~Breaks(q, r)
  <2>1. "none" \notin RuleNames
    BY DEF RuleNames
  <2> QED BY <2>1, RefusalCases
<1>2. ShapesFit(q)
  <2>1. ~Breaks(q, "shape")
    BY <1>1 DEF RuleNames
  <2> QED BY <2>1 DEF Breaks
<1>3. /\ Finite(q.F) /\ Finite(q.H) /\ Finite(q.x0)
      /\ \A k \in DOMAIN q.z : Finite(q.z[k])
  <2>1. ~Breaks(q, "not finite")
    BY <1>1 DEF RuleNames
  <2> QED BY <2>1 DEF Breaks
<1>4. ValidCovariance(q.P0, q.n)
  <2>1. ~Breaks(q, "P0")
    BY <1>1 DEF RuleNames
  <2> QED BY <2>1 DEF Breaks
<1>5. ValidCovariance(q.Q, q.n)
  <2>1. ~Breaks(q, "Q")
    BY <1>1 DEF RuleNames
  <2> QED BY <2>1 DEF Breaks
<1>6. ValidCovariance(q.R, q.m)
  <2>1. ~Breaks(q, "R")
    BY <1>1 DEF RuleNames
  <2> QED BY <2>1 DEF Breaks
<1>7. q.n \in Nat \ {0} /\ q.m \in Nat \ {0} /\ q.steps \in Nat \ {0} /\ 1 \in Nat \ {0}
  BY <1>2 DEF ShapesFit, IsProblem
<1>8. /\ q.F \in Seq(Seq(Doubles)) /\ q.H \in Seq(Seq(Doubles)) /\ q.x0 \in Seq(Seq(Doubles))
      /\ q.Q \in Seq(Seq(Doubles)) /\ q.R \in Seq(Seq(Doubles)) /\ q.P0 \in Seq(Seq(Doubles))
  BY Zenon DEF IsProblem
<1>9. q.F \in Mat(Numbers, q.n, q.n) /\ q.H \in Mat(Numbers, q.m, q.n)
  <2>1. IsMatrix(q.F, q.n, q.n) /\ IsMatrix(q.H, q.m, q.n)
    BY <1>2 DEF ShapesFit
  <2> QED BY <1>3, <1>7, <1>8, <2>1, MatrixOfNumbers
<1>10. q.x0 \in Mat(Numbers, q.n, 1)
  <2>1. IsMatrix(q.x0, q.n, 1)
    BY <1>2 DEF ShapesFit
  <2> QED BY <1>3, <1>7, <1>8, <2>1, MatrixOfNumbers
<1>11. q.P0 \in Mat(Numbers, q.n, q.n) /\ q.Q \in Mat(Numbers, q.n, q.n)
  BY <1>4, <1>5, <1>7, <1>8, MatrixOfNumbers DEF ValidCovariance
<1>12. q.R \in Mat(Numbers, q.m, q.m)
  BY <1>6, <1>7, <1>8, MatrixOfNumbers DEF ValidCovariance
<1>13. ASSUME NEW k \in 1..q.steps PROVE q.z[k] \in Mat(Numbers, q.m, 1)
  <2> DEFINE z == q.z
             zk == z[k]
  <2>1. z \in Seq(Seq(Seq(Doubles))) /\ Len(z) = q.steps /\ q.steps \in Nat
    BY <1>2, <1>7 DEF ShapesFit, IsProblem
  <2>2. IsMatrix(zk, q.m, 1)
    BY <1>2 DEF ShapesFit
  <2> HIDE DEF z
  <2>3. k \in DOMAIN z /\ zk \in Seq(Seq(Doubles))
    <3> DEFINE T == Seq(Seq(Doubles))
    <3>1. z \in Seq(T)
      BY <2>1
    <3> HIDE DEF T
    <3>2. k \in DOMAIN z /\ z[k] \in T
      BY <2>1, <3>1
    <3> QED BY <3>2 DEF T
  <2>4. Finite(zk)
    BY <1>3, <2>3 DEF z
  <2> HIDE DEF zk
  <2>5. zk \in Mat(Numbers, q.m, 1)
    BY <1>7, <2>2, <2>3, <2>4, MatrixOfNumbers
  <2> QED BY <2>5 DEF zk, z
<1> QED BY <1>7, <1>9, <1>10, <1>11, <1>12, <1>13 DEF Given

-----------------------------------------------------------------------------
(* The invariant is inductive *)

LEMMA KalmanInitially == Init => KalmanInv
BY DEF Init, KalmanInv

LEMMA ValidateKeeps == KalmanInv /\ Validate => KalmanInv'
<1> SUFFICES ASSUME KalmanInv, Validate PROVE KalmanInv'
  OBVIOUS
<1>1. problem \in Problems /\ IsProblem(problem) /\ overflows \in Nat
  BY ProblemsAssumption DEF KalmanInv
<1>2. /\ pc = "validate" /\ result = <<>> /\ fault = "none"
      /\ problem' = problem /\ result' = result /\ overflows' = overflows
  BY DEF KalmanInv, Validate
<1>3. CASE Refusal(problem) = "none"
  <2>1. pc' = "predict" /\ x' = problem.x0 /\ P' = problem.P0 /\ fault' = "none"
    BY <1>2, <1>3 DEF Validate
  <2>2. Given(problem)
    BY <1>1, <1>3, UnrefusedIsGiven
  <2>3. Numbers \subseteq Born(overflows)
    BY BornIsClosed
  <2>4. /\ problem.x0 \in Mat(Born(overflows), problem.n, 1)
        /\ problem.P0 \in Mat(Born(overflows), problem.n, problem.n)
    BY <2>2, <2>3, WiderMatrix, Zenon DEF Given
  <2>5. result' \in Seq(Stored(Born(overflows), problem.n, problem.m)) /\ Len(result') = 0
    <3> DEFINE T == Stored(Born(overflows), problem.n, problem.m)
    <3> HIDE DEF T
    <3>1. result' \in Seq(T) /\ Len(result') = 0
      BY <1>2
    <3> QED BY <3>1 DEF T
  <2>6. Over(Born(overflows))'
    BY <1>2, <2>1, <2>4, <2>5 DEF Over, Born
  <2>7. Given(problem)'
    BY <1>2, <2>2 DEF Given
  <2>8. Len(result') <= problem'.steps
    BY <1>2, <2>2, <2>5 DEF Given
  <2> QED BY <1>1, <1>2, <2>1, <2>6, <2>7, <2>8 DEF KalmanInv
<1>4. CASE Refusal(problem) # "none"
  <2>1. pc' = "done" /\ fault' = Refusal(problem)
    BY <1>4 DEF Validate, Refuse
  <2>2. Refusal(problem) # "overflow"
    BY <1>4, RefusalCases DEF RuleNames
  <2> QED BY <1>1, <1>2, <1>4, <2>1, <2>2 DEF KalmanInv
<1> QED BY <1>3, <1>4
\* An overflow leaves a matrix of its shape, over what doubles can then be.
LEMMA OverflowKeepsShape ==
    ASSUME NEW k \in Nat, NEW l, NEW r \in Nat \ {0}, NEW c \in Nat \ {0},
           NEW a \in Mat(Born(k), r, c), NEW b,
           \/ b = a /\ l = k
           \/ l = k + 1 /\ \E i \in Rows(a), j \in Cols(a) : b = [a EXCEPT ![i][j] = NaN]
    PROVE  /\ b \in Mat(Born(l), r, c)
           /\ l \in Nat /\ Born(k) \subseteq Born(l)
<1>1. CASE b = a /\ l = k
  BY <1>1
<1>2. CASE l = k + 1 /\ \E i \in Rows(a), j \in Cols(a) : b = [a EXCEPT ![i][j] = NaN]
  <2>1. Born(l) = Doubles /\ Born(k) \subseteq Doubles /\ l \in Nat
    BY <1>2, BornIsClosed DEF Born
  <2>2. Rows(a) = 1..r /\ Cols(a) = 1..c
    BY MatrixSize
  <2>3. PICK i \in 1..r, j \in 1..c : b = [a EXCEPT ![i][j] = NaN]
    BY <1>2, <2>2
  <2>4. a \in Mat(Doubles, r, c) /\ NaN \in Doubles
    BY <2>1, WiderMatrix DEF Doubles
  <2>5. b \in Mat(Doubles, r, c)
    BY <2>3, <2>4 DEF Mat
  <2> QED BY <2>1, <2>5
<1> QED BY <1>1, <1>2

LEMMA PredictKeeps == KalmanInv /\ Predict => KalmanInv'
<1> SUFFICES ASSUME KalmanInv, Predict PROVE KalmanInv'
  OBVIOUS
<1> DEFINE q == problem
           n == problem.n
           m == problem.m
           D == Born(overflows)
           E == Born(overflows')
           prior == Plus(Product(problem.F, P, transpose(problem.F)), problem.Q)
           mean == matmul(problem.F, x)
<1>1. /\ pc = "predict" /\ Len(result) < problem.steps /\ pc' = "innovate"
      /\ problem' = problem /\ x' = x /\ P' = P /\ result' = result /\ fault' = fault
  BY DEF Predict
<1>2. Given(problem) /\ Over(D) /\ fault = "none" /\ problem \in Problems /\ overflows \in Nat
  BY <1>1 DEF KalmanInv
<1>3. \/ x_pred' = mean /\ Overflowing(prior, P_pred)
      \/ P_pred' = prior /\ Overflowing(mean, x_pred)
  BY DEF Predict
<1>4. n \in Nat \ {0} /\ m \in Nat \ {0} /\ 1 \in Nat \ {0}
  BY <1>2 DEF Given
<1>5. Closed(D) /\ Numbers \subseteq D
  BY BornIsClosed
<1>6. problem.F \in Mat(D, n, n) /\ problem.Q \in Mat(D, n, n)
  BY <1>2, <1>5, WiderMatrix, Zenon DEF Given
<1>7. /\ x \in Mat(D, n, 1) /\ P \in Mat(D, n, n)
      /\ result \in Seq(Stored(D, n, m))
  BY <1>2 DEF Over
<1> HIDE DEF n, m, D
<1>8. mean \in Mat(D, n, 1)
  BY <1>4, <1>5, <1>6, <1>7, ProductIsClosed
<1>9. prior \in Mat(D, n, n)
  <2> DEFINE square == Product(problem.F, P, transpose(problem.F))
  <2>1. square \in Mat(D, n, n)
    BY <1>4, <1>5, <1>6, <1>7, SquareIsClosed
  <2> HIDE DEF square
  <2>2. Plus(square, problem.Q) \in Mat(D, n, n)
    BY <1>4, <1>5, <1>6, <2>1, SumIsClosed
  <2> QED BY <2>2 DEF square
<1> HIDE DEF mean, prior
<1>10. x_pred' \in Mat(E, n, 1) /\ P_pred' \in Mat(E, n, n) /\ overflows' \in Nat /\ D \subseteq E
  <2> HIDE DEF E
  <2>1. CASE x_pred' = mean /\ Overflowing(prior, P_pred)
    <3>1. \/ P_pred' = prior /\ overflows' = overflows
          \/ /\ overflows' = overflows + 1
             /\ \E i \in Rows(prior), j \in Cols(prior) :
                   P_pred' = [prior EXCEPT ![i][j] = NaN]
      BY <2>1 DEF Overflowing
    <3>2. P_pred' \in Mat(E, n, n) /\ overflows' \in Nat /\ D \subseteq E
      BY <1>2, <1>4, <1>9, <3>1, OverflowKeepsShape DEF D, E
    <3>3. mean \in Mat(E, n, 1)
      BY <1>8, <3>2, WiderMatrix
    <3> QED BY <2>1, <3>2, <3>3
  <2>2. CASE P_pred' = prior /\ Overflowing(mean, x_pred)
    <3>1. \/ x_pred' = mean /\ overflows' = overflows
          \/ /\ overflows' = overflows + 1
             /\ \E i \in Rows(mean), j \in Cols(mean) :
                   x_pred' = [mean EXCEPT ![i][j] = NaN]
      BY <2>2 DEF Overflowing
    <3>2. x_pred' \in Mat(E, n, 1) /\ overflows' \in Nat /\ D \subseteq E
      BY <1>2, <1>4, <1>8, <3>1, OverflowKeepsShape DEF D, E
    <3>3. prior \in Mat(E, n, n)
      BY <1>9, <3>2, WiderMatrix
    <3> QED BY <2>2, <3>2, <3>3
  <2> QED BY <1>3, <2>1, <2>2
<1>11. x \in Mat(E, n, 1) /\ P \in Mat(E, n, n) /\ result \in Seq(Stored(E, n, m))
  BY <1>7, <1>10, WiderMatrix, WiderStored
<1>12. Over(Born(overflows))'
  BY <1>1, <1>10, <1>11 DEF Over, n, m, E, Born
<1>13. Given(problem)'
  BY <1>1, <1>2 DEF Given
<1> QED BY <1>1, <1>2, <1>10, <1>12, <1>13 DEF KalmanInv

LEMMA InnovateKeeps == KalmanInv /\ Innovate => KalmanInv'
<1> SUFFICES ASSUME KalmanInv, Innovate PROVE KalmanInv'
  OBVIOUS
<1> DEFINE n == problem.n
           m == problem.m
           D == Born(overflows)
           seen == problem.z[Len(result) + 1]
           foreseen == matmul(problem.H, x_pred)
           square == Product(problem.H, P_pred, transpose(problem.H))
           w == invert(S')
<1>1. /\ pc = "innovate"
      /\ problem' = problem /\ x' = x /\ P' = P /\ x_pred' = x_pred /\ P_pred' = P_pred
      /\ result' = result /\ overflows' = overflows
      /\ v' = Minus(seen, foreseen) /\ S' = Plus(square, problem.R)
  BY DEF Innovate
<1>2. /\ Given(problem) /\ Over(D) /\ fault = "none" /\ problem \in Problems /\ overflows \in Nat
      /\ Len(result) < problem.steps
  BY <1>1 DEF KalmanInv
<1>3. IF w.regular THEN S_inv' = w.out /\ pc' = "gain" /\ fault' = fault
      ELSE pc' = "done" /\ fault' = "singular"
  BY DEF Innovate, Refuse
<1>4. n \in Nat \ {0} /\ m \in Nat \ {0} /\ 1 \in Nat \ {0} /\ problem.steps \in Nat \ {0}
  BY <1>2 DEF Given
<1>5. Closed(D) /\ Numbers \subseteq D /\ D \subseteq Doubles
  BY BornIsClosed
<1>6. problem.H \in Mat(D, m, n) /\ problem.R \in Mat(D, m, m)
  BY <1>2, <1>5, WiderMatrix, Zenon DEF Given
<1>7. /\ x \in Mat(D, n, 1) /\ P \in Mat(D, n, n)
      /\ x_pred \in Mat(D, n, 1) /\ P_pred \in Mat(D, n, n)
      /\ result \in Seq(Stored(D, n, m))
  BY <1>1, <1>2 DEF Over
<1>8. seen \in Mat(D, m, 1)
  <2>1. Len(result) + 1 \in 1..problem.steps
    <3> DEFINE T == Stored(D, n, m)
    <3>1. result \in Seq(T)
      BY <1>7
    <3> HIDE DEF T
    <3>2. Len(result) \in Nat
      BY <3>1
    <3> QED BY <1>2, <1>4, <3>2
  <2>2. seen \in Mat(Numbers, m, 1)
    BY <1>2, <2>1 DEF Given
  <2> QED BY <1>5, <2>2, WiderMatrix
<1> HIDE DEF n, m, D, seen, w
<1>9. foreseen \in Mat(D, m, 1) /\ square \in Mat(D, m, m)
  BY <1>4, <1>5, <1>6, <1>7, ProductIsClosed, SquareIsClosed
<1> HIDE DEF foreseen, square
<1>10. v' \in Mat(D, m, 1) /\ S' \in Mat(D, m, m)
  BY <1>1, <1>4, <1>5, <1>6, <1>8, <1>9, SumIsClosed
<1>11. w.out \in Mat(D, m, m)
  <2>1. w \in Working(D, m)
    BY <1>4, <1>5, <1>10, InvertIsClosed DEF w
  <2> QED BY <2>1 DEF Working
<1>12. Given(problem)'
  BY <1>1, <1>2 DEF Given
<1>13. CASE w.regular
  <2>1. S_inv' = w.out /\ pc' = "gain" /\ fault' = "none"
    BY <1>2, <1>3, <1>13
  <2>2. Over(D)'
    BY <1>1, <1>7, <1>10, <1>11, <2>1 DEF Over, D, n, m, Born
  <2> QED BY <1>1, <1>2, <1>12, <2>1, <2>2 DEF KalmanInv, D
<1>14. CASE ~w.regular
  <2>1. pc' = "done" /\ fault' = "singular"
    BY <1>3, <1>14
  <2> QED BY <1>1, <1>2, <2>1 DEF KalmanInv
<1> QED BY <1>13, <1>14
LEMMA GainAndUpdateKeeps == KalmanInv /\ GainAndUpdate => KalmanInv'
<1> SUFFICES ASSUME KalmanInv, GainAndUpdate PROVE KalmanInv'
  OBVIOUS
<1> DEFINE n == problem.n
           m == problem.m
           D == Born(overflows)
           stored == [x |-> x', P |-> P', v |-> v, S |-> S, K |-> K']
           correction == matmul(K', v)
<1>1. /\ pc = "gain" /\ pc' = "predict"
      /\ problem' = problem /\ fault' = fault /\ overflows' = overflows
      /\ x_pred' = x_pred /\ P_pred' = P_pred
      /\ K' = Product(P_pred, transpose(problem.H), S_inv)
      /\ x' = Plus(x_pred, correction)
      /\ P' = covariance_update(P_pred, K', problem.H, problem.R)
      /\ result' = Append(result, stored)
  BY DEF GainAndUpdate
<1>2. /\ Given(problem) /\ Over(D) /\ fault = "none" /\ problem \in Problems /\ overflows \in Nat
      /\ Len(result) < problem.steps
  BY <1>1 DEF KalmanInv
<1>3. n \in Nat \ {0} /\ m \in Nat \ {0} /\ 1 \in Nat \ {0} /\ problem.steps \in Nat \ {0}
  BY <1>2 DEF Given
<1>4. Closed(D) /\ Numbers \subseteq D
  BY BornIsClosed
<1>5. problem.H \in Mat(D, m, n) /\ problem.R \in Mat(D, m, m)
  BY <1>2, <1>4, WiderMatrix, Zenon DEF Given
<1>6. /\ x_pred \in Mat(D, n, 1) /\ P_pred \in Mat(D, n, n)
      /\ v \in Mat(D, m, 1) /\ S \in Mat(D, m, m) /\ S_inv \in Mat(D, m, m)
      /\ result \in Seq(Stored(D, n, m))
  BY <1>1, <1>2 DEF Over
<1> HIDE DEF n, m, D, stored
<1>7. K' \in Mat(D, n, m)
  <2> DEFINE H_T == transpose(problem.H)
  <2>1. H_T \in Mat(D, n, m)
    BY <1>3, <1>5, TransposeIsClosed
  <2> HIDE DEF H_T
  <2>2. Product(P_pred, H_T, S_inv) \in Mat(D, n, m)
    BY <1>3, <1>4, <1>6, <2>1, TripleIsClosed
  <2> QED BY <1>1, <2>2 DEF H_T
<1>8. x' \in Mat(D, n, 1)
  <2>1. correction \in Mat(D, n, 1)
    BY <1>3, <1>4, <1>6, <1>7, ProductIsClosed
  <2> HIDE DEF correction
  <2> QED BY <1>1, <1>3, <1>4, <1>6, <2>1, SumIsClosed
<1>9. P' \in Mat(D, n, n)
  BY <1>1, <1>3, <1>4, <1>5, <1>6, <1>7, UpdateIsClosed
<1>10. /\ result' \in Seq(Stored(D, n, m))
       /\ Len(result') <= problem.steps
  <2> DEFINE T == Stored(D, n, m)
  <2>1. stored \in T
    BY <1>6, <1>7, <1>8, <1>9 DEF stored, Stored
  <2>2. result \in Seq(T) /\ result' = Append(result, stored)
    BY <1>1, <1>6
  <2> HIDE DEF T
  <2>3. result' \in Seq(T) /\ Len(result') = Len(result) + 1 /\ Len(result) \in Nat
    BY <2>1, <2>2
  <2>4. Len(result') <= problem.steps
    BY <1>2, <1>3, <2>3
  <2> QED BY <2>3, <2>4 DEF T
<1>11. Given(problem)'
  BY <1>1, <1>2 DEF Given
<1>12. Over(D)'
  BY <1>1, <1>8, <1>9, <1>10 DEF Over, D, n, m, Born
<1>13. Len(result') <= problem'.steps
  BY <1>1, <1>10
<1> QED BY <1>1, <1>2, <1>11, <1>12, <1>13 DEF KalmanInv, D

\* What a step stores of numbers is finite.
LEMMA StoredIsFinite ==
    ASSUME NEW n \in Nat \ {0}, NEW m \in Nat \ {0}, NEW r \in Stored(Numbers, n, m)
    PROVE  AllFinite(r)
<1>1. /\ r.x \in Mat(Numbers, n, 1) /\ r.P \in Mat(Numbers, n, n)
      /\ r.v \in Mat(Numbers, m, 1) /\ r.S \in Mat(Numbers, m, m) /\ r.K \in Mat(Numbers, n, m)
  BY DEF Stored
<1>2. 1 \in Nat \ {0}
  OBVIOUS
<1> QED BY <1>1, <1>2, NumbersAreFinite DEF AllFinite

LEMMA CheckKeeps == KalmanInv /\ Check => KalmanInv'
<1> SUFFICES ASSUME KalmanInv, Check PROVE KalmanInv'
  OBVIOUS
<1> DEFINE n == problem.n
           m == problem.m
<1>1. /\ pc = "predict" /\ pc' = "done" /\ Len(result) = problem.steps
      /\ problem' = problem /\ result' = result /\ overflows' = overflows
      /\ IF \A k \in DOMAIN result : AllFinite(result[k]) THEN fault' = fault
         ELSE fault' = "overflow"
  BY DEF Check, Refuse
<1>2. /\ Given(problem) /\ Over(Born(overflows)) /\ fault = "none"
      /\ problem \in Problems /\ overflows \in Nat
  BY <1>1 DEF KalmanInv
<1>3. n \in Nat \ {0} /\ m \in Nat \ {0} /\ problem.steps \in Nat \ {0}
  BY <1>2 DEF Given
<1>4. result \in Seq(Stored(Born(overflows), n, m))
  BY <1>2 DEF Over
<1>5. DOMAIN result = 1..problem.steps
  <2> DEFINE T == Stored(Born(overflows), n, m)
  <2>1. result \in Seq(T)
    BY <1>4
  <2> HIDE DEF T
  <2> QED BY <1>1, <2>1
<1>6. CASE \A k \in DOMAIN result : AllFinite(result[k])
  BY <1>1, <1>2, <1>5, <1>6 DEF KalmanInv
<1>7. CASE ~(\A k \in DOMAIN result : AllFinite(result[k]))
  <2>1. overflows # 0
    <3> SUFFICES ASSUME overflows = 0 PROVE FALSE
      OBVIOUS
    <3> DEFINE T == Stored(Numbers, n, m)
    <3>1. result \in Seq(T)
      BY <1>4 DEF Born
    <3> HIDE DEF T, n, m
    <3>2. \A k \in DOMAIN result : result[k] \in T
      BY <3>1
    <3>3. \A r \in T : AllFinite(r)
      BY <1>3, StoredIsFinite DEF T
    <3> QED BY <1>7, <3>2, <3>3
  <2> QED BY <1>1, <1>2, <1>7, <2>1 DEF KalmanInv
<1> QED BY <1>6, <1>7

LEMMA KalmanUnchanged == KalmanInv /\ UNCHANGED vars => KalmanInv'
<1> SUFFICES ASSUME KalmanInv, UNCHANGED vars PROVE KalmanInv'
  OBVIOUS
<1>1. /\ problem' = problem /\ pc' = pc /\ x' = x /\ P' = P
      /\ x_pred' = x_pred /\ P_pred' = P_pred /\ v' = v /\ S' = S /\ S_inv' = S_inv
      /\ result' = result /\ fault' = fault /\ overflows' = overflows
  BY DEF vars, working
<1>2. Given(problem)' = Given(problem)
  BY <1>1 DEF Given
<1>3. Over(Born(overflows))' = Over(Born(overflows))
  BY <1>1 DEF Over, Born
<1> QED BY <1>1, <1>2, <1>3 DEF KalmanInv

\* The invariant of the filter: while it runs, every array is of its shape, and without an
\* overflow there is no NaN in any of them (run_kalman_filter).
THEOREM KalmanInvariant == Spec => []KalmanInv
<1>1. KalmanInv /\ [Next]_vars => KalmanInv'
  BY ValidateKeeps, PredictKeeps, InnovateKeeps, GainAndUpdateKeeps, CheckKeeps, KalmanUnchanged
     DEF Next
<1> QED BY <1>1, KalmanInitially, PTL DEF Spec

\* What completes is finite at every step of every array, and what is refused for
\* overflow has overflowed (run_kalman_filter, require_finite_results).
THEOREM CompletedIsFiniteHolds == Spec => []CompletedIsFinite
<1>1. KalmanInv => CompletedIsFinite
  BY DEF KalmanInv, CompletedIsFinite
<1> QED BY <1>1, KalmanInvariant, PTL

-----------------------------------------------------------------------------
(* The numbers are a field *)

\* Numbers that differ by a multiple of the prime have one remainder.
LEMMA SameRemainder ==
    ASSUME NEW a \in Int, NEW b \in Int, NEW k \in Int, a = b + Prime * k
    PROVE  a % Prime = b % Prime
<1> DEFINE n == Prime
           r == b % n
<1>0. n \in Nat \ {0}
  BY PrimeIsPositive
<1> HIDE DEF n
<1>1. r \in 0..(n - 1) /\ \E q \in Int : b = n * q + r
  <2>1. b % n \in 0..(n - 1) /\ \E q \in Int : b = n * q + (b % n)
    BY <1>0, Division
  <2> QED BY <2>1, Zenon
<1> HIDE DEF r
<1>2. PICK q \in Int : b = n * q + r
  BY <1>1
<1>3. a = n * (q + k) + r /\ q + k \in Int
  <2>1. n * (q + k) = n * q + n * k
    BY <1>0, <1>2
  <2> DEFINE p1 == n * q
             p2 == n * k
             p3 == n * (q + k)
  <2>2. p1 \in Int /\ p2 \in Int /\ p3 = p1 + p2 /\ a = b + p2 /\ b = p1 + r /\ r \in Int
    BY <1>0, <1>1, <1>2, <2>1 DEF n
  <2> HIDE DEF p1, p2, p3
  <2>3. a = p3 + r
    BY <2>2
  <2> QED BY <1>2, <2>3 DEF p3
<1>4. a % n = r
  <2> DEFINE c == q + k
  <2>1. c \in Int /\ a = n * c + r
    BY <1>3
  <2> HIDE DEF c
  <2>2. (n * c + r) % n = r
    BY <1>0, <1>1, <2>1, OneRemainder
  <2> QED BY <2>1, <2>2
<1> QED BY <1>4 DEF r, n

LEMMA RemainderOfSum ==
    ASSUME NEW a \in Int, NEW b \in Int
    PROVE  ((a % Prime) + b) % Prime = (a + b) % Prime
<1> DEFINE r == a % Prime
<1>1. r \in Numbers /\ \E q \in Int : a = Prime * q + r
  <2>1. a % Prime \in 0..(Prime - 1) /\ \E q \in Int : a = Prime * q + (a % Prime)
    BY PrimeIsPositive, Division
  <2> QED BY <2>1, Zenon DEF Numbers
<1> HIDE DEF r
<1>2. PICK q \in Int : a = Prime * q + r
  BY <1>1
<1>3. r \in Int /\ a + b \in Int /\ r + b \in Int
  BY <1>1, NumbersAreInt
<1>4. a + b = (r + b) + Prime * q
  <2> DEFINE p == Prime * q
  <2>1. p \in Int /\ a = p + r
    BY <1>2, PrimeIsPositive
  <2> HIDE DEF p
  <2>2. a + b = (r + b) + p
    BY <1>3, <2>1
  <2> QED BY <2>2 DEF p
<1>5. (a + b) % Prime = (r + b) % Prime
  <2> DEFINE c == a + b
             d == r + b
  <2>1. c \in Int /\ d \in Int /\ c = d + Prime * q
    BY <1>3, <1>4
  <2> HIDE DEF c, d
  <2>2. c % Prime = d % Prime
    BY <1>2, <2>1, SameRemainder
  <2> QED BY <2>2 DEF c, d
<1> QED BY <1>5 DEF r

LEMMA RemainderOfProduct ==
    ASSUME NEW a \in Int, NEW b \in Int
    PROVE  ((a % Prime) * b) % Prime = (a * b) % Prime
<1> DEFINE r == a % Prime
<1>1. r \in Numbers /\ \E q \in Int : a = Prime * q + r
  <2>1. a % Prime \in 0..(Prime - 1) /\ \E q \in Int : a = Prime * q + (a % Prime)
    BY PrimeIsPositive, Division
  <2> QED BY <2>1, Zenon DEF Numbers
<1> HIDE DEF r
<1>2. PICK q \in Int : a = Prime * q + r
  BY <1>1
<1>3. r \in Int /\ Prime \in Int
  BY <1>1, NumbersAreInt, PrimeIsPositive
<1>4. a * b = r * b + Prime * (q * b)
  <2>1. (Prime * q + r) * b = r * b + Prime * (q * b)
    BY <1>2, <1>3
  <2> QED BY <1>2, <2>1
<1>5. (a * b) % Prime = (r * b) % Prime
  <2> DEFINE c == a * b
             d == r * b
             k == q * b
  <2>1. c \in Int /\ d \in Int /\ k \in Int /\ c = d + Prime * k
    BY <1>2, <1>3, <1>4
  <2> HIDE DEF c, d, k
  <2>2. c % Prime = d % Prime
    BY <2>1, SameRemainder
  <2> QED BY <2>2 DEF c, d
<1> QED BY <1>5 DEF r

LEMMA SumOfNumbers == \A a, b \in Numbers : Add(a, b) = (a + b) % Prime /\ Mul(a, b) = (a * b) % Prime
BY NumbersAreInt DEF Add, Mul

LEMMA SmallRemainder == \A a \in Numbers : a % Prime = a
BY PrimeIsPositive DEF Numbers

LEMMA AddCommutes == \A a, b \in Numbers : Add(a, b) = Add(b, a)
<1> TAKE a, b \in Numbers
<1>1. a + b = b + a
  BY NumbersAreInt
<1> QED BY <1>1, SumOfNumbers

LEMMA MulCommutes == \A a, b \in Numbers : Mul(a, b) = Mul(b, a)
<1> TAKE a, b \in Numbers
<1>1. a * b = b * a
  BY NumbersAreInt
<1> QED BY <1>1, SumOfNumbers

LEMMA AddAssociates ==
    \A a, b, c \in Numbers : Add(Add(a, b), c) = Add(a, Add(b, c))
<1> TAKE a, b, c \in Numbers
<1>0. a \in Int /\ b \in Int /\ c \in Int /\ a + b \in Int /\ b + c \in Int
  BY NumbersAreInt
<1>1. \A d, e \in Numbers : Add(d, e) \in Numbers
  BY NumbersClosed DEF Closed
<1>2. Add(Add(a, b), c) = (((a + b) % Prime) + c) % Prime
  BY <1>1, SumOfNumbers
<1>3. Add(a, Add(b, c)) = (((b + c) % Prime) + a) % Prime
  BY <1>1, SumOfNumbers, AddCommutes
<1>4. (((a + b) % Prime) + c) % Prime = ((a + b) + c) % Prime
  BY <1>0, RemainderOfSum
<1>5. (((b + c) % Prime) + a) % Prime = ((b + c) + a) % Prime
  BY <1>0, RemainderOfSum
<1>6. (a + b) + c = (b + c) + a
  BY <1>0
<1> QED BY <1>2, <1>3, <1>4, <1>5, <1>6, Zenon

LEMMA MulAssociates ==
    \A a, b, c \in Numbers : Mul(Mul(a, b), c) = Mul(a, Mul(b, c))
<1> TAKE a, b, c \in Numbers
<1>0. a \in Int /\ b \in Int /\ c \in Int /\ a * b \in Int /\ b * c \in Int
  BY NumbersAreInt
<1>1. \A d, e \in Numbers : Mul(d, e) \in Numbers
  BY NumbersClosed DEF Closed
<1>2. Mul(Mul(a, b), c) = (((a * b) % Prime) * c) % Prime
  BY <1>1, SumOfNumbers
<1>3. Mul(a, Mul(b, c)) = (((b * c) % Prime) * a) % Prime
  <2>1. Mul(a, Mul(b, c)) = Mul(Mul(b, c), a)
    BY <1>1, MulCommutes
  <2>2. Mul(b, c) = (b * c) % Prime /\ Mul(b, c) \in Numbers
    BY <1>1, SumOfNumbers
  <2>3. Mul(Mul(b, c), a) = (Mul(b, c) * a) % Prime
    BY <2>2, SumOfNumbers
  <2> QED BY <2>1, <2>2, <2>3, Zenon
<1>4. (((a * b) % Prime) * c) % Prime = ((a * b) * c) % Prime
  BY <1>0, RemainderOfProduct
<1>5. (((b * c) % Prime) * a) % Prime = ((b * c) * a) % Prime
  BY <1>0, RemainderOfProduct
<1>6. (a * b) * c = (b * c) * a
  BY <1>0
<1> QED BY <1>2, <1>3, <1>4, <1>5, <1>6, Zenon

LEMMA MulDistributes ==
    \A a, b, c \in Numbers : Mul(Add(a, b), c) = Add(Mul(a, c), Mul(b, c))
<1> TAKE a, b, c \in Numbers
<1>0. /\ a \in Int /\ b \in Int /\ c \in Int /\ a + b \in Int
      /\ a * c \in Int /\ b * c \in Int
  BY NumbersAreInt
<1>1. \A d, e \in Numbers : Mul(d, e) \in Numbers /\ Add(d, e) \in Numbers
  BY NumbersClosed DEF Closed
<1>2. Mul(Add(a, b), c) = (((a + b) % Prime) * c) % Prime
  BY <1>1, SumOfNumbers
<1>3. (((a + b) % Prime) * c) % Prime = ((a + b) * c) % Prime
  BY <1>0, RemainderOfProduct
<1>4. (a + b) * c = a * c + b * c
  BY <1>0
<1> DEFINE p == a * c
           q == b * c
<1>5. p \in Int /\ q \in Int /\ Mul(a, c) = p % Prime /\ Mul(b, c) = q % Prime
  BY <1>0, SumOfNumbers
<1> HIDE DEF p, q
<1>6. Add(Mul(a, c), Mul(b, c)) = ((p % Prime) + (q % Prime)) % Prime
  BY <1>1, <1>5, SumOfNumbers
<1>7. ((p % Prime) + (q % Prime)) % Prime = (p + q) % Prime
  <2> DEFINE s == q % Prime
  <2>1. s \in Int
    BY <1>5, Remainder, NumbersAreInt
  <2> HIDE DEF s
  <2>2. ((p % Prime) + s) % Prime = (p + s) % Prime
    BY <1>5, <2>1, RemainderOfSum
  <2>3. p + s = s + p /\ q + p = p + q
    BY <1>5, <2>1
  <2>4. ((q % Prime) + p) % Prime = (q + p) % Prime
    BY <1>5, RemainderOfSum
  <2> QED BY <2>2, <2>3, <2>4, Zenon DEF s
<1> QED BY <1>2, <1>3, <1>4, <1>6, <1>7, Zenon DEF p, q

LEMMA Units ==
    \A a \in Numbers : /\ Add(a, 0) = a /\ Add(0, a) = a
                       /\ Mul(a, 1) = a /\ Mul(1, a) = a
                       /\ Mul(a, 0) = 0 /\ Mul(0, a) = 0
<1> TAKE a \in Numbers
<1>1. a + 0 = a /\ a * 1 = a /\ a * 0 = 0 /\ 0 \in Numbers /\ 1 \in Numbers
  BY NumbersAreInt
<1>2. Add(a, 0) = a /\ Mul(a, 1) = a /\ Mul(a, 0) = 0
  BY <1>1, SumOfNumbers, SmallRemainder
<1> QED BY <1>1, <1>2, AddCommutes, MulCommutes

LEMMA Negatives == \A a \in Numbers : Neg(a) \in Numbers /\ Add(a, Neg(a)) = 0
<1> TAKE a \in Numbers
<1>1. Neg(a) = (Prime - a) % Prime /\ Neg(a) \in Numbers
  BY NumbersAreInt, NumbersClosed DEF Neg, Closed
<1>2. a \in Int /\ Prime - a \in Int /\ (Prime - a) + a = Prime
  BY NumbersAreInt, PrimeIsPositive
<1>3. Add(Neg(a), a) = (((Prime - a) % Prime) + a) % Prime
  BY <1>1, SumOfNumbers
<1>4. (((Prime - a) % Prime) + a) % Prime = Prime % Prime
  BY <1>2, RemainderOfSum
<1>5. Prime % Prime = 0
  BY PrimeIsPositive
<1> QED BY <1>1, <1>3, <1>4, <1>5, AddCommutes

LEMMA Inverses == \A a \in Numbers : a # 0 => Inv(a) \in Numbers /\ Mul(a, Inv(a)) = 1
BY InverseOfNumber, SumOfNumbers
\* x less f times y.
Less(x0, f, y) == Add(x0, Neg(Mul(f, y)))

LEMMA NumberArithmetic ==
    /\ \A a, b \in Numbers : Add(a, b) \in Numbers /\ Mul(a, b) \in Numbers
    /\ \A a \in Numbers : Neg(a) \in Numbers
    /\ \A a, f, b \in Numbers : Less(a, f, b) \in Numbers
BY NumbersClosed DEF Closed, Less

LEMMA Interchange ==
    \A a, b, c, d \in Numbers : Add(Add(a, b), Add(c, d)) = Add(Add(a, c), Add(b, d))
<1> TAKE a, b, c, d \in Numbers
<1>1. Add(Add(a, b), Add(c, d)) = Add(a, Add(b, Add(c, d)))
  BY NumberArithmetic, AddAssociates
<1>2. Add(b, Add(c, d)) = Add(c, Add(b, d))
  BY NumberArithmetic, AddAssociates, AddCommutes
<1>3. Add(a, Add(c, Add(b, d))) = Add(Add(a, c), Add(b, d))
  BY NumberArithmetic, AddAssociates
<1> QED BY <1>1, <1>2, <1>3

LEMMA OneNegative == \A a, b \in Numbers : Add(a, b) = 0 => b = Neg(a)
<1> SUFFICES ASSUME NEW a \in Numbers, NEW b \in Numbers, Add(a, b) = 0 PROVE b = Neg(a)
  OBVIOUS
<1>1. Add(Neg(a), Add(a, b)) = Add(Add(Neg(a), a), b)
  BY NumberArithmetic, AddAssociates
<1>2. Add(Neg(a), a) = 0
  BY Negatives, AddCommutes
<1>3. Add(0, b) = b /\ Add(Neg(a), 0) = Neg(a)
  BY Negatives, Units
<1> QED BY <1>1, <1>2, <1>3

LEMMA NegativeOfProduct == \A a, b \in Numbers : Mul(Neg(a), b) = Neg(Mul(a, b))
<1> TAKE a, b \in Numbers
<1>1. Mul(Add(a, Neg(a)), b) = Add(Mul(a, b), Mul(Neg(a), b))
  BY NumberArithmetic, MulDistributes
<1>2. Mul(Add(a, Neg(a)), b) = 0
  BY Negatives, Units
<1> QED BY <1>1, <1>2, NumberArithmetic, OneNegative

LEMMA NegativeOfSum == \A a, b \in Numbers : Neg(Add(a, b)) = Add(Neg(a), Neg(b))
<1> TAKE a, b \in Numbers
<1>1. Add(Add(a, b), Add(Neg(a), Neg(b))) = Add(Add(a, Neg(a)), Add(b, Neg(b)))
  BY NumberArithmetic, Interchange
<1>2. Add(Add(a, Neg(a)), Add(b, Neg(b))) = 0
  BY Negatives, Units, NumbersAreInt
<1> QED BY <1>1, <1>2, NumberArithmetic, OneNegative

LEMMA LessTimes ==
    \A a, f, b, c \in Numbers : Mul(Less(a, f, b), c) = Less(Mul(a, c), f, Mul(b, c))
<1> TAKE a, f, b, c \in Numbers
<1>1. Mul(Add(a, Neg(Mul(f, b))), c) = Add(Mul(a, c), Mul(Neg(Mul(f, b)), c))
  BY NumberArithmetic, MulDistributes
<1>2. Mul(Neg(Mul(f, b)), c) = Neg(Mul(Mul(f, b), c))
  BY NumberArithmetic, NegativeOfProduct
<1>3. Mul(Mul(f, b), c) = Mul(f, Mul(b, c))
  BY MulAssociates
<1> QED BY <1>1, <1>2, <1>3 DEF Less

LEMMA LessPlus ==
    \A a, f, b, c, d \in Numbers :
        Add(Less(a, f, b), Less(c, f, d)) = Less(Add(a, c), f, Add(b, d))
<1> TAKE a, f, b, c, d \in Numbers
<1>1. Mul(f, b) \in Numbers /\ Mul(f, d) \in Numbers
  BY NumberArithmetic
<1> DEFINE p == Mul(f, b)
           q == Mul(f, d)
<1>2. Mul(f, Add(b, d)) = Add(p, q)
  <2>1. Mul(Add(b, d), f) = Add(Mul(b, f), Mul(d, f))
    BY MulDistributes
  <2>2. Mul(Add(b, d), f) = Mul(f, Add(b, d)) /\ Mul(b, f) = p /\ Mul(d, f) = q
    BY NumberArithmetic, MulCommutes
  <2> QED BY <2>1, <2>2
<1> HIDE DEF p, q
<1>3. p \in Numbers /\ q \in Numbers
  BY <1>1 DEF p, q
<1>4. Add(Add(a, Neg(p)), Add(c, Neg(q))) = Add(Add(a, c), Add(Neg(p), Neg(q)))
  BY <1>3, NumberArithmetic, Interchange
<1>5. Add(Neg(p), Neg(q)) = Neg(Add(p, q))
  BY <1>3, NegativeOfSum
<1>6. Add(Less(a, f, b), Less(c, f, d)) = Add(Add(a, Neg(p)), Add(c, Neg(q)))
  BY Zenon DEF Less, p, q
<1> QED BY <1>2, <1>4, <1>5, <1>6, Zenon DEF Less

LEMMA AddCancels ==
    ASSUME NEW a \in Numbers, NEW b \in Numbers, NEW c \in Numbers, Add(a, c) = Add(b, c)
    PROVE  a = b
<1> DEFINE d == Neg(c)
<1>0. d \in Numbers
  BY Negatives
<1> HIDE DEF d
<1>1. Add(Add(a, c), d) = Add(a, Add(c, d)) /\ Add(Add(b, c), d) = Add(b, Add(c, d))
  BY <1>0, AddAssociates
<1> USE DEF d
<1>2. Add(c, Neg(c)) = 0 /\ Add(a, 0) = a /\ Add(b, 0) = b
  BY Negatives, Units
<1> QED BY <1>1, <1>2

LEMMA MulCancels ==
    ASSUME NEW a \in Numbers, NEW b \in Numbers, NEW c \in Numbers, c # 0, Mul(a, c) = Mul(b, c)
    PROVE  a = b
<1>1. Inv(c) \in Numbers /\ Mul(c, Inv(c)) = 1
  BY Inverses
<1>2. Mul(Mul(a, c), Inv(c)) = Mul(a, Mul(c, Inv(c))) /\ Mul(Mul(b, c), Inv(c)) = Mul(b, Mul(c, Inv(c)))
  BY <1>1, MulAssociates
<1> QED BY <1>1, <1>2, Units

-----------------------------------------------------------------------------
(* The product of a row and a vector *)

IsSum(s, row, u, n) ==
    /\ s \in [0..n -> Numbers] /\ s[0] = 0
    /\ \A k \in 1..n : s[k] = Add(s[k - 1], Mul(row[k], u[k]))

Dot(row, u, n) == (CHOOSE s : IsSum(s, row, u, n))[n]

LEMMA SumIsOne ==
    ASSUME NEW n \in Nat, NEW row, NEW u, NEW s, NEW t, IsSum(s, row, u, n), IsSum(t, row, u, n)
    PROVE  s[n] = t[n]
<1> DEFINE T == {k \in 0..n : s[k] = t[k]}
<1>1. 0 \in T
  BY DEF IsSum
<1>2. ASSUME NEW k \in 0..(n - 1), k \in T PROVE k + 1 \in T
  <2>1. k + 1 \in 1..n /\ (k + 1) - 1 = k
    OBVIOUS
  <2>2. s[k + 1] = Add(s[k], Mul(row[k + 1], u[k + 1])) /\ t[k + 1] = Add(t[k], Mul(row[k + 1], u[k + 1]))
    BY <2>1 DEF IsSum
  <2> QED BY <1>2, <2>1, <2>2
<1>3. n \in T
  <2> HIDE DEF T
  <2>1. \A k \in 0..n : k \in T
    BY <1>1, <1>2, UpToInduction
  <2> QED BY <2>1
<1> QED BY <1>3

LEMMA DotIsSum ==
    ASSUME NEW n \in Nat, NEW row, NEW u, NEW s, IsSum(s, row, u, n)
    PROVE  Dot(row, u, n) = s[n] /\ Dot(row, u, n) \in Numbers
<1> DEFINE t == CHOOSE t : IsSum(t, row, u, n)
<1>1. IsSum(t, row, u, n)
  OBVIOUS
<1> HIDE DEF t
<1>2. t[n] = s[n]
  BY <1>1, SumIsOne
<1>3. s[n] \in Numbers
  BY DEF IsSum
<1> QED BY <1>2, <1>3 DEF Dot, t

LEMMA SumExists ==
    ASSUME NEW n \in Nat, NEW row \in [1..n -> Numbers], NEW u \in [1..n -> Numbers]
    PROVE  \E s : IsSum(s, row, u, n)
<1> DEFINE step == [p \in (1..n) \X Numbers |-> Add(p[2], Mul(row[p[1]], u[p[1]]))]
<1>1. \A k \in 1..n : \A y \in Numbers :
         step[<<k, y>>] = Add(y, Mul(row[k], u[k])) /\ step[<<k, y>>] \in Numbers
  BY NumberArithmetic
<1> HIDE DEF step
<1>2. PICK s \in [0..n -> Numbers] : IsTable(s, n, 0, step)
  <2>1. \A k \in 1..n : \A y \in Numbers : step[<<k, y>>] \in Numbers
    BY <1>1
  <2> QED BY <2>1, NumbersAreInt, TableExists, Zenon
<1>3. \A k \in 1..n : s[k] = Add(s[k - 1], Mul(row[k], u[k]))
  <2> TAKE k \in 1..n
  <2>1. k - 1 \in 0..n
    OBVIOUS
  <2>2. s[k - 1] \in Numbers
    BY <1>2, <2>1
  <2>3. s[k] = step[<<k, s[k - 1]>>]
    BY <1>2, Zenon DEF IsTable
  <2> QED BY <1>1, <2>2, <2>3
<1>4. IsSum(s, row, u, n)
  BY <1>2, <1>3 DEF IsSum, IsTable
<1> QED BY <1>4

IsScaled(new, row, by, n) == \A k \in 1..n : new[k] = Mul(row[k], by)
IsLess(new, row, f, taken, n) == \A k \in 1..n : new[k] = Less(row[k], f, taken[k])

LEMMA DotOfScaled ==
    ASSUME NEW n \in Nat, NEW row \in [1..n -> Numbers], NEW u \in [1..n -> Numbers],
           NEW by \in Numbers, NEW new, IsScaled(new, row, by, n)
    PROVE  Dot(new, u, n) = Mul(Dot(row, u, n), by)
<1>0. \A k \in 1..n : new[k] = Mul(row[k], by)
  BY DEF IsScaled
<1>1. PICK s : IsSum(s, row, u, n)
  BY SumExists
<1> DEFINE t == [k \in 0..n |-> Mul(s[k], by)]
<1>2. s \in [0..n -> Numbers]
  BY <1>1 DEF IsSum
<1>3. t \in [0..n -> Numbers]
  BY <1>2, NumberArithmetic
<1>4. t[0] = 0
  BY <1>1, Units DEF IsSum
<1>5. ASSUME NEW k \in 1..n PROVE t[k] = Add(t[k - 1], Mul(new[k], u[k]))
  <2>1. k \in 0..n /\ k - 1 \in 0..n
    OBVIOUS
  <2>2. s[k] = Add(s[k - 1], Mul(row[k], u[k]))
    BY <1>1 DEF IsSum
  <2> DEFINE a == s[k - 1]
             r == row[k]
             c == u[k]
  <2>3. a \in Numbers /\ r \in Numbers /\ c \in Numbers
    BY <1>2, <2>1
  <2>4. t[k] = Mul(Add(a, Mul(r, c)), by) /\ t[k - 1] = Mul(a, by) /\ new[k] = Mul(r, by)
    BY <1>0, <2>1, <2>2
  <2> HIDE DEF a, r, c, t
  <2>5. Mul(Add(a, Mul(r, c)), by) = Add(Mul(a, by), Mul(Mul(r, c), by))
    BY <2>3, NumberArithmetic, MulDistributes
  <2>6. Mul(Mul(r, c), by) = Mul(Mul(r, by), c)
    BY <2>3, MulAssociates, MulCommutes
  <2>7. t[k] = Add(t[k - 1], Mul(new[k], c))
    BY <2>4, <2>5, <2>6
  <2> QED BY <2>7 DEF c
<1> HIDE DEF t
<1>6. IsSum(t, new, u, n)
  BY <1>3, <1>4, <1>5 DEF IsSum
<1>7. t[n] = Mul(s[n], by)
  BY DEF t
<1> QED BY <1>1, <1>6, <1>7, DotIsSum

LEMMA DotOfLess ==
    ASSUME NEW n \in Nat, NEW row \in [1..n -> Numbers], NEW q \in [1..n -> Numbers],
           NEW u \in [1..n -> Numbers],
           NEW f \in Numbers, NEW new, IsLess(new, row, f, q, n)
    PROVE  Dot(new, u, n) = Less(Dot(row, u, n), f, Dot(q, u, n))
<1>0. \A k \in 1..n : new[k] = Less(row[k], f, q[k])
  BY DEF IsLess
<1>1. PICK s : IsSum(s, row, u, n)
  BY SumExists
<1>2. PICK r : IsSum(r, q, u, n)
  BY SumExists
<1> DEFINE t == [k \in 0..n |-> Less(s[k], f, r[k])]
<1>3. s \in [0..n -> Numbers] /\ r \in [0..n -> Numbers]
  BY <1>1, <1>2 DEF IsSum
<1>4. t \in [0..n -> Numbers]
  BY <1>3, NumberArithmetic
<1>5. t[0] = 0
  <2>1. s[0] = 0 /\ r[0] = 0 /\ t[0] = Less(s[0], f, r[0])
    BY <1>1, <1>2 DEF IsSum
  <2>2. Less(0, f, 0) = 0
    BY Units, Negatives, NumbersAreInt DEF Less
  <2> HIDE DEF t
  <2> QED BY <2>1, <2>2
<1>6. ASSUME NEW k \in 1..n PROVE t[k] = Add(t[k - 1], Mul(new[k], u[k]))
  <2>1. k \in 0..n /\ k - 1 \in 0..n
    OBVIOUS
  <2>2. s[k] = Add(s[k - 1], Mul(row[k], u[k])) /\ r[k] = Add(r[k - 1], Mul(q[k], u[k]))
    BY <1>1, <1>2 DEF IsSum
  <2> DEFINE a == s[k - 1]
             b == r[k - 1]
             c == Mul(row[k], u[k])
             d == Mul(q[k], u[k])
  <2>3. a \in Numbers /\ b \in Numbers /\ c \in Numbers /\ d \in Numbers
    BY <1>3, <2>1, NumberArithmetic
  <2>4. t[k] = Less(Add(a, c), f, Add(b, d)) /\ t[k - 1] = Less(a, f, b)
    BY <2>1, <2>2
  <2>5. Mul(new[k], u[k]) = Less(c, f, d)
    BY <1>0, LessTimes
  <2> HIDE DEF a, b, c, d, t
  <2>6. Add(Less(a, f, b), Less(c, f, d)) = Less(Add(a, c), f, Add(b, d))
    BY <2>3, LessPlus
  <2> QED BY <2>4, <2>5, <2>6
<1> HIDE DEF t
<1>7. IsSum(t, new, u, n)
  BY <1>4, <1>5, <1>6 DEF IsSum
<1>8. t[n] = Less(s[n], f, r[n])
  BY DEF t
<1> QED BY <1>1, <1>2, <1>7, <1>8, DotIsSum

\* A row that has a 1 in one place, and zeros beside it.
IsUnit(row, i, n) == \A k \in 1..n : row[k] = IF k = i THEN 1 ELSE 0

LEMMA DotOfUnit ==
    ASSUME NEW n \in Nat, NEW i \in 1..n, NEW row \in [1..n -> Numbers], NEW u \in [1..n -> Numbers]
    PROVE  /\ IsUnit(row, i, n) => Dot(row, u, n) = u[i]
           /\ IsUnit(u, i, n) => Dot(row, u, n) = row[i]
<1>1. ASSUME NEW y \in [1..n -> Numbers], \A k \in 1..n : Mul(row[k], u[k]) = IF k = i THEN y[i] ELSE 0
      PROVE  Dot(row, u, n) = y[i]
  <2> DEFINE s == [k \in 0..n |-> IF k < i THEN 0 ELSE y[i]]
  <2>1. s \in [0..n -> Numbers] /\ s[0] = 0 /\ s[n] = y[i]
    BY NumbersAreInt
  <2>2. ASSUME NEW k \in 1..n PROVE s[k] = Add(s[k - 1], Mul(row[k], u[k]))
    <3>1. s[k] = (IF k < i THEN 0 ELSE y[i]) /\ s[k - 1] = (IF k - 1 < i THEN 0 ELSE y[i])
      OBVIOUS
    <3> DEFINE c == y[i]
    <3>2. c \in Numbers /\ 0 \in Numbers
      BY NumbersAreInt
    <3> HIDE DEF s, c
    <3>3. Add(0, 0) = 0 /\ Add(0, c) = c /\ Add(c, 0) = c
      BY <3>2, Units
    <3>4. CASE k < i
      BY <1>1, <3>1, <3>3, <3>4
    <3>5. CASE k = i
      BY <1>1, <3>1, <3>3, <3>5 DEF c
    <3>6. CASE k > i
      BY <1>1, <3>1, <3>3, <3>6 DEF c
    <3> QED BY <3>4, <3>5, <3>6
  <2> HIDE DEF s
  <2>3. IsSum(s, row, u, n)
    BY <2>1, <2>2 DEF IsSum
  <2> QED BY <2>1, <2>3, DotIsSum
<1>2. ASSUME IsUnit(row, i, n) PROVE Dot(row, u, n) = u[i]
  <2>1. \A k \in 1..n : Mul(row[k], u[k]) = IF k = i THEN u[i] ELSE 0
    BY <1>2, Units DEF IsUnit
  <2> QED BY <1>1, <2>1
<1>3. ASSUME IsUnit(u, i, n) PROVE Dot(row, u, n) = row[i]
  <2>1. \A k \in 1..n : Mul(row[k], u[k]) = IF k = i THEN row[i] ELSE 0
    BY <1>3, Units DEF IsUnit
  <2> QED BY <1>1, <2>1
<1> QED BY <1>2, <1>3
LEMMA UnitRow ==
    ASSUME NEW n \in Nat, NEW i \in 1..n, NEW row \in [1..n -> Numbers], NEW u \in [1..n -> Numbers],
           IsUnit(row, i, n)
    PROVE  Dot(row, u, n) = u[i]
BY DotOfUnit

LEMMA UnitVector ==
    ASSUME NEW n \in Nat, NEW i \in 1..n, NEW row \in [1..n -> Numbers], NEW u \in [1..n -> Numbers],
           IsUnit(u, i, n)
    PROVE  Dot(row, u, n) = row[i]
BY DotOfUnit

LEMMA EntryIsDot ==
    ASSUME NEW n \in Nat, NEW a, NEW b, NEW i, NEW j, Meet(Numbers, a, b, i, j, n),
           NEW row \in [1..n -> Numbers], NEW u \in [1..n -> Numbers],
           \A k \in 1..n : a[i][k] = row[k] /\ b[k][j] = u[k]
    PROVE  Entry(a, b, i, j) = Dot(row, u, n)
<1>1. PICK s : /\ \A k \in 0..n : /\ s[k] \in Numbers
                                  /\ s[k] = IF k = 0 THEN 0
                                            ELSE IF a[i][k] = 0 THEN s[k - 1]
                                            ELSE Add(s[k - 1], Mul(a[i][k], b[k][j]))
               /\ Entry(a, b, i, j) = s[n]
  BY NumbersClosed, EntrySums
<1> DEFINE t == [k \in 0..n |-> s[k]]
<1>2. t \in [0..n -> Numbers] /\ t[0] = 0 /\ t[n] = s[n]
  BY <1>1
<1>3. ASSUME NEW k \in 1..n PROVE t[k] = Add(t[k - 1], Mul(row[k], u[k]))
  <2>1. k \in 0..n /\ k - 1 \in 0..n /\ k # 0
    OBVIOUS
  <2>2. a[i][k] = row[k] /\ b[k][j] = u[k]
    OBVIOUS
  <2>3. s[k] = IF row[k] = 0 THEN s[k - 1] ELSE Add(s[k - 1], Mul(row[k], u[k]))
    BY <1>1, <2>1, <2>2
  <2>4. t[k] = s[k] /\ t[k - 1] = s[k - 1] /\ s[k - 1] \in Numbers
    BY <1>1, <2>1
  <2>5. Mul(0, u[k]) = 0 /\ Add(s[k - 1], 0) = s[k - 1]
    BY <2>4, Units
  <2> HIDE DEF t
  <2> QED BY <2>3, <2>4, <2>5
<1> HIDE DEF t
<1>4. IsSum(t, row, u, n)
  BY <1>2, <1>3 DEF IsSum
<1> QED BY <1>1, <1>2, <1>4, DotIsSum
\* A product whose terms are all 0.
LEMMA DotOfZeros ==
    ASSUME NEW n \in Nat, NEW row, NEW u, \A k \in 1..n : Mul(row[k], u[k]) = 0
    PROVE  Dot(row, u, n) = 0
<1> DEFINE s == [k \in 0..n |-> 0]
<1>1. s \in [0..n -> Numbers] /\ s[0] = 0 /\ s[n] = 0 /\ \A k \in 1..n : s[k] = 0 /\ s[k - 1] = 0
  BY NumbersAreInt
<1>2. Add(0, 0) = 0
  BY NumbersAreInt, Units
<1> HIDE DEF s
<1>3. IsSum(s, row, u, n)
  BY <1>1, <1>2 DEF IsSum
<1> QED BY <1>1, <1>3, DotIsSum

-----------------------------------------------------------------------------
(* A step of the elimination *)

Other(i, col, pivot) == IF i = col THEN pivot ELSE IF i = pivot THEN col ELSE i

\* b is a with the rows col and pivot exchanged, row col scaled, and f times it taken away
\* from every other row.
StepOf(b, a, n, col, pivot, by, f) ==
    /\ \A j \in 1..n : b[col][j] = Mul(a[pivot][j], by)
    /\ \A i \in 1..n : i # col =>
          \A j \in 1..n : b[i][j] = Less(a[Other(i, col, pivot)][j], f[i], b[col][j])

\* The first columns are those of the identity.
UnitColumns(a, k, n) == \A j \in 1..k : \A i \in 1..n : a[i][j] = IF i = j THEN 1 ELSE 0

LEMMA PivotIsGreatest ==
    ASSUME NEW n \in Nat \ {0}, NEW a \in Mat(Numbers, n, n), NEW col \in 1..n
    PROVE  /\ Pivot(a, col) \in col..n
           /\ a[Pivot(a, col)][col] = 0 => \A i \in col..n : a[i][col] = 0
<1> DEFINE candidates == {r \in 1..n : r >= col /\ a[r][col] # NaN}
           greatest == {r \in candidates : \A s \in candidates : fabs(a[s][col]) <= fabs(a[r][col])}
           first == CHOOSE r \in greatest : \A s \in greatest : r <= s
<1>1. \A i \in 1..n : a[i][col] \in Numbers
  BY DEF Mat
<1>2. candidates = col..n
  BY <1>1, NumbersAreInt
<1>3. Pivot(a, col) = first
  <2>1. Rows(a) = 1..n
    BY MatrixSize
  <2>2. a[col][col] # NaN
    BY <1>1, NumbersAreInt
  <2> QED BY <2>1, <2>2, Zenon DEF Pivot
<1> HIDE DEF candidates
<1>4. greatest # {}
  <2> DEFINE sizes == {Prime - fabs(a[r][col]) : r \in candidates}
  <2>1. \A r \in candidates : a[r][col] \in Numbers /\ fabs(a[r][col]) \in 0..Prime
    <3> TAKE r \in candidates
    <3>1. a[r][col] \in Numbers
      BY <1>1, <1>2
    <3> QED BY <3>1, MagnitudeOfNumber
  <2>2. sizes \in SUBSET Nat /\ sizes # {}
    <3>1. \A r \in candidates : Prime - fabs(a[r][col]) \in Nat
      BY <2>1, PrimeIsPositive
    <3>2. col \in candidates
      BY <1>2
    <3> QED BY <3>1, <3>2
  <2>3. PICK least \in sizes : \A d \in sizes : least <= d
    <3> HIDE DEF sizes
    <3> QED BY <2>2, LeastNatural
  <2>4. PICK r \in candidates : least = Prime - fabs(a[r][col])
    OBVIOUS
  <2>5. ASSUME NEW s \in candidates PROVE fabs(a[s][col]) <= fabs(a[r][col])
    <3> DEFINE p == fabs(a[s][col])
               q == fabs(a[r][col])
    <3>1. p \in Int /\ q \in Int /\ Prime \in Int
      BY <2>1, PrimeIsPositive
    <3>2. Prime - q <= Prime - p
      BY <2>3, <2>4
    <3> HIDE DEF p, q
    <3>3. p <= q
      BY <3>1, <3>2
    <3> QED BY <3>3 DEF p, q
  <2> QED BY <2>4, <2>5
<1>5. greatest \in SUBSET Nat
  BY <1>2
<1>6. first \in greatest
  <2> HIDE DEF greatest
  <2>1. \E r \in greatest : \A s \in greatest : r <= s
    BY <1>4, <1>5, LeastNatural
  <2> QED BY <2>1
<1> HIDE DEF first
<1>7. first \in col..n
  BY <1>2, <1>6
<1>8. ASSUME a[first][col] = 0, NEW i \in col..n PROVE a[i][col] = 0
  <2>1. fabs(a[i][col]) <= fabs(a[first][col])
    BY <1>2, <1>6
  <2>2. fabs(0) = 0
    BY PrimeIsPositive DEF fabs
  <2> DEFINE c == a[i][col]
  <2>3. c \in Numbers /\ fabs(c) <= 0
    BY <1>1, <1>8, <2>1, <2>2
  <2> HIDE DEF c
  <2>4. c = 0
    BY <2>3, PrimeIsPositive DEF Numbers, fabs
  <2> QED BY <2>4 DEF c
<1> QED BY <1>3, <1>7, <1>8

\* What the row operations do to one matrix.
LEMMA RowOperationsStep ==
    ASSUME NEW n \in Nat \ {0}, NEW a \in Mat(Numbers, n, n), NEW col \in 1..n, NEW pivot \in 1..n,
           NEW by \in Numbers, NEW f \in [1..n -> Numbers]
    PROVE  StepOf(Clear(Scale(Swap(a, col, pivot), col, by), col, f), a, n, col, pivot, by, f)
<1> DEFINE b == Swap(a, col, pivot)
           c == Scale(b, col, by)
           d == Clear(c, col, f)
<1>0. 0 \in Numbers /\ [i \in 1..n |-> 0] \in [1..n -> Numbers]
  BY NumbersAreInt
<1>1. b \in Mat(Numbers, n, n) /\ c \in Mat(Numbers, n, n)
  <2>1. b \in Mat(Numbers, n, n)
    BY <1>0, NumbersClosed, RowOperations
  <2> HIDE DEF b
  <2> QED BY <2>1, NumbersClosed, RowOperations
<1>2. \A i \in 1..n : b[i] = a[Other(i, col, pivot)]
  BY DEF Swap, Other, Mat
<1>3. c = [b EXCEPT ![col] = [j \in 1..n |-> Mul(b[col][j], by)]]
  <2> HIDE DEF b
  <2>1. DOMAIN b[col] = 1..n
    BY <1>1 DEF Mat
  <2> QED BY <2>1 DEF Scale
<1>4. /\ \A j \in 1..n : c[col][j] = Mul(b[col][j], by)
      /\ \A i \in 1..n : i # col => c[i] = b[i]
  <2> HIDE DEF b, c
  <2>1. DOMAIN b = 1..n
    BY <1>1 DEF Mat
  <2> QED BY <1>3, <2>1
<1>5. d = [i \in 1..n |-> IF i = col \/ f[i] = 0 THEN c[i]
                          ELSE [j \in 1..n |-> Add(c[i][j], Neg(Mul(f[i], c[col][j])))]]
  <2> HIDE DEF b, c
  <2>1. Rows(c) = 1..n /\ Cols(c) = 1..n
    BY <1>1, MatrixSize
  <2> QED BY <2>1, Zenon DEF Clear
<1> HIDE DEF b, c, d
<1>6. d[col] = c[col]
  BY <1>5
<1>7. ASSUME NEW i \in 1..n, i # col, NEW j \in 1..n
      PROVE  d[i][j] = Less(c[i][j], f[i], c[col][j])
  <2>1. c[i][j] \in Numbers /\ c[col][j] \in Numbers /\ f[i] \in Numbers
    BY <1>1 DEF Mat
  <2>2. CASE f[i] = 0
    <3>1. d[i][j] = c[i][j]
      BY <1>5, <2>2
    <3>2. Mul(0, c[col][j]) = 0 /\ Neg(0) = 0 /\ Add(c[i][j], 0) = c[i][j]
      <4>1. 0 \in Numbers /\ Add(0, 0) = 0
        BY NumbersAreInt, Units
      <4> QED BY <2>1, <4>1, Units, OneNegative
    <3> QED BY <2>2, <3>1, <3>2 DEF Less
  <2>3. CASE f[i] # 0
    BY <1>5, <1>7, <2>3 DEF Less
  <2> QED BY <2>2, <2>3
<1>8. Other(col, col, pivot) = pivot
  BY DEF Other
<1>9. \A j \in 1..n : d[col][j] = Mul(a[pivot][j], by)
  BY <1>2, <1>4, <1>6, <1>8
<1>10. ASSUME NEW i \in 1..n, i # col, NEW j \in 1..n
       PROVE  d[i][j] = Less(a[Other(i, col, pivot)][j], f[i], d[col][j])
  BY <1>2, <1>4, <1>6, <1>7, <1>10
<1>11. StepOf(d, a, n, col, pivot, by, f)
  BY <1>9, <1>10 DEF StepOf
<1> QED BY <1>11 DEF d, c, b

\* e is w after the step that clears column col with the row pivot.
IsStep(e, w, n, col, pivot) ==
    \E by \in Numbers, f \in [1..n -> Numbers] :
       /\ by = Inv(w.a[pivot][col])
       /\ \A i \in 1..n : f[i] = w.a[Other(i, col, pivot)][col]
       /\ StepOf(e.a, w.a, n, col, pivot, by, f)
       /\ StepOf(e.out, w.out, n, col, pivot, by, f)
       /\ e.regular = w.regular

LEMMA EliminateIsStep ==
    ASSUME NEW n \in Nat \ {0}, NEW w \in Working(Numbers, n), NEW col \in 1..n,
           NEW pivot, pivot = Pivot(w.a, col), w.a[pivot][col] # 0
    PROVE  IsStep(Eliminate(w, col), w, n, col, pivot)
<1> DEFINE a == Swap(w.a, col, pivot)
           out == Swap(w.out, col, pivot)
           by == Inv(a[col][col])
           f == [r \in Rows(a) |-> a[r][col]]
<1>1. w.a \in Mat(Numbers, n, n) /\ w.out \in Mat(Numbers, n, n)
  BY DEF Working
<1>2. pivot \in 1..n
  BY <1>1, PivotIsGreatest
<1>3. Eliminate(w, col) = [a |-> Clear(Scale(a, col, by), col, f),
                           out |-> Clear(Scale(out, col, by), col, f),
                           regular |-> w.regular]
  BY Zenon DEF Eliminate
<1>4. \A i \in 1..n : a[i] = w.a[Other(i, col, pivot)]
  BY <1>1, <1>2 DEF Swap, Other, Mat
<1>5. a[col][col] = w.a[pivot][col]
  BY <1>4 DEF Other
<1>6. a \in Mat(Numbers, n, n)
  <2>1. 0 \in Numbers /\ [i \in 1..n |-> 0] \in [1..n -> Numbers]
    BY NumbersAreInt
  <2> QED BY <1>1, <1>2, <2>1, NumbersClosed, RowOperations
<1>7. by \in Numbers
  <2>1. a[col][col] \in Numbers /\ a[col][col] # 0
    <3> HIDE DEF a
    <3> QED BY <1>5, <1>6 DEF Mat
  <2> HIDE DEF a
  <2> QED BY <2>1, Inverses
<1>8. f \in [1..n -> Numbers] /\ \A i \in 1..n : f[i] = w.a[Other(i, col, pivot)][col]
  <2> HIDE DEF a
  <2>1. Rows(a) = 1..n
    BY <1>6, MatrixSize
  <2> QED BY <1>4, <1>6, <2>1 DEF Mat
<1> HIDE DEF by, f
<1>9. StepOf(Clear(Scale(a, col, by), col, f), w.a, n, col, pivot, by, f)
  BY <1>1, <1>2, <1>7, <1>8, RowOperationsStep
<1>10. StepOf(Clear(Scale(out, col, by), col, f), w.out, n, col, pivot, by, f)
  BY <1>1, <1>2, <1>7, <1>8, RowOperationsStep
<1>11. by = Inv(w.a[pivot][col])
  BY <1>5 DEF by
<1> HIDE DEF a, out
<1>12. /\ StepOf(Eliminate(w, col).a, w.a, n, col, pivot, by, f)
       /\ StepOf(Eliminate(w, col).out, w.out, n, col, pivot, by, f)
       /\ Eliminate(w, col).regular = w.regular
  BY <1>3, <1>9, <1>10
<1> QED BY <1>7, <1>8, <1>11, <1>12 DEF IsStep

\* What a step does to the product of a row and a vector.
DotStep(g, e, q, n, col, pivot, by, f) ==
    /\ Dot(g[col], q, n) = Mul(Dot(e[pivot], q, n), by)
    /\ \A i \in 1..n : i # col =>
          Dot(g[i], q, n) = Less(Dot(e[Other(i, col, pivot)], q, n), f[i], Dot(g[col], q, n))

LEMMA StepOfDot ==
    ASSUME NEW n \in Nat \ {0}, NEW col \in 1..n, NEW pivot \in 1..n,
           NEW by \in Numbers, NEW f \in [1..n -> Numbers],
           NEW e \in Mat(Numbers, n, n), NEW g \in Mat(Numbers, n, n), NEW q \in [1..n -> Numbers],
           StepOf(g, e, n, col, pivot, by, f)
    PROVE  DotStep(g, e, q, n, col, pivot, by, f)
<1>0. \A m \in Mat(Numbers, n, n), i \in 1..n : m[i] \in [1..n -> Numbers]
  BY DEF Mat
<1>1. Dot(g[col], q, n) = Mul(Dot(e[pivot], q, n), by)
  <2> DEFINE old == e[pivot]
             then == g[col]
  <2>1. old \in [1..n -> Numbers] /\ IsScaled(then, old, by, n)
    BY <1>0 DEF StepOf, IsScaled
  <2> HIDE DEF old, then
  <2>2. n \in Nat
    OBVIOUS
  <2>3. Dot(then, q, n) = Mul(Dot(old, q, n), by)
    BY <2>1, <2>2, DotOfScaled
  <2> QED BY <2>3 DEF old, then
<1>2. ASSUME NEW i \in 1..n, i # col
      PROVE  Dot(g[i], q, n) = Less(Dot(e[Other(i, col, pivot)], q, n), f[i], Dot(g[col], q, n))
  <2> DEFINE old == e[Other(i, col, pivot)]
             then == g[i]
             taken == g[col]
             times == f[i]
  <2>1. Other(i, col, pivot) \in 1..n
    BY DEF Other
  <2>2. old \in [1..n -> Numbers] /\ taken \in [1..n -> Numbers] /\ times \in Numbers
    BY <1>0, <2>1
  <2>3. IsLess(then, old, times, taken, n)
    BY <1>2 DEF StepOf, IsLess
  <2> HIDE DEF old, then, taken, times
  <2>4. n \in Nat
    OBVIOUS
  <2>5. Dot(then, q, n) = Less(Dot(old, q, n), times, Dot(taken, q, n))
    BY <2>2, <2>3, <2>4, DotOfLess
  <2> QED BY <2>5 DEF old, then, taken, times
<1> QED BY <1>1, <1>2 DEF DotStep

\* The system b u = d y.
System(b, d, u, y, n) == \A i \in 1..n : Dot(b[i], u, n) = Dot(d[i], y, n)

\* A step loses no solution: what solves the system after it solved it before.
LEMMA StepLosesNothing ==
    ASSUME NEW n \in Nat \ {0}, NEW col \in 1..n, NEW pivot \in 1..n,
           NEW by \in Numbers, by # 0, NEW f \in [1..n -> Numbers],
           NEW a \in Mat(Numbers, n, n), NEW b \in Mat(Numbers, n, n),
           NEW c \in Mat(Numbers, n, n), NEW d \in Mat(Numbers, n, n),
           StepOf(b, a, n, col, pivot, by, f), StepOf(d, c, n, col, pivot, by, f),
           NEW u \in [1..n -> Numbers], NEW y \in [1..n -> Numbers],
           System(b, d, u, y, n)
    PROVE  System(a, c, u, y, n)
<1>1. \A e \in Mat(Numbers, n, n), i \in 1..n : e[i] \in [1..n -> Numbers]
  BY DEF Mat
<1>2. \A e \in Mat(Numbers, n, n), i \in 1..n, q \in [1..n -> Numbers] : Dot(e[i], q, n) \in Numbers
  <2> SUFFICES ASSUME NEW e \in Mat(Numbers, n, n), NEW i \in 1..n, NEW q \in [1..n -> Numbers]
               PROVE  Dot(e[i], q, n) \in Numbers
    OBVIOUS
  <2> DEFINE row == e[i]
  <2>1. row \in [1..n -> Numbers]
    BY <1>1
  <2> HIDE DEF row
  <2>2. PICK s : IsSum(s, row, q, n)
    BY <2>1, SumExists
  <2>3. Dot(row, q, n) \in Numbers
    BY <2>2, DotIsSum
  <2> QED BY <2>3 DEF row
<1>3. DotStep(b, a, u, n, col, pivot, by, f) /\ DotStep(d, c, y, n, col, pivot, by, f)
  BY StepOfDot
<1>4. ASSUME NEW i \in 1..n
      PROVE  Dot(a[Other(i, col, pivot)], u, n) = Dot(c[Other(i, col, pivot)], y, n)
  <2> DEFINE o == Other(i, col, pivot)
             p == Dot(a[o], u, n)
             q == Dot(c[o], y, n)
             z == Dot(b[col], u, n)
  <2>1. o \in 1..n
    BY DEF Other
  <2>2. p \in Numbers /\ q \in Numbers /\ z \in Numbers /\ z = Dot(d[col], y, n)
    BY <1>2, <2>1 DEF System
  <2>3. CASE i = col
    <3>1. o = pivot
      BY <2>3 DEF Other
    <3>2. z = Mul(p, by) /\ Dot(d[col], y, n) = Mul(q, by)
      BY <1>3, <3>1 DEF DotStep
    <3> HIDE DEF p, q, z, o
    <3>3. p = q
      BY <2>2, <3>2, MulCancels
    <3> QED BY <3>3 DEF p, q, o
  <2>4. CASE i # col
    <3> DEFINE k == f[i]
    <3>1. Dot(b[i], u, n) = Less(p, k, z) /\ Dot(d[i], y, n) = Less(q, k, z)
      BY <1>3, <2>2, <2>4 DEF DotStep
    <3>2. Dot(b[i], u, n) = Dot(d[i], y, n) /\ k \in Numbers
      BY DEF System
    <3> HIDE DEF p, q, z, o, k
    <3>3. Add(p, Neg(Mul(k, z))) = Add(q, Neg(Mul(k, z))) /\ Neg(Mul(k, z)) \in Numbers
      BY <2>2, <3>1, <3>2, NumberArithmetic DEF Less
    <3>4. p = q
      BY <2>2, <3>3, AddCancels
    <3> QED BY <3>4 DEF p, q, o
  <2> QED BY <2>3, <2>4
<1>5. \A i \in 1..n : Other(i, col, pivot) \in 1..n /\ Other(Other(i, col, pivot), col, pivot) = i
  BY DEF Other
<1> QED BY <1>4, <1>5 DEF System
\* A step turns one more column into one of the identity.
LEMMA StepMakesUnit ==
    ASSUME NEW n \in Nat \ {0}, NEW a \in Mat(Numbers, n, n), NEW b, NEW col \in 1..n,
           NEW pivot \in col..n, a[pivot][col] # 0,
           NEW by \in Numbers, by = Inv(a[pivot][col]),
           NEW f \in [1..n -> Numbers], \A i \in 1..n : f[i] = a[Other(i, col, pivot)][col],
           StepOf(b, a, n, col, pivot, by, f), UnitColumns(a, col - 1, n)
    PROVE  UnitColumns(b, col, n)
<1>1. \A i, j \in 1..n : a[i][j] \in Numbers
  BY DEF Mat
<1>2. \A i \in 1..n : Other(i, col, pivot) \in 1..n
  BY DEF Other
<1>3. \A j \in 1..n : b[col][j] = Mul(a[pivot][j], by)
  BY DEF StepOf
<1>4. \A i, j \in 1..n : i # col => b[i][j] = Less(a[Other(i, col, pivot)][j], f[i], b[col][j])
  BY DEF StepOf
<1>5. ASSUME NEW j \in 1..(col - 1), NEW i \in 1..n PROVE b[i][j] = IF i = j THEN 1 ELSE 0
  <2>1. j \in 1..n /\ j # col /\ pivot # j /\ pivot \in 1..n
    OBVIOUS
  <2>2. a[pivot][j] = 0
    BY <2>1 DEF UnitColumns
  <2>3. b[col][j] = 0
    BY <1>3, <2>1, <2>2, Units
  <2>4. CASE i = col
    BY <2>1, <2>3, <2>4
  <2>5. CASE i # col
    <3> DEFINE o == Other(i, col, pivot)
               c == a[o][j]
               k == f[i]
    <3>1. o \in 1..n /\ (o = j <=> i = j)
      BY <2>1, <2>5 DEF Other
    <3>2. c = IF i = j THEN 1 ELSE 0
      BY <3>1 DEF UnitColumns
    <3>3. b[i][j] = Less(c, k, 0) /\ c \in Numbers /\ k \in Numbers
      BY <1>1, <1>4, <2>1, <2>3, <2>5, <3>1
    <3> HIDE DEF c, k, o
    <3>4. Less(c, k, 0) = c
      <4>1. Mul(k, 0) = 0 /\ Add(0, 0) = 0 /\ Add(c, 0) = c /\ 0 \in Numbers
        BY <3>3, Units, NumbersAreInt
      <4>2. Neg(0) = 0
        BY <4>1, OneNegative
      <4> QED BY <4>1, <4>2 DEF Less
    <3> QED BY <3>2, <3>3, <3>4
  <2> QED BY <2>4, <2>5
<1>6. ASSUME NEW i \in 1..n PROVE b[i][col] = IF i = col THEN 1 ELSE 0
  <2>1. b[col][col] = 1
    <3> DEFINE c == a[pivot][col]
    <3>1. c \in Numbers /\ c # 0 /\ by = Inv(c) /\ b[col][col] = Mul(c, by)
      BY <1>1, <1>3
    <3> HIDE DEF c
    <3> QED BY <3>1, Inverses
  <2>2. CASE i # col
    <3> DEFINE c == a[Other(i, col, pivot)][col]
    <3>1. c \in Numbers /\ b[i][col] = Less(c, c, 1)
      BY <1>1, <1>2, <1>4, <2>1, <2>2
    <3> HIDE DEF c
    <3>2. Mul(c, 1) = c /\ Add(c, Neg(c)) = 0
      BY <3>1, Units, Negatives
    <3> QED BY <2>2, <3>1, <3>2 DEF Less
  <2> QED BY <2>1, <2>2
<1> QED BY <1>5, <1>6 DEF UnitColumns

-----------------------------------------------------------------------------
(* The inversion *)

\* What solves the system a u = c y solves s u = y.
Solves(a, c, s, n) ==
    \A u, y \in [1..n -> Numbers] :
        System(a, c, u, y, n) => \A i \in 1..n : Dot(s[i], u, n) = y[i]

\* A vector that is not 0 is taken to 0.
Kernel(s, n) ==
    \E u \in [1..n -> Numbers] : /\ \E k \in 1..n : u[k] # 0
                                 /\ \A i \in 1..n : Dot(s[i], u, n) = 0

Halfway(w, s, k, n) ==
    IF w.regular THEN UnitColumns(w.a, k, n) /\ Solves(w.a, w.out, s, n) ELSE Kernel(s, n)

LEMMA SolvesFirst ==
    ASSUME NEW n \in Nat \ {0}, NEW s \in Mat(Numbers, n, n)
    PROVE  Solves(s, Identity(n), s, n)
<1> DEFINE c == Identity(n)
<1>1. \A i \in 1..n : c[i] \in [1..n -> Numbers] /\ IsUnit(c[i], i, n)
  BY NumbersAreInt DEF Identity, Matrix, IsUnit
<1> HIDE DEF c
<1>2. ASSUME NEW y \in [1..n -> Numbers], NEW i \in 1..n PROVE Dot(c[i], y, n) = y[i]
  <2> DEFINE one == c[i]
  <2>1. one \in [1..n -> Numbers] /\ IsUnit(one, i, n) /\ n \in Nat
    BY <1>1
  <2> HIDE DEF one
  <2>2. Dot(one, y, n) = y[i]
    BY <2>1, DotOfUnit
  <2> QED BY <2>2 DEF one
<1> QED BY <1>2 DEF Solves, System, c

LEMMA SingularHasKernel ==
    ASSUME NEW n \in Nat \ {0}, NEW a \in Mat(Numbers, n, n), NEW col \in 1..n,
           UnitColumns(a, col - 1, n), \A i \in col..n : a[i][col] = 0
    PROVE  Kernel(a, n)
<1> DEFINE u == [k \in 1..n |-> IF k < col THEN Neg(a[k][col]) ELSE IF k = col THEN 1 ELSE 0]
<1>1. \A i, j \in 1..n : a[i][j] \in Numbers
  BY DEF Mat
<1>2. u \in [1..n -> Numbers]
  BY <1>1, Negatives, NumbersAreInt
<1>3. u[col] # 0
  OBVIOUS
<1>4. ASSUME NEW i \in 1..n, i < col PROVE Dot(a[i], u, n) = 0
  <2> DEFINE row == a[i]
             c == a[i][col]
             d == Neg(c)
             s == [k \in 0..n |-> IF k < i THEN 0 ELSE IF k < col THEN d ELSE 0]
  <2>1. c \in Numbers /\ d \in Numbers /\ 0 \in Numbers
    BY <1>1, Negatives, NumbersAreInt
  <2>2. s \in [0..n -> Numbers] /\ s[0] = 0 /\ s[n] = 0
    <3> HIDE DEF c, d
    <3> QED BY <1>4, <2>1
  <2>3. \A k \in 1..n : Mul(row[k], u[k]) = IF k = i THEN d ELSE IF k = col THEN c ELSE 0
    <3> TAKE k \in 1..n
    <3>1. CASE k < col
      <4>1. row[k] = IF i = k THEN 1 ELSE 0
        BY <3>1 DEF UnitColumns
      <4>2. u[k] = Neg(a[k][col]) /\ u[k] \in Numbers
        BY <1>2, <3>1
      <4>3. Mul(1, u[k]) = u[k] /\ Mul(0, u[k]) = 0
        BY <4>2, Units
      <4> HIDE DEF u
      <4> QED BY <3>1, <4>1, <4>2, <4>3
    <3>2. CASE k = col
      <4>1. row[k] = c /\ u[k] = 1 /\ k # i
        BY <1>4, <3>2
      <4> HIDE DEF c, row, u
      <4> QED BY <2>1, <3>2, <4>1, Units
    <3>3. CASE k > col
      <4>1. u[k] = 0 /\ row[k] \in Numbers /\ k # i /\ k # col
        BY <1>1, <1>4, <3>3
      <4> HIDE DEF row, u
      <4> QED BY <3>3, <4>1, Units
    <3> QED BY <3>1, <3>2, <3>3
  <2> HIDE DEF row, c, u
  <2>4. Add(0, 0) = 0 /\ Add(0, d) = d /\ Add(d, 0) = d /\ Add(d, c) = 0
    <3>1. Add(c, d) = 0
      BY <2>1, Negatives
    <3> HIDE DEF d
    <3> QED BY <2>1, <3>1, Units, AddCommutes
  <2> HIDE DEF d
  <2>5. ASSUME NEW k \in 1..n PROVE s[k] = Add(s[k - 1], Mul(row[k], u[k]))
    <3>1. /\ s[k] = (IF k < i THEN 0 ELSE IF k < col THEN d ELSE 0)
          /\ s[k - 1] = (IF k - 1 < i THEN 0 ELSE IF k - 1 < col THEN d ELSE 0)
      OBVIOUS
    <3>2. Mul(row[k], u[k]) = IF k = i THEN d ELSE IF k = col THEN c ELSE 0
      BY <2>3
    <3> HIDE DEF s
    <3>3. CASE k < i
      BY <1>4, <2>4, <3>1, <3>2, <3>3
    <3>4. CASE k = i
      BY <1>4, <2>4, <3>1, <3>2, <3>4
    <3>5. CASE i < k /\ k < col
      BY <1>4, <2>4, <3>1, <3>2, <3>5
    <3>6. CASE k = col
      BY <1>4, <2>4, <3>1, <3>2, <3>6
    <3>7. CASE col < k
      BY <1>4, <2>4, <3>1, <3>2, <3>7
    <3> QED BY <1>4, <3>3, <3>4, <3>5, <3>6, <3>7
  <2> HIDE DEF s
  <2>6. IsSum(s, row, u, n)
    BY <2>2, <2>5 DEF IsSum
  <2>7. Dot(row, u, n) = 0
    BY <2>2, <2>6, DotIsSum
  <2> QED BY <2>7 DEF row
<1>5. ASSUME NEW i \in 1..n, ~(i < col) PROVE Dot(a[i], u, n) = 0
  <2> DEFINE row == a[i]
  <2>1. \A k \in 1..n : Mul(row[k], u[k]) = 0
    <3> TAKE k \in 1..n
    <3>1. u[k] \in Numbers /\ row[k] \in Numbers
      BY <1>1, <1>2
    <3>2. k < col => row[k] = 0
      BY <1>5 DEF UnitColumns
    <3>3. k = col => row[k] = 0
      BY <1>5
    <3>4. k > col => u[k] = 0
      OBVIOUS
    <3> HIDE DEF row, u
    <3> QED BY <3>1, <3>2, <3>3, <3>4, Units
  <2> HIDE DEF row, u
  <2>2. n \in Nat
    OBVIOUS
  <2>3. Dot(row, u, n) = 0
    BY <2>1, <2>2, DotOfZeros
  <2> QED BY <2>3 DEF row
<1> HIDE DEF u
<1> QED BY <1>2, <1>3, <1>4, <1>5 DEF Kernel

LEMMA HalfwayKeeps ==
    ASSUME NEW n \in Nat \ {0}, NEW s \in Mat(Numbers, n, n), NEW w \in Working(Numbers, n),
           NEW col \in 1..n, w.regular, Halfway(w, s, col - 1, n)
    PROVE  Halfway(Eliminate(w, col), s, col, n)
<1> DEFINE pivot == Pivot(w.a, col)
           e == Eliminate(w, col)
<1>1. w.a \in Mat(Numbers, n, n) /\ w.out \in Mat(Numbers, n, n)
  BY DEF Working
<1>2. /\ pivot \in col..n /\ pivot \in 1..n
      /\ w.a[pivot][col] = 0 => \A i \in col..n : w.a[i][col] = 0
  BY <1>1, PivotIsGreatest
<1>3. UnitColumns(w.a, col - 1, n) /\ Solves(w.a, w.out, s, n)
  BY DEF Halfway
<1>4. CASE w.a[pivot][col] = 0
  <2>1. e = [w EXCEPT !.regular = FALSE]
    BY <1>4 DEF Eliminate
  <2>2. ~e.regular
    BY <2>1 DEF Working
  <2>3. Kernel(w.a, n)
    BY <1>1, <1>2, <1>3, <1>4, SingularHasKernel
  <2>4. PICK u \in [1..n -> Numbers] : /\ \E k \in 1..n : u[k] # 0
                                       /\ \A i \in 1..n : Dot(w.a[i], u, n) = 0
    BY <2>3 DEF Kernel
  <2> DEFINE zero == [i \in 1..n |-> 0]
  <2>5. zero \in [1..n -> Numbers] /\ \A i \in 1..n : zero[i] = 0
    BY NumbersAreInt
  <2> HIDE DEF zero, e
  <2>6. ASSUME NEW i \in 1..n PROVE Dot(w.out[i], zero, n) = 0
    <3> DEFINE row == w.out[i]
    <3>1. \A k \in 1..n : row[k] \in Numbers
      BY <1>1 DEF Mat
    <3> HIDE DEF row
    <3>2. \A k \in 1..n : Mul(row[k], zero[k]) = 0
      BY <2>5, <3>1, Units
    <3>3. Dot(row, zero, n) = 0
      BY <3>2, DotOfZeros
    <3> QED BY <3>3 DEF row
  <2>7. \A i \in 1..n : Dot(s[i], u, n) = zero[i]
    BY <1>3, <2>4, <2>5, <2>6 DEF Solves, System
  <2>8. Kernel(s, n)
    BY <2>4, <2>5, <2>7 DEF Kernel
  <2> QED BY <2>2, <2>8 DEF Halfway, e
<1>5. CASE w.a[pivot][col] # 0
  <2> HIDE DEF pivot
  <2>1. PICK by \in Numbers, f \in [1..n -> Numbers] :
              /\ by = Inv(w.a[pivot][col])
              /\ \A i \in 1..n : f[i] = w.a[Other(i, col, pivot)][col]
              /\ StepOf(e.a, w.a, n, col, pivot, by, f)
              /\ StepOf(e.out, w.out, n, col, pivot, by, f)
              /\ e.regular = w.regular
    <3>1. pivot = Pivot(w.a, col)
      BY DEF pivot
    <3>2. IsStep(e, w, n, col, pivot)
      BY <1>5, <3>1, EliminateIsStep
    <3> HIDE DEF e
    <3> QED BY <3>2 DEF IsStep
  <2>2. e \in Working(Numbers, n)
    BY NumbersClosed, EliminateIsClosed DEF Doubles
  <2> HIDE DEF e
  <2>3. e.a \in Mat(Numbers, n, n) /\ e.out \in Mat(Numbers, n, n)
    BY <2>2 DEF Working
  <2>4. by # 0
    <3> DEFINE c == w.a[pivot][col]
    <3>1. c \in Numbers /\ c # 0 /\ by = Inv(c)
      BY <1>1, <1>2, <1>5, <2>1 DEF Mat
    <3> HIDE DEF c
    <3>2. Mul(c, by) = 1 /\ Mul(c, 0) = 0
      BY <3>1, Inverses, Units
    <3> QED BY <3>2
  <2>5. UnitColumns(e.a, col, n)
    BY <1>1, <1>2, <1>3, <1>5, <2>1, StepMakesUnit
  <2>6. Solves(e.a, e.out, s, n)
    <3> SUFFICES ASSUME NEW u \in [1..n -> Numbers], NEW y \in [1..n -> Numbers],
                        System(e.a, e.out, u, y, n)
                 PROVE  \A i \in 1..n : Dot(s[i], u, n) = y[i]
      BY DEF Solves
    <3>1. /\ StepOf(e.a, w.a, n, col, pivot, by, f) /\ StepOf(e.out, w.out, n, col, pivot, by, f)
          /\ pivot \in 1..n
      BY <1>2, <2>1
    <3>2. System(w.a, w.out, u, y, n)
      BY <1>1, <2>3, <2>4, <3>1, StepLosesNothing
    <3> QED BY <1>3, <3>2 DEF Solves
  <2>7. e.regular
    BY <2>1
  <2> QED BY <2>5, <2>6, <2>7 DEF Halfway, e
<1> QED BY <1>4, <1>5
\* Where all columns are those of the identity, the solution has been found.
LEMMA SolvedIsInverse ==
    ASSUME NEW n \in Nat \ {0}, NEW s \in Mat(Numbers, n, n), NEW a \in Mat(Numbers, n, n),
           NEW c \in Mat(Numbers, n, n), UnitColumns(a, n, n), Solves(a, c, s, n)
    PROVE  matmul(s, c) = Identity(n)
<1>1. ASSUME NEW i \in 1..n, NEW j \in 1..n PROVE Entry(s, c, i, j) = IF i = j THEN 1 ELSE 0
  <2> DEFINE u == [k \in 1..n |-> c[k][j]]
             y == [k \in 1..n |-> IF k = j THEN 1 ELSE 0]
             row == s[i]
  <2>0. u \in [1..n -> Numbers] /\ y \in [1..n -> Numbers]
    BY NumbersAreInt DEF Mat
  <2>1. u \in [1..n -> Numbers] /\ row \in [1..n -> Numbers] /\ \A k \in 1..n : u[k] = c[k][j]
    BY <2>0 DEF Mat
  <2>2. IsUnit(y, j, n) /\ y[i] = IF i = j THEN 1 ELSE 0
    BY DEF IsUnit
  <2> HIDE DEF u, y
  <2>3. ASSUME NEW k \in 1..n PROVE Dot(a[k], u, n) = Dot(c[k], y, n)
    <3> DEFINE p == a[k]
               q == c[k]
    <3>1. p \in [1..n -> Numbers] /\ q \in [1..n -> Numbers] /\ IsUnit(p, k, n) /\ n \in Nat
      BY DEF Mat, UnitColumns, IsUnit
    <3>2. q[j] = u[k]
      BY <2>1
    <3> HIDE DEF p, q
    <3>3. Dot(p, u, n) = u[k]
      BY <2>0, <3>1, UnitRow
    <3>4. Dot(q, y, n) = q[j]
      BY <2>0, <2>2, <3>1, UnitVector
    <3> QED BY <3>2, <3>3, <3>4 DEF p, q
  <2>4. System(a, c, u, y, n)
    BY <2>3 DEF System
  <2>5. Dot(row, u, n) = y[i]
    BY <2>0, <2>4 DEF Solves
  <2>6. Meet(Numbers, s, c, i, j, n) /\ \A k \in 1..n : s[i][k] = row[k] /\ c[k][j] = u[k]
    <3>1. Len(row) = n
      BY <2>1, RowSize
    <3> QED BY <2>1, <3>1 DEF Meet, Mat
  <2> HIDE DEF row
  <2>7. Entry(s, c, i, j) = Dot(row, u, n)
    <3>1. n \in Nat /\ u \in [1..n -> Numbers] /\ row \in [1..n -> Numbers]
      BY <2>1 DEF row
    <3> QED BY <2>6, <3>1, EntryIsDot
  <2> QED BY <2>2, <2>5, <2>7
<1>2. Rows(s) = 1..n /\ Cols(c) = 1..n
  BY MatrixSize
<1>3. matmul(s, c) = [i \in 1..n |-> [j \in 1..n |-> Entry(s, c, i, j)]]
  BY <1>2 DEF matmul
<1>4. Identity(n) = [i \in 1..n |-> [j \in 1..n |-> IF i = j THEN 1 ELSE 0]]
  BY DEF Identity, Matrix
<1> QED BY <1>1, <1>3, <1>4

LEMMA KernelIsSingular ==
    ASSUME NEW n \in Nat \ {0}, NEW s \in Mat(Numbers, n, n), Kernel(s, n)
    PROVE  Singular(s)
<1> DEFINE zero == [i \in 1..n |-> [j \in 1..1 |-> 0]]
<1>1. PICK u \in [1..n -> Numbers] : /\ \E k \in 1..n : u[k] # 0
                                     /\ \A i \in 1..n : Dot(s[i], u, n) = 0
  BY DEF Kernel
<1> DEFINE c == [i \in 1..n |-> [j \in 1..1 |-> u[i]]]
<1>2. c \in [1..n -> [1..1 -> Numbers]] /\ \A k \in 1..n : c[k][1] = u[k]
  OBVIOUS
<1>3. Rows(s) = 1..n
  BY MatrixSize
<1>4. c # zero
  <2>1. PICK k \in 1..n : u[k] # 0
    BY <1>1
  <2>2. c[k][1] # zero[k][1]
    BY <2>1
  <2> QED BY <2>2
<1>5. ASSUME NEW i \in 1..n PROVE Entry(s, c, i, 1) = 0
  <2> DEFINE row == s[i]
  <2>1. row \in [1..n -> Numbers] /\ n \in Nat
    BY DEF Mat
  <2>2. Len(row) = n
    BY <2>1, RowSize
  <2>3. Meet(Numbers, s, c, i, 1, n) /\ \A k \in 1..n : s[i][k] = row[k] /\ c[k][1] = u[k]
    BY <1>2, <2>1, <2>2 DEF Meet
  <2> HIDE DEF row, c
  <2>4. Entry(s, c, i, 1) = Dot(row, u, n)
    BY <2>1, <2>3, EntryIsDot
  <2>5. Dot(row, u, n) = 0
    BY <1>1 DEF row
  <2> QED BY <2>4, <2>5
<1>6. matmul(s, c) = zero
  <2>1. Cols(c) = 1..1
    BY DEF Cols
  <2> HIDE DEF c
  <2>2. matmul(s, c) = [i \in 1..n |-> [j \in 1..1 |-> Entry(s, c, i, j)]]
    BY <1>3, <2>1 DEF matmul
  <2>3. \A i \in 1..n : \A j \in 1..1 : Entry(s, c, i, j) = 0
    BY <1>5
  <2> QED BY <2>2, <2>3
<1> HIDE DEF c
<1> QED BY <1>2, <1>3, <1>4, <1>6 DEF Singular

\* invert, for a matrix of numbers of any size.
LEMMA InversionIsRight ==
    ASSUME NEW n \in Nat \ {0}, NEW s \in Mat(Numbers, n, n)
    PROVE  IF invert(s).regular THEN matmul(s, invert(s).out) = Identity(n) ELSE Singular(s)
<1>1. PICK w : /\ invert(s) = w[n]
               /\ w[0] = [a |-> s, out |-> Identity(n), regular |-> TRUE]
               /\ \A k \in 1..n : w[k] = IF w[k - 1].regular THEN Eliminate(w[k - 1], k)
                                         ELSE w[k - 1]
               /\ \A k \in 0..n : w[k] \in Working(Numbers, n)
  <2>1. Numbers \subseteq Doubles
    BY DEF Doubles
  <2> QED BY <2>1, NumbersClosed, InvertSteps
<1> DEFINE T == {k \in 0..n : Halfway(w[k], s, k, n)}
<1>2. 0 \in T
  <2>1. Solves(s, Identity(n), s, n)
    BY SolvesFirst
  <2>2. UnitColumns(s, 0, n)
    BY DEF UnitColumns
  <2> DEFINE w0 == w[0]
  <2>3. w0.regular /\ w0.a = s /\ w0.out = Identity(n)
    BY <1>1
  <2> HIDE DEF w0
  <2>4. Halfway(w0, s, 0, n)
    BY <2>1, <2>2, <2>3 DEF Halfway
  <2> QED BY <2>4 DEF w0
<1>3. ASSUME NEW k \in 0..(n - 1), k \in T PROVE k + 1 \in T
  <2>1. k + 1 \in 1..n /\ k \in 0..n /\ k + 1 \in 0..n /\ (k + 1) - 1 = k
    OBVIOUS
  <2>2. w[k + 1] = IF w[k].regular THEN Eliminate(w[k], k + 1) ELSE w[k]
    BY <1>1, <2>1
  <2>3. Halfway(w[k], s, k, n) /\ w[k] \in Working(Numbers, n)
    BY <1>1, <1>3
  <2>4. CASE w[k].regular
    <3> DEFINE before == w[k]
               col == k + 1
    <3>1. before \in Working(Numbers, n) /\ before.regular /\ Halfway(before, s, col - 1, n) /\ col \in 1..n
      BY <2>1, <2>3, <2>4
    <3> HIDE DEF before, col
    <3>2. Halfway(Eliminate(before, col), s, col, n)
      BY <3>1, HalfwayKeeps
    <3>3. Halfway(w[k + 1], s, k + 1, n)
      BY <2>2, <2>4, <3>2 DEF before, col
    <3> QED BY <2>1, <3>3
  <2>5. CASE ~w[k].regular
    <3>1. w[k + 1] = w[k]
      BY <2>2, <2>5
    <3>2. Halfway(w[k + 1], s, k + 1, n)
      BY <2>3, <2>5, <3>1 DEF Halfway
    <3> QED BY <2>1, <3>2
  <2> QED BY <2>4, <2>5
<1>4. \A k \in 0..n : k \in T
  <2> HIDE DEF T
  <2>1. n \in Nat
    OBVIOUS
  <2> QED BY <1>2, <1>3, <2>1, UpToInduction
<1> DEFINE done == w[n]
<1>5. Halfway(done, s, n, n) /\ done \in Working(Numbers, n) /\ invert(s) = done
  <2>1. n \in 0..n
    OBVIOUS
  <2> QED BY <1>1, <1>4, <2>1
<1> HIDE DEF done
<1>6. CASE done.regular
  <2>1. /\ UnitColumns(done.a, n, n) /\ Solves(done.a, done.out, s, n)
        /\ done.a \in Mat(Numbers, n, n) /\ done.out \in Mat(Numbers, n, n)
    BY <1>5, <1>6 DEF Halfway, Working
  <2>2. matmul(s, done.out) = Identity(n)
    BY <2>1, SolvedIsInverse
  <2> QED BY <1>5, <1>6, <2>2
<1>7. CASE ~done.regular
  <2>1. Singular(s)
    BY <1>5, <1>7, KernelIsSingular DEF Halfway
  <2> QED BY <1>5, <1>7, <2>1
<1> QED BY <1>6, <1>7

-----------------------------------------------------------------------------
(* What the filter has inverted *)

\* S_inv is what invert made of S, and S is what invert refused.
InvertedInv ==
    /\ pc = "gain" => /\ S \in Mat(Doubles, problem.m, problem.m)
                      /\ invert(S).regular /\ S_inv = invert(S).out
    /\ fault = "singular" => /\ problem.m \in Nat \ {0}
                             /\ S \in Mat(Doubles, problem.m, problem.m)
                             /\ ~invert(S).regular

LEMMA InvertedInitially == Init => InvertedInv
BY DEF Init, InvertedInv

LEMMA InnovateInverts == KalmanInv /\ Innovate => InvertedInv'
<1> SUFFICES ASSUME KalmanInv, Innovate PROVE InvertedInv'
  OBVIOUS
<1> DEFINE n == problem.n
           m == problem.m
           D == Born(overflows)
           square == Product(problem.H, P_pred, transpose(problem.H))
           w == invert(S')
<1>1. pc = "innovate" /\ problem' = problem /\ S' = Plus(square, problem.R)
  BY DEF Innovate
<1>2. Given(problem) /\ Over(D)
  BY <1>1 DEF KalmanInv
<1>3. n \in Nat \ {0} /\ m \in Nat \ {0}
  BY <1>2 DEF Given
<1>4. Closed(D) /\ Numbers \subseteq D /\ D \subseteq Doubles
  BY BornIsClosed
<1>5. problem.H \in Mat(D, m, n) /\ problem.R \in Mat(D, m, m)
  BY <1>2, <1>4, WiderMatrix, Zenon DEF Given
<1>6. P_pred \in Mat(D, n, n)
  BY <1>1, <1>2 DEF Over
<1> HIDE DEF n, m, D
<1>7. square \in Mat(D, m, m)
  BY <1>3, <1>4, <1>5, <1>6, SquareIsClosed
<1> HIDE DEF square
<1>8. S' \in Mat(D, m, m)
  BY <1>1, <1>3, <1>4, <1>5, <1>7, SumIsClosed
<1>9. S' \in Mat(Doubles, problem'.m, problem'.m) /\ problem'.m \in Nat \ {0}
  BY <1>1, <1>3, <1>4, <1>8, WiderMatrix DEF m
<1>10. IF w.regular THEN S_inv' = w.out /\ pc' = "gain" /\ fault' = fault
       ELSE pc' = "done" /\ fault' = "singular"
  BY DEF Innovate, Refuse
<1>11. fault = "none"
  BY <1>1 DEF KalmanInv
<1> QED BY <1>9, <1>10, <1>11 DEF InvertedInv

LEMMA InvertedKept == KalmanInv /\ InvertedInv /\ [Next]_vars => InvertedInv'
<1> SUFFICES ASSUME KalmanInv, InvertedInv, [Next]_vars PROVE InvertedInv'
  OBVIOUS
<1>1. CASE Validate
  <2>1. pc' \in {"predict", "done"} /\ fault' \in {fault, Refusal(problem)} /\ pc = "validate"
    BY <1>1 DEF Validate, Refuse
  <2>2. fault = "none" /\ Refusal(problem) # "singular"
    BY <2>1, RefusalCases DEF KalmanInv, RuleNames
  <2> QED BY <2>1, <2>2 DEF InvertedInv
<1>2. CASE Predict
  BY <1>2 DEF Predict, KalmanInv, InvertedInv
<1>3. CASE Innovate
  BY <1>3, InnovateInverts
<1>4. CASE GainAndUpdate
  BY <1>4 DEF GainAndUpdate, KalmanInv, InvertedInv
<1>5. CASE Check
  BY <1>5 DEF Check, Refuse, KalmanInv, InvertedInv
<1>6. CASE UNCHANGED vars
  BY <1>6 DEF vars, working, InvertedInv
<1> QED BY <1>1, <1>2, <1>3, <1>4, <1>5, <1>6 DEF Next

\* What the inversion answers is the inverse, whatever the size of S and however its rows
\* have to be exchanged, and what it refuses takes a vector that is not zero to zero
\* (invert, run_kalman_filter).
THEOREM InverseIsInverseHolds == Spec => []InverseIsInverse
<1>1. KalmanInv /\ InvertedInv => InverseIsInverse
  <2> SUFFICES ASSUME KalmanInv, InvertedInv PROVE InverseIsInverse
    OBVIOUS
  <2>1. ASSUME NEW m \in Nat \ {0}, S \in Mat(Doubles, m, m), Finite(S)
        PROVE  S \in Mat(Numbers, m, m)
    <3>1. Rows(S) = 1..m /\ Cols(S) = 1..m
      BY <2>1, MatrixSize
    <3>2. \A i, j \in 1..m : S[i][j] \in Numbers
      BY <2>1, <3>1 DEF Finite, Mat, Doubles
    <3> QED BY <2>1, <3>2 DEF Mat
  <2>2. ASSUME pc = "gain", Finite(S) PROVE matmul(S, S_inv) = Identity(problem.m)
    <3>1. problem.m \in Nat \ {0}
      BY <2>2 DEF KalmanInv, Given
    <3>2. S \in Mat(Numbers, problem.m, problem.m)
      BY <2>1, <2>2, <3>1 DEF InvertedInv
    <3>3. invert(S).regular /\ S_inv = invert(S).out
      BY <2>2 DEF InvertedInv
    <3> QED BY <3>1, <3>2, <3>3, InversionIsRight
  <2>3. ASSUME fault = "singular", Finite(S) PROVE Singular(S)
    <3>1. /\ problem.m \in Nat \ {0} /\ S \in Mat(Doubles, problem.m, problem.m)
          /\ ~invert(S).regular
      BY <2>3 DEF InvertedInv
    <3>2. S \in Mat(Numbers, problem.m, problem.m)
      BY <2>1, <2>3, <3>1
    <3> QED BY <3>1, <3>2, InversionIsRight
  <2> QED BY <2>2, <2>3 DEF InverseIsInverse
<1>2. Spec => []InvertedInv
  BY InvertedInitially, InvertedKept, KalmanInvariant, PTL DEF Spec
<1> QED BY <1>1, <1>2, KalmanInvariant, PTL

-----------------------------------------------------------------------------
(* Sums of products *)

\* Added to a row, a multiple of another.
More(row, f, taken, n) == [k \in 1..n |-> Add(row[k], Mul(f, taken[k]))]

LEMMA MoreIsLess ==
    \A a, f, b \in Numbers : Less(a, Neg(f), b) = Add(a, Mul(f, b))
<1> TAKE a, f, b \in Numbers
<1> DEFINE fb == Mul(f, b)
           nf == Neg(f)
           e == Neg(fb)
<1>1. fb \in Numbers /\ nf \in Numbers
  BY NumberArithmetic, Negatives
<1>2. Mul(nf, b) = e
  BY NegativeOfProduct
<1>3. e \in Numbers /\ Neg(e) = fb
  <2> HIDE DEF fb
  <2>1. e \in Numbers /\ Add(fb, e) = 0
    BY <1>1, Negatives
  <2>2. Add(e, fb) = 0
    <3> HIDE DEF e
    <3> QED BY <1>1, <2>1, AddCommutes
  <2> HIDE DEF e
  <2>3. fb = Neg(e)
    BY <1>1, <2>1, <2>2, OneNegative
  <2> QED BY <2>1, <2>3
<1>4. Less(a, nf, b) = Add(a, Neg(Mul(nf, b)))
  BY Zenon DEF Less
<1> QED BY <1>2, <1>3, <1>4, Zenon

LEMMA DotOfMore ==
    ASSUME NEW n \in Nat, NEW row \in [1..n -> Numbers], NEW taken \in [1..n -> Numbers],
           NEW u \in [1..n -> Numbers], NEW f \in Numbers
    PROVE  /\ More(row, f, taken, n) \in [1..n -> Numbers]
           /\ Dot(More(row, f, taken, n), u, n) = Add(Dot(row, u, n), Mul(f, Dot(taken, u, n)))
<1> DEFINE new == More(row, f, taken, n)
           g == Neg(f)
           d == Dot(row, u, n)
           e == Dot(taken, u, n)
<1>1. new \in [1..n -> Numbers]
  BY NumberArithmetic DEF More
<1>2. g \in Numbers
  BY Negatives
<1>3. IsLess(new, row, g, taken, n)
  <2> SUFFICES ASSUME NEW k \in 1..n PROVE new[k] = Less(row[k], g, taken[k])
    BY DEF IsLess
  <2> DEFINE rk == row[k]
             tk == taken[k]
  <2>1. rk \in Numbers /\ tk \in Numbers /\ new[k] = Add(rk, Mul(f, tk))
    BY DEF More
  <2> HIDE DEF rk, tk, new
  <2>2. Less(rk, g, tk) = Add(rk, Mul(f, tk))
    BY <2>1, MoreIsLess
  <2> QED BY <2>1, <2>2 DEF rk, tk
<1>4. d \in Numbers /\ e \in Numbers
  BY SumExists, DotIsSum
<1> HIDE DEF new, g
<1>5. Dot(new, u, n) = Less(d, g, e)
  BY <1>2, <1>3, DotOfLess
<1> HIDE DEF d, e
<1>6. Less(d, g, e) = Add(d, Mul(f, e))
  BY <1>4, MoreIsLess DEF g
<1> QED BY <1>1, <1>5, <1>6 DEF new, d, e

LEMMA DotIsNumber ==
    ASSUME NEW n \in Nat, NEW row \in [1..n -> Numbers], NEW u \in [1..n -> Numbers]
    PROVE  Dot(row, u, n) \in Numbers
BY SumExists, DotIsSum

LEMMA DotCommutes ==
    ASSUME NEW n \in Nat, NEW row \in [1..n -> Numbers], NEW u \in [1..n -> Numbers]
    PROVE  Dot(row, u, n) = Dot(u, row, n)
<1>1. PICK s : IsSum(s, row, u, n)
  BY SumExists
<1>2. \A k \in 1..n : Mul(row[k], u[k]) = Mul(u[k], row[k])
  BY MulCommutes
<1>3. IsSum(s, u, row, n)
  BY <1>1, <1>2 DEF IsSum
<1> QED BY <1>1, <1>3, DotIsSum

\* The sum of two vectors.
IsAdded(new, row, other, n) == \A k \in 1..n : new[k] = Add(row[k], other[k])

LEMMA DotOfSum ==
    ASSUME NEW n \in Nat, NEW row \in [1..n -> Numbers], NEW other \in [1..n -> Numbers],
           NEW u \in [1..n -> Numbers], NEW new, IsAdded(new, row, other, n)
    PROVE  Dot(new, u, n) = Add(Dot(row, u, n), Dot(other, u, n))
<1>1. PICK s : IsSum(s, row, u, n)
  BY SumExists
<1>2. PICK r : IsSum(r, other, u, n)
  BY SumExists
<1> DEFINE t == [k \in 0..n |-> Add(s[k], r[k])]
<1>3. s \in [0..n -> Numbers] /\ r \in [0..n -> Numbers] /\ s[0] = 0 /\ r[0] = 0
  BY <1>1, <1>2 DEF IsSum
<1>4. t \in [0..n -> Numbers]
  BY <1>3, NumberArithmetic
<1>5. t[0] = 0
  <2>1. t[0] = Add(0, 0)
    BY <1>3
  <2> HIDE DEF t
  <2> QED BY <2>1, NumbersAreInt, Units
<1>6. ASSUME NEW k \in 1..n PROVE t[k] = Add(t[k - 1], Mul(new[k], u[k]))
  <2>1. k \in 0..n /\ k - 1 \in 0..n
    OBVIOUS
  <2>2. s[k] = Add(s[k - 1], Mul(row[k], u[k])) /\ r[k] = Add(r[k - 1], Mul(other[k], u[k]))
    BY <1>1, <1>2 DEF IsSum
  <2> DEFINE a == s[k - 1]
             b == r[k - 1]
             c == Mul(row[k], u[k])
             d == Mul(other[k], u[k])
  <2>3. a \in Numbers /\ b \in Numbers /\ c \in Numbers /\ d \in Numbers
    BY <1>3, <2>1, NumberArithmetic
  <2>4. t[k] = Add(Add(a, c), Add(b, d)) /\ t[k - 1] = Add(a, b)
    BY <2>1, <2>2
  <2>5. Mul(new[k], u[k]) = Add(c, d)
    BY MulDistributes DEF IsAdded
  <2> HIDE DEF a, b, c, d, t
  <2>6. Add(Add(a, b), Add(c, d)) = Add(Add(a, c), Add(b, d))
    BY <2>3, Interchange
  <2> QED BY <2>4, <2>5, <2>6
<1> HIDE DEF t
<1>7. IsSum(t, new, u, n)
  BY <1>4, <1>5, <1>6 DEF IsSum
<1>8. t[n] = Add(s[n], r[n])
  BY DEF t
<1> QED BY <1>1, <1>2, <1>7, <1>8, DotIsSum

\* A row times a matrix, and that times a vector, is the row times what the matrix makes
\* of the vector.
IsRowTimes(left, row, b, n, m) ==
    left = [l \in 1..m |-> Dot(row, [k \in 1..n |-> b[k][l]], n)]
IsTimesVector(right, b, u, n, m) == right = [k \in 1..n |-> Dot(b[k], u, m)]

Vectors(n) == [1..n -> Numbers]

LEMMA DotOfDots ==
    ASSUME NEW n \in Nat, NEW m \in Nat, NEW row \in Vectors(n),
           NEW b \in Mat(Numbers, n, m), NEW u \in Vectors(m),
           NEW left, IsRowTimes(left, row, b, n, m), NEW right, IsTimesVector(right, b, u, n, m)
    PROVE  Dot(left, u, m) = Dot(row, right, n)
<1>0. /\ left = [l \in 1..m |-> Dot(row, [k \in 1..n |-> b[k][l]], n)]
      /\ right = [k \in 1..n |-> Dot(b[k], u, m)]
  BY DEF IsRowTimes, IsTimesVector
<1>00. /\ row \in [1..n -> Numbers] /\ u \in [1..m -> Numbers]
       /\ b \in [1..n -> [1..m -> Numbers]]
  BY DEF Vectors, Mat
<1> DEFINE column(l) == [k \in 1..n |-> b[k][l]]
           s == [l \in 1..m |-> CHOOSE f : IsSum(f, row, column(l), n)]
           at(p) == [l \in 1..m |-> s[l][p]]
           t == [p \in 0..n |-> Dot(at(p), u, m)]
<1>1. ASSUME NEW l \in 1..m
      PROVE  IsSum(s[l], row, column(l), n) /\ column(l) \in [1..n -> Numbers]
  <2> DEFINE c == column(l)
  <2>1. c \in [1..n -> Numbers]
    BY <1>00
  <2>2. s[l] = CHOOSE f : IsSum(f, row, c, n)
    OBVIOUS
  <2> HIDE DEF c, s
  <2>3. \E f : IsSum(f, row, c, n)
    BY <1>00, <2>1, SumExists
  <2>4. IsSum(s[l], row, c, n)
    BY <2>2, <2>3
  <2> QED BY <2>1, <2>4 DEF c
<1> HIDE DEF s
<1>2. ASSUME NEW p \in 0..n PROVE at(p) \in [1..m -> Numbers]
  <2>1. \A l \in 1..m : s[l][p] \in Numbers
    BY <1>1 DEF IsSum
  <2> QED BY <2>1
<1>3. t \in [0..n -> Numbers]
  <2>1. \A p \in 0..n : Dot(at(p), u, m) \in Numbers
    <3> HIDE DEF at
    <3> QED BY <1>00, <1>2, DotIsNumber
  <2> QED BY <2>1
<1>4. t[0] = 0
  <2>1. t[0] = Dot(at(0), u, m)
    OBVIOUS
  <2> HIDE DEF t
  <2>2. \A l \in 1..m : at(0)[l] = 0
    BY <1>1 DEF IsSum
  <2> DEFINE z == at(0)
  <2> HIDE DEF at
  <2>3. \A l \in 1..m : Mul(z[l], u[l]) = 0
    BY <1>00, <2>2, Units
  <2>4. Dot(z, u, m) = 0
    <3> HIDE DEF z
    <3> QED BY <2>3, DotOfZeros
  <2> QED BY <2>1, <2>4
<1>5. ASSUME NEW p \in 1..n PROVE t[p] = Add(t[p - 1], Mul(row[p], right[p]))
  <2>1. p \in 0..n /\ p - 1 \in 0..n
    OBVIOUS
  <2> DEFINE before == at(p - 1)
             after == at(p)
             f == row[p]
             taken == b[p]
  <2>2. before \in [1..m -> Numbers] /\ after \in [1..m -> Numbers]
    BY <1>2, <2>1
  <2>3. f \in Numbers /\ taken \in [1..m -> Numbers]
    BY <1>00
  <2>4. \A l \in 1..m : after[l] = Add(before[l], Mul(f, taken[l]))
    <3> TAKE l \in 1..m
    <3>1. s[l][p] = Add(s[l][p - 1], Mul(row[p], column(l)[p]))
      BY <1>1 DEF IsSum
    <3> QED BY <3>1
  <2>5. t[p] = Dot(after, u, m) /\ t[p - 1] = Dot(before, u, m) /\ right[p] = Dot(taken, u, m)
    BY <1>0, <2>1
  <2> HIDE DEF before, after, f, taken, t
  <2>6. after = More(before, f, taken, m)
    BY <2>2, <2>4 DEF More
  <2>7. Dot(after, u, m) = Add(Dot(before, u, m), Mul(f, Dot(taken, u, m)))
    <3>1. Dot(More(before, f, taken, m), u, m) = Add(Dot(before, u, m), Mul(f, Dot(taken, u, m)))
      BY <1>00, <2>2, <2>3, DotOfMore
    <3> QED BY <2>6, <3>1
  <2> QED BY <2>5, <2>7 DEF f
<1>6. t[n] = Dot(left, u, m)
  <2>1. n \in 0..n
    OBVIOUS
  <2>2. ASSUME NEW l \in 1..m PROVE at(n)[l] = left[l]
    <3> DEFINE c == column(l)
               sl == s[l]
    <3>1. at(n)[l] = sl[n] /\ left[l] = Dot(row, c, n)
      BY <1>0
    <3>2. IsSum(sl, row, c, n)
      BY <1>1
    <3> HIDE DEF c, sl, at
    <3> QED BY <3>1, <3>2, DotIsSum
  <2>3. at(n) = left
    BY <1>0, <2>2
  <2>4. t[n] = Dot(at(n), u, m)
    BY <2>1
  <2> HIDE DEF t, at
  <2> QED BY <2>3, <2>4
<1> HIDE DEF t
<1>7. IsSum(t, row, right, n)
  BY <1>3, <1>4, <1>5 DEF IsSum
<1> QED BY <1>6, <1>7, DotIsSum

-----------------------------------------------------------------------------
(* The algebra of matrices of numbers *)

Column(b, j, n) == [k \in 1..n |-> b[k][j]]
Agree(a, b, r, c) == \A i \in 1..r : \A j \in 1..c : a[i][j] = b[i][j]

LEMMA AgreeingMatrices ==
    ASSUME NEW D, NEW r, NEW c, NEW a \in Mat(D, r, c), NEW b \in Mat(D, r, c), Agree(a, b, r, c)
    PROVE  a = b
<1>1. ASSUME NEW i \in 1..r PROVE a[i] = b[i]
  <2> DEFINE p == a[i]
             q == b[i]
  <2>1. p \in [1..c -> D] /\ q \in [1..c -> D] /\ \A j \in 1..c : p[j] = q[j]
    BY DEF Mat, Agree
  <2> HIDE DEF p, q
  <2>2. p = [j \in 1..c |-> p[j]] /\ q = [j \in 1..c |-> q[j]]
    BY <2>1
  <2>3. p = q
    BY <2>1, <2>2
  <2> QED BY <2>3 DEF p, q
<1>2. a = [i \in 1..r |-> a[i]] /\ b = [i \in 1..r |-> b[i]]
  BY DEF Mat
<1> QED BY <1>1, <1>2

LEMMA RowOf ==
    ASSUME NEW r, NEW c, NEW a \in Mat(Numbers, r, c), NEW i \in 1..r
    PROVE  a[i] \in [1..c -> Numbers]
BY DEF Mat

LEMMA ColumnOf ==
    ASSUME NEW r, NEW c, NEW a \in Mat(Numbers, r, c), NEW j \in 1..c
    PROVE  Column(a, j, r) \in [1..r -> Numbers] /\ \A k \in 1..r : Column(a, j, r)[k] = a[k][j]
BY DEF Mat, Column

LEMMA EntryOf ==
    ASSUME NEW r, NEW c, NEW a \in Mat(Numbers, r, c), NEW i \in 1..r, NEW j \in 1..c
    PROVE  a[i][j] \in Numbers
BY DEF Mat

LEMMA ProductOf ==
    ASSUME NEW r \in Nat \ {0}, NEW n \in Nat \ {0}, NEW c \in Nat \ {0},
           NEW a \in Mat(Numbers, r, n), NEW b \in Mat(Numbers, n, c)
    PROVE  matmul(a, b) \in Mat(Numbers, r, c)
BY NumbersClosed, ProductIsClosed

\* A row of a and a column of b, as vectors of numbers.
Meeting(a, b, i, j, n, row, u) ==
    Meet(Numbers, a, b, i, j, n) /\ \A k \in 1..n : a[i][k] = row[k] /\ b[k][j] = u[k]

LEMMA EntryIsProduct ==
    ASSUME NEW n \in Nat, NEW a, NEW b, NEW i, NEW j, NEW row \in Vectors(n), NEW u \in Vectors(n),
           Meeting(a, b, i, j, n, row, u)
    PROVE  Entry(a, b, i, j) = Dot(row, u, n)
BY EntryIsDot DEF Meeting, Vectors

LEMMA ProductEntry ==
    ASSUME NEW r \in Nat \ {0}, NEW n \in Nat \ {0}, NEW c \in Nat \ {0},
           NEW a \in Mat(Numbers, r, n), NEW b \in Mat(Numbers, n, c),
           NEW i \in 1..r, NEW j \in 1..c
    PROVE  matmul(a, b)[i][j] = Dot(a[i], Column(b, j, n), n)
<1> DEFINE row == a[i]
           u == [k \in 1..n |-> b[k][j]]
<1>1. row \in [1..n -> Numbers] /\ u \in [1..n -> Numbers] /\ n \in Nat
  BY DEF Mat
<1>2. \A k \in 1..n : b[k][j] = u[k]
  OBVIOUS
<1>3. Len(row) = n
  BY <1>1, RowSize
<1>4. Meet(Numbers, a, b, i, j, n) /\ \A k \in 1..n : a[i][k] = row[k] /\ b[k][j] = u[k]
  BY <1>1, <1>2, <1>3 DEF Meet
<1>5. Rows(a) = 1..r /\ Cols(b) = 1..c
  BY MatrixSize
<1>6. matmul(a, b)[i][j] = Entry(a, b, i, j)
  <2>1. matmul(a, b) = [i1 \in 1..r |-> [j1 \in 1..c |-> Entry(a, b, i1, j1)]]
    BY <1>5, Zenon DEF matmul
  <2> QED BY <2>1
<1> HIDE DEF row, u
<1>7. Entry(a, b, i, j) = Dot(row, u, n)
  <2>1. row \in Vectors(n) /\ u \in Vectors(n)
    BY <1>1 DEF Vectors
  <2>2. Meeting(a, b, i, j, n, row, u)
    BY <1>4 DEF Meeting
  <2> QED BY <1>1, <2>1, <2>2, EntryIsProduct
<1>8. u = Column(b, j, n)
  BY DEF u, Column
<1> QED BY <1>6, <1>7, <1>8 DEF row

LEMMA ProductAssociates ==
    ASSUME NEW r \in Nat \ {0}, NEW n \in Nat \ {0}, NEW m \in Nat \ {0}, NEW c \in Nat \ {0},
           NEW a \in Mat(Numbers, r, n), NEW b \in Mat(Numbers, n, m), NEW d \in Mat(Numbers, m, c)
    PROVE  matmul(matmul(a, b), d) = matmul(a, matmul(b, d))
<1> DEFINE ab == matmul(a, b)
           bd == matmul(b, d)
           left == matmul(ab, d)
           right == matmul(a, bd)
<1>1. ab \in Mat(Numbers, r, m) /\ bd \in Mat(Numbers, n, c)
  BY ProductOf
<1>2. left \in Mat(Numbers, r, c) /\ right \in Mat(Numbers, r, c)
  <2> HIDE DEF ab, bd
  <2> QED BY <1>1, ProductOf
<1>3. ASSUME NEW i \in 1..r, NEW j \in 1..c PROVE left[i][j] = right[i][j]
  <2> DEFINE row == a[i]
             u == [l \in 1..m |-> d[l][j]]
             p == ab[i]
             q == [k \in 1..n |-> bd[k][j]]
  <2>1. row \in [1..n -> Numbers] /\ u \in [1..m -> Numbers] /\ b \in [1..n -> [1..m -> Numbers]]
    BY DEF Mat
  <2>2. p \in [1..m -> Numbers] /\ q \in [1..n -> Numbers]
    <3> HIDE DEF ab, bd
    <3> QED BY <1>1 DEF Mat
  <2>0. u = Column(d, j, m) /\ q = Column(bd, j, n)
    BY DEF Column
  <2>3. p = [l \in 1..m |-> Dot(row, [k \in 1..n |-> b[k][l]], n)]
    <3>1. \A l \in 1..m : p[l] = Dot(row, Column(b, l, n), n)
      BY ProductEntry
    <3>2. \A l \in 1..m : p[l] = Dot(row, [k \in 1..n |-> b[k][l]], n)
      BY <3>1 DEF Column
    <3> HIDE DEF p, row
    <3> QED BY <2>2, <3>2
  <2>4. q = [k \in 1..n |-> Dot(b[k], u, m)]
    <3>1. \A k \in 1..n : q[k] = bd[k][j]
      OBVIOUS
    <3>2. \A k \in 1..n : bd[k][j] = Dot(b[k], Column(d, j, m), m)
      BY ProductEntry
    <3> HIDE DEF q, bd, u
    <3> QED BY <2>0, <2>2, <3>1, <3>2
  <2>5. left[i][j] = Dot(p, u, m)
    <3> HIDE DEF ab, u
    <3> QED BY <1>1, <2>0, ProductEntry
  <2>6. right[i][j] = Dot(row, q, n)
    <3> HIDE DEF bd, q
    <3> QED BY <1>1, <2>0, ProductEntry
  <2> HIDE DEF p, q, row, u, left, right
  <2>7. Dot(p, u, m) = Dot(row, q, n)
    <3>1. n \in Nat /\ m \in Nat
      OBVIOUS
    <3>2. IsRowTimes(p, row, b, n, m) /\ IsTimesVector(q, b, u, n, m)
      BY <2>3, <2>4, Zenon DEF IsRowTimes, IsTimesVector
    <3>3. row \in Vectors(n) /\ u \in Vectors(m)
      BY <2>1 DEF Vectors
    <3> QED BY <3>1, <3>2, <3>3, DotOfDots
  <2> QED BY <2>5, <2>6, <2>7
<1>4. Agree(left, right, r, c)
  BY <1>3 DEF Agree
<1> HIDE DEF left, right
<1>5. left = right
  BY <1>2, <1>4, AgreeingMatrices
<1> QED BY <1>5 DEF left, right, ab, bd

LEMMA SumOf ==
    ASSUME NEW r \in Nat \ {0}, NEW c \in Nat \ {0},
           NEW a \in Mat(Numbers, r, c), NEW b \in Mat(Numbers, r, c)
    PROVE  Plus(a, b) \in Mat(Numbers, r, c) /\ Minus(a, b) \in Mat(Numbers, r, c)
BY NumbersClosed, SumIsClosed

LEMMA SumEntry ==
    ASSUME NEW r \in Nat \ {0}, NEW c \in Nat \ {0},
           NEW a \in Mat(Numbers, r, c), NEW b \in Mat(Numbers, r, c),
           NEW i \in 1..r, NEW j \in 1..c
    PROVE  /\ Plus(a, b)[i][j] = Add(a[i][j], b[i][j])
           /\ Minus(a, b)[i][j] = Add(a[i][j], Neg(b[i][j]))
<1>1. Rows(a) = 1..r /\ Cols(a) = 1..c
  BY MatrixSize
<1>2. /\ Plus(a, b) = [i1 \in 1..r |-> [j1 \in 1..c |-> Add(a[i1][j1], b[i1][j1])]]
      /\ Minus(a, b) = [i1 \in 1..r |-> [j1 \in 1..c |-> Add(a[i1][j1], Neg(b[i1][j1]))]]
  BY <1>1, Zenon DEF Plus, Minus
<1> QED BY <1>2

LEMMA SumCommutes ==
    ASSUME NEW r \in Nat \ {0}, NEW c \in Nat \ {0},
           NEW a \in Mat(Numbers, r, c), NEW b \in Mat(Numbers, r, c)
    PROVE  Plus(a, b) = Plus(b, a)
<1> DEFINE left == Plus(a, b)
           right == Plus(b, a)
<1>1. left \in Mat(Numbers, r, c) /\ right \in Mat(Numbers, r, c)
  BY SumOf
<1>2. ASSUME NEW i \in 1..r, NEW j \in 1..c PROVE left[i][j] = right[i][j]
  BY SumEntry, EntryOf, AddCommutes
<1>3. Agree(left, right, r, c)
  BY <1>2 DEF Agree
<1> HIDE DEF left, right
<1>4. left = right
  BY <1>1, <1>3, AgreeingMatrices
<1> QED BY <1>4 DEF left, right

LEMMA SumAssociates ==
    ASSUME NEW r \in Nat \ {0}, NEW c \in Nat \ {0},
           NEW a \in Mat(Numbers, r, c), NEW b \in Mat(Numbers, r, c), NEW d \in Mat(Numbers, r, c)
    PROVE  Plus(Plus(a, b), d) = Plus(a, Plus(b, d))
<1> DEFINE ab == Plus(a, b)
           bd == Plus(b, d)
           left == Plus(ab, d)
           right == Plus(a, bd)
<1>1. ab \in Mat(Numbers, r, c) /\ bd \in Mat(Numbers, r, c)
  BY SumOf
<1>2. left \in Mat(Numbers, r, c) /\ right \in Mat(Numbers, r, c)
  <2> HIDE DEF ab, bd
  <2> QED BY <1>1, SumOf
<1>3. ASSUME NEW i \in 1..r, NEW j \in 1..c PROVE left[i][j] = right[i][j]
  <2> DEFINE p == a[i][j]
             q == b[i][j]
             s == d[i][j]
  <2>1. p \in Numbers /\ q \in Numbers /\ s \in Numbers
    BY EntryOf
  <2>2. ab[i][j] = Add(p, q) /\ bd[i][j] = Add(q, s)
    BY SumEntry
  <2>3. left[i][j] = Add(ab[i][j], s) /\ right[i][j] = Add(p, bd[i][j])
    <3> HIDE DEF ab, bd
    <3> QED BY <1>1, SumEntry
  <2> HIDE DEF p, q, s, left, right
  <2>4. Add(Add(p, q), s) = Add(p, Add(q, s))
    BY <2>1, AddAssociates
  <2> QED BY <2>2, <2>3, <2>4
<1>4. Agree(left, right, r, c)
  BY <1>3 DEF Agree
<1> HIDE DEF left, right
<1>5. left = right
  BY <1>2, <1>4, AgreeingMatrices
<1> QED BY <1>5 DEF left, right, ab, bd

LEMMA SumCancels ==
    ASSUME NEW r \in Nat \ {0}, NEW c \in Nat \ {0},
           NEW a \in Mat(Numbers, r, c), NEW b \in Mat(Numbers, r, c), NEW d \in Mat(Numbers, r, c),
           Plus(a, d) = Plus(b, d)
    PROVE  a = b
<1>1. ASSUME NEW i \in 1..r, NEW j \in 1..c PROVE a[i][j] = b[i][j]
  <2> DEFINE p == a[i][j]
             q == b[i][j]
             s == d[i][j]
  <2>1. p \in Numbers /\ q \in Numbers /\ s \in Numbers
    BY EntryOf
  <2>2. Plus(a, d)[i][j] = Add(p, s) /\ Plus(b, d)[i][j] = Add(q, s)
    BY SumEntry
  <2>3. Add(p, s) = Add(q, s)
    BY <2>2
  <2> HIDE DEF p, q, s
  <2>4. Add(s, p) = Add(s, q)
    BY <2>1, <2>3, AddCommutes
  <2>5. p = q
    BY <2>1, <2>3, <2>4, AddCancels
  <2> QED BY <2>5 DEF p, q
<1>2. Agree(a, b, r, c)
  BY <1>1 DEF Agree
<1> QED BY <1>2, AgreeingMatrices

LEMMA DifferenceAndSum ==
    ASSUME NEW r \in Nat \ {0}, NEW c \in Nat \ {0},
           NEW a \in Mat(Numbers, r, c), NEW b \in Mat(Numbers, r, c)
    PROVE  Plus(Minus(a, b), b) = a
<1> DEFINE ab == Minus(a, b)
           left == Plus(ab, b)
<1>1. ab \in Mat(Numbers, r, c)
  BY SumOf
<1>2. left \in Mat(Numbers, r, c)
  <2> HIDE DEF ab
  <2> QED BY <1>1, SumOf
<1>3. ASSUME NEW i \in 1..r, NEW j \in 1..c PROVE left[i][j] = a[i][j]
  <2> DEFINE p == a[i][j]
             q == b[i][j]
             e == Neg(q)
  <2>1. p \in Numbers /\ q \in Numbers
    BY EntryOf
  <2>2. ab[i][j] = Add(p, e)
    BY SumEntry
  <2>3. left[i][j] = Add(ab[i][j], q)
    <3> HIDE DEF ab
    <3> QED BY <1>1, SumEntry
  <2> HIDE DEF p, q, left
  <2>4. e \in Numbers /\ Add(q, e) = 0
    BY <2>1, Negatives
  <2> HIDE DEF e
  <2>5. Add(Add(p, e), q) = Add(p, Add(e, q)) /\ Add(e, q) = Add(q, e) /\ Add(p, 0) = p
    BY <2>1, <2>4, AddAssociates, AddCommutes, Units
  <2> QED BY <2>2, <2>3, <2>4, <2>5 DEF p
<1>4. Agree(left, a, r, c)
  BY <1>3 DEF Agree
<1> HIDE DEF left
<1>5. left = a
  BY <1>2, <1>4, AgreeingMatrices
<1> QED BY <1>5 DEF left, ab

LEMMA VectorsOf ==
    ASSUME NEW r, NEW c, NEW a \in Mat(Numbers, r, c)
    PROVE  /\ \A i \in 1..r : a[i] \in Vectors(c)
           /\ \A j \in 1..c : Column(a, j, r) \in Vectors(r)
BY DEF Mat, Column, Vectors

LEMMA VectorCommutes ==
    ASSUME NEW n \in Nat, NEW row \in Vectors(n), NEW u \in Vectors(n)
    PROVE  Dot(row, u, n) = Dot(u, row, n)
BY DotCommutes DEF Vectors

LEMMA VectorSum ==
    ASSUME NEW n \in Nat, NEW row \in Vectors(n), NEW other \in Vectors(n),
           NEW u \in Vectors(n), NEW new, IsAdded(new, row, other, n)
    PROVE  Dot(new, u, n) = Add(Dot(row, u, n), Dot(other, u, n))
BY DotOfSum DEF Vectors

LEMMA ProductOfSum ==
    ASSUME NEW r \in Nat \ {0}, NEW n \in Nat \ {0}, NEW c \in Nat \ {0},
           NEW a \in Mat(Numbers, r, n), NEW b \in Mat(Numbers, r, n), NEW d \in Mat(Numbers, n, c)
    PROVE  matmul(Plus(a, b), d) = Plus(matmul(a, d), matmul(b, d))
<1> DEFINE ab == Plus(a, b)
           ad == matmul(a, d)
           bd == matmul(b, d)
           left == matmul(ab, d)
           right == Plus(ad, bd)
<1>1. ab \in Mat(Numbers, r, n) /\ ad \in Mat(Numbers, r, c) /\ bd \in Mat(Numbers, r, c)
  BY ProductOf, SumOf
<1>2. left \in Mat(Numbers, r, c) /\ right \in Mat(Numbers, r, c)
  <2> HIDE DEF ab, ad, bd
  <2> QED BY <1>1, ProductOf, SumOf
<1>3. ASSUME NEW i \in 1..r, NEW j \in 1..c PROVE left[i][j] = right[i][j]
  <2> DEFINE p == a[i]
             q == b[i]
             s == ab[i]
             u == Column(d, j, n)
  <2>1. p \in Vectors(n) /\ q \in Vectors(n) /\ u \in Vectors(n) /\ n \in Nat
    BY VectorsOf
  <2>2. IsAdded(s, p, q, n)
    BY SumEntry DEF IsAdded
  <2>3. left[i][j] = Dot(s, u, n)
    <3> HIDE DEF ab
    <3> QED BY <1>1, ProductEntry
  <2>4. ad[i][j] = Dot(p, u, n) /\ bd[i][j] = Dot(q, u, n)
    BY ProductEntry
  <2>5. right[i][j] = Add(ad[i][j], bd[i][j])
    <3> HIDE DEF ad, bd
    <3> QED BY <1>1, SumEntry
  <2> HIDE DEF p, q, s, u, left, right
  <2>6. Dot(s, u, n) = Add(Dot(p, u, n), Dot(q, u, n))
    BY <2>1, <2>2, VectorSum
  <2> QED BY <2>3, <2>4, <2>5, <2>6
<1>4. Agree(left, right, r, c)
  BY <1>3 DEF Agree
<1> HIDE DEF left, right
<1>5. left = right
  BY <1>2, <1>4, AgreeingMatrices
<1> QED BY <1>5 DEF left, right, ab, ad, bd

LEMMA ProductWithSum ==
    ASSUME NEW r \in Nat \ {0}, NEW n \in Nat \ {0}, NEW c \in Nat \ {0},
           NEW d \in Mat(Numbers, r, n), NEW a \in Mat(Numbers, n, c), NEW b \in Mat(Numbers, n, c)
    PROVE  matmul(d, Plus(a, b)) = Plus(matmul(d, a), matmul(d, b))
<1> DEFINE ab == Plus(a, b)
           da == matmul(d, a)
           db == matmul(d, b)
           left == matmul(d, ab)
           right == Plus(da, db)
<1>1. ab \in Mat(Numbers, n, c) /\ da \in Mat(Numbers, r, c) /\ db \in Mat(Numbers, r, c)
  BY ProductOf, SumOf
<1>2. left \in Mat(Numbers, r, c) /\ right \in Mat(Numbers, r, c)
  <2> HIDE DEF ab, da, db
  <2> QED BY <1>1, ProductOf, SumOf
<1>3. ASSUME NEW i \in 1..r, NEW j \in 1..c PROVE left[i][j] = right[i][j]
  <2> DEFINE p == Column(a, j, n)
             q == Column(b, j, n)
             s == Column(ab, j, n)
             u == d[i]
  <2>1. p \in Vectors(n) /\ q \in Vectors(n) /\ u \in Vectors(n) /\ n \in Nat
    BY VectorsOf
  <2>0. s \in Vectors(n)
    <3> HIDE DEF ab
    <3> QED BY <1>1, VectorsOf
  <2>2. IsAdded(s, p, q, n)
    BY SumEntry DEF IsAdded, Column
  <2>3. left[i][j] = Dot(u, s, n)
    <3> HIDE DEF ab
    <3> QED BY <1>1, ProductEntry
  <2>4. da[i][j] = Dot(u, p, n) /\ db[i][j] = Dot(u, q, n)
    BY ProductEntry
  <2>5. right[i][j] = Add(da[i][j], db[i][j])
    <3> HIDE DEF da, db
    <3> QED BY <1>1, SumEntry
  <2> HIDE DEF p, q, s, u, left, right
  <2>6. Dot(s, u, n) = Add(Dot(p, u, n), Dot(q, u, n))
    BY <2>1, <2>2, VectorSum
  <2>7. Dot(u, s, n) = Dot(s, u, n) /\ Dot(u, p, n) = Dot(p, u, n) /\ Dot(u, q, n) = Dot(q, u, n)
    BY <2>0, <2>1, VectorCommutes
  <2> QED BY <2>3, <2>4, <2>5, <2>6, <2>7
<1>4. Agree(left, right, r, c)
  BY <1>3 DEF Agree
<1> HIDE DEF left, right
<1>5. left = right
  BY <1>2, <1>4, AgreeingMatrices
<1> QED BY <1>5 DEF left, right, ab, da, db

LEMMA TransposeOf ==
    ASSUME NEW r \in Nat \ {0}, NEW c \in Nat \ {0}, NEW a \in Mat(Numbers, r, c)
    PROVE  transpose(a) \in Mat(Numbers, c, r)
BY TransposeIsClosed

LEMMA TransposeEntry ==
    ASSUME NEW r \in Nat \ {0}, NEW c \in Nat \ {0}, NEW a \in Mat(Numbers, r, c),
           NEW i \in 1..r, NEW j \in 1..c
    PROVE  transpose(a)[j][i] = a[i][j]
<1>1. Rows(a) = 1..r /\ Cols(a) = 1..c
  BY MatrixSize
<1>2. transpose(a) = [j1 \in 1..c |-> [i1 \in 1..r |-> a[i1][j1]]]
  BY <1>1, Zenon DEF transpose
<1> QED BY <1>2

LEMMA TransposeTwice ==
    ASSUME NEW r \in Nat \ {0}, NEW c \in Nat \ {0}, NEW a \in Mat(Numbers, r, c)
    PROVE  transpose(transpose(a)) = a
<1> DEFINE t == transpose(a)
           left == transpose(t)
<1>1. t \in Mat(Numbers, c, r)
  BY TransposeOf
<1>2. left \in Mat(Numbers, r, c)
  <2> HIDE DEF t
  <2> QED BY <1>1, TransposeOf
<1>3. ASSUME NEW i \in 1..r, NEW j \in 1..c PROVE left[i][j] = a[i][j]
  <2>1. t[j][i] = a[i][j]
    BY TransposeEntry
  <2>2. left[i][j] = t[j][i]
    <3> HIDE DEF t
    <3> QED BY <1>1, TransposeEntry
  <2> QED BY <2>1, <2>2
<1>4. Agree(left, a, r, c)
  BY <1>3 DEF Agree
<1> HIDE DEF left
<1>5. left = a
  BY <1>2, <1>4, AgreeingMatrices
<1> QED BY <1>5 DEF left, t

LEMMA TransposeOfProduct ==
    ASSUME NEW r \in Nat \ {0}, NEW n \in Nat \ {0}, NEW c \in Nat \ {0},
           NEW a \in Mat(Numbers, r, n), NEW b \in Mat(Numbers, n, c)
    PROVE  transpose(matmul(a, b)) = matmul(transpose(b), transpose(a))
<1> DEFINE ab == matmul(a, b)
           at == transpose(a)
           bt == transpose(b)
           left == transpose(ab)
           right == matmul(bt, at)
<1>1. ab \in Mat(Numbers, r, c) /\ at \in Mat(Numbers, n, r) /\ bt \in Mat(Numbers, c, n)
  BY ProductOf, TransposeOf
<1>2. left \in Mat(Numbers, c, r) /\ right \in Mat(Numbers, c, r)
  <2> HIDE DEF ab, at, bt
  <2> QED BY <1>1, ProductOf, TransposeOf
<1>3. ASSUME NEW j \in 1..c, NEW i \in 1..r PROVE left[j][i] = right[j][i]
  <2> DEFINE p == a[i]
             u == Column(b, j, n)
             pt == Column(at, i, n)
             ut == bt[j]
  <2>1. p \in Vectors(n) /\ u \in Vectors(n) /\ n \in Nat
    BY VectorsOf
  <2>2. left[j][i] = ab[i][j]
    <3> HIDE DEF ab
    <3> QED BY <1>1, TransposeEntry
  <2>3. ab[i][j] = Dot(p, u, n)
    BY ProductEntry
  <2>4. right[j][i] = Dot(ut, pt, n)
    <3> HIDE DEF at, bt
    <3> QED BY <1>1, ProductEntry
  <2>5. pt = p
    <3>1. \A k \in 1..n : pt[k] = p[k]
      BY TransposeEntry DEF Column
    <3>2. pt \in Vectors(n)
      <4> HIDE DEF at
      <4> QED BY <1>1, VectorsOf
    <3> HIDE DEF p, pt
    <3> QED BY <2>1, <3>1, <3>2 DEF Vectors
  <2>6. ut = u
    <3>1. \A k \in 1..n : ut[k] = u[k]
      BY TransposeEntry DEF Column
    <3>2. ut \in Vectors(n)
      <4> HIDE DEF bt
      <4> QED BY <1>1, VectorsOf
    <3> HIDE DEF u, ut
    <3> QED BY <2>1, <3>1, <3>2 DEF Vectors
  <2> HIDE DEF p, u, pt, ut, left, right
  <2>7. Dot(p, u, n) = Dot(u, p, n)
    BY <2>1, VectorCommutes
  <2> QED BY <2>2, <2>3, <2>4, <2>5, <2>6, <2>7
<1>4. Agree(left, right, c, r)
  BY <1>3 DEF Agree
<1> HIDE DEF left, right
<1>5. left = right
  BY <1>2, <1>4, AgreeingMatrices
<1> QED BY <1>5 DEF left, right, ab, at, bt

LEMMA TransposeOfSum ==
    ASSUME NEW r \in Nat \ {0}, NEW c \in Nat \ {0},
           NEW a \in Mat(Numbers, r, c), NEW b \in Mat(Numbers, r, c)
    PROVE  transpose(Plus(a, b)) = Plus(transpose(a), transpose(b))
<1> DEFINE ab == Plus(a, b)
           at == transpose(a)
           bt == transpose(b)
           left == transpose(ab)
           right == Plus(at, bt)
<1>1. ab \in Mat(Numbers, r, c) /\ at \in Mat(Numbers, c, r) /\ bt \in Mat(Numbers, c, r)
  BY SumOf, TransposeOf
<1>2. left \in Mat(Numbers, c, r) /\ right \in Mat(Numbers, c, r)
  <2> HIDE DEF ab, at, bt
  <2> QED BY <1>1, SumOf, TransposeOf
<1>3. ASSUME NEW j \in 1..c, NEW i \in 1..r PROVE left[j][i] = right[j][i]
  <2>1. left[j][i] = ab[i][j]
    <3> HIDE DEF ab
    <3> QED BY <1>1, TransposeEntry
  <2>2. ab[i][j] = Add(a[i][j], b[i][j]) /\ at[j][i] = a[i][j] /\ bt[j][i] = b[i][j]
    BY SumEntry, TransposeEntry
  <2>3. right[j][i] = Add(at[j][i], bt[j][i])
    <3> HIDE DEF at, bt
    <3> QED BY <1>1, SumEntry
  <2> QED BY <2>1, <2>2, <2>3
<1>4. Agree(left, right, c, r)
  BY <1>3 DEF Agree
<1> HIDE DEF left, right
<1>5. left = right
  BY <1>2, <1>4, AgreeingMatrices
<1> QED BY <1>5 DEF left, right, ab, at, bt

LEMMA IdentityOf ==
    ASSUME NEW k \in Nat \ {0}
    PROVE  Identity(k) \in Mat(Numbers, k, k)
BY NumbersClosed, IdentityIsClosed

LEMMA IdentityEntry ==
    ASSUME NEW k \in Nat \ {0}, NEW i \in 1..k, NEW j \in 1..k
    PROVE  Identity(k)[i][j] = IF i = j THEN 1 ELSE 0
BY DEF Identity, Matrix

LEMMA UnitVectors ==
    ASSUME NEW n \in Nat, NEW i \in 1..n, NEW row \in Vectors(n), NEW u \in Vectors(n)
    PROVE  /\ IsUnit(row, i, n) => Dot(row, u, n) = u[i]
           /\ IsUnit(u, i, n) => Dot(row, u, n) = row[i]
BY UnitRow, UnitVector DEF Vectors

LEMMA IdentityTimes ==
    ASSUME NEW r \in Nat \ {0}, NEW c \in Nat \ {0}, NEW a \in Mat(Numbers, r, c)
    PROVE  matmul(Identity(r), a) = a /\ matmul(a, Identity(c)) = a
<1> DEFINE one == Identity(r)
           other == Identity(c)
           left == matmul(one, a)
           right == matmul(a, other)
<1>1. one \in Mat(Numbers, r, r) /\ other \in Mat(Numbers, c, c)
  BY IdentityOf
<1>2. left \in Mat(Numbers, r, c) /\ right \in Mat(Numbers, r, c)
  <2> HIDE DEF one, other
  <2> QED BY <1>1, ProductOf
<1>3. ASSUME NEW i \in 1..r, NEW j \in 1..c PROVE left[i][j] = a[i][j] /\ right[i][j] = a[i][j]
  <2> DEFINE p == one[i]
             u == Column(a, j, r)
             q == a[i]
             w == Column(other, j, c)
  <2>1. u \in Vectors(r) /\ q \in Vectors(c) /\ r \in Nat /\ c \in Nat
    BY VectorsOf
  <2>2. p \in Vectors(r) /\ w \in Vectors(c)
    <3> HIDE DEF one, other
    <3> QED BY <1>1, VectorsOf
  <2>3. IsUnit(p, i, r) /\ IsUnit(w, j, c)
    BY IdentityEntry DEF IsUnit, Column
  <2>4. left[i][j] = Dot(p, u, r) /\ right[i][j] = Dot(q, w, c)
    <3> HIDE DEF one, other
    <3> QED BY <1>1, ProductEntry
  <2>5. u[i] = a[i][j] /\ q[j] = a[i][j]
    BY DEF Column
  <2> HIDE DEF p, u, q, w, left, right
  <2>6. Dot(p, u, r) = u[i] /\ Dot(q, w, c) = q[j]
    BY <2>1, <2>2, <2>3, UnitVectors
  <2> QED BY <2>4, <2>5, <2>6
<1>4. Agree(left, a, r, c) /\ Agree(right, a, r, c)
  BY <1>3 DEF Agree
<1> HIDE DEF left, right
<1>5. left = a /\ right = a
  BY <1>2, <1>4, AgreeingMatrices
<1> QED BY <1>5 DEF left, right, one, other

-----------------------------------------------------------------------------
(* The update *)

LEMMA TransposeOfIdentity ==
    ASSUME NEW k \in Nat \ {0}
    PROVE  transpose(Identity(k)) = Identity(k)
<1> DEFINE one == Identity(k)
           t == transpose(one)
<1>1. one \in Mat(Numbers, k, k)
  BY IdentityOf
<1>2. t \in Mat(Numbers, k, k)
  <2> HIDE DEF one
  <2> QED BY <1>1, TransposeOf
<1>3. ASSUME NEW i \in 1..k, NEW j \in 1..k PROVE t[i][j] = one[i][j]
  <2>1. t[i][j] = one[j][i]
    <3> HIDE DEF one
    <3> QED BY <1>1, TransposeEntry
  <2> QED BY <2>1, IdentityEntry
<1>4. Agree(t, one, k, k)
  BY <1>3 DEF Agree
<1> HIDE DEF t, one
<1>5. t = one
  BY <1>1, <1>2, <1>4, AgreeingMatrices
<1> QED BY <1>5 DEF t, one

LEMMA SymmetricIsTransposed ==
    ASSUME NEW n \in Nat \ {0}, NEW a \in Mat(Numbers, n, n)
    PROVE  Symmetric(a) <=> transpose(a) = a
<1> DEFINE t == transpose(a)
<1>1. t \in Mat(Numbers, n, n)
  BY TransposeOf
<1>2. \A i, j \in 1..n : t[i][j] = a[j][i]
  BY TransposeEntry
<1>3. Rows(a) = 1..n /\ Cols(a) = 1..n
  BY MatrixSize
<1> HIDE DEF t
<1>4. ASSUME Symmetric(a) PROVE t = a
  <2>1. Agree(t, a, n, n)
    BY <1>2, <1>3, <1>4 DEF Agree, Symmetric
  <2> QED BY <1>1, <2>1, AgreeingMatrices
<1>5. ASSUME t = a PROVE Symmetric(a)
  BY <1>2, <1>3, <1>5 DEF Symmetric
<1> QED BY <1>4, <1>5 DEF t

\* What is symmetric on both sides.
LEMMA CongruenceIsSymmetric ==
    ASSUME NEW r \in Nat \ {0}, NEW n \in Nat \ {0},
           NEW a \in Mat(Numbers, r, n), NEW b \in Mat(Numbers, n, n), transpose(b) = b
    PROVE  LET c == Product(a, b, transpose(a))
           IN  c \in Mat(Numbers, r, r) /\ transpose(c) = c
<1> DEFINE at == transpose(a)
           ab == matmul(a, b)
           bat == matmul(b, at)
           c == matmul(ab, at)
<1>1. at \in Mat(Numbers, n, r) /\ ab \in Mat(Numbers, r, n)
  BY TransposeOf, ProductOf
<1>2. transpose(at) = a
  BY TransposeTwice
<1>3. transpose(ab) = bat
  BY TransposeOfProduct
<1>4. c = matmul(a, bat)
  <2> HIDE DEF at
  <2> QED BY <1>1, ProductAssociates
<1>5. transpose(c) = matmul(transpose(at), transpose(ab)) /\ c \in Mat(Numbers, r, r)
  <2> HIDE DEF at, ab
  <2> QED BY <1>1, TransposeOfProduct, ProductOf
<1>6. c = Product(a, b, transpose(a))
  BY DEF Product
<1> HIDE DEF c, at, ab, bat
<1> QED BY <1>2, <1>3, <1>4, <1>5, <1>6

\* A right inverse of a symmetric matrix is its inverse on the left too.
LEMMA SymmetricInverse ==
    ASSUME NEW m \in Nat \ {0}, NEW s \in Mat(Numbers, m, m), NEW inverse \in Mat(Numbers, m, m),
           transpose(s) = s, matmul(s, inverse) = Identity(m)
    PROVE  matmul(inverse, s) = Identity(m)
<1> DEFINE one == Identity(m)
           t == transpose(inverse)
<1>1. one \in Mat(Numbers, m, m) /\ t \in Mat(Numbers, m, m) /\ transpose(one) = one
  BY IdentityOf, TransposeOf, TransposeOfIdentity
<1>2. matmul(t, s) = one
  <2>1. transpose(matmul(s, inverse)) = matmul(t, transpose(s))
    BY TransposeOfProduct
  <2> QED BY <1>1, <2>1
<1> HIDE DEF t, one
<1>3. matmul(matmul(t, s), inverse) = matmul(t, matmul(s, inverse))
  BY <1>1, ProductAssociates
<1>4. matmul(one, inverse) = inverse /\ matmul(t, one) = t
  BY <1>1, IdentityTimes DEF one
<1>5. t = inverse
  BY <1>2, <1>3, <1>4 DEF one
<1> QED BY <1>2, <1>5 DEF one

\* Half of twice a number.
LEMMA MeanOfSame == \A a \in Numbers : Mean(a, a) = a
<1> DEFINE half == (Prime + 1) \div 2
<1>1. Prime \in Nat /\ Prime >= 3 /\ Prime % 2 # 0
  <2>1. 2 \in 2..(Prime - 1)
    BY PrimeIsPositive
  <2> QED BY <2>1, PrimeIsPositive, KalmanAssumption
<1>2. half \in Numbers /\ half + half = Prime + 1
  BY <1>1 DEF Numbers
<1> HIDE DEF half
<1>3. Add(half, half) = 1
  <2>1. Add(half, half) = (Prime + 1) % Prime
    BY <1>2, SumOfNumbers
  <2>2. (Prime + 1) % Prime = 1
    BY <1>1
  <2> QED BY <2>1, <2>2
<1> TAKE a \in Numbers
<1>4. Mean(a, a) = Mul(half, Add(a, a))
  BY Zenon DEF Mean, half
<1>5. Mul(half, Add(a, a)) = Add(Mul(half, a), Mul(half, a))
  <2>1. Add(a, a) \in Numbers
    BY NumberArithmetic
  <2>2. Mul(half, Add(a, a)) = Mul(Add(a, a), half) /\ Mul(half, a) = Mul(a, half)
    BY <1>2, <2>1, MulCommutes
  <2>3. Mul(Add(a, a), half) = Add(Mul(a, half), Mul(a, half))
    BY <1>2, MulDistributes
  <2> QED BY <2>2, <2>3
<1>6. Add(Mul(half, a), Mul(half, a)) = Mul(Add(half, half), a)
  BY <1>2, MulDistributes
<1>7. Mul(1, a) = a
  BY Units
<1> QED BY <1>3, <1>4, <1>5, <1>6, <1>7

\* What the gain is made of: h and its transpose, the covariance p of the prediction, the
\* noise, the covariance s of the innovation and its inverse.
Gaining(n, m, p, h, t, noise, s, inverse, gain) ==
    /\ n \in Nat \ {0} /\ m \in Nat \ {0}
    /\ p \in Mat(Numbers, n, n) /\ h \in Mat(Numbers, m, n) /\ noise \in Mat(Numbers, m, m)
    /\ s \in Mat(Numbers, m, m) /\ inverse \in Mat(Numbers, m, m)
    /\ t = transpose(h) /\ transpose(p) = p /\ transpose(noise) = noise
    /\ s = Plus(matmul(matmul(h, p), t), noise)
    /\ matmul(s, inverse) = Identity(m)
    /\ gain = matmul(matmul(p, t), inverse)

LEMMA GainBalances ==
    ASSUME NEW n, NEW m, NEW p, NEW h, NEW t, NEW noise, NEW s, NEW inverse, NEW gain,
           Gaining(n, m, p, h, t, noise, s, inverse, gain)
    PROVE  /\ t \in Mat(Numbers, n, m) /\ gain \in Mat(Numbers, n, m)
           /\ transpose(s) = s
           /\ matmul(gain, s) = matmul(p, t)
<1>1. /\ n \in Nat \ {0} /\ m \in Nat \ {0}
      /\ p \in Mat(Numbers, n, n) /\ h \in Mat(Numbers, m, n) /\ noise \in Mat(Numbers, m, m)
      /\ s \in Mat(Numbers, m, m) /\ inverse \in Mat(Numbers, m, m)
      /\ t = transpose(h) /\ transpose(p) = p /\ transpose(noise) = noise
  BY DEF Gaining
<1>2. /\ s = Plus(matmul(matmul(h, p), t), noise)
      /\ matmul(s, inverse) = Identity(m)
      /\ gain = matmul(matmul(p, t), inverse)
  BY DEF Gaining
<1> DEFINE one == Identity(m)
           pt == matmul(p, t)
           square == matmul(matmul(h, p), t)
<1>3. t \in Mat(Numbers, n, m)
  BY <1>1, TransposeOf
<1>4. pt \in Mat(Numbers, n, m)
  BY <1>1, <1>3, ProductOf
<1>5. gain \in Mat(Numbers, n, m)
  <2> HIDE DEF pt
  <2>1. matmul(pt, inverse) \in Mat(Numbers, n, m)
    BY <1>1, <1>4, ProductOf
  <2> QED BY <1>2, <2>1 DEF pt
<1>6. square \in Mat(Numbers, m, m) /\ transpose(square) = square
  <2>1. square = Product(h, p, transpose(h))
    BY <1>1 DEF Product
  <2> QED BY <1>1, <2>1, CongruenceIsSymmetric
<1> HIDE DEF square
<1>7. transpose(s) = s
  <2>1. transpose(Plus(square, noise)) = Plus(transpose(square), transpose(noise))
    BY <1>1, <1>6, TransposeOfSum
  <2> QED BY <1>1, <1>2, <1>6, <2>1 DEF square
<1>8. matmul(inverse, s) = one
  BY <1>1, <1>2, <1>7, SymmetricInverse
<1> HIDE DEF pt, one
<1>9. matmul(matmul(pt, inverse), s) = matmul(pt, matmul(inverse, s))
  BY <1>1, <1>4, ProductAssociates
<1>10. matmul(pt, one) = pt
  BY <1>1, <1>4, IdentityTimes DEF one
<1>11. matmul(gain, s) = pt
  BY <1>2, <1>8, <1>9, <1>10 DEF pt
<1> QED BY <1>3, <1>5, <1>7, <1>11 DEF pt

\* What the identity less the gain leaves of the covariance.
LEMMA ShortForm ==
    ASSUME NEW n, NEW m, NEW p, NEW h, NEW t, NEW noise, NEW s, NEW inverse, NEW gain,
           Gaining(n, m, p, h, t, noise, s, inverse, gain),
           NEW kh, kh = matmul(gain, h),
           NEW ikh, ikh = Minus(Identity(n), kh),
           NEW short, short = matmul(ikh, p)
    PROVE  /\ kh \in Mat(Numbers, n, n) /\ ikh \in Mat(Numbers, n, n) /\ short \in Mat(Numbers, n, n)
           /\ Plus(ikh, kh) = Identity(n)
           /\ Plus(short, matmul(gain, matmul(h, p))) = p
           /\ matmul(short, t) = matmul(gain, noise)
<1>1. /\ n \in Nat \ {0} /\ m \in Nat \ {0}
      /\ p \in Mat(Numbers, n, n) /\ h \in Mat(Numbers, m, n) /\ noise \in Mat(Numbers, m, m)
  BY DEF Gaining
<1>2. s = Plus(matmul(matmul(h, p), t), noise)
  BY DEF Gaining
<1>3. t \in Mat(Numbers, n, m) /\ gain \in Mat(Numbers, n, m) /\ matmul(gain, s) = matmul(p, t)
  BY GainBalances
<1> DEFINE one == Identity(n)
           hp == matmul(h, p)
           hpt == matmul(hp, t)
           taken == matmul(gain, hp)
           noisy == matmul(gain, noise)
           st == matmul(short, t)
           taken2 == matmul(gain, hpt)
<1>4. one \in Mat(Numbers, n, n) /\ kh \in Mat(Numbers, n, n)
  BY <1>1, <1>3, IdentityOf, ProductOf
<1>5. ikh \in Mat(Numbers, n, n) /\ Plus(ikh, kh) = one
  <2> HIDE DEF one
  <2> QED BY <1>1, <1>4, SumOf, DifferenceAndSum DEF one
<1>6. short \in Mat(Numbers, n, n) /\ hp \in Mat(Numbers, m, n)
  BY <1>1, <1>5, ProductOf
<1>7. taken \in Mat(Numbers, n, n) /\ hpt \in Mat(Numbers, m, m)
  <2> HIDE DEF hp
  <2> QED BY <1>1, <1>3, <1>6, ProductOf
<1>8. Plus(short, taken) = p
  <2>1. matmul(kh, p) = taken
    BY <1>1, <1>3, ProductAssociates
  <2> HIDE DEF one, taken
  <2>2. matmul(Plus(ikh, kh), p) = Plus(matmul(ikh, p), matmul(kh, p))
    BY <1>1, <1>4, <1>5, ProductOfSum
  <2>3. matmul(one, p) = p
    BY <1>1, IdentityTimes DEF one
  <2> QED BY <1>5, <2>1, <2>2, <2>3
<1>9. st = noisy
  <2>1. Plus(st, matmul(taken, t)) = matmul(p, t)
    <3> HIDE DEF taken
    <3>1. matmul(Plus(short, taken), t) = Plus(matmul(short, t), matmul(taken, t))
      BY <1>1, <1>3, <1>6, <1>7, ProductOfSum
    <3> QED BY <1>8, <3>1
  <2>2. matmul(taken, t) = taken2
    <3> HIDE DEF hp
    <3> QED BY <1>1, <1>3, <1>6, ProductAssociates
  <2>3. matmul(gain, s) = Plus(taken2, noisy)
    <3> HIDE DEF hpt
    <3>1. matmul(gain, Plus(hpt, noise)) = Plus(matmul(gain, hpt), matmul(gain, noise))
      BY <1>1, <1>3, <1>7, ProductWithSum
    <3>2. s = Plus(hpt, noise)
      BY <1>2 DEF hpt
    <3> QED BY <3>1, <3>2
  <2>4. st \in Mat(Numbers, n, m) /\ noisy \in Mat(Numbers, n, m) /\ taken2 \in Mat(Numbers, n, m)
    <3> HIDE DEF hpt
    <3> QED BY <1>1, <1>3, <1>6, <1>7, ProductOf
  <2> HIDE DEF st, noisy, taken2, taken
  <2>5. Plus(taken2, noisy) = Plus(noisy, taken2)
    BY <1>1, <2>4, SumCommutes
  <2>6. Plus(st, taken2) = Plus(noisy, taken2)
    BY <1>3, <2>1, <2>2, <2>3, <2>5
  <2> QED BY <1>1, <2>4, <2>6, SumCancels
<1> QED BY <1>4, <1>5, <1>6, <1>8, <1>9

\* With the optimal gain the Joseph form is the short form.
LEMMA JosephIsShort ==
    ASSUME NEW n, NEW m, NEW p, NEW h, NEW t, NEW noise, NEW s, NEW inverse, NEW gain,
           Gaining(n, m, p, h, t, noise, s, inverse, gain),
           NEW kh, kh = matmul(gain, h),
           NEW ikh, ikh = Minus(Identity(n), kh),
           NEW short, short = matmul(ikh, p)
    PROVE  Plus(matmul(short, transpose(ikh)), Product(gain, noise, transpose(gain))) = short
<1>1. /\ n \in Nat \ {0} /\ m \in Nat \ {0} /\ t = transpose(h)
      /\ p \in Mat(Numbers, n, n) /\ h \in Mat(Numbers, m, n) /\ noise \in Mat(Numbers, m, m)
  BY DEF Gaining
<1>2. t \in Mat(Numbers, n, m) /\ gain \in Mat(Numbers, n, m)
  BY GainBalances
<1>3. /\ kh \in Mat(Numbers, n, n) /\ ikh \in Mat(Numbers, n, n) /\ short \in Mat(Numbers, n, n)
      /\ Plus(ikh, kh) = Identity(n)
      /\ matmul(short, t) = matmul(gain, noise)
  BY ShortForm
<1> DEFINE one == Identity(n)
           kht == transpose(kh)
           ikht == transpose(ikh)
           gt == transpose(gain)
           right == Product(gain, noise, gt)
<1>4. /\ kht \in Mat(Numbers, n, n) /\ ikht \in Mat(Numbers, n, n) /\ gt \in Mat(Numbers, m, n)
      /\ one \in Mat(Numbers, n, n) /\ transpose(one) = one
  BY <1>1, <1>2, <1>3, TransposeOf, IdentityOf, TransposeOfIdentity
<1>5. kht = matmul(t, gt)
  BY <1>1, <1>2, TransposeOfProduct
<1>6. Plus(ikht, kht) = one
  <2>1. transpose(Plus(ikh, kh)) = Plus(ikht, kht)
    BY <1>1, <1>3, TransposeOfSum
  <2> QED BY <1>3, <1>4, <2>1
<1> HIDE DEF one, kht, ikht, gt
<1>7. matmul(short, Plus(ikht, kht)) = Plus(matmul(short, ikht), matmul(short, kht))
  BY <1>1, <1>3, <1>4, ProductWithSum
<1>8. matmul(short, one) = short
  BY <1>1, <1>3, IdentityTimes DEF one
<1>9. matmul(short, kht) = right
  <2>1. matmul(matmul(short, t), gt) = matmul(short, matmul(t, gt))
    BY <1>1, <1>2, <1>3, <1>4, ProductAssociates
  <2>2. right = matmul(matmul(gain, noise), gt)
    BY DEF Product
  <2> HIDE DEF right
  <2> QED BY <1>3, <1>5, <2>1, <2>2
<1> HIDE DEF right
<1>10. Plus(matmul(short, ikht), right) = short
  BY <1>6, <1>7, <1>8, <1>9
<1> QED BY <1>10 DEF right, ikht, gt

\* The update keeps the mean of equal halves: it is the short form, and symmetric.
LEMMA UpdateIsShort ==
    ASSUME NEW n, NEW m, NEW p, NEW h, NEW t, NEW noise, NEW s, NEW inverse, NEW gain,
           Gaining(n, m, p, h, t, noise, s, inverse, gain)
    PROVE  covariance_update(p, gain, h, noise) = matmul(Minus(Identity(n), matmul(gain, h)), p)
<1> DEFINE kh == matmul(gain, h)
           ikh == Minus(Identity(n), kh)
           short == matmul(ikh, p)
           left == Product(ikh, p, transpose(ikh))
           right == Product(gain, noise, transpose(gain))
           joseph == Plus(left, right)
<1>1. /\ n \in Nat \ {0} /\ m \in Nat \ {0} /\ transpose(p) = p /\ transpose(noise) = noise
      /\ p \in Mat(Numbers, n, n) /\ h \in Mat(Numbers, m, n) /\ noise \in Mat(Numbers, m, m)
  BY DEF Gaining
<1>2. gain \in Mat(Numbers, n, m)
  BY GainBalances
<1>3. ikh \in Mat(Numbers, n, n) /\ short \in Mat(Numbers, n, n)
  BY ShortForm
<1>4. joseph = short
  <2>1. left = matmul(short, transpose(ikh))
    BY DEF Product
  <2>2. Plus(matmul(short, transpose(ikh)), right) = short
    <3> HIDE DEF right
    <3>1. Plus(matmul(short, transpose(ikh)), Product(gain, noise, transpose(gain))) = short
      BY JosephIsShort
    <3> QED BY <3>1 DEF right
  <2> HIDE DEF left, right, short, ikh
  <2> QED BY <2>1, <2>2
<1>5. joseph \in Mat(Numbers, n, n) /\ transpose(joseph) = joseph
  <2>1. left \in Mat(Numbers, n, n) /\ transpose(left) = left
    <3> HIDE DEF ikh
    <3> QED BY <1>1, <1>3, CongruenceIsSymmetric
  <2>2. right \in Mat(Numbers, n, n) /\ transpose(right) = right
    BY <1>1, <1>2, CongruenceIsSymmetric
  <2> HIDE DEF left, right
  <2> QED BY <1>1, <2>1, <2>2, SumOf, TransposeOfSum
<1>6. Len(p) = n
  BY <1>1, MatrixSize
<1>7. covariance_update(p, gain, h, noise) =
        [i \in Rows(joseph) |-> [j \in Cols(joseph) |->
            IF i = j THEN joseph[i][j] ELSE Mean(joseph[i][j], joseph[j][i])]]
  BY <1>6, Zenon DEF covariance_update
<1> HIDE DEF joseph
<1>8. Rows(joseph) = 1..n /\ Cols(joseph) = 1..n
  BY <1>1, <1>5, MatrixSize
<1>9. ASSUME NEW i \in 1..n, NEW j \in 1..n
      PROVE  (IF i = j THEN joseph[i][j] ELSE Mean(joseph[i][j], joseph[j][i])) = joseph[i][j]
  <2>1. joseph[j][i] = joseph[i][j]
    <3>1. transpose(joseph)[j][i] = joseph[i][j]
      BY <1>1, <1>5, TransposeEntry
    <3> QED BY <1>5, <3>1
  <2>2. joseph[i][j] \in Numbers
    BY <1>5, EntryOf
  <2> QED BY <2>1, <2>2, MeanOfSame
<1>10. covariance_update(p, gain, h, noise) = [i \in 1..n |-> [j \in 1..n |-> joseph[i][j]]]
  BY <1>7, <1>8, <1>9
<1>11. joseph = [i \in 1..n |-> [j \in 1..n |-> joseph[i][j]]]
  <2>1. \A i \in 1..n : joseph[i] = [j \in 1..n |-> joseph[i][j]]
    BY <1>5 DEF Mat
  <2> QED BY <1>5, <2>1 DEF Mat
<1>12. covariance_update(p, gain, h, noise) = joseph
  BY <1>10, <1>11, Zenon
<1> QED BY <1>4, <1>12, Zenon

-----------------------------------------------------------------------------
(* The update is the Bayes update *)

\* The precisions a of the prediction and b of the noise, what the measurement weighs, and
\* the precision of the two together.
Weighing(n, m, p, h, t, noise, a, b, weight, precision) ==
    /\ a \in Mat(Numbers, n, n) /\ matmul(a, p) = Identity(n)
    /\ b \in Mat(Numbers, m, m) /\ matmul(b, noise) = Identity(m)
    /\ weight = matmul(t, b) /\ precision = Plus(a, matmul(weight, h))

LEMMA WeighingIsClosed ==
    ASSUME NEW n, NEW m, NEW p, NEW h, NEW t, NEW noise, NEW s, NEW inverse, NEW gain,
           Gaining(n, m, p, h, t, noise, s, inverse, gain),
           NEW a, NEW b, NEW weight, NEW precision,
           Weighing(n, m, p, h, t, noise, a, b, weight, precision)
    PROVE  /\ n \in Nat \ {0} /\ m \in Nat \ {0}
           /\ a \in Mat(Numbers, n, n) /\ weight \in Mat(Numbers, n, m)
           /\ matmul(weight, h) \in Mat(Numbers, n, n) /\ precision \in Mat(Numbers, n, n)
           /\ precision = Plus(a, matmul(weight, h))
<1>1. n \in Nat \ {0} /\ m \in Nat \ {0} /\ h \in Mat(Numbers, m, n)
  BY DEF Gaining
<1>2. t \in Mat(Numbers, n, m)
  BY GainBalances
<1>3. /\ a \in Mat(Numbers, n, n) /\ b \in Mat(Numbers, m, m)
      /\ weight = matmul(t, b) /\ precision = Plus(a, matmul(weight, h))
  BY DEF Weighing
<1>4. weight \in Mat(Numbers, n, m)
  BY <1>1, <1>2, <1>3, ProductOf
<1> DEFINE wh == matmul(weight, h)
<1>5. wh \in Mat(Numbers, n, n)
  BY <1>1, <1>4, ProductOf
<1> HIDE DEF wh
<1>6. Plus(a, wh) \in Mat(Numbers, n, n)
  BY <1>1, <1>3, <1>5, SumOf
<1> QED BY <1>1, <1>3, <1>4, <1>5, <1>6 DEF wh

\* The gain is the weight of the measurement over the precision.
LEMMA PrecisionOfGain ==
    ASSUME NEW n, NEW m, NEW p, NEW h, NEW t, NEW noise, NEW s, NEW inverse, NEW gain,
           Gaining(n, m, p, h, t, noise, s, inverse, gain),
           NEW a, NEW b, NEW weight, NEW precision,
           Weighing(n, m, p, h, t, noise, a, b, weight, precision)
    PROVE  matmul(precision, gain) = weight
<1>1. /\ n \in Nat \ {0} /\ m \in Nat \ {0}
      /\ p \in Mat(Numbers, n, n) /\ h \in Mat(Numbers, m, n) /\ noise \in Mat(Numbers, m, m)
      /\ s \in Mat(Numbers, m, m) /\ inverse \in Mat(Numbers, m, m)
  BY DEF Gaining
<1>2. /\ s = Plus(matmul(matmul(h, p), t), noise)
      /\ matmul(s, inverse) = Identity(m)
      /\ gain = matmul(matmul(p, t), inverse)
  BY DEF Gaining
<1>3. t \in Mat(Numbers, n, m) /\ gain \in Mat(Numbers, n, m)
  BY GainBalances
<1>4. /\ a \in Mat(Numbers, n, n) /\ weight \in Mat(Numbers, n, m)
      /\ matmul(weight, h) \in Mat(Numbers, n, n) /\ precision = Plus(a, matmul(weight, h))
  BY WeighingIsClosed
<1>5. /\ matmul(a, p) = Identity(n) /\ weight = matmul(t, b)
      /\ b \in Mat(Numbers, m, m) /\ matmul(b, noise) = Identity(m)
  BY DEF Weighing
<1> DEFINE wh == matmul(weight, h)
           pt == matmul(p, t)
           hp == matmul(h, p)
           hpt == matmul(hp, t)
           hg == matmul(h, gain)
           ti == matmul(t, inverse)
           ni == matmul(noise, inverse)
           whg == matmul(weight, hg)
           wni == matmul(weight, ni)
<1>6. matmul(precision, gain) = Plus(matmul(a, gain), matmul(wh, gain))
  <2> HIDE DEF wh
  <2>1. wh \in Mat(Numbers, n, n) /\ precision = Plus(a, wh)
    BY <1>4 DEF wh
  <2> QED BY <1>1, <1>3, <1>4, <2>1, ProductOfSum
<1>7. pt \in Mat(Numbers, n, m) /\ hp \in Mat(Numbers, m, n) /\ ti \in Mat(Numbers, n, m)
  BY <1>1, <1>3, ProductOf
<1>8. hpt \in Mat(Numbers, m, m) /\ hg \in Mat(Numbers, m, m) /\ ni \in Mat(Numbers, m, m)
  <2> HIDE DEF hp
  <2> QED BY <1>1, <1>3, <1>7, ProductOf
<1>9. matmul(a, gain) = ti
  <2>1. matmul(a, pt) = matmul(matmul(a, p), t)
    BY <1>1, <1>3, <1>4, ProductAssociates
  <2>2. matmul(Identity(n), t) = t
    BY <1>1, <1>3, IdentityTimes
  <2>3. matmul(a, pt) = t
    BY <1>5, <2>1, <2>2
  <2> HIDE DEF pt
  <2>4. matmul(matmul(a, pt), inverse) = matmul(a, matmul(pt, inverse))
    BY <1>1, <1>4, <1>7, ProductAssociates
  <2> QED BY <1>2, <2>3, <2>4 DEF pt
<1>10. matmul(wh, gain) = whg
  BY <1>1, <1>3, <1>4, ProductAssociates
<1>11. hg = matmul(hpt, inverse)
  <2>1. matmul(h, pt) = hpt
    BY <1>1, <1>3, ProductAssociates
  <2> HIDE DEF pt, hpt
  <2>2. matmul(matmul(h, pt), inverse) = matmul(h, matmul(pt, inverse))
    BY <1>1, <1>7, ProductAssociates
  <2> QED BY <1>2, <2>1, <2>2 DEF pt
<1>12. Plus(hg, ni) = Identity(m)
  <2> HIDE DEF hpt
  <2>1. matmul(Plus(hpt, noise), inverse) = Plus(matmul(hpt, inverse), matmul(noise, inverse))
    BY <1>1, <1>8, ProductOfSum
  <2>2. s = Plus(hpt, noise)
    BY <1>2 DEF hpt
  <2> QED BY <1>2, <1>11, <2>1, <2>2
<1>13. wni = ti
  <2>1. matmul(matmul(t, b), noise) = matmul(t, matmul(b, noise))
    BY <1>1, <1>3, <1>5, ProductAssociates
  <2>2. matmul(t, Identity(m)) = t
    BY <1>1, <1>3, IdentityTimes
  <2>3. matmul(matmul(weight, noise), inverse) = matmul(weight, matmul(noise, inverse))
    BY <1>1, <1>4, ProductAssociates
  <2> QED BY <1>5, <2>1, <2>2, <2>3
<1>14. Plus(whg, wni) = weight
  <2>1. matmul(weight, Identity(m)) = weight
    BY <1>1, <1>4, IdentityTimes
  <2> HIDE DEF hg, ni
  <2>2. matmul(weight, Plus(hg, ni)) = Plus(matmul(weight, hg), matmul(weight, ni))
    BY <1>1, <1>4, <1>8, ProductWithSum
  <2> QED BY <1>12, <2>1, <2>2
<1>15. whg \in Mat(Numbers, n, m)
  <2> HIDE DEF hg
  <2> QED BY <1>1, <1>4, <1>8, ProductOf
<1> HIDE DEF wh, whg, wni, ti
<1>16. Plus(ti, whg) = Plus(whg, ti)
  BY <1>1, <1>7, <1>15, SumCommutes
<1> QED BY <1>6, <1>9, <1>10, <1>13, <1>14, <1>16

LEMMA BayesCovariance ==
    ASSUME NEW n, NEW m, NEW p, NEW h, NEW t, NEW noise, NEW s, NEW inverse, NEW gain,
           Gaining(n, m, p, h, t, noise, s, inverse, gain),
           NEW a, NEW b, NEW weight, NEW precision,
           Weighing(n, m, p, h, t, noise, a, b, weight, precision)
    PROVE  matmul(precision, covariance_update(p, gain, h, noise)) = Identity(n)
<1> DEFINE kh == matmul(gain, h)
           ikh == Minus(Identity(n), kh)
           short == matmul(ikh, p)
           one == Identity(n)
           hp == matmul(h, p)
           taken == matmul(gain, hp)
           wh == matmul(weight, h)
           whp == matmul(weight, hp)
           ps == matmul(precision, short)
<1>1. /\ n \in Nat \ {0} /\ m \in Nat \ {0}
      /\ p \in Mat(Numbers, n, n) /\ h \in Mat(Numbers, m, n)
  BY DEF Gaining
<1>2. gain \in Mat(Numbers, n, m)
  BY GainBalances
<1>3. short \in Mat(Numbers, n, n) /\ Plus(short, taken) = p
  BY ShortForm
<1>4. covariance_update(p, gain, h, noise) = short
  BY UpdateIsShort
<1> HIDE DEF short
<1>5. /\ a \in Mat(Numbers, n, n) /\ weight \in Mat(Numbers, n, m)
      /\ wh \in Mat(Numbers, n, n) /\ precision \in Mat(Numbers, n, n)
      /\ precision = Plus(a, wh)
  BY WeighingIsClosed
<1>6. matmul(a, p) = one
  BY DEF Weighing
<1>7. hp \in Mat(Numbers, m, n)
  BY <1>1, ProductOf
<1>8. taken \in Mat(Numbers, n, n) /\ whp \in Mat(Numbers, n, n) /\ ps \in Mat(Numbers, n, n)
  <2> HIDE DEF hp
  <2> QED BY <1>1, <1>2, <1>3, <1>5, <1>7, ProductOf
<1>9. matmul(precision, p) = Plus(one, whp)
  <2>1. matmul(wh, p) = whp
    BY <1>1, <1>5, ProductAssociates
  <2> HIDE DEF wh, whp, one
  <2>2. matmul(Plus(a, wh), p) = Plus(matmul(a, p), matmul(wh, p))
    BY <1>1, <1>5, ProductOfSum
  <2> QED BY <1>5, <1>6, <2>1, <2>2
<1>10. matmul(precision, p) = Plus(ps, whp)
  <2>1. matmul(precision, taken) = matmul(matmul(precision, gain), hp)
    <3> HIDE DEF hp
    <3> QED BY <1>1, <1>2, <1>5, <1>7, ProductAssociates
  <2>2. matmul(precision, gain) = weight
    BY PrecisionOfGain
  <2> HIDE DEF taken
  <2>3. matmul(precision, Plus(short, taken)) = Plus(matmul(precision, short), matmul(precision, taken))
    BY <1>1, <1>3, <1>5, <1>8, ProductWithSum
  <2> QED BY <1>3, <2>1, <2>2, <2>3
<1>11. one \in Mat(Numbers, n, n)
  BY <1>1, IdentityOf
<1> HIDE DEF one, whp, ps
<1>12. ps = one
  BY <1>1, <1>8, <1>9, <1>10, <1>11, SumCancels
<1> QED BY <1>4, <1>12 DEF ps, one

LEMMA BayesMean ==
    ASSUME NEW n, NEW m, NEW p, NEW h, NEW t, NEW noise, NEW s, NEW inverse, NEW gain,
           Gaining(n, m, p, h, t, noise, s, inverse, gain),
           NEW a, NEW b, NEW weight, NEW precision,
           Weighing(n, m, p, h, t, noise, a, b, weight, precision),
           NEW mean \in Mat(Numbers, n, 1), NEW seen \in Mat(Numbers, m, 1),
           NEW innovation, innovation = Minus(seen, matmul(h, mean))
    PROVE  matmul(precision, Plus(mean, matmul(gain, innovation)))
             = Plus(matmul(a, mean), matmul(weight, seen))
<1> DEFINE wh == matmul(weight, h)
           hx == matmul(h, mean)
           kv == matmul(gain, innovation)
           ax == matmul(a, mean)
           whx == matmul(weight, hx)
           wv == matmul(weight, innovation)
<1>1. /\ n \in Nat \ {0} /\ m \in Nat \ {0} /\ 1 \in Nat \ {0} /\ h \in Mat(Numbers, m, n)
  BY DEF Gaining
<1>2. gain \in Mat(Numbers, n, m)
  BY GainBalances
<1>3. /\ a \in Mat(Numbers, n, n) /\ weight \in Mat(Numbers, n, m)
      /\ wh \in Mat(Numbers, n, n) /\ precision \in Mat(Numbers, n, n)
      /\ precision = Plus(a, wh)
  BY WeighingIsClosed
<1>4. hx \in Mat(Numbers, m, 1)
  BY <1>1, ProductOf
<1>5. innovation \in Mat(Numbers, m, 1) /\ Plus(innovation, hx) = seen
  <2> HIDE DEF hx
  <2>1. innovation = Minus(seen, hx)
    BY DEF hx
  <2> QED BY <1>1, <1>4, <2>1, SumOf, DifferenceAndSum
<1>6. kv \in Mat(Numbers, n, 1) /\ ax \in Mat(Numbers, n, 1)
  BY <1>1, <1>2, <1>3, <1>5, ProductOf
<1>7. whx \in Mat(Numbers, n, 1) /\ wv \in Mat(Numbers, n, 1)
  <2> HIDE DEF hx
  <2> QED BY <1>1, <1>3, <1>4, <1>5, ProductOf
<1>8. matmul(precision, Plus(mean, kv)) = Plus(matmul(precision, mean), matmul(precision, kv))
  <2> HIDE DEF kv
  <2> QED BY <1>1, <1>3, <1>6, ProductWithSum
<1>9. matmul(precision, mean) = Plus(ax, whx)
  <2>1. matmul(wh, mean) = whx
    BY <1>1, <1>3, ProductAssociates
  <2> HIDE DEF wh, whx
  <2>2. matmul(Plus(a, wh), mean) = Plus(matmul(a, mean), matmul(wh, mean))
    BY <1>1, <1>3, ProductOfSum
  <2> QED BY <1>3, <2>1, <2>2
<1>10. matmul(precision, kv) = wv
  <2>1. matmul(matmul(precision, gain), innovation) = matmul(precision, kv)
    BY <1>1, <1>2, <1>3, <1>5, ProductAssociates
  <2>2. matmul(precision, gain) = weight
    BY PrecisionOfGain
  <2> QED BY <2>1, <2>2
<1>11. Plus(whx, wv) = matmul(weight, seen)
  <2> HIDE DEF hx
  <2>1. matmul(weight, Plus(hx, innovation)) = Plus(matmul(weight, hx), matmul(weight, innovation))
    BY <1>1, <1>3, <1>4, <1>5, ProductWithSum
  <2>2. Plus(hx, innovation) = Plus(innovation, hx)
    BY <1>1, <1>4, <1>5, SumCommutes
  <2> QED BY <1>5, <2>1, <2>2
<1> HIDE DEF ax, whx, wv, kv
<1>12. Plus(Plus(ax, whx), wv) = Plus(ax, Plus(whx, wv))
  BY <1>1, <1>6, <1>7, SumAssociates
<1> QED BY <1>8, <1>9, <1>10, <1>11, <1>12 DEF ax, kv

-----------------------------------------------------------------------------
(* A NaN that a zero has hidden *)

LEMMA NotANumber ==
    /\ NaN \notin Numbers /\ 0 # NaN
    /\ \A a \in Doubles : a # NaN <=> a \in Numbers
    /\ \A a, b \in Doubles : Add(a, b) # NaN => a # NaN /\ b # NaN
    /\ \A a, b \in Doubles : Mul(a, b) # NaN => a # NaN /\ b # NaN
    /\ \A a, b \in Doubles : Add(a, b) = Add(b, a)
<1>1. NaN \notin Numbers /\ 0 \in Numbers
  BY NumbersAreInt, KalmanAssumption DEF Numbers
<1>2. \A a, b : Add(a, b) # NaN => a # NaN /\ b # NaN
  BY DEF Add
<1>3. \A a, b : Mul(a, b) # NaN => a # NaN /\ b # NaN
  BY DEF Mul
<1>4. ASSUME NEW a \in Doubles, NEW b \in Doubles PROVE Add(a, b) = Add(b, a)
  <2>1. CASE a \in Numbers /\ b \in Numbers
    BY <2>1, AddCommutes
  <2>2. CASE a = NaN \/ b = NaN
    BY <2>2 DEF Add
  <2> QED BY <2>1, <2>2 DEF Doubles
<1> QED BY <1>1, <1>2, <1>3, <1>4 DEF Doubles

\* b with the NaNs that are never looked at taken for zeros.
Unhidden(b, r, c) == [i \in 1..r |-> [j \in 1..c |-> IF b[i][j] = NaN THEN 0 ELSE b[i][j]]]

LEMMA UnhiddenIsNumbers ==
    ASSUME NEW r \in Nat \ {0}, NEW c \in Nat \ {0}, NEW b \in Mat(Doubles, r, c)
    PROVE  /\ Unhidden(b, r, c) \in Mat(Numbers, r, c)
           /\ \A i \in 1..r, j \in 1..c : b[i][j] # NaN => Unhidden(b, r, c)[i][j] = b[i][j]
<1>1. \A i \in 1..r, j \in 1..c : (IF b[i][j] = NaN THEN 0 ELSE b[i][j]) \in Numbers
  BY NumbersAreInt DEF Mat, Doubles
<1> QED BY <1>1 DEF Unhidden, Mat

LEMMA EntryOfNumbers ==
    ASSUME NEW r \in Nat \ {0}, NEW n \in Nat \ {0}, NEW c \in Nat \ {0},
           NEW a \in Mat(Doubles, r, n), NEW b \in Mat(Doubles, n, c),
           NEW i \in 1..r, NEW j \in 1..c, matmul(a, b)[i][j] # NaN
    PROVE  /\ \A k \in 1..n : a[i][k] \in Numbers
           /\ a \in Mat(Numbers, r, n) =>
                 matmul(a, b)[i][j] = matmul(a, Unhidden(b, n, c))[i][j]
<1> DEFINE u == Unhidden(b, n, c)
<1>1. Rows(a) = 1..r /\ Cols(b) = 1..c
  BY MatrixSize
<1>2. matmul(a, b)[i][j] = Entry(a, b, i, j)
  <2>1. matmul(a, b) = [i1 \in 1..r |-> [j1 \in 1..c |-> Entry(a, b, i1, j1)]]
    BY <1>1, Zenon DEF matmul
  <2> QED BY <2>1
<1>3. Meet(Doubles, a, b, i, j, n)
  <2>1. Len(a[i]) = n
    <3>1. a[i] \in [1..n -> Doubles]
      BY DEF Mat
    <3> QED BY <3>1, RowSize
  <2>2. \A k \in 1..n : a[i][k] \in Doubles /\ b[k][j] \in Doubles
    BY DEF Mat
  <2> QED BY <2>1, <2>2 DEF Meet
<1>4. PICK s : /\ \A k \in 0..n : /\ s[k] \in Doubles
                                  /\ s[k] = IF k = 0 THEN 0
                                            ELSE IF a[i][k] = 0 THEN s[k - 1]
                                            ELSE Add(s[k - 1], Mul(a[i][k], b[k][j]))
               /\ Entry(a, b, i, j) = s[n]
  BY <1>3, DoublesClosed, EntrySums
<1>5. ASSUME NEW k \in 1..n, s[k] # NaN
      PROVE  /\ s[k - 1] # NaN /\ a[i][k] # NaN
             /\ a[i][k] # 0 => b[k][j] # NaN /\ s[k] = Add(s[k - 1], Mul(a[i][k], b[k][j]))
             /\ a[i][k] = 0 => s[k] = s[k - 1]
  <2>1. k \in 0..n /\ k - 1 \in 0..n /\ k # 0
    OBVIOUS
  <2>2. s[k] = IF a[i][k] = 0 THEN s[k - 1] ELSE Add(s[k - 1], Mul(a[i][k], b[k][j]))
    BY <1>4, <2>1
  <2> DEFINE f == a[i][k]
             g == b[k][j]
             y == s[k - 1]
  <2>3. f \in Doubles /\ g \in Doubles /\ y \in Doubles
    BY <1>3, <1>4, <2>1 DEF Meet
  <2> HIDE DEF f, g, y
  <2>4. Mul(f, g) \in Doubles
    BY <2>3, DoublesClosed DEF Closed
  <2>5. f # 0 => Add(y, Mul(f, g)) # NaN
    BY <1>5, <2>2 DEF f, g, y
  <2>6. f # 0 => y # NaN /\ f # NaN /\ g # NaN
    BY <2>3, <2>4, <2>5, NotANumber
  <2>7. f = 0 => f # NaN
    BY NotANumber
  <2>8. f = 0 => y # NaN
    BY <1>5, <2>2 DEF f, y
  <2> QED BY <2>2, <2>6, <2>7, <2>8 DEF f, g, y
<1> DEFINE T == {d \in 0..n : s[n - d] # NaN}
<1>6. 0 \in T
  BY <1>2, <1>4
<1>7. ASSUME NEW d \in 0..(n - 1), d \in T PROVE d + 1 \in T
  <2> DEFINE k == n - d
  <2>1. k \in 1..n /\ d + 1 \in 0..n /\ n - (d + 1) = k - 1
    OBVIOUS
  <2>2. s[k] # NaN
    BY <1>7
  <2> HIDE DEF k
  <2>3. s[k - 1] # NaN
    BY <1>5, <2>1, <2>2
  <2> QED BY <2>1, <2>3
<1>8. \A d \in 0..n : d \in T
  <2> HIDE DEF T
  <2>1. n \in Nat
    OBVIOUS
  <2> QED BY <1>6, <1>7, <2>1, UpToInduction
<1>9. \A k \in 0..n : s[k] \in Numbers
  <2> TAKE k \in 0..n
  <2>1. n - k \in 0..n /\ n - (n - k) = k
    OBVIOUS
  <2>2. s[k] # NaN
    BY <1>8, <2>1
  <2>3. s[k] \in Doubles
    BY <1>4
  <2> QED BY <2>2, <2>3, NotANumber
<1>10. ASSUME NEW k \in 1..n
       PROVE  /\ a[i][k] \in Numbers
              /\ a[i][k] # 0 => b[k][j] # NaN /\ s[k] = Add(s[k - 1], Mul(a[i][k], b[k][j]))
              /\ a[i][k] = 0 => s[k] = s[k - 1]
  <2>1. s[k] \in Numbers
    BY <1>9
  <2>2. s[k] # NaN
    BY <2>1, NotANumber
  <2>3. a[i][k] \in Doubles
    BY <1>3 DEF Meet
  <2> QED BY <1>5, <2>2, <2>3, NotANumber
<1>11. ASSUME a \in Mat(Numbers, r, n) PROVE matmul(a, u)[i][j] = s[n]
  <2> DEFINE row == a[i]
             w == Column(u, j, n)
             t == [k \in 0..n |-> s[k]]
  <2>1. u \in Mat(Numbers, n, c) /\ \A k \in 1..n : b[k][j] # NaN => u[k][j] = b[k][j]
    BY UnhiddenIsNumbers
  <2>2. t \in [0..n -> Numbers] /\ t[0] = 0 /\ t[n] = s[n]
    BY <1>4, <1>9
  <2>3. ASSUME NEW k \in 1..n PROVE t[k] = Add(t[k - 1], Mul(row[k], w[k]))
    <3> DEFINE f == a[i][k]
               g == u[k][j]
               y == s[k - 1]
    <3>1. t[k] = s[k] /\ t[k - 1] = y /\ row[k] = f /\ w[k] = g /\ y \in Numbers
      BY <1>9 DEF Column
    <3>2. g \in Numbers /\ f \in Numbers
      <4> HIDE DEF u
      <4> QED BY <1>11, <2>1, EntryOf
    <3>3. f # 0 => s[k] = Add(y, Mul(f, g))
      <4> HIDE DEF u
      <4> QED BY <1>10, <2>1
    <3>4. f = 0 => s[k] = y
      BY <1>10
    <3> HIDE DEF f, g, y, t, row, w
    <3>5. Mul(0, g) = 0 /\ Add(y, 0) = y
      BY <3>1, <3>2, Units
    <3> QED BY <3>1, <3>3, <3>4, <3>5
  <2>4. IsSum(t, row, w, n)
    <3> HIDE DEF t, row, w
    <3> QED BY <2>2, <2>3 DEF IsSum
  <2>5. matmul(a, u)[i][j] = Dot(row, w, n)
    <3> HIDE DEF u
    <3> QED BY <1>11, <2>1, ProductEntry
  <2> HIDE DEF t, row, w
  <2>6. Dot(row, w, n) = t[n]
    BY <2>4, DotIsSum
  <2> QED BY <2>2, <2>5, <2>6
<1> QED BY <1>2, <1>4, <1>10, <1>11

LEMMA FiniteMatrix ==
    ASSUME NEW r \in Nat \ {0}, NEW c \in Nat \ {0}, NEW a \in Mat(Doubles, r, c)
    PROVE  Finite(a) <=> a \in Mat(Numbers, r, c)
<1>1. Rows(a) = 1..r /\ Cols(a) = 1..c
  BY MatrixSize
<1>2. ASSUME Finite(a) PROVE a \in Mat(Numbers, r, c)
  <2>1. \A i \in 1..r, j \in 1..c : a[i][j] \in Numbers
    <3> TAKE i \in 1..r, j \in 1..c
    <3>1. a[i][j] \in Doubles
      BY DEF Mat
    <3>2. a[i][j] # NaN
      BY <1>1, <1>2 DEF Finite
    <3> QED BY <3>1, <3>2, NotANumber
  <2> QED BY <2>1 DEF Mat
<1>3. a \in Mat(Numbers, r, c) => Finite(a)
  BY NumbersAreFinite
<1> QED BY <1>2, <1>3

LEMMA FiniteSum ==
    ASSUME NEW r \in Nat \ {0}, NEW c \in Nat \ {0},
           NEW a \in Mat(Doubles, r, c), NEW b \in Mat(Doubles, r, c), Finite(Plus(a, b))
    PROVE  a \in Mat(Numbers, r, c) /\ b \in Mat(Numbers, r, c)
<1> DEFINE ab == Plus(a, b)
<1>1. Rows(a) = 1..r /\ Cols(a) = 1..c
  BY MatrixSize
<1>2. ab = [i \in 1..r |-> [j \in 1..c |-> Add(a[i][j], b[i][j])]]
  BY <1>1, Zenon DEF Plus
<1>3. ab \in Mat(Doubles, r, c) /\ Finite(ab)
  BY SumIsClosed, DoublesClosed
<1> HIDE DEF ab
<1>4. ab \in Mat(Numbers, r, c)
  BY <1>3, FiniteMatrix
<1>5. ASSUME NEW i \in 1..r, NEW j \in 1..c PROVE a[i][j] \in Numbers /\ b[i][j] \in Numbers
  <2> DEFINE p == a[i][j]
             q == b[i][j]
  <2>1. p \in Doubles /\ q \in Doubles
    BY DEF Mat
  <2>2. Add(p, q) = ab[i][j]
    BY <1>2
  <2>3. ab[i][j] \in Numbers
    BY <1>4, EntryOf
  <2> HIDE DEF p, q
  <2>4. Add(p, q) # NaN
    BY <2>2, <2>3, NotANumber
  <2> QED BY <2>1, <2>4, NotANumber DEF p, q
<1> QED BY <1>5 DEF Mat

\* A prediction that is finite is symmetric, even if the covariance it was taken from had
\* a NaN that zeros of the model have hidden.
LEMMA PredictionIsSymmetric ==
    ASSUME NEW n \in Nat \ {0}, NEW f \in Mat(Numbers, n, n), NEW q \in Mat(Numbers, n, n),
           NEW p \in Mat(Doubles, n, n), Symmetric(p), Symmetric(q),
           Finite(Plus(Product(f, p, transpose(f)), q))
    PROVE  Symmetric(Plus(Product(f, p, transpose(f)), q))
<1> DEFINE ft == transpose(f)
           fp == matmul(f, p)
           square == matmul(fp, ft)
           prior == Plus(square, q)
           u == Unhidden(p, n, n)
           fu == matmul(f, u)
<1>1. f \in Mat(Doubles, n, n) /\ q \in Mat(Doubles, n, n)
  BY WiderMatrix DEF Doubles
<1>2. ft \in Mat(Numbers, n, n) /\ ft \in Mat(Doubles, n, n)
  BY <1>1, TransposeIsClosed
<1>3. fp \in Mat(Doubles, n, n)
  BY <1>1, ProductIsClosed, DoublesClosed
<1>4. square \in Mat(Doubles, n, n)
  <2> HIDE DEF fp, ft
  <2> QED BY <1>2, <1>3, ProductIsClosed, DoublesClosed
<1>5. prior \in Mat(Doubles, n, n) /\ prior = Plus(Product(f, p, transpose(f)), q)
  <2>1. prior = Plus(Product(f, p, transpose(f)), q)
    BY DEF Product
  <2> HIDE DEF square
  <2> QED BY <1>1, <1>4, <2>1, SumIsClosed, DoublesClosed
<1>6. \A i, j \in 1..n : square[i][j] # NaN
  <2>1. Finite(Plus(square, q))
    BY <1>5
  <2> HIDE DEF square
  <2>2. square \in Mat(Numbers, n, n)
    BY <1>1, <1>4, <2>1, FiniteSum
  <2>3. \A i, j \in 1..n : square[i][j] \in Numbers
    BY <2>2, EntryOf
  <2> QED BY <2>3, NotANumber
<1>7. \A i, k \in 1..n : fp[i][k] \in Numbers
  <2> TAKE i, k \in 1..n
  <2>1. square[i][1] # NaN /\ 1 \in 1..n
    BY <1>6
  <2> HIDE DEF fp, ft
  <2>2. \A l \in 1..n : fp[i][l] \in Numbers
    BY <1>2, <1>3, <2>1, EntryOfNumbers
  <2> QED BY <2>2
<1>8. u \in Mat(Numbers, n, n)
  BY UnhiddenIsNumbers
<1>9. fp = fu
  <2>1. fp \in Mat(Numbers, n, n)
    <3> HIDE DEF fp
    <3> QED BY <1>3, <1>7 DEF Mat
  <2>2. fu \in Mat(Numbers, n, n)
    <3> HIDE DEF u
    <3> QED BY <1>8, ProductOf
  <2>3. ASSUME NEW i \in 1..n, NEW j \in 1..n PROVE fp[i][j] = fu[i][j]
    <3>1. fp[i][j] # NaN
      <4> HIDE DEF fp
      <4>1. fp[i][j] \in Numbers
        BY <1>7
      <4> QED BY <4>1, NotANumber
    <3> QED BY <1>1, <3>1, EntryOfNumbers
  <2>4. Agree(fp, fu, n, n)
    BY <2>3 DEF Agree
  <2> HIDE DEF fp, fu
  <2> QED BY <2>1, <2>2, <2>4, AgreeingMatrices
<1>10. transpose(u) = u
  <2>1. Rows(p) = 1..n /\ Cols(p) = 1..n
    BY MatrixSize
  <2>2. \A i, j \in 1..n : u[i][j] = u[j][i]
    BY <2>1 DEF Unhidden, Symmetric
  <2> HIDE DEF u
  <2>3. Rows(u) = 1..n /\ Cols(u) = 1..n
    BY <1>8, MatrixSize
  <2>4. Symmetric(u)
    BY <2>2, <2>3 DEF Symmetric
  <2> QED BY <1>8, <2>4, SymmetricIsTransposed
<1>11. square \in Mat(Numbers, n, n) /\ transpose(square) = square
  <2>1. square = Product(f, u, transpose(f))
    BY <1>9 DEF Product
  <2> HIDE DEF u, square
  <2> QED BY <1>8, <1>10, <2>1, CongruenceIsSymmetric
<1>12. transpose(q) = q
  BY SymmetricIsTransposed
<1> HIDE DEF square
<1>13. prior \in Mat(Numbers, n, n) /\ transpose(prior) = prior
  BY <1>11, <1>12, SumOf, TransposeOfSum
<1> HIDE DEF prior
<1>14. Symmetric(prior)
  BY <1>13, SymmetricIsTransposed
<1> QED BY <1>5, <1>14

\* What the update answers is symmetric, NaN and all.
LEMMA UpdateIsSymmetric ==
    ASSUME NEW n \in Nat \ {0}, NEW m \in Nat \ {0},
           NEW p \in Mat(Doubles, n, n), NEW gain \in Mat(Doubles, n, m),
           NEW h \in Mat(Doubles, m, n), NEW noise \in Mat(Doubles, m, m)
    PROVE  /\ covariance_update(p, gain, h, noise) \in Mat(Doubles, n, n)
           /\ Symmetric(covariance_update(p, gain, h, noise))
<1> DEFINE joseph == Joseph(p, gain, h, noise)
           updated == covariance_update(p, gain, h, noise)
<1>1. updated \in Mat(Doubles, n, n)
  BY UpdateIsClosed, DoublesClosed
<1>2. updated = [i \in Rows(joseph) |-> [j \in Cols(joseph) |->
                    IF i = j THEN joseph[i][j] ELSE Mean(joseph[i][j], joseph[j][i])]]
  BY Zenon DEF covariance_update, Joseph
<1>0. joseph \in Mat(Doubles, n, n)
  BY JosephIsClosed, DoublesClosed
<1> HIDE DEF joseph, updated
<1>3. Rows(updated) = 1..n /\ Cols(updated) = 1..n
  BY <1>1, MatrixSize
<1>4. Rows(joseph) = 1..n /\ Cols(joseph) = 1..n
  BY <1>0, MatrixSize
<1>5. \A i, j \in 1..n :
         updated[i][j] = IF i = j THEN joseph[i][j] ELSE Mean(joseph[i][j], joseph[j][i])
  BY <1>2, <1>4
<1>6. \A a, b \in Doubles : Mean(a, b) = Mean(b, a)
  BY NotANumber DEF Mean
<1>7. ASSUME NEW i \in 1..n, NEW j \in 1..n PROVE updated[i][j] = updated[j][i]
  <2>1. joseph[i][j] \in Doubles /\ joseph[j][i] \in Doubles
    BY <1>0 DEF Mat
  <2> QED BY <1>5, <1>6, <2>1
<1>8. Symmetric(updated)
  BY <1>3, <1>7 DEF Symmetric
<1> QED BY <1>1, <1>8 DEF updated

-----------------------------------------------------------------------------
(* Every step is the Bayes update *)

\* Whatever inverts p and the noise: the precisions add up, and the mean is the weighted one.
IsBayesUpdate(n, m, h, noise, seen, mean, p, newMean, newP) ==
    \A A \in Mat(Numbers, n, n), B \in Mat(Numbers, m, m) :
        matmul(A, p) = Identity(n) /\ matmul(B, noise) = Identity(m) =>
            LET weight == matmul(transpose(h), B)
                precision == Plus(A, matmul(weight, h))
                evidence == Plus(matmul(A, mean), matmul(weight, seen))
            IN  matmul(precision, newP) = Identity(n) /\ matmul(precision, newMean) = evidence

\* StepIsBayes for any number of rows, the inverses being whatever inverts.
StepIsBayesOfAnySize ==
    Updated /\ AllFinite(Last(result)) /\ Finite(P_pred) =>
        IsBayesUpdate(problem.n, problem.m, problem.H, problem.R, problem.z[Len(result)],
                      x_pred, P_pred, x, P)

LEMMA FilteringIsBayes ==
    ASSUME NEW n, NEW m, NEW p, NEW h, NEW t, NEW noise, NEW s, NEW inverse, NEW gain,
           Gaining(n, m, p, h, t, noise, s, inverse, gain),
           NEW mean \in Mat(Numbers, n, 1), NEW seen \in Mat(Numbers, m, 1),
           NEW innovation, innovation = Minus(seen, matmul(h, mean)),
           NEW newMean, newMean = Plus(mean, matmul(gain, innovation)),
           NEW newP, newP = covariance_update(p, gain, h, noise)
    PROVE  IsBayesUpdate(n, m, h, noise, seen, mean, p, newMean, newP)
<1> SUFFICES ASSUME NEW A \in Mat(Numbers, n, n), NEW B \in Mat(Numbers, m, m),
                    matmul(A, p) = Identity(n), matmul(B, noise) = Identity(m)
             PROVE  LET weight == matmul(transpose(h), B)
                        precision == Plus(A, matmul(weight, h))
                        evidence == Plus(matmul(A, mean), matmul(weight, seen))
                    IN  /\ matmul(precision, newP) = Identity(n)
                        /\ matmul(precision, newMean) = evidence
  BY DEF IsBayesUpdate
<1> DEFINE weight == matmul(transpose(h), B)
           precision == Plus(A, matmul(weight, h))
           evidence == Plus(matmul(A, mean), matmul(weight, seen))
<1>1. Weighing(n, m, p, h, t, noise, A, B, weight, precision)
  <2>1. t = transpose(h)
    BY DEF Gaining
  <2> QED BY <2>1 DEF Weighing
<1>2. evidence = Plus(matmul(A, mean), matmul(weight, seen))
  OBVIOUS
<1> HIDE DEF weight, precision, evidence
<1>3. matmul(precision, newP) = Identity(n)
  BY <1>1, BayesCovariance
<1>4. matmul(precision, newMean) = evidence
  BY <1>1, <1>2, BayesMean
<1> QED BY <1>3, <1>4 DEF weight, precision, evidence

LEMMA UnrefusedIsSymmetric ==
    ASSUME NEW q, IsProblem(q), Refusal(q) = "none"
    PROVE  Symmetric(q.P0) /\ Symmetric(q.Q) /\ Symmetric(q.R)
<1>1. \A r \in RuleNames : ~Breaks(q, r)
  <2>1. "none" \notin RuleNames
    BY DEF RuleNames
  <2> QED BY <2>1, RefusalCases
<1>2. ValidCovariance(q.P0, q.n)
  <2>1. ~Breaks(q, "P0")
    BY <1>1 DEF RuleNames
  <2> QED BY <2>1 DEF Breaks
<1>3. ValidCovariance(q.Q, q.n)
  <2>1. ~Breaks(q, "Q")
    BY <1>1 DEF RuleNames
  <2> QED BY <2>1 DEF Breaks
<1>4. ValidCovariance(q.R, q.m)
  <2>1. ~Breaks(q, "R")
    BY <1>1 DEF RuleNames
  <2> QED BY <2>1 DEF Breaks
<1> QED BY <1>2, <1>3, <1>4 DEF ValidCovariance

\* What the update needs to be right: covariances are symmetric, NaN or not, those of a
\* finite prediction too, and the innovation is that of the step at hand.
UpdateInv ==
    /\ pc \in {"predict", "innovate", "gain"} =>
           Symmetric(problem.Q) /\ Symmetric(problem.R) /\ Symmetric(P)
    /\ pc \in {"innovate", "gain"} => (Finite(P_pred) => Symmetric(P_pred))
    /\ pc = "gain" =>
           /\ v = Minus(problem.z[Len(result) + 1], matmul(problem.H, x_pred))
           /\ S = Plus(Product(problem.H, P_pred, transpose(problem.H)), problem.R)
    /\ Updated => P_pred \in Mat(Doubles, problem.n, problem.n)

LEMMA UpdateInitially == Init => UpdateInv /\ StepIsBayesOfAnySize
BY DEF Init, UpdateInv, StepIsBayesOfAnySize, Updated

LEMMA ValidateUpdates == KalmanInv /\ Validate => UpdateInv' /\ ~Updated'
<1> SUFFICES ASSUME KalmanInv, Validate PROVE UpdateInv' /\ ~Updated'
  OBVIOUS
<1>1. /\ pc = "validate" /\ result = <<>> /\ problem' = problem /\ result' = result
      /\ IsProblem(problem)
  BY ProblemsAssumption DEF KalmanInv, Validate
<1>2. ~Updated'
  BY <1>1 DEF Updated
<1>3. CASE Refusal(problem) = "none"
  <2>1. pc' = "predict" /\ P' = problem.P0
    BY <1>3 DEF Validate
  <2>2. Symmetric(problem.P0) /\ Symmetric(problem.Q) /\ Symmetric(problem.R)
    BY <1>1, <1>3, UnrefusedIsSymmetric
  <2> QED BY <1>1, <1>2, <2>1, <2>2 DEF UpdateInv
<1>4. CASE Refusal(problem) # "none"
  <2>1. pc' = "done"
    BY <1>4 DEF Validate, Refuse
  <2> QED BY <1>2, <2>1 DEF UpdateInv
<1> QED BY <1>3, <1>4

LEMMA PredictUpdates == KalmanInv /\ UpdateInv /\ Predict => UpdateInv' /\ ~Updated'
<1> SUFFICES ASSUME KalmanInv, UpdateInv, Predict PROVE UpdateInv' /\ ~Updated'
  OBVIOUS
<1> DEFINE n == problem.n
           prior == Plus(Product(problem.F, P, transpose(problem.F)), problem.Q)
           mean == matmul(problem.F, x)
           D == Born(overflows)
<1>1. /\ pc = "predict" /\ pc' = "innovate" /\ problem' = problem /\ P' = P
      /\ Given(problem) /\ Over(D)
      /\ Symmetric(problem.Q) /\ Symmetric(problem.R) /\ Symmetric(P)
  BY DEF Predict, KalmanInv, UpdateInv
<1>2. \/ x_pred' = mean /\ Overflowing(prior, P_pred)
      \/ P_pred' = prior /\ Overflowing(mean, x_pred)
  BY DEF Predict
<1>3. /\ n \in Nat \ {0} /\ problem.F \in Mat(Numbers, n, n) /\ problem.Q \in Mat(Numbers, n, n)
  BY <1>1 DEF Given
<1>4. P \in Mat(Doubles, n, n)
  <2>1. P \in Mat(D, n, n) /\ D \subseteq Doubles
    BY <1>1, BornIsClosed DEF Over
  <2> QED BY <2>1, WiderMatrix
<1>5. Finite(prior) => Symmetric(prior)
  BY <1>1, <1>3, <1>4, PredictionIsSymmetric
<1>6. prior \in Mat(Doubles, n, n)
  <2> DEFINE square == Product(problem.F, P, transpose(problem.F))
  <2>1. problem.F \in Mat(Doubles, n, n) /\ problem.Q \in Mat(Doubles, n, n)
    BY <1>3, WiderMatrix DEF Doubles
  <2>2. square \in Mat(Doubles, n, n)
    BY <1>3, <1>4, <2>1, SquareIsClosed, DoublesClosed
  <2> HIDE DEF square
  <2>3. Plus(square, problem.Q) \in Mat(Doubles, n, n)
    BY <1>3, <2>1, <2>2, SumIsClosed, DoublesClosed
  <2> QED BY <2>3 DEF square
<1> HIDE DEF prior, mean
<1>7. P_pred' = prior \/ ~Finite(P_pred')
  <2> SUFFICES ASSUME NEW i \in Rows(prior), NEW j \in Cols(prior),
                      P_pred' = [prior EXCEPT ![i][j] = NaN]
               PROVE  ~Finite(P_pred')
    BY <1>2 DEF Overflowing
  <2>1. Rows(prior) = 1..n /\ Cols(prior) = 1..n
    BY <1>3, <1>6, MatrixSize
  <2> DEFINE b == [prior EXCEPT ![i][j] = NaN]
  <2>2. b \in Mat(Doubles, n, n) /\ b[i][j] = NaN
    BY <1>6, <2>1 DEF Mat, Doubles
  <2>3. Rows(b) = 1..n /\ Cols(b) = 1..n
    <3> HIDE DEF b
    <3> QED BY <1>3, <2>2, MatrixSize
  <2> HIDE DEF b
  <2>4. ~Finite(b)
    BY <2>1, <2>2, <2>3 DEF Finite
  <2> QED BY <2>4 DEF b
<1>8. (Finite(P_pred) => Symmetric(P_pred))'
  BY <1>5, <1>7
<1> QED BY <1>1, <1>8 DEF UpdateInv, Updated

LEMMA InnovateUpdates == KalmanInv /\ UpdateInv /\ Innovate => UpdateInv' /\ ~Updated'
<1> SUFFICES ASSUME KalmanInv, UpdateInv, Innovate PROVE UpdateInv' /\ ~Updated'
  OBVIOUS
<1>1. /\ pc = "innovate" /\ pc' \in {"gain", "done"}
      /\ problem' = problem /\ P' = P /\ P_pred' = P_pred /\ x_pred' = x_pred /\ result' = result
      /\ v' = Minus(problem.z[Len(result) + 1], matmul(problem.H, x_pred))
      /\ S' = Plus(Product(problem.H, P_pred, transpose(problem.H)), problem.R)
  BY DEF Innovate, Refuse
<1>2. Symmetric(problem.Q) /\ Symmetric(problem.R) /\ Symmetric(P) /\ (Finite(P_pred) => Symmetric(P_pred))
  BY <1>1 DEF UpdateInv
<1> QED BY <1>1, <1>2 DEF UpdateInv, Updated

LEMMA GainAndUpdateUpdates ==
    KalmanInv /\ InvertedInv /\ UpdateInv /\ GainAndUpdate => UpdateInv' /\ StepIsBayesOfAnySize'
<1> SUFFICES ASSUME KalmanInv, InvertedInv, UpdateInv, GainAndUpdate
             PROVE  UpdateInv' /\ StepIsBayesOfAnySize'
  OBVIOUS
<1> DEFINE n == problem.n
           m == problem.m
           D == Born(overflows)
           h == problem.H
           t == transpose(problem.H)
           noise == problem.R
           k == Len(result) + 1
           seen == problem.z[k]
           stored == [x |-> x', P |-> P', v |-> v, S |-> S, K |-> K']
<1>1. /\ pc = "gain" /\ pc' = "predict"
      /\ problem' = problem /\ x_pred' = x_pred /\ P_pred' = P_pred
      /\ K' = Product(P_pred, t, S_inv)
      /\ x' = Plus(x_pred, matmul(K', v))
      /\ P' = covariance_update(P_pred, K', h, noise)
      /\ result' = Append(result, stored)
  BY DEF GainAndUpdate
<1>2. Given(problem) /\ Over(D) /\ Len(result) < problem.steps
  BY <1>1 DEF KalmanInv
<1>3. /\ n \in Nat \ {0} /\ m \in Nat \ {0} /\ 1 \in Nat \ {0}
      /\ h \in Mat(Numbers, m, n) /\ noise \in Mat(Numbers, m, m)
  BY <1>2 DEF Given
<1>4. D \subseteq Doubles /\ Numbers \subseteq Doubles
  BY BornIsClosed DEF Doubles
<1>5. /\ x_pred \in Mat(Doubles, n, 1) /\ P_pred \in Mat(Doubles, n, n)
      /\ v \in Mat(Doubles, m, 1) /\ S \in Mat(Doubles, m, m) /\ S_inv \in Mat(Doubles, m, m)
      /\ h \in Mat(Doubles, m, n) /\ noise \in Mat(Doubles, m, m)
  <2>1. /\ x_pred \in Mat(D, n, 1) /\ P_pred \in Mat(D, n, n)
        /\ v \in Mat(D, m, 1) /\ S \in Mat(D, m, m) /\ S_inv \in Mat(D, m, m)
    BY <1>1, <1>2 DEF Over
  <2> HIDE DEF D, n, m
  <2> QED BY <1>3, <1>4, <2>1, WiderMatrix
<1>6. /\ Symmetric(noise) /\ Symmetric(problem.Q) /\ (Finite(P_pred) => Symmetric(P_pred))
      /\ v = Minus(seen, matmul(h, x_pred))
      /\ S = Plus(Product(h, P_pred, t), noise)
  BY <1>1 DEF UpdateInv
<1>7. invert(S).regular /\ S_inv = invert(S).out
  BY <1>1 DEF InvertedInv
<1>8. Last(result') = stored /\ Len(result') = k /\ result' # <<>> /\ k \in 1..problem.steps
  <2> DEFINE T == Stored(D, n, m)
  <2>1. result \in Seq(T)
    BY <1>2 DEF Over
  <2>2. problem.steps \in Nat
    BY <1>2 DEF Given
  <2> HIDE DEF T, stored
  <2>3. result' = Append(result, stored) /\ Len(result) \in Nat
    BY <1>1, <2>1
  <2>4. Len(result') = Len(result) + 1 /\ result'[Len(result) + 1] = stored
    BY <2>1, <2>3
  <2> QED BY <1>2, <2>2, <2>3, <2>4 DEF Last
<1>9. seen \in Mat(Numbers, m, 1)
  BY <1>2, <1>8 DEF Given
<1> HIDE DEF n, m, h, t, noise, seen, k
<1>10. K' \in Mat(Doubles, n, m)
  <2>1. t \in Mat(Doubles, n, m)
    BY <1>3, <1>5, TransposeIsClosed DEF t, h
  <2> QED BY <1>1, <1>3, <1>5, <2>1, TripleIsClosed, DoublesClosed
<1>11. P' \in Mat(Doubles, n, n) /\ Symmetric(P')
  BY <1>1, <1>3, <1>5, <1>10, UpdateIsSymmetric
<1>12. UpdateInv'
  <2>1. P_pred' \in Mat(Doubles, problem'.n, problem'.n)
    BY <1>1, <1>5 DEF n
  <2>2. Symmetric(problem'.Q) /\ Symmetric(problem'.R)
    BY <1>1, <1>6 DEF noise
  <2> QED BY <1>1, <1>11, <2>1, <2>2 DEF UpdateInv
<1>13. ASSUME AllFinite(stored), Finite(P_pred)
       PROVE  IsBayesUpdate(n, m, h, noise, seen, x_pred, P_pred, x', P')
  <2>1. Finite(x') /\ Finite(S)
    BY <1>13 DEF AllFinite, stored
  <2>2. P_pred \in Mat(Numbers, n, n) /\ S \in Mat(Numbers, m, m)
    BY <1>3, <1>5, <1>13, <2>1, FiniteMatrix
  <2>3. x_pred \in Mat(Numbers, n, 1)
    <3> DEFINE correction == matmul(K', v)
    <3>1. correction \in Mat(Doubles, n, 1)
      BY <1>3, <1>5, <1>10, ProductIsClosed, DoublesClosed
    <3>2. Finite(Plus(x_pred, correction))
      BY <1>1, <2>1
    <3> HIDE DEF correction
    <3> QED BY <1>3, <1>5, <3>1, <3>2, FiniteSum
  <2>4. S_inv \in Mat(Numbers, m, m) /\ matmul(S, S_inv) = Identity(m)
    <3>1. matmul(S, invert(S).out) = Identity(m)
      BY <1>3, <1>7, <2>2, InversionIsRight
    <3>2. invert(S) \in Working(Numbers, m)
      BY <1>3, <2>2, NumbersClosed, InvertIsClosed, NumbersAreInt DEF Doubles
    <3>3. invert(S).out \in Mat(Numbers, m, m)
      BY <3>2 DEF Working
    <3> QED BY <1>7, <3>1, <3>3
  <2>5. transpose(P_pred) = P_pred /\ transpose(noise) = noise
    BY <1>3, <1>6, <1>13, <2>2, SymmetricIsTransposed
  <2>6. /\ S = Plus(matmul(matmul(h, P_pred), t), noise)
        /\ K' = matmul(matmul(P_pred, t), S_inv)
    BY <1>1, <1>6, Zenon DEF Product
  <2>7. t = transpose(h)
    BY DEF t, h
  <2>8. Gaining(n, m, P_pred, h, t, noise, S, S_inv, K')
    BY <1>3, <2>2, <2>4, <2>5, <2>6, <2>7 DEF Gaining
  <2> QED BY <1>1, <1>6, <1>9, <2>3, <2>8, FilteringIsBayes
<1>14. StepIsBayesOfAnySize'
  BY <1>1, <1>8, <1>13 DEF StepIsBayesOfAnySize, n, m, h, noise, seen
<1> QED BY <1>12, <1>14

LEMMA UpdateUnchanged ==
    UpdateInv /\ StepIsBayesOfAnySize /\ UNCHANGED vars => UpdateInv' /\ StepIsBayesOfAnySize'
BY DEF UpdateInv, StepIsBayesOfAnySize, Updated, vars, working

LEMMA UpdateKept ==
    KalmanInv /\ InvertedInv /\ UpdateInv /\ StepIsBayesOfAnySize /\ [Next]_vars =>
        UpdateInv' /\ StepIsBayesOfAnySize'
<1> SUFFICES ASSUME KalmanInv, InvertedInv, UpdateInv, StepIsBayesOfAnySize, [Next]_vars
             PROVE  UpdateInv' /\ StepIsBayesOfAnySize'
  OBVIOUS
<1>1. ~Updated' => StepIsBayesOfAnySize'
  BY DEF StepIsBayesOfAnySize
<1>2. CASE Validate
  BY <1>1, <1>2, ValidateUpdates
<1>3. CASE Predict
  BY <1>1, <1>3, PredictUpdates
<1>4. CASE Innovate
  BY <1>1, <1>4, InnovateUpdates
<1>5. CASE GainAndUpdate
  BY <1>5, GainAndUpdateUpdates
<1>6. CASE Check
  <2>1. pc' = "done"
    BY <1>6 DEF Check, Refuse
  <2> QED BY <1>1, <2>1 DEF UpdateInv, Updated
<1>7. CASE UNCHANGED vars
  BY <1>7, UpdateUnchanged
<1> QED BY <1>2, <1>3, <1>4, <1>5, <1>6, <1>7 DEF Next

\* Whatever the number of states and of measurements, each step is the Bayes update, for
\* any inverses of the covariances of the prediction and of the noise: the precisions add
\* up, and the state is the weighted mean of the prediction and of the measurement. What
\* the Joseph form and the mean of its halves answer, with the gain that the elimination
\* gives, is the inverse of that precision (run_kalman_filter, covariance_update).
THEOREM StepIsBayesOfAnySizeHolds == Spec => []StepIsBayesOfAnySize
<1>1. Spec => []InvertedInv
  BY InvertedInitially, InvertedKept, KalmanInvariant, PTL DEF Spec
<1>2. Spec => [](UpdateInv /\ StepIsBayesOfAnySize)
  BY <1>1, UpdateInitially, UpdateKept, KalmanInvariant, PTL DEF Spec
<1> QED BY <1>2, PTL

-----------------------------------------------------------------------------
(* The inverse by the adjugate *)

LEMMA DotOfTwo ==
    ASSUME NEW row \in Vectors(2), NEW u \in Vectors(2)
    PROVE  Dot(row, u, 2) = Add(Mul(row[1], u[1]), Mul(row[2], u[2]))
<1> DEFINE a == Mul(row[1], u[1])
           b == Mul(row[2], u[2])
           s == [k \in 0..2 |-> IF k = 0 THEN 0 ELSE IF k = 1 THEN a ELSE Add(a, b)]
<1>1. a \in Numbers /\ b \in Numbers /\ 0 \in Numbers
  <2>1. row[1] \in Numbers /\ u[1] \in Numbers /\ row[2] \in Numbers /\ u[2] \in Numbers
    BY DEF Vectors
  <2> QED BY <2>1, NumberArithmetic, NumbersAreInt
<1>2. Add(a, b) \in Numbers /\ Add(0, a) = a
  <2> HIDE DEF a, b
  <2> QED BY <1>1, NumberArithmetic, Units
<1> HIDE DEF a, b
<1>3. /\ s \in [0..2 -> Numbers] /\ s[0] = 0 /\ s[1] = a /\ s[2] = Add(a, b)
  BY <1>1, <1>2
<1> HIDE DEF s
<1>4. ASSUME NEW k \in 1..2 PROVE s[k] = Add(s[k - 1], Mul(row[k], u[k]))
  <2>1. CASE k = 1
    BY <1>2, <1>3, <2>1 DEF a
  <2>2. CASE k = 2
    BY <1>3, <2>2 DEF b
  <2> QED BY <2>1, <2>2
<1>5. IsSum(s, row, u, 2)
  BY <1>3, <1>4 DEF IsSum
<1>6. Dot(row, u, 2) = s[2]
  BY <1>5, DotIsSum
<1> QED BY <1>3, <1>6 DEF a, b

LEMMA DotOfOne ==
    ASSUME NEW row \in Vectors(1), NEW u \in Vectors(1)
    PROVE  Dot(row, u, 1) = Mul(row[1], u[1])
<1> DEFINE a == Mul(row[1], u[1])
           s == [k \in 0..1 |-> IF k = 0 THEN 0 ELSE a]
<1>1. a \in Numbers /\ 0 \in Numbers
  <2>1. row[1] \in Numbers /\ u[1] \in Numbers
    BY DEF Vectors
  <2> QED BY <2>1, NumberArithmetic, NumbersAreInt
<1>2. Add(0, a) = a
  <2> HIDE DEF a
  <2> QED BY <1>1, Units
<1> HIDE DEF a
<1>3. s \in [0..1 -> Numbers] /\ s[0] = 0 /\ s[1] = a
  BY <1>1
<1> HIDE DEF s
<1>4. \A k \in 1..1 : s[k] = Add(s[k - 1], Mul(row[k], u[k]))
  BY <1>2, <1>3 DEF a
<1>5. IsSum(s, row, u, 1)
  BY <1>3, <1>4 DEF IsSum
<1>6. Dot(row, u, 1) = s[1]
  BY <1>5, DotIsSum
<1> QED BY <1>3, <1>6 DEF a

LEMMA Factored ==
    \A d, p, q, y, z \in Numbers :
        Add(Mul(Mul(d, p), y), Mul(Mul(d, q), z)) = Mul(d, Add(Mul(p, y), Mul(q, z)))
<1> TAKE d, p, q, y, z \in Numbers
<1> DEFINE a == Mul(p, y)
           b == Mul(q, z)
<1>1. a \in Numbers /\ b \in Numbers
  BY NumberArithmetic
<1>2. Mul(Mul(d, p), y) = Mul(d, a) /\ Mul(Mul(d, q), z) = Mul(d, b)
  BY MulAssociates
<1> HIDE DEF a, b
<1>3. Mul(d, a) = Mul(a, d) /\ Mul(d, b) = Mul(b, d)
  BY <1>1, MulCommutes
<1>4. Mul(Add(a, b), d) = Add(Mul(a, d), Mul(b, d))
  BY <1>1, MulDistributes
<1>5. Add(a, b) \in Numbers
  BY <1>1, NumberArithmetic
<1>6. Mul(d, Add(a, b)) = Mul(Add(a, b), d)
  BY <1>5, MulCommutes
<1> QED BY <1>2, <1>3, <1>4, <1>6 DEF a, b

\* The rows of the adjugate by the columns of the matrix.
LEMMA Cofactors ==
    ASSUME NEW a \in Numbers, NEW b \in Numbers, NEW c \in Numbers, NEW e \in Numbers,
           NEW d, d = Add(Mul(a, e), Neg(Mul(b, c)))
    PROVE  /\ Add(Mul(e, a), Mul(Neg(b), c)) = d
           /\ Add(Mul(e, b), Mul(Neg(b), e)) = 0
           /\ Add(Mul(Neg(c), a), Mul(a, c)) = 0
           /\ Add(Mul(Neg(c), b), Mul(a, e)) = d
<1>1. /\ Mul(Neg(b), c) = Neg(Mul(b, c)) /\ Mul(Neg(b), e) = Neg(Mul(b, e))
      /\ Mul(Neg(c), a) = Neg(Mul(c, a)) /\ Mul(Neg(c), b) = Neg(Mul(c, b))
  BY NegativeOfProduct
<1>2. /\ Mul(e, a) = Mul(a, e) /\ Mul(e, b) = Mul(b, e)
      /\ Mul(c, a) = Mul(a, c) /\ Mul(c, b) = Mul(b, c)
  BY MulCommutes
<1> DEFINE ae == Mul(a, e)
           be == Mul(b, e)
           ac == Mul(a, c)
           bc == Mul(b, c)
<1>3. ae \in Numbers /\ be \in Numbers /\ ac \in Numbers /\ bc \in Numbers
  BY NumberArithmetic
<1>4. d = Add(ae, Neg(bc))
  OBVIOUS
<1> HIDE DEF ae, be, ac, bc
<1>5. /\ Neg(ac) \in Numbers /\ Neg(bc) \in Numbers
      /\ Add(be, Neg(be)) = 0 /\ Add(ac, Neg(ac)) = 0
  BY <1>3, Negatives
<1>6. Add(Neg(ac), ac) = Add(ac, Neg(ac)) /\ Add(Neg(bc), ae) = Add(ae, Neg(bc))
  BY <1>3, <1>5, AddCommutes
<1> QED BY <1>1, <1>2, <1>4, <1>5, <1>6 DEF ae, be, ac, bc

LEMMA ReciprocalOfOne ==
    ASSUME NEW a \in Mat(Numbers, 1, 1), det(a) # 0
    PROVE  Reciprocal(a) \in Mat(Numbers, 1, 1) /\ matmul(Reciprocal(a), a) = Identity(1)
<1> DEFINE e == a[1][1]
           d == Inv(e)
           b == Reciprocal(a)
<1>1. Len(a) = 1 /\ e \in Numbers /\ 1 \in Nat \ {0}
  BY MatrixSize DEF Mat
<1>2. e # 0
  BY <1>1 DEF det
<1> HIDE DEF e
<1>3. d \in Numbers /\ Mul(e, d) = 1
  BY <1>1, <1>2, Inverses
<1> HIDE DEF d
<1>4. b = <<<<d>>>>
  BY <1>1 DEF Reciprocal, det, d, e
<1>5. b = [i \in 1..1 |-> [j \in 1..1 |-> d]]
  BY <1>4
<1>6. b \in Mat(Numbers, 1, 1) /\ b[1][1] = d
  BY <1>3, <1>5 DEF Mat
<1> HIDE DEF b
<1> DEFINE one == matmul(b, a)
           row == b[1]
           u == Column(a, 1, 1)
<1>7. one \in Mat(Numbers, 1, 1)
  BY <1>1, <1>6, ProductOf
<1>8. one[1][1] = Dot(row, u, 1)
  BY <1>1, <1>6, ProductEntry
<1>9. row \in Vectors(1) /\ u \in Vectors(1) /\ row[1] = d /\ u[1] = e
  <2>1. 1 \in 1..1
    OBVIOUS
  <2>2. row \in Vectors(1) /\ u \in Vectors(1)
    BY <1>6, <2>1, VectorsOf
  <2>3. u[1] = e
    BY DEF Column, e
  <2> QED BY <1>6, <2>2, <2>3
<1> HIDE DEF one, row, u
<1>10. one[1][1] = 1
  <2>1. Dot(row, u, 1) = Mul(d, e)
    BY <1>9, DotOfOne
  <2> QED BY <1>1, <1>3, <1>8, <2>1, MulCommutes
<1>11. Identity(1) \in Mat(Numbers, 1, 1) /\ Identity(1)[1][1] = 1
  BY <1>1, IdentityOf, IdentityEntry
<1>12. Agree(one, Identity(1), 1, 1)
  BY <1>10, <1>11 DEF Agree
<1>13. one = Identity(1)
  BY <1>7, <1>11, <1>12, AgreeingMatrices
<1> QED BY <1>6, <1>13 DEF b, one

LEMMA ReciprocalOfTwo ==
    ASSUME NEW a \in Mat(Numbers, 2, 2), det(a) # 0
    PROVE  Reciprocal(a) \in Mat(Numbers, 2, 2) /\ matmul(Reciprocal(a), a) = Identity(2)
<1> DEFINE p == a[1][1]
           q == a[1][2]
           r == a[2][1]
           w == a[2][2]
           e == det(a)
           d == Inv(e)
           b == Reciprocal(a)
           y == Neg(q)
           z == Neg(r)
<1>1. Len(a) = 2 /\ p \in Numbers /\ q \in Numbers /\ r \in Numbers /\ w \in Numbers /\ 2 \in Nat \ {0}
  BY MatrixSize DEF Mat
<1>2. e = Add(Mul(p, w), Neg(Mul(q, r)))
  BY <1>1 DEF det
<1>3. b = << <<Mul(d, w), Mul(d, y)>>, <<Mul(d, z), Mul(d, p)>> >>
  BY <1>1 DEF Reciprocal
<1> HIDE DEF p, q, r, w, e, b, d
<1>4. e \in Numbers /\ y \in Numbers /\ z \in Numbers
  BY <1>1, <1>2, Negatives, NumberArithmetic
<1>5. d \in Numbers /\ Mul(d, e) = 1
  <2>1. e # 0
    BY DEF e
  <2>2. d \in Numbers /\ Mul(e, d) = 1
    BY <1>4, <2>1, Inverses DEF d
  <2> QED BY <1>4, <2>2, MulCommutes
<1>6. /\ Add(Mul(w, p), Mul(y, r)) = e /\ Add(Mul(w, q), Mul(y, w)) = 0
      /\ Add(Mul(z, p), Mul(p, r)) = 0 /\ Add(Mul(z, q), Mul(p, w)) = e
  BY <1>1, <1>2, Cofactors
<1> HIDE DEF y, z
<1>7. /\ b \in Mat(Numbers, 2, 2)
      /\ b[1][1] = Mul(d, w) /\ b[1][2] = Mul(d, y) /\ b[2][1] = Mul(d, z) /\ b[2][2] = Mul(d, p)
  <2>1. Mul(d, w) \in Numbers /\ Mul(d, y) \in Numbers /\ Mul(d, z) \in Numbers /\ Mul(d, p) \in Numbers
    BY <1>1, <1>4, <1>5, NumberArithmetic
  <2>2. b = [i \in 1..2 |-> IF i = 1 THEN [j \in 1..2 |-> IF j = 1 THEN Mul(d, w) ELSE Mul(d, y)]
                            ELSE [j \in 1..2 |-> IF j = 1 THEN Mul(d, z) ELSE Mul(d, p)]]
    BY <1>3
  <2> QED BY <2>1, <2>2 DEF Mat
<1> DEFINE one == matmul(b, a)
           left == b[1]
           right == b[2]
           u == Column(a, 1, 2)
           v1 == Column(a, 2, 2)
<1>8. one \in Mat(Numbers, 2, 2)
  BY <1>1, <1>7, ProductOf
<1>9. /\ one[1][1] = Dot(left, u, 2) /\ one[1][2] = Dot(left, v1, 2)
      /\ one[2][1] = Dot(right, u, 2) /\ one[2][2] = Dot(right, v1, 2)
  BY <1>1, <1>7, ProductEntry
<1>10. /\ left \in Vectors(2) /\ right \in Vectors(2) /\ u \in Vectors(2) /\ v1 \in Vectors(2)
       /\ left[1] = Mul(d, w) /\ left[2] = Mul(d, y) /\ right[1] = Mul(d, z) /\ right[2] = Mul(d, p)
       /\ u[1] = p /\ u[2] = r /\ v1[1] = q /\ v1[2] = w
  <2>1. 1 \in 1..2 /\ 2 \in 1..2
    OBVIOUS
  <2>2. left \in Vectors(2) /\ right \in Vectors(2)
    BY <1>7, <2>1, VectorsOf
  <2>3. u \in Vectors(2) /\ v1 \in Vectors(2)
    BY <2>1, VectorsOf
  <2>4. u[1] = p /\ u[2] = r /\ v1[1] = q /\ v1[2] = w
    BY DEF Column, p, q, r, w
  <2> QED BY <1>7, <2>2, <2>3, <2>4
<1> HIDE DEF one, left, right, u, v1
<1>11. /\ Dot(left, u, 2) = Mul(d, Add(Mul(w, p), Mul(y, r)))
       /\ Dot(left, v1, 2) = Mul(d, Add(Mul(w, q), Mul(y, w)))
       /\ Dot(right, u, 2) = Mul(d, Add(Mul(z, p), Mul(p, r)))
       /\ Dot(right, v1, 2) = Mul(d, Add(Mul(z, q), Mul(p, w)))
  <2>1. /\ Dot(left, u, 2) = Add(Mul(Mul(d, w), p), Mul(Mul(d, y), r))
        /\ Dot(left, v1, 2) = Add(Mul(Mul(d, w), q), Mul(Mul(d, y), w))
        /\ Dot(right, u, 2) = Add(Mul(Mul(d, z), p), Mul(Mul(d, p), r))
        /\ Dot(right, v1, 2) = Add(Mul(Mul(d, z), q), Mul(Mul(d, p), w))
    <3>1. /\ Dot(left, u, 2) = Add(Mul(left[1], u[1]), Mul(left[2], u[2]))
          /\ Dot(left, v1, 2) = Add(Mul(left[1], v1[1]), Mul(left[2], v1[2]))
          /\ Dot(right, u, 2) = Add(Mul(right[1], u[1]), Mul(right[2], u[2]))
          /\ Dot(right, v1, 2) = Add(Mul(right[1], v1[1]), Mul(right[2], v1[2]))
      BY <1>10, DotOfTwo
    <3> QED BY <1>10, <3>1, Zenon
  <2>2. Add(Mul(Mul(d, w), p), Mul(Mul(d, y), r)) = Mul(d, Add(Mul(w, p), Mul(y, r)))
    BY <1>1, <1>4, <1>5, Factored
  <2>3. Add(Mul(Mul(d, w), q), Mul(Mul(d, y), w)) = Mul(d, Add(Mul(w, q), Mul(y, w)))
    BY <1>1, <1>4, <1>5, Factored
  <2>4. Add(Mul(Mul(d, z), p), Mul(Mul(d, p), r)) = Mul(d, Add(Mul(z, p), Mul(p, r)))
    BY <1>1, <1>4, <1>5, Factored
  <2>5. Add(Mul(Mul(d, z), q), Mul(Mul(d, p), w)) = Mul(d, Add(Mul(z, q), Mul(p, w)))
    BY <1>1, <1>4, <1>5, Factored
  <2> QED BY <2>1, <2>2, <2>3, <2>4, <2>5
<1>12. one[1][1] = 1 /\ one[1][2] = 0 /\ one[2][1] = 0 /\ one[2][2] = 1
  BY <1>5, <1>6, <1>9, <1>11, Units
<1>13. /\ Identity(2) \in Mat(Numbers, 2, 2)
       /\ \A i, j \in 1..2 : Identity(2)[i][j] = IF i = j THEN 1 ELSE 0
  BY <1>1, IdentityOf, IdentityEntry
<1>14. Agree(one, Identity(2), 2, 2)
  BY <1>12, <1>13 DEF Agree
<1>15. one = Identity(2)
  BY <1>8, <1>13, <1>14, AgreeingMatrices
<1> QED BY <1>7, <1>15 DEF b, one

LEMMA ReciprocalInverts ==
    ASSUME NEW n \in Nat \ {0}, NEW a \in Mat(Doubles, n, n), Regular(a)
    PROVE  /\ Reciprocal(a) \in Mat(Numbers, n, n)
           /\ matmul(Reciprocal(a), a) = Identity(n)
<1>1. n \in {1, 2}
  BY MatrixSize DEF Regular
<1>2. a \in Mat(Numbers, n, n) /\ det(a) # 0
  BY FiniteMatrix DEF Regular
<1>3. CASE n = 1
  BY <1>2, <1>3, ReciprocalOfOne
<1>4. CASE n = 2
  BY <1>2, <1>4, ReciprocalOfTwo
<1> QED BY <1>1, <1>3, <1>4

\* Where the covariances of the prediction and of the noise have one row or two, and an
\* inverse, the precision of the posterior is the sum of theirs, the adjugate giving the
\* inverses, and the posterior mean is the weighted one (run_kalman_filter).
THEOREM StepIsBayesHolds == Spec => []StepIsBayes
<1>1. KalmanInv /\ UpdateInv /\ StepIsBayesOfAnySize => StepIsBayes
  <2> SUFFICES ASSUME KalmanInv, UpdateInv, StepIsBayesOfAnySize,
                      Updated, AllFinite(Last(result)), Regular(P_pred), Regular(problem.R)
               PROVE  LET weight == matmul(transpose(problem.H), Reciprocal(problem.R))
                          precision == Plus(Reciprocal(P_pred), matmul(weight, problem.H))
                          evidence == Plus(matmul(Reciprocal(P_pred), x_pred),
                                           matmul(weight, problem.z[Len(result)]))
                      IN  /\ matmul(precision, P) = Identity(problem.n)
                          /\ matmul(precision, x) = evidence
    BY DEF StepIsBayes
  <2> DEFINE A == Reciprocal(P_pred)
             B == Reciprocal(problem.R)
  <2>1. Given(problem) /\ P_pred \in Mat(Doubles, problem.n, problem.n)
    BY DEF Updated, KalmanInv, UpdateInv
  <2>2. /\ problem.n \in Nat \ {0} /\ problem.m \in Nat \ {0}
        /\ problem.R \in Mat(Doubles, problem.m, problem.m)
    BY <2>1, WiderMatrix DEF Given, Doubles
  <2>3. A \in Mat(Numbers, problem.n, problem.n) /\ matmul(A, P_pred) = Identity(problem.n)
    BY <2>1, <2>2, ReciprocalInverts
  <2>4. B \in Mat(Numbers, problem.m, problem.m) /\ matmul(B, problem.R) = Identity(problem.m)
    BY <2>2, ReciprocalInverts
  <2>5. Finite(P_pred)
    BY DEF Regular
  <2>6. IsBayesUpdate(problem.n, problem.m, problem.H, problem.R, problem.z[Len(result)],
                      x_pred, P_pred, x, P)
    BY <2>5 DEF StepIsBayesOfAnySize
  <2> HIDE DEF A, B
  <2>7. LET weight == matmul(transpose(problem.H), B)
            precision == Plus(A, matmul(weight, problem.H))
            evidence == Plus(matmul(A, x_pred), matmul(weight, problem.z[Len(result)]))
        IN  matmul(precision, P) = Identity(problem.n) /\ matmul(precision, x) = evidence
    BY <2>3, <2>4, <2>6 DEF IsBayesUpdate
  <2> QED BY <2>7 DEF A, B
<1>2. Spec => []InvertedInv
  BY InvertedInitially, InvertedKept, KalmanInvariant, PTL DEF Spec
<1>3. Spec => [](UpdateInv /\ StepIsBayesOfAnySize)
  BY <1>2, UpdateInitially, UpdateKept, KalmanInvariant, PTL DEF Spec
<1> QED BY <1>1, <1>3, KalmanInvariant, PTL
=============================================================================

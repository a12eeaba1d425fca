-------------------------- MODULE CovarianceProofs --------------------------
(***************************************************************************)
(* The four properties of Covariance, for matrices of integers of any      *)
(* size of entry, any tolerances and any combination of the components.    *)
(* What is forgiven of the symmetry widens the form u' M u by half of      *)
(* |b - c| in each direction, and the form that is widened so has a        *)
(* determinant that is not negative: Widened is the heart of the gate.     *)
(* Of the update, UpdateIsCovariance: the determinant of the Joseph form   *)
(* is a square times that of the prediction and a form times the noise.    *)
(***************************************************************************)
EXTENDS Covariance, Induction, SequenceTheorems

-----------------------------------------------------------------------------
(* Arithmetic *)

LEMMA Squares == \A a \in Int : a * a \in Nat /\ (a * a = 0 => a = 0)
OBVIOUS

LEMMA Monotone ==
    ASSUME NEW a \in Int, NEW b \in Int, NEW c \in Nat, a >= b
    PROVE  a * c >= b * c
<1>1. (a - b) \in Nat /\ c \in Nat
  OBVIOUS
<1> DEFINE d == a - b
<1>2. d \in Nat /\ a = b + d
  OBVIOUS
<1> HIDE DEF d
<1>3. a * c = b * c + d * c /\ d * c >= 0
  BY <1>2
<1> QED BY <1>3

\* A form with a diagonal and a determinant that are not negative is not negative.
LEMMA FormIsNotNegative ==
    ASSUME NEW a \in Int, NEW b \in Int, NEW c \in Int, a >= 0, c >= 0, a * c >= b * b
    PROVE  \A x, y \in Int : x * x * a + 2 * (x * y * b) + y * y * c >= 0
<1> SUFFICES ASSUME NEW x \in Int, NEW y \in Int
             PROVE  x * x * a + 2 * (x * y * b) + y * y * c >= 0
  OBVIOUS
<1> DEFINE q == x * x * a + 2 * (x * y * b) + y * y * c
<1>1. CASE a = 0
  <2>1. b * b = 0
    BY <1>1, Squares
  <2>2. b = 0
    BY <2>1, Squares
  <2>3. y * y * c >= 0
    <3>1. y * y \in Nat /\ c \in Nat
      BY Squares
    <3> QED BY <3>1
  <2>4. q = y * y * c
    BY <1>1, <2>2
  <2> QED BY <2>3, <2>4
<1>2. CASE a # 0
  <2> DEFINE s == a * x + b * y
             e == a * c - b * b
  <2>1. a * q = s * s + e * (y * y)
    OBVIOUS
  <2>2. s \in Int /\ e \in Nat /\ q \in Int
    OBVIOUS
  <2> HIDE DEF q, s, e
  <2>3. s * s \in Nat /\ y * y \in Nat
    BY <2>2, Squares
  <2>4. e * (y * y) >= 0
    BY <2>2, <2>3
  <2>5. a * q >= 0 /\ a > 0
    <3> DEFINE aq == a * q
               ss == s * s
               ey == e * (y * y)
    <3>1. aq = ss + ey /\ ss \in Nat /\ ey \in Int /\ ey >= 0
      BY <2>1, <2>2, <2>3, <2>4
    <3> HIDE DEF aq, ss, ey
    <3>2. aq >= 0
      BY <3>1
    <3> QED BY <1>2, <3>2 DEF aq
  <2>6. q >= 0
    BY <2>2, <2>5
  <2> QED BY <2>6 DEF q
<1> QED BY <1>1, <1>2

LEMMA GreatestExists ==
    ASSUME NEW T, T \subseteq Int, T # {}, NEW b \in Int, \A y \in T : y <= b
    PROVE  Max(T) \in T /\ \A y \in T : Max(T) >= y
<1> DEFINE U == {n \in Nat : b - n \in T}
<1>1. U \in SUBSET Nat /\ U # {}
  <2>1. PICK y \in T : TRUE
    OBVIOUS
  <2>2. b - y \in Nat /\ b - (b - y) = y
    BY <2>1
  <2> QED BY <2>1, <2>2
<1>2. PICK n \in U : \A k \in U : n <= k
  <2> HIDE DEF U
  <2> QED BY <1>1, LeastNatural
<1>3. b - n \in T /\ n \in Nat
  BY <1>2
<1>4. ASSUME NEW y \in T PROVE b - n >= y
  <2>1. b - y \in Nat /\ b - (b - y) = y
    BY <1>4
  <2>2. b - y \in U
    BY <2>1
  <2>3. n <= b - y
    BY <1>2, <2>2
  <2> QED BY <1>3, <1>4, <2>3
<1> HIDE DEF U
<1> QED BY <1>3, <1>4 DEF Max

LEMMA LeastExists ==
    ASSUME NEW T, T \subseteq Nat, T # {}
    PROVE  Min(T) \in T /\ \A y \in T : Min(T) <= y
<1>1. \E n \in T : \A k \in T : n <= k
  BY LeastNatural
<1> QED BY <1>1 DEF Min

LEMMA Magnitude == \A a \in Int : fabs(a) \in Nat /\ fabs(a) >= a /\ fabs(a) >= -a
BY DEF fabs

-----------------------------------------------------------------------------
(* The gate *)

EarlyFaults == {"kEmpty", "kNotRectangular", "kNotSquare", "kNonFiniteEntry", "kNotSymmetric"}

\* What a spectrum is asked of.
Reached(in) ==
    /\ in.n_rows \in {1, 2}
    /\ in.matrix \in Seq(Int) /\ Len(in.matrix) = in.n_rows * in.n_rows
    /\ IntegerSpectrum(in.matrix)
    /\ in.symmetry_tolerance \in Nat /\ in.psd_tolerance \in Nat
    /\ ~(100 * max_asymmetry(in.matrix, in.n_rows) > Budget(in.symmetry_tolerance, scale(in.matrix)))

LEMMA GateCases ==
    ASSUME NEW in \in Inputs
    PROVE  \/ Reached(in) /\ validate_covariance(in) = SpectrumReport(in)
           \/ \E f \in EarlyFaults : validate_covariance(in) = Refused(f)
<1> DEFINE Asymmetric == 100 * max_asymmetry(in.matrix, in.n_rows)
                            > Budget(in.symmetry_tolerance, scale(in.matrix))
           Empty == in.n_rows = 0 \/ in.n_cols = 0
           Rectangular == Len(in.matrix) = in.n_rows * in.n_cols
           Square == in.n_rows = in.n_cols
           Infinite == \E k \in DOMAIN in.matrix : in.matrix[k] = NaN
<1>1. validate_covariance(in) =
        IF Empty THEN Refused("kEmpty")
        ELSE IF ~Rectangular THEN Refused("kNotRectangular")
        ELSE IF ~Square THEN Refused("kNotSquare")
        ELSE IF Infinite THEN Refused("kNonFiniteEntry")
        ELSE IF Asymmetric THEN Refused("kNotSymmetric")
        ELSE SpectrumReport(in)
  BY DEF validate_covariance
<1>2. CASE Empty \/ ~Rectangular \/ ~Square \/ Infinite \/ Asymmetric
  <2> HIDE DEF Empty, Rectangular, Square, Infinite, Asymmetric
  <2> QED BY <1>1, <1>2 DEF EarlyFaults
<1>3. CASE ~Empty /\ Rectangular /\ Square /\ ~Infinite /\ ~Asymmetric
  <2>1. validate_covariance(in) = SpectrumReport(in)
    <3> HIDE DEF Empty, Rectangular, Square, Infinite, Asymmetric
    <3> QED BY <1>1, <1>3
  <2>2. IsInput(in)
    BY InputsAssumption
  <2>3. /\ in.n_rows \in Nat /\ in.symmetry_tolerance \in Nat /\ in.psd_tolerance \in Nat
        /\ in.matrix \in Seq(Int \cup {NaN})
    BY <2>2 DEF IsInput
  <2>4. Numeric(in.matrix)
    BY <1>3 DEF Numeric
  <2>5. in.n_rows <= 2 /\ IntegerSpectrum(in.matrix)
    BY <1>3, <2>2, <2>4 DEF IsInput
  <2>6. in.n_rows \in {1, 2}
    BY <1>3, <2>3, <2>5
  <2>7. in.matrix \in Seq(Int)
    <3> DEFINE m == in.matrix
    <3>1. m \in Seq(Int \cup {NaN}) /\ \A k \in DOMAIN m : m[k] # NaN
      BY <2>3, <2>4 DEF Numeric
    <3> HIDE DEF m
    <3>2. \A k \in 1..Len(m) : m[k] \in Int
      BY <3>1
    <3>3. m \in Seq(Int)
      BY <3>1, <3>2
    <3> QED BY <3>3 DEF m
  <2>8. Len(in.matrix) = in.n_rows * in.n_rows
    BY <1>3
  <2> QED BY <1>3, <2>1, <2>3, <2>5, <2>6, <2>7, <2>8 DEF Reached
<1> QED BY <1>2, <1>3

LEMMA Entries ==
    ASSUME NEW m \in Seq(Int), Len(m) = 4
    PROVE  m[1] \in Int /\ m[2] \in Int /\ m[3] \in Int /\ m[4] \in Int
<1>1. 1 \in 1..Len(m) /\ 2 \in 1..Len(m) /\ 3 \in 1..Len(m) /\ 4 \in 1..Len(m)
  OBVIOUS
<1> QED BY <1>1, ElementOfSeq

LEMMA MatrixSizes ==
    ASSUME NEW m \in Seq(Int), NEW n \in {1, 2}, Len(m) = n * n
    PROVE  /\ scale(m) \in Nat
           /\ max_asymmetry(m, n) \in Nat
           /\ n = 2 => max_asymmetry(m, n) >= fabs(m[2] - m[3])
<1>1. scale(m) \in Nat
  <2> DEFINE T == {fabs(m[k]) : k \in DOMAIN m}
             b == IF n = 1 THEN fabs(m[1]) ELSE fabs(m[1]) + fabs(m[2]) + fabs(m[3]) + fabs(m[4])
  <2>1. DOMAIN m = IF n = 1 THEN {1} ELSE {1, 2, 3, 4}
    <3>1. DOMAIN m = 1..Len(m)
      OBVIOUS
    <3>2. n = 1 => 1..Len(m) = {1}
      OBVIOUS
    <3>3. n = 2 => 1..Len(m) = {1, 2, 3, 4}
      OBVIOUS
    <3> QED BY <3>1, <3>2, <3>3
  <2>2. \A k \in DOMAIN m : m[k] \in Int /\ fabs(m[k]) \in Nat
    <3>1. \A k \in DOMAIN m : m[k] \in Int
      OBVIOUS
    <3> QED BY <3>1, Magnitude
  <2>3. T \subseteq Nat /\ T # {}
    BY <2>1, <2>2
  <2>4. b \in Int /\ \A y \in T : y <= b
    <3>1. CASE n = 1
      <4>1. fabs(m[1]) \in Nat /\ T = {fabs(m[1])}
        BY <2>1, <2>2, <3>1
      <4> QED BY <3>1, <4>1
    <3>2. CASE n = 2
      <4> DEFINE f1 == fabs(m[1])
                 f2 == fabs(m[2])
                 f3 == fabs(m[3])
                 f4 == fabs(m[4])
      <4>1. f1 \in Nat /\ f2 \in Nat /\ f3 \in Nat /\ f4 \in Nat
        BY <2>1, <2>2, <3>2
      <4>2. T = {f1, f2, f3, f4} /\ b = f1 + f2 + f3 + f4
        BY <2>1, <3>2
      <4> HIDE DEF T, b, f1, f2, f3, f4
      <4> QED BY <4>1, <4>2
    <3> QED BY <3>1, <3>2
  <2> HIDE DEF T, b
  <2>5. Max(T) \in T
    <3>1. T \subseteq Int
      BY <2>3
    <3> QED BY <2>3, <2>4, <3>1, GreatestExists
  <2> QED BY <2>3, <2>5 DEF T, scale
<1>2. /\ max_asymmetry(m, n) \in Nat
      /\ n = 2 => max_asymmetry(m, n) >= fabs(m[2] - m[3])
  <2> DEFINE T == {fabs(at(m, n, i, j) - at(m, n, j, i)) : i \in 1..n, j \in 1..n}
             d == fabs(m[2] - m[3])
             e == fabs(m[3] - m[2])
  <2>1. CASE n = 1
    <3>1. T = {fabs(m[1] - m[1])}
      BY <2>1 DEF at
    <3>2. m[1] \in Int /\ fabs(m[1] - m[1]) = 0
      BY <2>1 DEF fabs
    <3> HIDE DEF T
    <3>3. T = {0}
      BY <3>1, <3>2
    <3>4. Max(T) \in T
      <4>1. T \subseteq Int /\ T # {} /\ 0 \in Int /\ \A y \in T : y <= 0
        BY <3>3
      <4> QED BY <4>1, GreatestExists
    <3> QED BY <2>1, <3>3, <3>4 DEF T, max_asymmetry
  <2>2. CASE n = 2
    <3>1. m[1] \in Int /\ m[2] \in Int /\ m[3] \in Int /\ m[4] \in Int
      <4>1. Len(m) = 4
        BY <2>2
      <4> QED BY <4>1, Entries
    <3>2. /\ at(m, n, 1, 1) = m[1] /\ at(m, n, 1, 2) = m[2]
          /\ at(m, n, 2, 1) = m[3] /\ at(m, n, 2, 2) = m[4]
      BY <2>2 DEF at
    <3>3. T = {fabs(m[1] - m[1]), d, e, fabs(m[4] - m[4])}
      <4> DEFINE g(i, j) == fabs(at(m, n, i, j) - at(m, n, j, i))
                 I == 1..n
      <4>1. I = {1, 2}
        BY <2>2
      <4>2. /\ g(1, 1) = fabs(m[1] - m[1]) /\ g(1, 2) = d
            /\ g(2, 1) = e /\ g(2, 2) = fabs(m[4] - m[4])
        BY <3>2
      <4>3. T = {g(i, j) : i \in I, j \in I}
        OBVIOUS
      <4> HIDE DEF g, T, d, e, I
      <4>4. T = {g(1, 1), g(1, 2), g(2, 1), g(2, 2)}
        BY <4>1, <4>3
      <4> QED BY <4>2, <4>4
    <3>4. fabs(m[1] - m[1]) = 0 /\ fabs(m[4] - m[4]) = 0 /\ d \in Nat /\ e \in Nat
      <4>1. m[1] - m[1] = 0 /\ m[4] - m[4] = 0 /\ m[2] - m[3] \in Int /\ m[3] - m[2] \in Int
        BY <3>1
      <4>2. fabs(0) = 0
        BY DEF fabs
      <4> QED BY <4>1, <4>2, Magnitude
    <3> HIDE DEF T, d, e
    <3>5. T = {0, d, e}
      BY <3>3, <3>4
    <3>6. T \subseteq Nat /\ T # {} /\ d + e \in Int /\ \A y \in T : y <= d + e
      BY <3>4, <3>5
    <3>7. Max(T) \in T /\ \A y \in T : Max(T) >= y
      <4> DEFINE b == d + e
      <4>1. T \subseteq Int /\ T # {} /\ b \in Int /\ \A y \in T : y <= b
        BY <3>6
      <4> HIDE DEF b
      <4> QED BY <4>1, GreatestExists
    <3>8. Max(T) \in Nat /\ Max(T) >= d
      BY <3>5, <3>6, <3>7
    <3> QED BY <2>2, <3>8 DEF T, d, max_asymmetry
  <2> QED BY <2>1, <2>2
<1> QED BY <1>1, <1>2

LEMMA BudgetIsNat == \A t, s \in Nat : Budget(t, s) \in Nat
<1> SUFFICES ASSUME NEW t \in Nat, NEW s \in Nat PROVE Budget(t, s) \in Nat
  OBVIOUS
<1>1. maximum(s, Unit) \in Nat
  BY CovarianceAssumption DEF maximum
<1> DEFINE u == maximum(s, Unit)
<1> HIDE DEF u
<1>2. u \in Nat
  BY <1>1 DEF u
<1>3. t * u \in Nat
  BY <1>2
<1> QED BY <1>3 DEF u, Budget

-----------------------------------------------------------------------------
(* The spectrum of two rows *)

LEMMA OneRoot ==
    ASSUME NEW a \in Nat, NEW b \in Nat, a * a = b * b
    PROVE  a = b
<1>1. (a - b) * (a + b) = 0
  OBVIOUS
<1> QED BY <1>1

\* The two eigenvalues, and what they are apart.
AreEigenvalues(m, r, low, high) ==
    /\ r \in Nat /\ low \in Int /\ high \in Int
    /\ r * r = Discriminant(m)
    /\ 2 * low = m[1] + m[4] - r /\ 2 * high = m[1] + m[4] + r
    /\ symmetric_eigenvalues(m, 2) = <<Overflowed(low), Overflowed(high)>>

LEMMA EigenvaluesOfMore ==
    ASSUME NEW m, NEW n, n # 1
    PROVE  symmetric_eigenvalues(m, n) =
              <<Overflowed((m[1] + m[4] - Distance(m)) \div 2),
                Overflowed((m[1] + m[4] + Distance(m)) \div 2)>>
BY DEF symmetric_eigenvalues

LEMMA Halves ==
    \A t, r \in Int : (t + r) % 2 = 0 =>
        /\ (t - r) \div 2 \in Int /\ 2 * ((t - r) \div 2) = t - r
        /\ (t + r) \div 2 \in Int /\ 2 * ((t + r) \div 2) = t + r
OBVIOUS

LEMMA SpectrumOfTwo ==
    ASSUME NEW m \in Seq(Int), Len(m) = 4, IntegerSpectrum(m)
    PROVE  \E r, low, high : AreEigenvalues(m, r, low, high)
<1> DEFINE D == Discriminant(m)
           root == Distance(m)
           t == m[1] + m[4]
           low == (m[1] + m[4] - root) \div 2
           high == (m[1] + m[4] + root) \div 2
<1>1. PICK s \in 0..D : s * s = D /\ (t + s) % 2 = 0
  BY DEF IntegerSpectrum
<1>2. m[1] \in Int /\ m[2] \in Int /\ m[3] \in Int /\ m[4] \in Int
  BY Entries
<1>3. t \in Int
  BY <1>2
<1>4. D \in Int
  BY <1>2 DEF Discriminant
<1>5. root \in 0..D /\ root * root = D
  <2>1. root = CHOOSE r \in 0..D : r * r = D
    BY DEF Distance
  <2> HIDE DEF D, root
  <2> QED BY <1>1, <2>1
<1>6. symmetric_eigenvalues(m, 2) = <<Overflowed(low), Overflowed(high)>>
  <2> DEFINE n == 2
  <2>1. n # 1
    OBVIOUS
  <2> HIDE DEF n
  <2>2. symmetric_eigenvalues(m, n) = <<Overflowed(low), Overflowed(high)>>
    BY <2>1, EigenvaluesOfMore, Zenon
  <2> QED BY <2>2 DEF n
<1>7. /\ root \in Nat
      /\ low \in Int /\ 2 * low = t - root
      /\ high \in Int /\ 2 * high = t + root
  <2> HIDE DEF D, root, t
  <2>1. root \in Nat /\ s \in Nat
    BY <1>1, <1>4, <1>5
  <2>2. root = s
    BY <1>1, <1>5, <2>1, OneRoot
  <2>3. (t + root) % 2 = 0
    BY <1>1, <2>2
  <2>4. root \in Int
    BY <2>1
  <2>5. low = (t - root) \div 2 /\ high = (t + root) \div 2
    BY <1>2, <2>4 DEF t
  <2> HIDE DEF low, high
  <2> QED BY <1>3, <2>1, <2>3, <2>4, <2>5, Halves
<1> HIDE DEF low, high
<1>8. AreEigenvalues(m, root, low, high)
  <2>1. root * root = Discriminant(m)
    BY <1>5
  <2>2. 2 * low = m[1] + m[4] - root /\ 2 * high = m[1] + m[4] + root
    <3> HIDE DEF root
    <3> QED BY <1>2, <1>7
  <2>3. root \in Nat /\ low \in Int /\ high \in Int
    BY <1>7
  <2> HIDE DEF D, root, t
  <2> QED BY <1>6, <2>1, <2>2, <2>3, Zenon DEF AreEigenvalues
<1> QED BY <1>8

LEMMA SmallSpectrum ==
    ASSUME NEW in, Reached(in)
    PROVE  LET s == symmetric_eigenvalues(in.matrix, in.n_rows)
           IN  /\ s \in Seq(Int \cup {NaN}) /\ Len(s) = in.n_rows
               /\ in.n_rows = 1 => s = <<Overflowed(in.matrix[1])>>
<1> DEFINE s == symmetric_eigenvalues(in.matrix, in.n_rows)
<1>1. \A a \in Int : Overflowed(a) \in Int \cup {NaN}
  BY DEF Overflowed
<1>2. CASE in.n_rows = 1
  <2>1. in.matrix[1] \in Int
    BY <1>2 DEF Reached
  <2>2. s = <<Overflowed(in.matrix[1])>>
    BY <1>2 DEF symmetric_eigenvalues
  <2> HIDE DEF s
  <2> QED BY <1>1, <1>2, <2>1, <2>2 DEF s
<1>3. CASE in.n_rows = 2
  <2>1. in.matrix \in Seq(Int) /\ Len(in.matrix) = 4 /\ IntegerSpectrum(in.matrix)
    BY <1>3 DEF Reached
  <2>2. PICK r, low, high : AreEigenvalues(in.matrix, r, low, high)
    BY <2>1, SpectrumOfTwo
  <2>3. s = <<Overflowed(low), Overflowed(high)>> /\ low \in Int /\ high \in Int
    BY <1>3, <2>2 DEF AreEigenvalues
  <2> DEFINE o1 == Overflowed(low)
             o2 == Overflowed(high)
  <2>4. o1 \in Int \cup {NaN} /\ o2 \in Int \cup {NaN} /\ s = <<o1, o2>>
    BY <1>1, <2>3
  <2> HIDE DEF s, o1, o2
  <2>5. s \in Seq(Int \cup {NaN}) /\ Len(s) = 2
    BY <2>4
  <2> QED BY <1>3, <2>5 DEF s
<1> QED BY <1>2, <1>3 DEF Reached

LEMMA SpectrumMagnitudes ==
    ASSUME NEW s \in Seq(Int), Len(s) \in {1, 2}
    PROVE  /\ Magnitudes(s) \subseteq Nat /\ Magnitudes(s) # {}
           /\ largest_magnitude(s) \in Nat
           /\ \A y \in Magnitudes(s) : largest_magnitude(s) >= y
<1>1. \A k \in DOMAIN s : s[k] \in Int /\ s[k] # NaN
  BY CovarianceAssumption
<1>2. Magnitudes(s) = {fabs(s[k]) : k \in DOMAIN s}
  BY <1>1 DEF Magnitudes
<1>3. Magnitudes(s) = IF Len(s) = 1 THEN {fabs(s[1])} ELSE {fabs(s[1]), fabs(s[2])}
  <2>1. DOMAIN s = IF Len(s) = 1 THEN {1} ELSE {1, 2}
    OBVIOUS
  <2> QED BY <1>2, <2>1
<1>4. fabs(s[1]) \in Nat /\ (Len(s) = 2 => fabs(s[2]) \in Nat)
  <2>1. s[1] \in Int /\ (Len(s) = 2 => s[2] \in Int)
    OBVIOUS
  <2> QED BY <2>1, Magnitude
<1>5. \E b \in Nat : \A y \in Magnitudes(s) : y <= b
  <2>1. CASE Len(s) = 1
    BY <1>3, <1>4, <2>1
  <2>2. CASE Len(s) = 2
    <3> DEFINE f1 == fabs(s[1])
               f2 == fabs(s[2])
    <3>1. f1 \in Nat /\ f2 \in Nat /\ Magnitudes(s) = {f1, f2}
      BY <1>3, <1>4, <2>2
    <3> HIDE DEF f1, f2
    <3>2. f1 + f2 \in Nat /\ \A y \in Magnitudes(s) : y <= f1 + f2
      BY <3>1
    <3> QED BY <3>2
  <2> QED BY <2>1, <2>2
<1>6. Magnitudes(s) \subseteq Nat /\ Magnitudes(s) # {}
  BY <1>3, <1>4
<1>7. PICK b \in Nat : \A y \in Magnitudes(s) : y <= b
  BY <1>5
<1> DEFINE T == {0} \cup Magnitudes(s)
<1>8. T \subseteq Int /\ T # {} /\ b \in Int /\ \A y \in T : y <= b
  BY <1>6, <1>7
<1>9. T \subseteq Nat
  BY <1>6
<1> HIDE DEF T
<1>10. Max(T) \in T /\ \A y \in T : Max(T) >= y
  BY <1>8, GreatestExists
<1> QED BY <1>6, <1>9, <1>10 DEF T, largest_magnitude

-----------------------------------------------------------------------------
(* The invariant *)

GateInv ==
    \/ report = Pending
    \/ input \in Inputs /\ input \notin Updates /\ report = validate_covariance(input)
    \/ /\ input \in Updates /\ input \notin Inputs
       /\ report = [fault |-> "kNone",
              updated |-> covariance_update(input.P, input.K, input.H, input.R)]

\* What is reported is of the input, and of the right one of the two functions.
THEOREM ReportsAreOfInput == Spec => []GateInv
<1>1. Init => GateInv
  BY DEF Init, GateInv
<1>2. GateInv /\ [Next]_vars => GateInv'
  <2> SUFFICES ASSUME GateInv, [Next]_vars PROVE GateInv'
    OBVIOUS
  <2>1. CASE Validate
    <3>1. input' = input /\ input \in Inputs /\ report' = validate_covariance(input)
      BY <2>1 DEF Validate
    <3>2. input \notin Updates
      BY <3>1, InputsAssumption
    <3> QED BY <3>1, <3>2 DEF GateInv
  <2>2. CASE Update
    <3>1. /\ input' = input /\ input \in Updates
          /\ report' = [fault |-> "kNone",
                 updated |-> covariance_update(input.P, input.K, input.H, input.R)]
      BY <2>2 DEF Update
    <3>2. input \notin Inputs
      BY <3>1, InputsAssumption
    <3> QED BY <3>1, <3>2 DEF GateInv
  <2>3. CASE UNCHANGED vars
    BY <2>3 DEF vars, GateInv
  <2> QED BY <2>1, <2>2, <2>3 DEF Next
<1> QED BY <1>1, <1>2, PTL DEF Spec

\* A report that is more than an early refusal is that of a spectrum.
LEMMA ReportOfSpectrum ==
    ASSUME GateInv, Validated, report.fault \notin EarlyFaults \/ report.eigenvalues # <<>>
    PROVE  Reached(input) /\ report = SpectrumReport(input)
<1>1. input \in Inputs /\ report = validate_covariance(input)
  BY DEF GateInv, Validated
<1>2. CASE Reached(input) /\ validate_covariance(input) = SpectrumReport(input)
  BY <1>1, <1>2
<1>3. CASE \E f \in EarlyFaults : validate_covariance(input) = Refused(f)
  <2>1. PICK f \in EarlyFaults : report = Refused(f)
    BY <1>1, <1>3
  <2>2. report.fault = f /\ report.eigenvalues = <<>>
    BY <2>1 DEF Refused
  <2> QED BY <2>2
<1> QED BY <1>1, <1>2, <1>3, GateCases

\* Once nothing in the spectrum is NaN, it is one of integers.
LEMMA FiniteSpectrum ==
    ASSUME NEW in, Reached(in), SpectrumReport(in).fault # "kNonFiniteSpectrum"
    PROVE  LET s == symmetric_eigenvalues(in.matrix, in.n_rows)
           IN  /\ s \in Seq(Int) /\ Len(s) = in.n_rows
               /\ SpectrumReport(in) = [fault |-> PsdFault(in, s), eigenvalues |-> s,
                                        condition |-> condition_number(s)]
<1> DEFINE s == symmetric_eigenvalues(in.matrix, in.n_rows)
<1>1. s \in Seq(Int \cup {NaN}) /\ Len(s) = in.n_rows
  BY SmallSpectrum
<1>2. SpectrumReport(in) =
        IF \E k \in DOMAIN s : s[k] = NaN
        THEN [fault |-> "kNonFiniteSpectrum", eigenvalues |-> s, condition |-> NaN]
        ELSE [fault |-> PsdFault(in, s), eigenvalues |-> s, condition |-> condition_number(s)]
  BY DEF SpectrumReport
<1> HIDE DEF s
<1>3. ~(\E k \in DOMAIN s : s[k] = NaN)
  BY <1>2
<1>4. s \in Seq(Int)
  <2>1. \A k \in 1..Len(s) : s[k] \in Int
    BY <1>1, <1>3
  <2> QED BY <1>1, <2>1
<1> QED BY <1>1, <1>2, <1>3, <1>4 DEF s

-----------------------------------------------------------------------------
(* What the gate promises *)

LEMMA ConditionOfHealthy ==
    ASSUME NEW s \in Seq(Int), Len(s) \in {1, 2}
    PROVE  /\ condition_number(s) = Inf \/ condition_number(s)[1] >= condition_number(s)[2]
           /\ condition_number(s) # <<0, 1>>
<1> DEFINE top == largest_magnitude(s)
           bottom == Min(Magnitudes(s))
<1>1. /\ Magnitudes(s) \subseteq Nat /\ Magnitudes(s) # {}
      /\ top \in Nat /\ \A y \in Magnitudes(s) : top >= y
  BY SpectrumMagnitudes
<1>2. bottom \in Magnitudes(s)
  BY <1>1, LeastExists
<1>3. top >= bottom /\ bottom \in Nat
  BY <1>1, <1>2
<1>4. condition_number(s) = IF 0 \in Magnitudes(s) THEN Inf ELSE <<top, bottom>>
  BY <1>1 DEF condition_number
<1>5. CASE 0 \in Magnitudes(s)
  BY <1>4, <1>5, CovarianceAssumption
<1>6. CASE 0 \notin Magnitudes(s)
  <2>1. bottom # 0
    BY <1>2, <1>6
  <2> HIDE DEF top, bottom
  <2>2. top # 0
    BY <1>1, <1>3, <2>1
  <2>3. condition_number(s) = <<top, bottom>>
    BY <1>4, <1>6
  <2> QED BY <1>3, <2>2, <2>3
<1> QED BY <1>5, <1>6

LEMMA NonFiniteRefused == GateInv => NonFiniteIsRefused
<1> SUFFICES ASSUME GateInv PROVE NonFiniteIsRefused
  OBVIOUS
<1>1. ASSUME Accepted
      PROVE  /\ \A k \in DOMAIN input.matrix : input.matrix[k] # NaN
             /\ \A k \in DOMAIN report.eigenvalues : report.eigenvalues[k] # NaN
             /\ report.condition = Inf \/ report.condition[1] >= report.condition[2]
  <2> DEFINE s == symmetric_eigenvalues(input.matrix, input.n_rows)
  <2>1. Validated /\ report.fault = "kNone"
    BY <1>1 DEF Accepted
  <2>2. report.fault \notin EarlyFaults
    BY <2>1 DEF EarlyFaults
  <2>3. Reached(input) /\ report = SpectrumReport(input)
    BY <2>1, <2>2, ReportOfSpectrum
  <2>4. SpectrumReport(input).fault # "kNonFiniteSpectrum"
    BY <2>1, <2>3
  <2>5. /\ s \in Seq(Int) /\ Len(s) = input.n_rows
        /\ report = [fault |-> PsdFault(input, s), eigenvalues |-> s,
                     condition |-> condition_number(s)]
    BY <2>3, <2>4, FiniteSpectrum
  <2> HIDE DEF s
  <2>6. report.eigenvalues = s /\ report.condition = condition_number(s)
    BY <2>5
  <2>7. input.matrix \in Seq(Int) /\ Len(s) \in {1, 2}
    BY <2>3, <2>5 DEF Reached
  <2>8. \A k \in DOMAIN s : s[k] # NaN
    BY <2>5, CovarianceAssumption
  <2>9. \A k \in DOMAIN input.matrix : input.matrix[k] # NaN
    <3> DEFINE m == input.matrix
    <3>1. m \in Seq(Int)
      BY <2>7
    <3> HIDE DEF m
    <3>2. \A k \in DOMAIN m : m[k] # NaN
      BY <3>1, CovarianceAssumption
    <3> QED BY <3>2 DEF m
  <2>10. condition_number(s) = Inf \/ condition_number(s)[1] >= condition_number(s)[2]
    BY <2>5, <2>7, ConditionOfHealthy
  <2> QED BY <2>6, <2>8, <2>9, <2>10
<1>2. ASSUME Validated, report.eigenvalues # <<>>
      PROVE  report.condition # <<0, 1>>
  <2>1. Reached(input) /\ report = SpectrumReport(input)
    BY <1>2, ReportOfSpectrum
  <2>2. CASE SpectrumReport(input).fault = "kNonFiniteSpectrum"
    <3> DEFINE s == symmetric_eigenvalues(input.matrix, input.n_rows)
    <3>1. PsdFault(input, s) # "kNonFiniteSpectrum"
      BY DEF PsdFault
    <3>2. SpectrumReport(input) =
            IF \E k \in DOMAIN s : s[k] = NaN
            THEN [fault |-> "kNonFiniteSpectrum", eigenvalues |-> s, condition |-> NaN]
            ELSE [fault |-> PsdFault(input, s), eigenvalues |-> s,
                  condition |-> condition_number(s)]
      BY DEF SpectrumReport
    <3> HIDE DEF s
    <3>3. SpectrumReport(input).condition = NaN
      BY <2>2, <3>1, <3>2
    <3> QED BY <2>1, <3>3, CovarianceAssumption
  <2>3. CASE SpectrumReport(input).fault # "kNonFiniteSpectrum"
    <3> DEFINE s == symmetric_eigenvalues(input.matrix, input.n_rows)
    <3>1. /\ s \in Seq(Int) /\ Len(s) = input.n_rows
          /\ report.condition = condition_number(s)
      BY <2>1, <2>3, FiniteSpectrum
    <3> HIDE DEF s
    <3>2. Len(s) \in {1, 2}
      BY <2>1, <3>1 DEF Reached
    <3> QED BY <3>1, <3>2, ConditionOfHealthy
  <2> QED BY <2>2, <2>3
<1> QED BY <1>1, <1>2 DEF NonFiniteIsRefused

\* No number that is not finite gets past the gate, in an entry or born in the rotations,
\* and none leaves the condition number of a healthy matrix behind (covariance.cpp
\* validate_covariance).
THEOREM NonFiniteIsRefusedHolds == Spec => []NonFiniteIsRefused
<1>1. GateInv => NonFiniteIsRefused
  BY NonFiniteRefused
<1> QED BY <1>1, ReportsAreOfInput, PTL

\* The form is at least its least eigenvalue, less half of what symmetry lacks.
LEMMA Widened ==
    ASSUME NEW m \in Seq(Int), Len(m) = 4, NEW r, NEW low, NEW high,
           AreEigenvalues(m, r, low, high)
    PROVE  \A x, y \in Int :
              2 * (x * x * m[1] + x * y * (m[2] + m[3]) + y * y * m[4])
                  >= (2 * low - fabs(m[2] - m[3])) * (x * x + y * y)
<1> DEFINE a == m[1]
           b == m[2]
           c == m[3]
           d == m[4]
           e == fabs(b - c)
<1>1. a \in Int /\ b \in Int /\ c \in Int /\ d \in Int
  BY Entries
<1>2. e \in Nat /\ e * e = (b - c) * (b - c)
  BY <1>1 DEF fabs
<1>3. r \in Nat /\ low \in Int /\ r * r = (a - d) * (a - d) + 4 * b * c /\ 2 * low = a + d - r
  BY DEF AreEigenvalues, Discriminant
<1> SUFFICES ASSUME NEW x \in Int, NEW y \in Int
             PROVE  2 * (x * x * a + x * y * (b + c) + y * y * d)
                        >= (2 * low - e) * (x * x + y * y)
  OBVIOUS
<1> HIDE DEF a, b, c, d, e
<1> DEFINE p == a - d
           f == b + c
           A == r + e + p
           C == r + e - p
<1>4. p \in Int /\ f \in Int /\ A \in Int /\ C \in Int
  BY <1>1, <1>2, <1>3
<1>5. r * r = p * p + 4 * b * c
  BY <1>3
<1>6. A * C - f * f = 2 * (r * e)
  <2>1. A * C = r * r + 2 * (r * e) + e * e - p * p
    BY <1>2, <1>3, <1>4
  <2>2. f * f = b * b + 2 * (b * c) + c * c
    BY <1>1
  <2>3. e * e = b * b - 2 * (b * c) + c * c
    BY <1>1, <1>2
  <2> DEFINE rr == r * r
             re == r * e
             ee == e * e
             pp == p * p
             bb == b * b
             bc == b * c
             cc == c * c
             AC == A * C
             ff == f * f
  <2>4. rr = pp + 4 * bc
    BY <1>1, <1>5
  <2>5. /\ rr \in Int /\ re \in Int /\ ee \in Int /\ pp \in Int /\ bb \in Int /\ bc \in Int
        /\ cc \in Int /\ AC \in Int /\ ff \in Int
    BY <1>1, <1>2, <1>3, <1>4
  <2>6. AC = rr + 2 * re + ee - pp /\ ff = bb + 2 * bc + cc /\ ee = bb - 2 * bc + cc
    BY <2>1, <2>2, <2>3
  <2> HIDE DEF rr, re, ee, pp, bb, bc, cc, AC, ff
  <2>7. AC - ff = 2 * re
    BY <2>4, <2>5, <2>6
  <2> QED BY <2>7 DEF AC, ff, re
<1>7. r * e \in Nat
  BY <1>2, <1>3
<1>8. A * C >= f * f
  <2>1. A * C \in Int /\ f * f \in Int
    BY <1>4
  <2> QED BY <1>6, <1>7, <2>1
<1>9. A >= 0 /\ C >= 0
  <2>1. f * f >= 0
    BY <1>4, Squares
  <2>2. A * C >= 0 /\ A + C >= 0
    <3>1. A * C \in Int /\ f * f \in Int
      BY <1>4
    <3>2. A + C = 2 * (r + e)
      BY <1>2, <1>3, <1>4
    <3>3. r + e >= 0
      BY <1>2, <1>3
    <3> QED BY <1>2, <1>3, <1>8, <2>1, <3>1, <3>2, <3>3
  <2>3. CASE A = 0
    BY <1>4, <2>2, <2>3
  <2>4. CASE A # 0 /\ C # 0
    <3> HIDE DEF A, C
    <3> QED BY <1>4, <2>2, <2>4
  <2>5. CASE C = 0
    BY <1>4, <2>2, <2>5
  <2> QED BY <2>3, <2>4, <2>5
<1>10. x * x * A + 2 * (x * y * f) + y * y * C >= 0
  <2> HIDE DEF A, C, f
  <2> QED BY <1>4, <1>8, <1>9, FormIsNotNegative
<1>11. A = 2 * a - 2 * low + e /\ C = 2 * d - 2 * low + e
  BY <1>1, <1>2, <1>3
<1>12. x * x * A + 2 * (x * y * f) + y * y * C
         = 2 * (x * x * a + x * y * f + y * y * d) - (2 * low - e) * (x * x + y * y)
  <2>1. /\ x * x * A = 2 * (x * x * a) - (2 * low - e) * (x * x)
        /\ y * y * C = 2 * (y * y * d) - (2 * low - e) * (y * y)
    <3> HIDE DEF A, C
    <3> QED BY <1>1, <1>2, <1>3, <1>11
  <2>2. (2 * low - e) * (x * x + y * y) = (2 * low - e) * (x * x) + (2 * low - e) * (y * y)
    BY <1>2, <1>3
  <2> DEFINE q1 == x * x * A
             q2 == y * y * C
             q3 == x * x * a
             q4 == y * y * d
             q5 == x * y * f
             q6 == (2 * low - e) * (x * x)
             q7 == (2 * low - e) * (y * y)
             q8 == (2 * low - e) * (x * x + y * y)
  <2>3. /\ q1 \in Int /\ q2 \in Int /\ q3 \in Int /\ q4 \in Int /\ q5 \in Int /\ q6 \in Int
        /\ q7 \in Int /\ q8 \in Int
    BY <1>1, <1>2, <1>3, <1>4
  <2>4. q1 = 2 * q3 - q6 /\ q2 = 2 * q4 - q7 /\ q8 = q6 + q7
    BY <2>1, <2>2
  <2> HIDE DEF q1, q2, q3, q4, q5, q6, q7, q8
  <2>5. q1 + 2 * q5 + q2 = 2 * (q3 + q5 + q4) - q8
    BY <2>3, <2>4
  <2> QED BY <2>5 DEF q1, q2, q3, q4, q5, q8
<1> DEFINE left == 2 * (x * x * a + x * y * f + y * y * d)
           right == (2 * low - e) * (x * x + y * y)
<1>13. left \in Int /\ right \in Int
  BY <1>1, <1>2, <1>3, <1>4
<1>14. left - right >= 0
  BY <1>10, <1>12
<1>15. left >= right
  <2> HIDE DEF left, right
  <2> QED BY <1>13, <1>14
<1> QED BY <1>15

\* What the gate has compared, in numbers.
LEMMA PsdCompared ==
    ASSUME NEW in, Reached(in), SpectrumReport(in).fault # "kNonFiniteSpectrum"
    PROVE  LET s == symmetric_eigenvalues(in.matrix, in.n_rows)
               budget == Budget(in.psd_tolerance, largest_magnitude(s))
           IN  /\ SpectrumReport(in).eigenvalues = s
               /\ s \in Seq(Int) /\ Len(s) = in.n_rows /\ s[1] \in Int /\ budget \in Nat
               /\ SpectrumReport(in).fault = "kNone" => 100 * s[1] >= -budget
               /\ SpectrumReport(in).fault = "kNotPositiveSemidefinite" => 100 * s[1] < -budget
<1> DEFINE s == symmetric_eigenvalues(in.matrix, in.n_rows)
           budget == Budget(in.psd_tolerance, largest_magnitude(s))
<1>1. /\ s \in Seq(Int) /\ Len(s) = in.n_rows
      /\ SpectrumReport(in) = [fault |-> PsdFault(in, s), eigenvalues |-> s,
                               condition |-> condition_number(s)]
  BY FiniteSpectrum
<1> HIDE DEF s
<1>2. Len(s) \in {1, 2} /\ in.psd_tolerance \in Nat
  BY <1>1 DEF Reached
<1>3. s[1] \in Int /\ s[1] # NaN
  <2>1. 1 \in 1..Len(s)
    BY <1>2
  <2> QED BY <1>1, <2>1, ElementOfSeq, CovarianceAssumption
<1>4. budget \in Nat
  BY <1>1, <1>2, SpectrumMagnitudes, BudgetIsNat
<1>5. PsdFault(in, s) = IF 100 * s[1] < -budget THEN "kNotPositiveSemidefinite" ELSE "kNone"
  BY <1>3 DEF PsdFault
<1> HIDE DEF budget
<1>6. SpectrumReport(in).eigenvalues = s /\ SpectrumReport(in).fault = PsdFault(in, s)
  BY <1>1
<1>7. SpectrumReport(in).fault = "kNone" => 100 * s[1] >= -budget
  BY <1>3, <1>4, <1>5, <1>6
<1>8. SpectrumReport(in).fault = "kNotPositiveSemidefinite" => 100 * s[1] < -budget
  BY <1>5, <1>6
<1> QED BY <1>1, <1>3, <1>4, <1>6, <1>7, <1>8 DEF s, budget

LEMMA OneEigenvalue ==
    ASSUME NEW in, Reached(in), in.n_rows = 1,
           symmetric_eigenvalues(in.matrix, in.n_rows)[1] \in Int
    PROVE  /\ in.matrix[1] \in Int
           /\ symmetric_eigenvalues(in.matrix, in.n_rows)[1] = in.matrix[1]
<1>1. in.matrix[1] \in Int
  <2>1. in.matrix \in Seq(Int) /\ 1 \in 1..Len(in.matrix)
    BY DEF Reached
  <2> QED BY <2>1, ElementOfSeq
<1>2. symmetric_eigenvalues(in.matrix, in.n_rows) = <<Overflowed(in.matrix[1])>>
  BY SmallSpectrum
<1>3. symmetric_eigenvalues(in.matrix, in.n_rows)[1] = Overflowed(in.matrix[1])
  BY <1>2
<1> QED BY <1>1, <1>3, CovarianceAssumption DEF Overflowed

LEMMA TwoEigenvalues ==
    ASSUME NEW in, Reached(in), in.n_rows = 2,
           symmetric_eigenvalues(in.matrix, in.n_rows)[1] \in Int
    PROVE  /\ in.matrix \in Seq(Int) /\ Len(in.matrix) = 4
           /\ \E r, low, high :
                 /\ AreEigenvalues(in.matrix, r, low, high)
                 /\ symmetric_eigenvalues(in.matrix, in.n_rows)[1] = low
<1>1. in.matrix \in Seq(Int) /\ Len(in.matrix) = 4 /\ IntegerSpectrum(in.matrix)
  BY DEF Reached
<1>2. PICK r, low, high : AreEigenvalues(in.matrix, r, low, high)
  BY <1>1, SpectrumOfTwo
<1>3. symmetric_eigenvalues(in.matrix, in.n_rows) = <<Overflowed(low), Overflowed(high)>>
  BY <1>2 DEF AreEigenvalues
<1>4. symmetric_eigenvalues(in.matrix, in.n_rows)[1] = Overflowed(low)
  BY <1>3
<1>5. Overflowed(low) = low
  BY <1>4, CovarianceAssumption DEF Overflowed
<1> QED BY <1>1, <1>2, <1>4, <1>5

\* Half of what is forgiven of the symmetry, and what is forgiven of the sign.
LEMMA Forgiven ==
    ASSUME NEW low \in Int, NEW e \in Nat, NEW budget \in Nat, NEW forgiven \in Nat,
           NEW norm \in Nat, NEW form \in Int,
           100 * low >= -budget, 100 * e <= forgiven, 2 * form >= (2 * low - e) * norm
    PROVE  200 * form >= -norm * (2 * budget + forgiven)
<1> DEFINE worst == 200 * low - 100 * e
           least == -(2 * budget + forgiven)
<1>1. worst \in Int /\ least \in Int /\ worst >= least
  OBVIOUS
<1>2. worst * norm = 100 * ((2 * low - e) * norm)
  OBVIOUS
<1>3. -norm * (2 * budget + forgiven) = least * norm
  OBVIOUS
<1> HIDE DEF worst, least
<1>4. worst * norm >= least * norm
  BY <1>1, Monotone
<1> DEFINE bound == (2 * low - e) * norm
           wn == worst * norm
           ln == least * norm
<1>5. bound \in Int /\ wn \in Int /\ ln \in Int /\ wn = 100 * bound /\ wn >= ln /\ 2 * form >= bound
  BY <1>1, <1>2, <1>4
<1> HIDE DEF bound, wn, ln
<1>6. 200 * form >= ln
  BY <1>5
<1> QED BY <1>3, <1>6 DEF ln

LEMMA WeightsAreIntegers ==
    ASSUME NEW n \in {1, 2}, NEW u \in Combinations(n)
    PROVE  u[1] \in Int /\ (n = 2 => u[2] \in Int)
<1>1. u \in [1..n -> Weights] /\ 1 \in 1..n /\ (n = 2 => 2 \in 1..n)
  BY DEF Combinations
<1>2. u[1] \in Weights /\ (n = 2 => u[2] \in Weights)
  BY <1>1
<1>3. Weights \subseteq Int
  BY CovarianceAssumption
<1> QED BY <1>2, <1>3

LEMMA AcceptedVariances == GateInv => AcceptedHasVariances
<1> SUFFICES ASSUME GateInv, Accepted
             PROVE  \A u \in Combinations(input.n_rows) :
                       200 * Variance(input.matrix, input.n_rows, u)
                           >= -Norm2(input.n_rows, u)
                               * (2 * Budget(input.psd_tolerance, largest_magnitude(report.eigenvalues))
                                    + Budget(input.symmetry_tolerance, scale(input.matrix)))
  BY DEF AcceptedHasVariances
<1> DEFINE m == input.matrix
           n == input.n_rows
           s == symmetric_eigenvalues(m, n)
           budget == Budget(input.psd_tolerance, largest_magnitude(report.eigenvalues))
           forgiven == Budget(input.symmetry_tolerance, scale(m))
<1>1. Validated /\ report.fault = "kNone" /\ report.fault \notin EarlyFaults
  BY DEF Accepted, EarlyFaults
<1>2. Reached(input) /\ report = SpectrumReport(input)
  BY <1>1, ReportOfSpectrum
<1>3. SpectrumReport(input).fault = "kNone"
  BY <1>1, <1>2
<1>4. SpectrumReport(input).fault # "kNonFiniteSpectrum"
  BY <1>3
<1>5. report.eigenvalues = s /\ s[1] \in Int /\ budget \in Nat /\ 100 * s[1] >= -budget
  BY <1>2, <1>3, <1>4, PsdCompared
<1>6. forgiven \in Nat /\ (n = 2 => 100 * fabs(m[2] - m[3]) <= forgiven)
  <2>1. /\ m \in Seq(Int) /\ n \in {1, 2} /\ Len(m) = n * n /\ input.symmetry_tolerance \in Nat
        /\ ~(100 * max_asymmetry(m, n) > forgiven)
    BY <1>2 DEF Reached
  <2> HIDE DEF m, n
  <2>2. /\ scale(m) \in Nat /\ max_asymmetry(m, n) \in Nat
        /\ n = 2 => max_asymmetry(m, n) >= fabs(m[2] - m[3])
    BY <2>1, MatrixSizes
  <2>3. forgiven \in Nat
    BY <2>1, <2>2, BudgetIsNat
  <2>4. n = 2 => m[2] \in Int /\ m[3] \in Int
    <3>1. n = 2 => Len(m) = 4
      BY <2>1
    <3> QED BY <2>1, <3>1, Entries
  <2>5. n = 2 => fabs(m[2] - m[3]) \in Nat
    BY <2>4, Magnitude
  <2> DEFINE top == max_asymmetry(m, n)
             e == fabs(m[2] - m[3])
  <2>6. top \in Nat /\ ~(100 * top > forgiven) /\ (n = 2 => top >= e /\ e \in Nat)
    BY <2>1, <2>2, <2>5
  <2> HIDE DEF top, e, forgiven
  <2>7. n = 2 => 100 * e <= forgiven
    BY <2>3, <2>6
  <2> QED BY <2>3, <2>7 DEF e
<1>7. SUFFICES ASSUME NEW u \in Combinations(n)
               PROVE  200 * Variance(m, n, u) >= -Norm2(n, u) * (2 * budget + forgiven)
  OBVIOUS
<1>8. CASE n = 1
  <2>1. m[1] \in Int /\ s[1] = m[1]
    BY <1>2, <1>5, <1>8, OneEigenvalue
  <2>2. u[1] \in Int
    BY <1>8, WeightsAreIntegers
  <2> DEFINE x == u[1]
             low == m[1]
             norm == x * x
             form == x * x * low
  <2>3. Variance(m, n, u) = form /\ Norm2(n, u) = norm
    BY <1>8 DEF Variance, Norm2
  <2>4. norm \in Nat /\ form \in Int /\ 2 * form = (2 * low - 0) * norm /\ low \in Int
    <3>1. x \in Int /\ low \in Int
      BY <2>1, <2>2
    <3> HIDE DEF x, low
    <3>2. norm \in Nat
      BY <3>1, Squares
    <3> QED BY <3>1, <3>2
  <2>5. 100 * low >= -budget /\ 100 * 0 <= forgiven
    BY <1>5, <1>6, <2>1
  <2> HIDE DEF m, n, s, budget, forgiven, x, low, norm, form
  <2>6. 2 * form >= (2 * low - 0) * norm
    BY <2>4
  <2>7. 200 * form >= -norm * (2 * budget + forgiven)
    <3> DEFINE e == 0
    <3>1. e \in Nat /\ 100 * e <= forgiven /\ 2 * form >= (2 * low - e) * norm
      BY <2>5, <2>6
    <3> HIDE DEF e
    <3> QED BY <1>5, <1>6, <2>4, <2>5, <3>1, Forgiven
  <2> QED BY <2>3, <2>7
<1>9. CASE n = 2
  <2>1. PICK r, low, high : AreEigenvalues(m, r, low, high) /\ s[1] = low
    BY <1>2, <1>5, <1>9, TwoEigenvalues
  <2>2. m \in Seq(Int) /\ Len(m) = 4
    BY <1>2, <1>5, <1>9, TwoEigenvalues
  <2>3. u[1] \in Int /\ u[2] \in Int
    BY <1>9, WeightsAreIntegers
  <2> DEFINE x == u[1]
             y == u[2]
             e == fabs(m[2] - m[3])
             norm == x * x + y * y
             form == x * x * m[1] + x * y * (m[2] + m[3]) + y * y * m[4]
  <2>4. Variance(m, n, u) = form /\ Norm2(n, u) = norm
    <3>1. n # 1
      BY <1>9
    <3> QED BY <3>1, Zenon DEF Variance, Norm2
  <2>5. x \in Int /\ y \in Int
    BY <2>3
  <2>6. m[1] \in Int /\ m[2] \in Int /\ m[3] \in Int /\ m[4] \in Int
    BY <2>2, Entries
  <2>7. e \in Nat
    <3>1. m[2] - m[3] \in Int
      BY <2>6
    <3> QED BY <3>1, Magnitude
  <2>8. norm \in Nat
    <3> HIDE DEF x, y
    <3>1. x * x \in Nat /\ y * y \in Nat
      BY <2>5, Squares
    <3> QED BY <3>1
  <2>9. form \in Int
    <3> HIDE DEF x, y, m
    <3> QED BY <2>5, <2>6
  <2>10. 2 * form >= (2 * low - e) * norm
    <3> HIDE DEF x, y, m
    <3> QED BY <2>1, <2>2, <2>5, Widened
  <2>11. low \in Int /\ 100 * low >= -budget /\ 100 * e <= forgiven
    BY <1>5, <1>6, <1>9, <2>1
  <2> HIDE DEF m, n, s, budget, forgiven, x, y, e, norm, form
  <2>12. 200 * form >= -norm * (2 * budget + forgiven)
    BY <1>5, <1>6, <2>7, <2>8, <2>9, <2>10, <2>11, Forgiven
  <2> QED BY <2>4, <2>12
<1> QED BY <1>2, <1>8, <1>9 DEF Reached

\* What is accepted is what a covariance means: no combination of the components has a
\* variance below zero by more than the two tolerances, of any entries and any tolerances
\* (covariance.cpp validate_covariance).
THEOREM AcceptedHasVariancesHolds == Spec => []AcceptedHasVariances
<1>1. GateInv => AcceptedHasVariances
  BY AcceptedVariances
<1> QED BY <1>1, ReportsAreOfInput, PTL

\* Along the eigenvector of an eigenvalue below zero, the form is below zero, although the
\* matrix is symmetric only up to what is forgiven.
LEMMA NegativeCombination ==
    ASSUME NEW m \in Seq(Int), Len(m) = 4, NEW r, NEW low, NEW high,
           AreEigenvalues(m, r, low, high), low < 0
    PROVE  \E x, y \in Int : x * x * m[1] + x * y * (m[2] + m[3]) + y * y * m[4] < 0
<1> DEFINE a == m[1]
           b == m[2]
           c == m[3]
           d == m[4]
           k == a - low
           l == d - low
           form(x, y) == x * x * a + x * y * (b + c) + y * y * d
<1>1. a \in Int /\ b \in Int /\ c \in Int /\ d \in Int
  BY Entries
<1>2. r \in Nat /\ low \in Int /\ r * r = (a - d) * (a - d) + 4 * b * c /\ 2 * low = a + d - r
  BY DEF AreEigenvalues, Discriminant
<1> SUFFICES \E x, y \in Int : form(x, y) < 0
  OBVIOUS
<1> HIDE DEF a, b, c, d
<1>3. k \in Int /\ l \in Int /\ a = low + k /\ d = low + l
  BY <1>1, <1>2
<1>4. k * l = b * c
  <2>1. r = k + l /\ a - d = k - l
    BY <1>1, <1>2, <1>3
  <2>2. r * r = (k + l) * (k + l) /\ (a - d) * (a - d) = (k - l) * (k - l)
    BY <2>1
  <2> HIDE DEF k, l
  <2>3. (k + l) * (k + l) = (k - l) * (k - l) + 4 * (k * l)
    BY <1>3
  <2> DEFINE kl == k * l
             bc == b * c
             minus == (k - l) * (k - l)
             plus == (k + l) * (k + l)
  <2>4. kl \in Int /\ bc \in Int /\ minus \in Int /\ plus \in Int
    BY <1>1, <1>3
  <2>5. 4 * b * c = 4 * bc
    BY <1>1
  <2>6. plus = minus + 4 * bc
    BY <1>2, <2>2, <2>5
  <2>7. plus = minus + 4 * kl
    BY <2>3
  <2> HIDE DEF kl, bc, minus, plus
  <2>8. kl = bc
    BY <2>4, <2>6, <2>7
  <2> QED BY <2>8 DEF kl, bc
<1> HIDE DEF k, l
<1>5. CASE b = 0 /\ k = 0
  <2>1. form(1, 0) = low
    <3>1. 1 * 1 * a = a /\ 1 * 0 * (b + c) = 0 /\ 0 * 0 * d = 0
      BY <1>1
    <3>2. form(1, 0) = 1 * 1 * a + 1 * 0 * (b + c) + 0 * 0 * d
      OBVIOUS
    <3> HIDE DEF form
    <3>3. form(1, 0) = a
      BY <1>1, <3>1, <3>2
    <3> QED BY <1>2, <1>3, <1>5, <3>3
  <2> HIDE DEF form
  <2> QED BY <1>2, <2>1
<1>6. CASE ~(b = 0 /\ k = 0)
  <2> DEFINE bb == b * b
             kk == k * k
  <2>1. form(b, -k) = low * (b * b + k * k)
    <3>1. form(b, -k) = b * b * a - b * k * b - k * (b * c) + k * k * d
      BY <1>1, <1>3
    <3>2. k * (b * c) = k * (k * l)
      BY <1>4
    <3>3. b * b * a = b * b * low + b * b * k /\ k * k * d = k * k * low + k * k * l
      <4>1. \A f, g, h \in Int : f * f * (g + h) = f * f * g + f * f * h
        OBVIOUS
      <4> QED BY <1>1, <1>2, <1>3, <4>1
    <3>4. b * k * b = b * b * k /\ k * (k * l) = k * k * l
      BY <1>1, <1>3
    <3>5. low * (b * b + k * k) = b * b * low + k * k * low
      BY <1>1, <1>2, <1>3
    <3> DEFINE q1 == b * b * a
               q2 == b * k * b
               q3 == k * (b * c)
               q4 == k * k * d
               q5 == b * b * low
               q6 == k * k * low
               q7 == b * b * k
               q8 == k * k * l
               q9 == form(b, -k)
               q0 == low * (b * b + k * k)
    <3>6. /\ q1 \in Int /\ q2 \in Int /\ q3 \in Int /\ q4 \in Int /\ q5 \in Int /\ q6 \in Int
          /\ q7 \in Int /\ q8 \in Int
      BY <1>1, <1>2, <1>3
    <3>7. /\ q9 = q1 - q2 - q3 + q4 /\ q3 = q8 /\ q1 = q5 + q7 /\ q4 = q6 + q8
          /\ q2 = q7 /\ q0 = q5 + q6
      BY <3>1, <3>2, <3>3, <3>4, <3>5
    <3> HIDE DEF q0, q1, q2, q3, q4, q5, q6, q7, q8, q9, form
    <3>8. q9 = q0
      BY <3>6, <3>7
    <3> QED BY <3>8 DEF q0, q9
  <2>2. bb \in Nat /\ kk \in Nat /\ ~(bb = 0 /\ kk = 0)
    BY <1>1, <1>3, <1>6, Squares
  <2> DEFINE norm == bb + kk
  <2>3. norm \in Nat /\ norm # 0
    <3> HIDE DEF bb, kk
    <3> QED BY <2>2
  <2>4. form(b, -k) = low * norm
    BY <2>1
  <2> HIDE DEF bb, kk, norm, form
  <2>5. low * norm < 0
    BY <1>2, <2>3
  <2>6. b \in Int /\ -k \in Int
    BY <1>1, <1>3
  <2> QED BY <2>4, <2>5, <2>6
<1> QED BY <1>5, <1>6

LEMMA RefusedVariances == Weights = Int /\ GateInv => RefusedHasNegativeVariance
<1> SUFFICES ASSUME Weights = Int, GateInv, Validated, report.fault = "kNotPositiveSemidefinite"
             PROVE  \E u \in Combinations(input.n_rows) :
                       Variance(input.matrix, input.n_rows, u) < 0
  BY DEF RefusedHasNegativeVariance
<1> DEFINE m == input.matrix
           n == input.n_rows
           s == symmetric_eigenvalues(m, n)
           budget == Budget(input.psd_tolerance, largest_magnitude(s))
<1>1. report.fault \notin EarlyFaults
  BY DEF EarlyFaults
<1>2. Reached(input) /\ report = SpectrumReport(input)
  BY <1>1, ReportOfSpectrum
<1>3. /\ SpectrumReport(input).fault = "kNotPositiveSemidefinite"
      /\ SpectrumReport(input).fault # "kNonFiniteSpectrum"
  BY <1>2
<1>4. s[1] \in Int /\ budget \in Nat /\ 100 * s[1] < -budget
  BY <1>2, <1>3, PsdCompared
<1>5. s[1] < 0
  <2> DEFINE low == s[1]
  <2>1. low \in Int /\ budget \in Nat /\ 100 * low < -budget
    BY <1>4
  <2> HIDE DEF low, budget
  <2>2. low < 0
    BY <2>1
  <2> QED BY <2>2 DEF low
<1>6. CASE n = 1
  <2> DEFINE u == [i \in 1..n |-> 1]
  <2>1. m[1] \in Int /\ s[1] = m[1]
    BY <1>2, <1>4, <1>6, OneEigenvalue
  <2>2. u \in Combinations(n) /\ u[1] = 1
    BY <1>6 DEF Combinations
  <2>3. Variance(m, n, u) = u[1] * u[1] * m[1]
    BY <1>6 DEF Variance
  <2> HIDE DEF u, m, n, s
  <2>4. Variance(m, n, u) = m[1]
    BY <2>1, <2>2, <2>3
  <2>5. Variance(m, n, u) < 0
    BY <1>5, <2>1, <2>4
  <2>6. \E w \in Combinations(n) : Variance(m, n, w) < 0
    BY <2>2, <2>5
  <2> QED BY <2>6 DEF m, n
<1>7. CASE n = 2
  <2>1. /\ m \in Seq(Int) /\ Len(m) = 4
        /\ \E r, low, high : AreEigenvalues(m, r, low, high) /\ s[1] = low
    BY <1>2, <1>4, <1>7, TwoEigenvalues
  <2>2. PICK r, low, high : AreEigenvalues(m, r, low, high) /\ s[1] = low
    BY <2>1
  <2>3. low < 0
    BY <1>5, <2>2
  <2>4. PICK x \in Int, y \in Int : x * x * m[1] + x * y * (m[2] + m[3]) + y * y * m[4] < 0
    <3> HIDE DEF m, n, s
    <3> QED BY <2>1, <2>2, <2>3, NegativeCombination
  <2> DEFINE u == [i \in 1..n |-> IF i = 1 THEN x ELSE y]
  <2>5. u \in Combinations(n) /\ u[1] = x /\ u[2] = y
    BY <1>7 DEF Combinations
  <2>6. n # 1
    BY <1>7
  <2>7. Variance(m, n, u) = u[1] * u[1] * m[1] + u[1] * u[2] * (m[2] + m[3]) + u[2] * u[2] * m[4]
    BY <2>6, Zenon DEF Variance
  <2> HIDE DEF u, m, n, s
  <2>8. Variance(m, n, u) < 0
    BY <2>4, <2>5, <2>7
  <2>9. \E w \in Combinations(n) : Variance(m, n, w) < 0
    BY <2>5, <2>8
  <2> QED BY <2>9 DEF m, n
<1> QED BY <1>2, <1>6, <1>7 DEF Reached

\* What is refused as not positive semidefinite has a combination of negative variance, if
\* the components may be combined with any integers: no covariance is ever refused on that
\* ground, whatever its entries and the tolerances (covariance.cpp validate_covariance).
THEOREM RefusedHasNegativeVarianceHolds ==
    ASSUME Weights = Int
    PROVE  Spec => []RefusedHasNegativeVariance
<1>1. GateInv => RefusedHasNegativeVariance
  BY RefusedVariances
<1> QED BY <1>1, ReportsAreOfInput, PTL

-----------------------------------------------------------------------------
(* The update *)

\* A row of a meets a column of b.
Meet(a, b, i, j, n) ==
    /\ n \in {1, 2} /\ Len(a[i]) = n
    /\ \A k \in 1..n : a[i][k] \in Int /\ b[k][j] \in Int

EntryIs(a, b, i, j, n) ==
    Entry(a, b, i, j) = IF n = 1 THEN a[i][1] * b[1][j]
                        ELSE a[i][1] * b[1][j] + a[i][2] * b[2][j]

\* A zero that is skipped would have added nothing.
LEMMA EntryIsSum ==
    ASSUME NEW a, NEW b, NEW i, NEW j, NEW n, Meet(a, b, i, j, n)
    PROVE  EntryIs(a, b, i, j, n)
<1>0. /\ n \in {1, 2} /\ Len(a[i]) = n
      /\ \A k \in 1..n : a[i][k] \in Int /\ b[k][j] \in Int
  BY DEF Meet
<1> USE <1>0
<1> DEFINE L == Len(a[i])
           Equation(f) == f = [k \in 0..L |-> IF k = 0 THEN 0
                                 ELSE IF a[i][k] = 0 THEN f[k - 1]
                                 ELSE f[k - 1] + a[i][k] * b[k][j]]
           p == a[i][1] * b[1][j]
           q == a[i][2] * b[2][j]
           g == [k \in 0..L |-> IF k = 0 THEN 0 ELSE IF k = 1 THEN p ELSE p + q]
           s == CHOOSE f : Equation(f)
<1>1. /\ p \in Int /\ (a[i][1] = 0 => p = 0)
      /\ n = 2 => q \in Int /\ (a[i][2] = 0 => q = 0)
  OBVIOUS
<1>2. \A k \in 0..L : g[k] = IF k = 0 THEN 0
                         ELSE IF a[i][k] = 0 THEN g[k - 1]
                         ELSE g[k - 1] + a[i][k] * b[k][j]
  <2> TAKE k \in 0..L
  <2>1. CASE k = 0
    BY <2>1
  <2>2. CASE k = 1
    <3>1. g[k] = p /\ g[k - 1] = 0
      BY <2>2
    <3> HIDE DEF g
    <3> QED BY <1>1, <2>2, <3>1
  <2>3. CASE k = 2
    <3>1. g[k] = p + q /\ g[k - 1] = p /\ n = 2
      BY <2>3
    <3> HIDE DEF g
    <3>2. a[i][k] * b[k][j] = q /\ a[i][k] = a[i][2] /\ k # 0
      BY <2>3
    <3> HIDE DEF p, q
    <3> QED BY <1>1, <3>1, <3>2
  <2> QED BY <2>1, <2>2, <2>3
<1>3. Equation(g)
  <2>1. g = [k \in 0..L |-> g[k]]
    OBVIOUS
  <2> HIDE DEF g
  <2> QED BY <1>2, <2>1, Zenon
<1>4. Equation(s)
  <2> HIDE DEF Equation
  <2> QED BY <1>3
<1>5. Entry(a, b, i, j) = s[Len(a[i])]
  BY Zenon DEF Entry, Add, Mul
<1> HIDE DEF g, s
<1>6. s = [k \in 0..L |-> s[k]] /\ \A k \in 0..L : s[k] = IF k = 0 THEN 0
                         ELSE IF a[i][k] = 0 THEN s[k - 1]
                         ELSE s[k - 1] + a[i][k] * b[k][j]
  BY <1>4, Zenon
<1> HIDE DEF Equation
<1>7. s[0] = 0
  <2>1. 0 \in 0..L
    OBVIOUS
  <2> QED BY <1>6, <2>1
<1>8. s[1] = p
  <2>1. 1 \in 0..L /\ 1 # 0 /\ 1 - 1 = 0
    OBVIOUS
  <2>2. s[1] = IF a[i][1] = 0 THEN s[0] ELSE s[0] + p
    BY <1>6, <2>1
  <2> HIDE DEF p
  <2> QED BY <1>1, <1>7, <2>2
<1>9. n = 2 => s[2] = p + q
  <2> SUFFICES ASSUME n = 2 PROVE s[2] = p + q
    OBVIOUS
  <2>1. 2 \in 0..L /\ 2 # 0 /\ 2 - 1 = 1
    OBVIOUS
  <2>2. s[2] = IF a[i][2] = 0 THEN s[1] ELSE s[1] + q
    BY <1>6, <2>1
  <2> HIDE DEF p, q
  <2> QED BY <1>1, <1>8, <2>2
<1> HIDE DEF p, q, s
<1>10. CASE n = 1
  BY <1>5, <1>8, <1>10 DEF p, EntryIs
<1>11. CASE n = 2
  BY <1>5, <1>9, <1>11 DEF p, q, EntryIs
<1> QED BY <1>10, <1>11

\* A P A' for a symmetric P, and that its determinant is det(A)^2 det(P).
LEMMA JosephPolynomials ==
    ASSUME NEW a \in Int, NEW b \in Int, NEW c \in Int, NEW d \in Int,
           NEW p \in Int, NEW q \in Int, NEW s \in Int
    PROVE  LET Form(x, y) == x * x * p + 2 * (x * y * q) + y * y * s
               B == (a * p + b * q) * c + (a * q + b * s) * d
           IN  /\ (a * p + b * q) * a + (a * q + b * s) * b = Form(a, b)
               /\ (c * p + d * q) * c + (c * q + d * s) * d = Form(c, d)
               /\ (c * p + d * q) * a + (c * q + d * s) * b = B
               /\ Form(a, b) * Form(c, d) - B * B
                     = (a * d - b * c) * (a * d - b * c) * (p * s - q * q)
               /\ \A k, l \in Int :
                     Form(a, b) * (l * l) + Form(c, d) * (k * k) - 2 * (B * (k * l))
                        = Form(l * a - k * c, l * b - k * d)
OBVIOUS

\* What K R K' adds to the determinant.
LEMMA Widening ==
    ASSUME NEW f \in Int, NEW g \in Int, NEW e \in Int, NEW r \in Int,
           NEW k \in Int, NEW l \in Int
    PROVE  (f + k * r * k) * (g + l * r * l) - (e + k * r * l) * (e + k * r * l)
             = (f * g - e * e) + r * (f * (l * l) + g * (k * k) - 2 * (e * (k * l)))
OBVIOUS

IntMatrix(r, c) == [1..r -> [1..c -> Int]]

LEMMA ProductOfTwo ==
    ASSUME NEW r \in 1..2, NEW n \in 1..2, NEW c \in 1..2,
           NEW a \in IntMatrix(r, n), NEW b \in IntMatrix(n, c)
    PROVE  /\ matmul(a, b) \in IntMatrix(r, c)
           /\ \A i \in 1..r, j \in 1..c :
                 matmul(a, b)[i][j] = IF n = 1 THEN a[i][1] * b[1][j]
                                      ELSE a[i][1] * b[1][j] + a[i][2] * b[2][j]
<1>1. Rows(a) = 1..r /\ Cols(b) = 1..c
  <2>1. DOMAIN a = 1..r
    BY DEF IntMatrix
  <2>2. b[1] \in [1..c -> Int]
    BY DEF IntMatrix
  <2> QED BY <2>1, <2>2 DEF Rows, Cols
<1>2. ASSUME NEW i \in 1..r, NEW j \in 1..c
      PROVE  /\ Entry(a, b, i, j) = IF n = 1 THEN a[i][1] * b[1][j]
                                    ELSE a[i][1] * b[1][j] + a[i][2] * b[2][j]
             /\ Entry(a, b, i, j) \in Int
  <2>1. a[i] \in [1..n -> Int]
    BY DEF IntMatrix
  <2>2. Len(a[i]) = n
    <3> DEFINE v == a[i]
    <3>1. v \in [1..n -> Int] /\ n \in Nat
      BY <2>1
    <3> HIDE DEF v
    <3>2. v \in Seq(Int) /\ Len(v) = n
      BY <3>1
    <3> QED BY <3>2 DEF v
  <2>3. \A k \in 1..n : a[i][k] \in Int /\ b[k][j] \in Int
    BY <2>1 DEF IntMatrix
  <2>4. n \in {1, 2}
    OBVIOUS
  <2> DEFINE e == Entry(a, b, i, j)
             p == a[i][1] * b[1][j]
             q == a[i][2] * b[2][j]
  <2>5. e = IF n = 1 THEN p ELSE p + q
    <3>1. Meet(a, b, i, j, n)
      BY <2>2, <2>3, <2>4 DEF Meet
    <3>2. EntryIs(a, b, i, j, n)
      BY <3>1, EntryIsSum
    <3> QED BY <3>2, Zenon DEF EntryIs
  <2>6. p \in Int /\ (n = 2 => q \in Int)
    BY <2>3
  <2> HIDE DEF e, p, q
  <2>7. e \in Int
    BY <2>4, <2>5, <2>6
  <2> QED BY <2>5, <2>7 DEF e, p, q
<1>3. matmul(a, b) = [i \in 1..r |-> [j \in 1..c |-> Entry(a, b, i, j)]]
  BY <1>1, Zenon DEF matmul
<1> QED BY <1>2, <1>3 DEF IntMatrix

LEMMA TransposeOf ==
    ASSUME NEW r \in 1..2, NEW c \in 1..2, NEW a \in IntMatrix(r, c)
    PROVE  transpose(a) \in IntMatrix(c, r)
           /\ \A i \in 1..r, j \in 1..c : transpose(a)[j][i] = a[i][j]
<1>1. Rows(a) = 1..r /\ Cols(a) = 1..c
  BY DEF Rows, Cols, IntMatrix
<1>2. transpose(a) = [j \in 1..c |-> [i \in 1..r |-> a[i][j]]]
  BY <1>1, Zenon DEF transpose
<1> QED BY <1>2 DEF IntMatrix

LEMMA SumOf ==
    ASSUME NEW a \in IntMatrix(2, 2), NEW b \in IntMatrix(2, 2)
    PROVE  /\ Plus(a, b) \in IntMatrix(2, 2) /\ Minus(a, b) \in IntMatrix(2, 2)
           /\ \A i, j \in 1..2 : /\ Plus(a, b)[i][j] = a[i][j] + b[i][j]
                                 /\ Minus(a, b)[i][j] = a[i][j] - b[i][j]
<1>1. Rows(a) = 1..2 /\ Cols(a) = 1..2
  BY DEF Rows, Cols, IntMatrix
<1>2. /\ Plus(a, b) = [i \in 1..2 |-> [j \in 1..2 |-> a[i][j] + b[i][j]]]
      /\ Minus(a, b) = [i \in 1..2 |-> [j \in 1..2 |-> a[i][j] + -b[i][j]]]
  BY <1>1, Zenon DEF Plus, Minus, Add, Neg
<1>3. \A i, j \in 1..2 : a[i][j] \in Int /\ b[i][j] \in Int
  BY DEF IntMatrix
<1> QED BY <1>2, <1>3 DEF IntMatrix

LEMMA IdentityOfTwo ==
    Identity(2) \in IntMatrix(2, 2)
BY DEF Identity, Matrix, IntMatrix

\* What UpdateKeepsCovariance says of the result.
IsCovariance(m) ==
    /\ Symmetric(m)
    /\ m[1][1] >= 0 /\ m[2][2] >= 0
    /\ m[1][1] * m[2][2] >= m[1][2] * m[2][1]

LEMMA EntriesOfTwo ==
    ASSUME NEW m \in IntMatrix(2, 2)
    PROVE  m[1][1] \in Int /\ m[1][2] \in Int /\ m[2][1] \in Int /\ m[2][2] \in Int
BY DEF IntMatrix

\* A P A' + K R K', entry by entry.
LEMMA JosephEntries ==
    ASSUME NEW A \in IntMatrix(2, 2), NEW P \in IntMatrix(2, 2),
           NEW K \in IntMatrix(2, 1), NEW R \in IntMatrix(1, 1)
    PROVE  LET J == Plus(Product(A, P, transpose(A)), Product(K, R, transpose(K)))
           IN  /\ J \in IntMatrix(2, 2)
               /\ \A i, j \in 1..2 :
                     J[i][j] = ((A[i][1] * P[1][1] + A[i][2] * P[2][1]) * A[j][1]
                                 + (A[i][1] * P[1][2] + A[i][2] * P[2][2]) * A[j][2])
                               + K[i][1] * R[1][1] * K[j][1]
<1> DEFINE At == transpose(A)
           Kt == transpose(K)
           AP == matmul(A, P)
           KR == matmul(K, R)
           F == matmul(AP, At)
           G == matmul(KR, Kt)
           J == Plus(F, G)
<1>0. 1 \in 1..2 /\ 2 \in 1..2 /\ 1 \in 1..1
  OBVIOUS
<1>1. At \in IntMatrix(2, 2) /\ \A i, j \in 1..2 : At[j][i] = A[i][j]
  BY <1>0, TransposeOf
<1>2. Kt \in IntMatrix(1, 2) /\ \A i \in 1..2, j \in 1..1 : Kt[j][i] = K[i][j]
  BY <1>0, TransposeOf
<1>3. /\ AP \in IntMatrix(2, 2)
      /\ \A i, j \in 1..2 : AP[i][j] = A[i][1] * P[1][j] + A[i][2] * P[2][j]
  <2> DEFINE n == 2
  <2>1. n \in 1..2 /\ n # 1
    OBVIOUS
  <2>2. A \in IntMatrix(2, n) /\ P \in IntMatrix(n, 2)
    OBVIOUS
  <2> HIDE DEF n
  <2> QED BY <1>0, <2>1, <2>2, ProductOfTwo
<1>4. KR \in IntMatrix(2, 1) /\ \A i \in 1..2, j \in 1..1 : KR[i][j] = K[i][1] * R[1][j]
  BY <1>0, ProductOfTwo
<1> HIDE DEF At, Kt, AP, KR
<1>5. /\ F \in IntMatrix(2, 2)
      /\ \A i, j \in 1..2 : F[i][j] = AP[i][1] * At[1][j] + AP[i][2] * At[2][j]
  <2> DEFINE n == 2
  <2>1. n \in 1..2 /\ n # 1
    OBVIOUS
  <2>2. AP \in IntMatrix(2, n) /\ At \in IntMatrix(n, 2)
    BY <1>1, <1>3
  <2> HIDE DEF n
  <2> QED BY <1>0, <2>1, <2>2, ProductOfTwo
<1>6. G \in IntMatrix(2, 2) /\ \A i, j \in 1..2 : G[i][j] = KR[i][1] * Kt[1][j]
  BY <1>0, <1>2, <1>4, ProductOfTwo
<1> HIDE DEF F, G
<1>7. J \in IntMatrix(2, 2) /\ \A i, j \in 1..2 : J[i][j] = F[i][j] + G[i][j]
  BY <1>5, <1>6, SumOf
<1>8. J = Plus(Product(A, P, transpose(A)), Product(K, R, transpose(K)))
  BY Zenon DEF J, F, G, AP, KR, At, Kt, Product
<1> HIDE DEF J
<1>9. ASSUME NEW i \in 1..2, NEW j \in 1..2
      PROVE  J[i][j] = ((A[i][1] * P[1][1] + A[i][2] * P[2][1]) * A[j][1]
                         + (A[i][1] * P[1][2] + A[i][2] * P[2][2]) * A[j][2])
                       + K[i][1] * R[1][1] * K[j][1]
  <2>1. F[i][j] = (A[i][1] * P[1][1] + A[i][2] * P[2][1]) * A[j][1]
                   + (A[i][1] * P[1][2] + A[i][2] * P[2][2]) * A[j][2]
    <3>1. F[i][j] = AP[i][1] * At[1][j] + AP[i][2] * At[2][j]
      BY <1>5
    <3>2. AP[i][1] = A[i][1] * P[1][1] + A[i][2] * P[2][1]
      BY <1>0, <1>3
    <3>3. AP[i][2] = A[i][1] * P[1][2] + A[i][2] * P[2][2]
      BY <1>0, <1>3
    <3>4. At[1][j] = A[j][1] /\ At[2][j] = A[j][2]
      BY <1>0, <1>1
    <3> QED BY <3>1, <3>2, <3>3, <3>4, Zenon
  <2>2. G[i][j] = K[i][1] * R[1][1] * K[j][1]
    <3>1. G[i][j] = KR[i][1] * Kt[1][j]
      BY <1>6
    <3>2. KR[i][1] = K[i][1] * R[1][1]
      BY <1>0, <1>4
    <3>3. Kt[1][j] = K[j][1]
      BY <1>0, <1>2
    <3> QED BY <3>1, <3>2, <3>3, Zenon
  <2>3. J[i][j] = F[i][j] + G[i][j]
    BY <1>7
  <2> QED BY <2>1, <2>2, <2>3, Zenon
<1> QED BY <1>7, <1>8, <1>9

\* The form of the predicted covariance along both rows of I - KH is not negative, and its
\* determinant is det(I - KH)^2 det(P); the noise adds a form to each.
LEMMA UpdateIsCovariance ==
    ASSUME NEW in, IsUpdate(in)
    PROVE  IsCovariance(covariance_update(in.P, in.K, in.H, in.R))
<1> DEFINE P == in.P
           K == in.K
           H == in.H
           R == in.R
           KH == matmul(K, H)
           A == Minus(Identity(2), KH)
           J == Plus(Product(A, P, transpose(A)), Product(K, R, transpose(K)))
           m == covariance_update(P, K, H, R)
<1>1. /\ P \in IntMatrix(2, 2) /\ K \in IntMatrix(2, 1) /\ H \in IntMatrix(1, 2)
      /\ R \in IntMatrix(1, 1) /\ R[1][1] \in Nat
      /\ P[1][2] = P[2][1] /\ P[1][1] >= 0 /\ P[2][2] >= 0
      /\ P[1][1] * P[2][2] >= P[1][2] * P[2][1]
  BY DEF IsUpdate, IntMatrix
<1>2. Len(P) = 2
  <2>1. P \in [1..2 -> [1..2 -> Int]]
    BY <1>1 DEF IntMatrix
  <2> HIDE DEF P
  <2> QED BY <2>1
<1>3. m = [i \in Rows(J) |-> [j \in Cols(J) |->
              IF i = j THEN J[i][j] ELSE Mean(J[i][j], J[j][i])]]
  BY <1>2, Zenon DEF covariance_update
<1> HIDE DEF P, K, H, R, m
<1>4. KH \in IntMatrix(2, 2)
  <2>1. 1 \in 1..2 /\ 2 \in 1..2
    OBVIOUS
  <2> QED BY <1>1, <2>1, ProductOfTwo
<1> HIDE DEF KH
<1>5. A \in IntMatrix(2, 2)
  BY <1>4, IdentityOfTwo, SumOf
<1> HIDE DEF A
<1> DEFINE a == A[1][1]
           b == A[1][2]
           c == A[2][1]
           d == A[2][2]
           p == P[1][1]
           q == P[1][2]
           s == P[2][2]
           k == K[1][1]
           l == K[2][1]
           r == R[1][1]
           Form(x, y) == x * x * p + 2 * (x * y * q) + y * y * s
           B == (a * p + b * q) * c + (a * q + b * s) * d
           f == Form(a, b)
           g == Form(c, d)
<1>6. /\ a \in Int /\ b \in Int /\ c \in Int /\ d \in Int
      /\ p \in Int /\ q \in Int /\ s \in Int /\ r \in Nat
  BY <1>1, <1>5, EntriesOfTwo
<1>7. k \in Int /\ l \in Int
  BY <1>1 DEF IntMatrix
<1>8. /\ J \in IntMatrix(2, 2)
      /\ \A i, j \in 1..2 :
            J[i][j] = ((A[i][1] * P[1][1] + A[i][2] * P[2][1]) * A[j][1]
                         + (A[i][1] * P[1][2] + A[i][2] * P[2][2]) * A[j][2])
                       + K[i][1] * R[1][1] * K[j][1]
  BY <1>1, <1>5, JosephEntries
<1> HIDE DEF J
<1>9. P[2][1] = q
  BY <1>1
<1>10. /\ J[1][1] = ((a * p + b * q) * a + (a * q + b * s) * b) + k * r * k
       /\ J[1][2] = ((a * p + b * q) * c + (a * q + b * s) * d) + k * r * l
       /\ J[2][1] = ((c * p + d * q) * a + (c * q + d * s) * b) + l * r * k
       /\ J[2][2] = ((c * p + d * q) * c + (c * q + d * s) * d) + l * r * l
  <2>1. 1 \in 1..2 /\ 2 \in 1..2
    OBVIOUS
  <2>2. P[1][1] = p /\ P[1][2] = q /\ P[2][1] = q /\ P[2][2] = s
    BY <1>9
  <2> DEFINE entry(i, j) == ((A[i][1] * P[1][1] + A[i][2] * P[2][1]) * A[j][1]
                               + (A[i][1] * P[1][2] + A[i][2] * P[2][2]) * A[j][2])
                             + K[i][1] * R[1][1] * K[j][1]
  <2>3. \A i, j \in 1..2 : J[i][j] = entry(i, j)
    BY <1>8
  <2> HIDE DEF entry
  <2>4. /\ J[1][1] = entry(1, 1) /\ J[1][2] = entry(1, 2)
        /\ J[2][1] = entry(2, 1) /\ J[2][2] = entry(2, 2)
    BY <2>1, <2>3
  <2> QED BY <2>2, <2>4, Zenon DEF entry
<1> HIDE DEF a, b, c, d, p, q, s, k, l, r
<1>11. /\ (a * p + b * q) * a + (a * q + b * s) * b = f
       /\ (c * p + d * q) * c + (c * q + d * s) * d = g
       /\ (c * p + d * q) * a + (c * q + d * s) * b = B
       /\ f * g - B * B = (a * d - b * c) * (a * d - b * c) * (p * s - q * q)
       /\ f * (l * l) + g * (k * k) - 2 * (B * (k * l)) = Form(l * a - k * c, l * b - k * d)
  BY <1>6, <1>7, JosephPolynomials
<1>12. p >= 0 /\ s >= 0 /\ p * s >= q * q
  BY <1>1, <1>9 DEF p, q, s
<1>13. \A x, y \in Int : Form(x, y) \in Int /\ Form(x, y) >= 0
  BY <1>6, <1>12, FormIsNotNegative
<1>14. f \in Nat /\ g \in Nat /\ B \in Int
  <2>1. f >= 0 /\ f \in Int /\ g >= 0 /\ g \in Int
    BY <1>6, <1>13
  <2>2. B \in Int
    BY <1>6
  <2> HIDE DEF f, g
  <2> QED BY <2>1, <2>2
<1>15. f * g - B * B >= 0
  <2> DEFINE e == a * d - b * c
             t == p * s - q * q
             ee == e * e
  <2>1. t \in Nat /\ ee \in Nat
    <3>1. e \in Int
      BY <1>6
    <3>2. p * s \in Int /\ q * q \in Int
      BY <1>6
    <3> HIDE DEF e
    <3> QED BY <1>12, <3>1, <3>2, Squares
  <2>2. f * g - B * B = ee * t
    BY <1>11
  <2> HIDE DEF ee, t, f, g, B
  <2> QED BY <2>1, <2>2
<1>16. f * (l * l) + g * (k * k) - 2 * (B * (k * l)) >= 0
  <2>1. l * a - k * c \in Int /\ l * b - k * d \in Int
    BY <1>6, <1>7
  <2>2. Form(l * a - k * c, l * b - k * d) >= 0
    BY <1>13, <2>1
  <2> HIDE DEF Form, f, g, B
  <2> QED BY <1>11, <2>2
<1> HIDE DEF Form, f, g, B
<1>17. /\ J[1][1] = f + k * r * k
       /\ J[1][2] = B + k * r * l
       /\ J[2][1] = B + l * r * k
       /\ J[2][2] = g + l * r * l
  BY <1>10, <1>11, Zenon DEF B
<1>18. J[1][2] = J[2][1]
  <2>1. k * r * l = l * r * k
    BY <1>6, <1>7
  <2> QED BY <1>17, <2>1, Zenon
<1>19. /\ J[1][1] \in Int /\ J[1][2] \in Int /\ J[2][1] \in Int /\ J[2][2] \in Int
  BY <1>8, EntriesOfTwo
<1>20. /\ m \in [1..2 -> [1..2 -> Int]]
       /\ m[1][1] = J[1][1] /\ m[1][2] = J[1][2] /\ m[2][1] = J[1][2] /\ m[2][2] = J[2][2]
  <2>1. Rows(J) = 1..2 /\ Cols(J) = 1..2
    BY <1>8 DEF Rows, Cols, IntMatrix
  <2> DEFINE v(i, j) == IF i = j THEN J[i][j] ELSE Mean(J[i][j], J[j][i])
  <2>2. m = [i \in 1..2 |-> [j \in 1..2 |-> v(i, j)]]
    BY <1>3, <2>1, Zenon
  <2>3. \A x \in Int : Mean(x, x) = x
    BY DEF Mean
  <2>4. v(1, 1) = J[1][1] /\ v(1, 2) = J[1][2] /\ v(2, 1) = J[1][2] /\ v(2, 2) = J[2][2]
    BY <1>18, <1>19, <2>3
  <2>5. \A i, j \in 1..2 : v(i, j) \in Int
    <3>1. \A i \in 1..2 : i = 1 \/ i = 2
      OBVIOUS
    <3> HIDE DEF v
    <3> QED BY <1>19, <2>4, <3>1
  <2> HIDE DEF v
  <2> QED BY <2>2, <2>4, <2>5
<1>21. Symmetric(m)
  <2>1. Rows(m) = 1..2 /\ Cols(m) = 1..2
    BY <1>20 DEF Rows, Cols
  <2>2. \A i \in 1..2 : i = 1 \/ i = 2
    OBVIOUS
  <2> QED BY <1>20, <2>1, <2>2 DEF Symmetric
<1>22. \A x \in Int : x * r * x = r * (x * x) /\ r * (x * x) >= 0
  <2> SUFFICES ASSUME NEW x \in Int PROVE x * r * x = r * (x * x) /\ r * (x * x) >= 0
    OBVIOUS
  <2>1. x * x \in Nat
    BY Squares
  <2>2. x * r * x = r * (x * x)
    BY <1>6
  <2> QED BY <1>6, <2>1, <2>2
<1>23. J[1][1] >= 0 /\ J[2][2] >= 0
  <2> DEFINE kk == k * r * k
             ll == l * r * l
  <2>1. kk \in Int /\ kk >= 0 /\ ll \in Int /\ ll >= 0
    <3>1. k * r * k = r * (k * k) /\ r * (k * k) >= 0 /\ l * r * l = r * (l * l) /\ r * (l * l) >= 0
      BY <1>7, <1>22
    <3> QED BY <1>6, <1>7, <3>1
  <2>2. J[1][1] = f + kk /\ J[2][2] = g + ll
    BY <1>17
  <2> HIDE DEF kk, ll
  <2> QED BY <1>14, <2>1, <2>2
<1>24. J[1][1] * J[2][2] >= J[1][2] * J[1][2]
  <2> DEFINE det == f * g - B * B
             more == f * (l * l) + g * (k * k) - 2 * (B * (k * l))
             j11 == J[1][1] * J[2][2]
             j12 == J[1][2] * J[1][2]
  <2>1. j11 - j12 = det + r * more
    <3>1. (f + k * r * k) * (g + l * r * l) - (B + k * r * l) * (B + k * r * l)
            = (f * g - B * B) + r * (f * (l * l) + g * (k * k) - 2 * (B * (k * l)))
      BY <1>6, <1>7, <1>14, Widening
    <3> QED BY <1>17, <3>1, Zenon
  <2>2. det \in Int /\ more \in Int /\ j11 \in Int /\ j12 \in Int
    BY <1>7, <1>14, <1>19
  <2>3. det >= 0 /\ more >= 0
    BY <1>15, <1>16
  <2> HIDE DEF det, more, j11, j12
  <2>4. r * more \in Int /\ r * more >= 0
    BY <1>6, <2>2, <2>3
  <2> DEFINE rm == r * more
  <2>5. rm \in Int /\ rm >= 0 /\ j11 - j12 = det + rm
    BY <2>1, <2>4
  <2> HIDE DEF rm
  <2>6. j11 >= j12
    BY <2>2, <2>3, <2>5
  <2> QED BY <2>6 DEF j11, j12
<1>25. IsCovariance(m)
  BY <1>20, <1>21, <1>23, <1>24, Zenon DEF IsCovariance
<1> QED BY <1>25 DEF m, P, K, H, R

\* For any gain, optimal or not, any observation of one quantity and any noise that is not
\* negative, the updated covariance is symmetric and positive semidefinite (kalman.cpp
\* covariance_update).
THEOREM UpdateKeepsCovarianceHolds == Spec => []UpdateKeepsCovariance
<1>1. GateInv => UpdateKeepsCovariance
  <2> SUFFICES ASSUME GateInv, report # Pending, input \in Updates
               PROVE  IsCovariance(report.updated)
    BY DEF UpdateKeepsCovariance, IsCovariance
  <2>1. report.updated = covariance_update(input.P, input.K, input.H, input.R)
    BY DEF GateInv
  <2>2. IsUpdate(input)
    BY InputsAssumption
  <2> QED BY <2>1, <2>2, UpdateIsCovariance
<1> QED BY <1>1, ReportsAreOfInput, PTL
=============================================================================

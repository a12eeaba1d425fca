----------------------------- MODULE Covariance -----------------------------
(***************************************************************************)
(* The covariance gate, and the update that has to get past it. Doubles    *)
(* are integers in units of 1/Unit, or NaN, and arithmetic does not round. *)
(* The Jacobi rotations are taken at their result, the eigenvalues, for    *)
(* matrices of at most two rows whose eigenvalues are integers and on      *)
(* which the rotations converge; above Big they overflow.                  *)
(***************************************************************************)
EXTENDS Integers, FiniteSetsExt, Sequences

CONSTANTS
    Unit,      \* the integer that stands for 1.0
    Big,       \* the largest eigenvalue that does not overflow
    NaN, Inf,
    Inputs,    \* what validate_covariance is called with
    Updates,   \* what covariance_update is called with
    Weights    \* the integers that the properties combine components with

ASSUME CovarianceAssumption ==
    /\ Unit \in Nat \ {0} /\ Big \in Nat
    /\ NaN \notin Int /\ NaN # <<0, 1>> /\ Inf # <<0, 1>>
    /\ Weights \subseteq Int

VARIABLES
    input,   \* matrix, n_rows, n_cols, the tolerances in hundredths, or an update
    report   \* the CovarianceReport, or the updated covariance

vars == <<input, report>>

Add(a, b) == a + b
Mul(a, b) == a * b
Neg(a) == -a
\* Exact: what is averaged here is symmetric.
Mean(a, b) == (a + b) \div 2
INSTANCE Matrices

fabs(a) == IF a < 0 THEN -a ELSE a
maximum(a, b) == IF a < b THEN b ELSE a

-----------------------------------------------------------------------------
(* symmetric_eigenvalues *)

\* matrix is row-major.
at(m, n, i, j) == m[(i - 1) * n + j]

\* The distance between the eigenvalues, and its square.
Discriminant(m) == (m[1] - m[4]) * (m[1] - m[4]) + 4 * m[2] * m[3]
Distance(m) == CHOOSE r \in 0..Discriminant(m) : r * r = Discriminant(m)
IntegerSpectrum(m) ==
    Len(m) = 4 =>
        \E r \in 0..Discriminant(m) : r * r = Discriminant(m) /\ (m[1] + m[4] + r) % 2 = 0
\* Only at an equal pair do the rotations of a matrix that is not symmetric stop short of
\* the triangle: the sweeps run out with the entry above the diagonal small but not zero,
\* and each diagonal entry off the eigenvalue by about as much.
RotationsConverge(m) ==
    Len(m) = 4 => m[2] = m[3] \/ m[2] = 0 \/ Discriminant(m) > 0

Overflowed(lambda) == IF fabs(lambda) > Big THEN NaN ELSE lambda

\* Mutant: singular values, as least_squares has them.
SingularValues(m, n) ==
    IF n = 1 THEN <<Overflowed(fabs(m[1]))>>
    ELSE <<Overflowed(fabs((m[1] + m[4] - Distance(m)) \div 2)),
           Overflowed(fabs((m[1] + m[4] + Distance(m)) \div 2))>>

\* Ascending. The rotations drive the upper triangle to zero, so that a matrix which is
\* not quite symmetric ends up triangular, with its own eigenvalues on the diagonal.
symmetric_eigenvalues(m, n) ==
    IF n = 1 THEN <<Overflowed(m[1])>>
    ELSE <<Overflowed((m[1] + m[4] - Distance(m)) \div 2),
           Overflowed((m[1] + m[4] + Distance(m)) \div 2)>>

-----------------------------------------------------------------------------
(* validate_covariance *)

Refused(fault) == [fault |-> fault, eigenvalues |-> <<>>, condition |-> <<0, 1>>]

\* A tolerance, in hundredths, of the scale, which counts as 1.0 when it is less.
Budget(tolerance, scale) == tolerance * maximum(scale, Unit)

scale(m) == Max({fabs(m[k]) : k \in DOMAIN m})
max_asymmetry(m, n) ==
    Max({fabs(at(m, n, i, j) - at(m, n, j, i)) : i \in 1..n, j \in 1..n})

\* std::max and std::min keep what they have when they meet a NaN.
Magnitudes(spectrum) == {fabs(spectrum[k]) : k \in {k \in DOMAIN spectrum : spectrum[k] # NaN}}
largest_magnitude(spectrum) == Max({0} \cup Magnitudes(spectrum))
condition_number(spectrum) ==
    IF Magnitudes(spectrum) = {} THEN <<0, 1>>
    ELSE IF 0 \in Magnitudes(spectrum) THEN Inf
    ELSE <<largest_magnitude(spectrum), Min(Magnitudes(spectrum))>>

\* Mutant: an eigenvalue on the budget is beyond it.
PsdFaultStrict(in, spectrum) ==
    IF spectrum[1] # NaN
       /\ 100 * spectrum[1] <= -Budget(in.psd_tolerance, largest_magnitude(spectrum))
    THEN "kNotPositiveSemidefinite" ELSE "kNone"

PsdFault(in, spectrum) ==
    IF spectrum[1] # NaN
       /\ 100 * spectrum[1] < -Budget(in.psd_tolerance, largest_magnitude(spectrum))
    THEN "kNotPositiveSemidefinite" ELSE "kNone"

\* Mutant: the spectrum is folded as it comes.
SpectrumReportUnchecked(in) ==
    LET spectrum == symmetric_eigenvalues(in.matrix, in.n_rows)
    IN  [fault |-> PsdFault(in, spectrum), eigenvalues |-> spectrum,
         condition |-> condition_number(spectrum)]

SpectrumReport(in) ==
    LET spectrum == symmetric_eigenvalues(in.matrix, in.n_rows)
    IN  IF \E k \in DOMAIN spectrum : spectrum[k] = NaN
        THEN [fault |-> "kNonFiniteSpectrum", eigenvalues |-> spectrum, condition |-> NaN]
        ELSE [fault |-> PsdFault(in, spectrum), eigenvalues |-> spectrum,
              condition |-> condition_number(spectrum)]

\* Shape, then entries, then symmetry, and only then a spectrum.
validate_covariance(in) ==
    IF in.n_rows = 0 \/ in.n_cols = 0 THEN Refused("kEmpty")
    ELSE IF Len(in.matrix) # in.n_rows * in.n_cols THEN Refused("kNotRectangular")
    ELSE IF in.n_rows # in.n_cols THEN Refused("kNotSquare")
    ELSE IF \E k \in DOMAIN in.matrix : in.matrix[k] = NaN THEN Refused("kNonFiniteEntry")
    ELSE IF 100 * max_asymmetry(in.matrix, in.n_rows)
              > Budget(in.symmetry_tolerance, scale(in.matrix)) THEN Refused("kNotSymmetric")
    ELSE SpectrumReport(in)

-----------------------------------------------------------------------------
(* What the two are called with *)

Numeric(m) == \A k \in DOMAIN m : m[k] # NaN

\* Of any shape, but a spectrum is asked only of what the rotations are modelled for.
IsInput(in) ==
    /\ {in.n_rows, in.n_cols, in.symmetry_tolerance, in.psd_tolerance} \subseteq Nat
    /\ in.matrix \in Seq(Int \cup {NaN})
    /\ in.n_rows = in.n_cols /\ Len(in.matrix) = in.n_rows * in.n_cols /\ Numeric(in.matrix) =>
          in.n_rows <= 2 /\ IntegerSpectrum(in.matrix) /\ RotationsConverge(in.matrix)

\* A covariance of two states, one of which, or a mixture, is measured: P, R as the gate
\* lets them through.
IsUpdate(in) ==
    /\ in.P \in [1..2 -> [1..2 -> Int]] /\ in.K \in [1..2 -> [1..1 -> Int]]
    /\ in.H \in [1..1 -> [1..2 -> Int]] /\ in.R \in [1..1 -> [1..1 -> Nat]]
    /\ in.P[1][2] = in.P[2][1] /\ in.P[1][1] >= 0 /\ in.P[2][2] >= 0
    /\ in.P[1][1] * in.P[2][2] >= in.P[1][2] * in.P[2][1]

ASSUME InputsAssumption ==
    /\ \A in \in Inputs : IsInput(in)
    /\ \A in \in Updates : IsUpdate(in)
    /\ Inputs \cap Updates = {}

Pending == [fault |-> "pending"]

Init == input \in Inputs \cup Updates /\ report = Pending

Validate ==
    /\ report = Pending /\ input \in Inputs
    /\ report' = validate_covariance(input)
    /\ UNCHANGED input

Update ==
    /\ report = Pending /\ input \in Updates
    /\ report' = [fault |-> "kNone",
           updated |-> covariance_update(input.P, input.K, input.H, input.R)]
    /\ UNCHANGED input

Next == Validate \/ Update

Spec == Init /\ [][Next]_vars

-----------------------------------------------------------------------------
(* Properties *)

Validated == report # Pending /\ input \in Inputs
Accepted == Validated /\ report.fault = "kNone"

\* The variance of a linear combination of the components: u' M u.
Combinations(n) == [1..n -> Weights]
Variance(m, n, u) ==
    IF n = 1 THEN u[1] * u[1] * m[1]
    ELSE u[1] * u[1] * m[1] + u[1] * u[2] * (m[2] + m[3]) + u[2] * u[2] * m[4]
Norm2(n, u) == IF n = 1 THEN u[1] * u[1] ELSE u[1] * u[1] + u[2] * u[2]

\* What is accepted is what a covariance means: no combination of the components has a
\* variance below zero by more than the tolerances. What symmetry is forgiven counts by
\* half, because the spectrum is then not that of the quadratic form.
AcceptedHasVariances ==
    Accepted =>
        LET forgiven == Budget(input.symmetry_tolerance, scale(input.matrix))
            budget == Budget(input.psd_tolerance, largest_magnitude(report.eigenvalues))
        IN  \A u \in Combinations(input.n_rows) :
                200 * Variance(input.matrix, input.n_rows, u)
                    >= -Norm2(input.n_rows, u) * (2 * budget + forgiven)

\* What is refused as not positive semidefinite has a combination of negative variance:
\* no covariance is ever refused on that ground.
RefusedHasNegativeVariance ==
    Validated /\ report.fault = "kNotPositiveSemidefinite" =>
        \E u \in Combinations(input.n_rows) : Variance(input.matrix, input.n_rows, u) < 0

\* No number that is not finite gets past the gate, in an entry or born in the
\* rotations, and none leaves the condition number of a healthy matrix behind.
NonFiniteIsRefused ==
    /\ Accepted =>
          /\ \A k \in DOMAIN input.matrix : input.matrix[k] # NaN
          /\ \A k \in DOMAIN report.eigenvalues : report.eigenvalues[k] # NaN
          /\ report.condition = Inf \/ report.condition[1] >= report.condition[2]
    /\ Validated /\ report.eigenvalues # <<>> => report.condition # <<0, 1>>

\* For any gain, optimal or not, the updated covariance is a covariance.
UpdateKeepsCovariance ==
    report # Pending /\ input \in Updates =>
        LET m == report.updated
        IN  /\ Symmetric(m)
            /\ m[1][1] >= 0 /\ m[2][2] >= 0
            /\ m[1][1] * m[2][2] >= m[1][2] * m[2][1]

-----------------------------------------------------------------------------
(* What covariance.hpp says of the tolerances, and the code does not do *)

InSmallerUnit(in) == [in EXCEPT !.matrix = [k \in DOMAIN @ |-> 4 * @[k]]]

\* The same covariance in metres and in millimetres must receive the same verdict: a
\* symmetric matrix, accepted or refused for its spectrum, as it stands and with every
\* entry four times as large. An overflow of the larger one apart.
VerdictIsScaleInvariant ==
    Validated /\ report.fault \in {"kNone", "kNotPositiveSemidefinite"}
    /\ max_asymmetry(input.matrix, input.n_rows) = 0 =>
        validate_covariance(InSmallerUnit(input)).fault
            \in {report.fault, "kNonFiniteSpectrum"}
=============================================================================

---------------------------- MODULE KalmanFilter ----------------------------
(***************************************************************************)
(* run_kalman_filter: the refusals, in their order, and the recursion in   *)
(* exact arithmetic. A double is a member of the field of integers modulo  *)
(* Prime, so that what the filter should satisfy is an identity, or NaN,   *)
(* which an overflow is taken to at once. A field has no sign: that P0, Q  *)
(* and R are positive semidefinite is Covariance's matter.                 *)
(***************************************************************************)
EXTENDS Integers, Sequences, SequencesExt

CONSTANTS
    Prime,        \* odd
    NaN,
    Problems,     \* the problems the filter is given
    MaxOverflows  \* bound on the products that overflow

ASSUME KalmanAssumption ==
    /\ Prime \in Nat \ {0, 1, 2} /\ \A d \in 2..(Prime - 1) : Prime % d # 0
    /\ NaN \notin 0..(Prime - 1)
    /\ MaxOverflows \in Nat

Numbers == 0..(Prime - 1)
Doubles == Numbers \cup {NaN}

VARIABLES
    problem,
    pc,            \* "validate", then "predict", "innovate", "gain" for each step, "check", "done"
    x, P,          \* the posterior so far
    x_pred, P_pred, v, S, S_inv, K,
    result,        \* what has been stored, one record a step
    fault,         \* why it was refused
    overflows

working == <<x_pred, P_pred, v, S, S_inv, K>>
vars == <<problem, pc, x, P, working, result, fault, overflows>>

-----------------------------------------------------------------------------
(* Arithmetic *)

Add(a, b) == IF NaN \in {a, b} THEN NaN ELSE (a + b) % Prime
Mul(a, b) == IF NaN \in {a, b} THEN NaN ELSE (a * b) % Prime
Neg(a) == IF a = NaN THEN NaN ELSE (Prime - a) % Prime
Inv(a) == IF a = NaN THEN NaN ELSE CHOOSE b \in Numbers : (a * b) % Prime = 1
fabs(a) == IF 2 * a < Prime THEN a ELSE Prime - a
\* 0.5 times the sum.
Mean(a, b) == Mul((Prime + 1) \div 2, Add(a, b))

INSTANCE Matrices

-----------------------------------------------------------------------------
(* invert: Gauss-Jordan with partial pivoting *)

\* The first row of the greatest magnitude; a comparison with NaN is false.
Pivot(a, col) ==
    IF a[col][col] = NaN THEN col
    ELSE LET candidates == {r \in Rows(a) : r >= col /\ a[r][col] # NaN}
             greatest == {r \in candidates :
                    \A s \in candidates : fabs(a[s][col]) <= fabs(a[r][col])}
         IN  CHOOSE r \in greatest : \A s \in greatest : r <= s

Swap(a, r, s) == [a EXCEPT ![r] = a[s], ![s] = a[r]]
Scale(a, r, by) == [a EXCEPT ![r] = [j \in DOMAIN @ |-> Mul(@[j], by)]]
Clear(a, col, factor) ==
    [r \in Rows(a) |->
        IF r = col \/ factor[r] = 0 THEN a[r]
        ELSE [j \in Cols(a) |-> Add(a[r][j], Neg(Mul(factor[r], a[col][j])))]]

\* Mutant: the rows of the inverse stay where they are.
EliminateKeepsRows(w, col) ==
    LET pivot == Pivot(w.a, col)
    IN  IF w.a[pivot][col] = 0 THEN [w EXCEPT !.regular = FALSE]
        ELSE LET a == Swap(w.a, col, pivot)
                 by == Inv(a[col][col])
                 factor == [r \in Rows(a) |-> a[r][col]]
             IN  [a |-> Clear(Scale(a, col, by), col, factor),
                  out |-> Clear(Scale(w.out, col, by), col, factor),
                  regular |-> w.regular]

Eliminate(w, col) ==
    LET pivot == Pivot(w.a, col)
    IN  IF w.a[pivot][col] = 0 THEN [w EXCEPT !.regular = FALSE]
        ELSE LET a == Swap(w.a, col, pivot)
                 out == Swap(w.out, col, pivot)
                 by == Inv(a[col][col])
                 factor == [r \in Rows(a) |-> a[r][col]]
             IN  [a |-> Clear(Scale(a, col, by), col, factor),
                  out |-> Clear(Scale(out, col, by), col, factor),
                  regular |-> w.regular]

invert(a) ==
    LET w[col \in 0..Len(a)] ==
            IF col = 0 THEN [a |-> a, out |-> Identity(Len(a)), regular |-> TRUE]
            ELSE IF w[col - 1].regular THEN Eliminate(w[col - 1], col)
            ELSE w[col - 1]
    IN  w[Len(a)]

-----------------------------------------------------------------------------
(* The refusals *)

Finite(a) == \A i \in Rows(a) : \A j \in Cols(a) : a[i][j] # NaN

ShapesFit(q) ==
    /\ q.n > 0 /\ q.m > 0 /\ q.steps > 0
    /\ IsMatrix(q.F, q.n, q.n) /\ IsMatrix(q.H, q.m, q.n)
    /\ IsMatrix(q.x0, q.n, 1)
    /\ Len(q.z) = q.steps /\ \A k \in 1..q.steps : IsMatrix(q.z[k], q.m, 1)
    /\ IsMatrix(q.Q, q.n, q.n) /\ IsMatrix(q.R, q.m, q.m)

\* Q is asserted, always, and names no source; R is supplied exactly when it names one.
Coherent(q) ==
    /\ q.process = "asserted" /\ q.process_source = "none"
    /\ q.measurement = "supplied" <=> q.source # "none"

\* As far as a field can tell: square, of numbers, symmetric.
ValidCovariance(a, dim) == IsMatrix(a, dim, dim) /\ Finite(a) /\ Symmetric(a)

Breaks(q, rule) ==
    CASE rule = "shape" -> ~ShapesFit(q)
      [] rule = "not finite" -> ~(/\ Finite(q.F) /\ Finite(q.H) /\ Finite(q.x0)
                                  /\ \A k \in DOMAIN q.z : Finite(q.z[k]))
      [] rule = "provenance" -> ~Coherent(q)
      [] rule = "P0" -> ~ValidCovariance(q.P0, q.n)
      [] rule = "Q" -> ~ValidCovariance(q.Q, q.n)
      [] rule = "R" -> ~ValidCovariance(q.R, q.m)

Rules == <<"shape", "not finite", "provenance", "P0", "Q", "R">>

\* The first rule it breaks.
Refusal(q) ==
    LET broken == {k \in DOMAIN Rules : Breaks(q, Rules[k])}
    IN  IF broken = {} THEN "none"
        ELSE Rules[CHOOSE k \in broken : \A l \in broken : k <= l]

\* Arrays of any shape, with NaN anywhere.
IsProblem(q) ==
    /\ {q.n, q.m, q.steps} \subseteq Nat
    /\ {q.F, q.H, q.x0, q.Q, q.R, q.P0} \subseteq Seq(Seq(Doubles))
    /\ q.z \in Seq(Seq(Seq(Doubles)))

ASSUME ProblemsAssumption == \A q \in Problems : IsProblem(q)

-----------------------------------------------------------------------------
(* The recursion *)

Init ==
    /\ problem \in Problems
    /\ pc = "validate"
    /\ x = <<>> /\ P = <<>>
    /\ x_pred = <<>> /\ P_pred = <<>> /\ v = <<>>
    /\ S = <<>> /\ S_inv = <<>> /\ K = <<>>
    /\ result = <<>>
    /\ fault = "none"
    /\ overflows = 0

Refuse(why) == pc' = "done" /\ fault' = why

Validate ==
    /\ pc = "validate"
    /\ IF Refusal(problem) = "none"
       THEN /\ pc' = "predict"
            /\ x' = problem.x0 /\ P' = problem.P0
            /\ UNCHANGED fault
       ELSE Refuse(Refusal(problem)) /\ UNCHANGED <<x, P>>
    /\ UNCHANGED <<problem, working, result, overflows>>

\* The first products of a step may overflow; what is computed from them follows.
Overflowing(a, where) ==
    \/ where' = a /\ UNCHANGED overflows
    \/ /\ overflows < MaxOverflows /\ overflows' = overflows + 1
       /\ \E i \in Rows(a), j \in Cols(a) : where' = [a EXCEPT ![i][j] = NaN]

Predict ==
    /\ pc = "predict" /\ Len(result) < problem.steps
    /\ LET prior == Plus(Product(problem.F, P, transpose(problem.F)), problem.Q)
       IN  \/ x_pred' = matmul(problem.F, x) /\ Overflowing(prior, P_pred)
           \/ P_pred' = prior /\ Overflowing(matmul(problem.F, x), x_pred)
    /\ pc' = "innovate"
    /\ UNCHANGED <<problem, x, P, v, S, S_inv, K, result, fault>>

\* Mutant: the innovation is taken against the last posterior.
InnovateStale ==
    /\ pc = "innovate"
    /\ v' = Minus(problem.z[Len(result) + 1], matmul(problem.H, x))
    /\ S' = Plus(Product(problem.H, P_pred, transpose(problem.H)), problem.R)
    /\ LET w == invert(S')
       IN  IF w.regular THEN S_inv' = w.out /\ pc' = "gain" /\ UNCHANGED fault
           ELSE Refuse("singular") /\ UNCHANGED S_inv
    /\ UNCHANGED <<problem, x, P, x_pred, P_pred, K, result, overflows>>

Innovate ==
    /\ pc = "innovate"
    /\ v' = Minus(problem.z[Len(result) + 1], matmul(problem.H, x_pred))
    /\ S' = Plus(Product(problem.H, P_pred, transpose(problem.H)), problem.R)
    /\ LET w == invert(S')
       IN  IF w.regular THEN S_inv' = w.out /\ pc' = "gain" /\ UNCHANGED fault
           ELSE Refuse("singular") /\ UNCHANGED S_inv
    /\ UNCHANGED <<problem, x, P, x_pred, P_pred, K, result, overflows>>

GainAndUpdate ==
    /\ pc = "gain"
    /\ K' = Product(P_pred, transpose(problem.H), S_inv)
    /\ x' = Plus(x_pred, matmul(K', v))
    /\ P' = covariance_update(P_pred, K', problem.H, problem.R)
    /\ result' = Append(result, [x |-> x', P |-> P', v |-> v, S |-> S, K |-> K'])
    /\ pc' = "predict"
    /\ UNCHANGED <<problem, x_pred, P_pred, v, S, S_inv, fault, overflows>>

AllFinite(r) == Finite(r.x) /\ Finite(r.P) /\ Finite(r.v) /\ Finite(r.S) /\ Finite(r.K)

\* Mutant: only what the filter ends with is looked at.
CheckLast ==
    /\ pc = "predict" /\ Len(result) = problem.steps
    /\ IF AllFinite(Last(result)) THEN pc' = "done" /\ UNCHANGED fault
       ELSE Refuse("overflow")
    /\ UNCHANGED <<problem, x, P, working, result, overflows>>

\* require_finite_results: every step of every array.
Check ==
    /\ pc = "predict" /\ Len(result) = problem.steps
    /\ IF \A k \in DOMAIN result : AllFinite(result[k]) THEN pc' = "done" /\ UNCHANGED fault
       ELSE Refuse("overflow")
    /\ UNCHANGED <<problem, x, P, working, result, overflows>>

Next == Validate \/ Predict \/ Innovate \/ GainAndUpdate \/ Check

Spec == Init /\ [][Next]_vars

-----------------------------------------------------------------------------
(* Reference definitions: what a singular matrix is, and the inverse by the adjugate *)

\* It takes a vector to zero that is not zero.
Singular(a) ==
    LET zero == [i \in Rows(a) |-> [j \in 1..1 |-> 0]]
    IN  \E u \in [Rows(a) -> [1..1 -> Numbers]] : u # zero /\ matmul(a, u) = zero

\* Of a matrix of one row or two.
det(a) ==
    IF Len(a) = 1 THEN a[1][1]
    ELSE Add(Mul(a[1][1], a[2][2]), Neg(Mul(a[1][2], a[2][1])))

Reciprocal(a) ==
    LET d == Inv(det(a))
    IN  IF Len(a) = 1 THEN <<<<d>>>>
        ELSE << <<Mul(d, a[2][2]), Mul(d, Neg(a[1][2]))>>,
                <<Mul(d, Neg(a[2][1])), Mul(d, a[1][1])>> >>

Updated == pc = "predict" /\ result # <<>>
Regular(a) == Len(a) \in {1, 2} /\ Finite(a) /\ det(a) # 0

-----------------------------------------------------------------------------
(* Properties *)

\* invert answers the inverse, and refuses exactly the matrices that have none, however
\* the rows have to be exchanged on the way.
InverseIsInverse ==
    /\ pc = "gain" /\ Finite(S) => matmul(S, S_inv) = Identity(problem.m)
    /\ fault = "singular" /\ Finite(S) => Singular(S)

\* Each step is the Bayes update: in information form, the precisions of the prediction
\* and of the measurement add up, and the state is their weighted mean.
StepIsBayes ==
    Updated /\ AllFinite(Last(result)) /\ Regular(P_pred) /\ Regular(problem.R) =>
        LET weight == matmul(transpose(problem.H), Reciprocal(problem.R))
            precision == Plus(Reciprocal(P_pred), matmul(weight, problem.H))
            evidence == Plus(matmul(Reciprocal(P_pred), x_pred),
                             matmul(weight, problem.z[Len(result)]))
        IN  matmul(precision, P) = Identity(problem.n) /\ matmul(precision, x) = evidence

\* What completes is finite at every step, even if a zero of F or H has hidden a NaN
\* from the steps after it; and what is refused for overflow has overflowed.
CompletedIsFinite ==
    /\ pc = "done" /\ fault = "none" => \A k \in 1..problem.steps : AllFinite(result[k])
    /\ fault = "overflow" => overflows > 0
=============================================================================

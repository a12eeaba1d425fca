------------------------------ MODULE Matrices ------------------------------
(***************************************************************************)
(* The matrix helpers of kalman.cpp, over whatever numbers the module that *)
(* instantiates this one computes with.                                    *)
(***************************************************************************)
EXTENDS Integers, Sequences

CONSTANTS Add(_, _), Mul(_, _), Neg(_), Mean(_, _)

Rows(a) == DOMAIN a
Cols(a) == DOMAIN a[1]
Matrix(r, c, entry(_, _)) == [i \in 1..r |-> [j \in 1..c |-> entry(i, j)]]
Identity(k) == Matrix(k, k, LAMBDA i, j : IF i = j THEN 1 ELSE 0)
Plus(a, b) == [i \in Rows(a) |-> [j \in Cols(a) |-> Add(a[i][j], b[i][j])]]
Minus(a, b) == [i \in Rows(a) |-> [j \in Cols(a) |-> Add(a[i][j], Neg(b[i][j]))]]
Symmetric(a) == \A i \in Rows(a) : \A j \in Cols(a) : a[i][j] = a[j][i]
IsMatrix(a, r, c) == DOMAIN a = 1..r /\ \A i \in 1..r : DOMAIN a[i] = 1..c

transpose(a) == [j \in Cols(a) |-> [i \in Rows(a) |-> a[i][j]]]

\* An entry of a product, from the left: a zero of a is skipped, whatever it would multiply.
Entry(a, b, i, j) ==
    LET sum[k \in 0..Len(a[i])] ==
            IF k = 0 THEN 0
            ELSE IF a[i][k] = 0 THEN sum[k - 1]
            ELSE Add(sum[k - 1], Mul(a[i][k], b[k][j]))
    IN  sum[Len(a[i])]

matmul(a, b) == [i \in Rows(a) |-> [j \in Cols(b) |-> Entry(a, b, i, j)]]

Product(a, b, c) == matmul(matmul(a, b), c)

\* Mutant: the short form, which needs the optimal gain.
covariance_updateShort(p_predicted, gain, observation, measurement_noise) ==
    LET short == matmul(Minus(Identity(Len(p_predicted)), matmul(gain, observation)), p_predicted)
    IN  [i \in Rows(short) |-> [j \in Cols(short) |->
            IF i = j THEN short[i][j] ELSE Mean(short[i][j], short[j][i])]]

\* The Joseph form, and the mean of the two halves.
covariance_update(p_predicted, gain, observation, measurement_noise) ==
    LET IKH == Minus(Identity(Len(p_predicted)), matmul(gain, observation))
        joseph == Plus(Product(IKH, p_predicted, transpose(IKH)),
                       Product(gain, measurement_noise, transpose(gain)))
    IN  [i \in Rows(joseph) |-> [j \in Cols(joseph) |->
            IF i = j THEN joseph[i][j] ELSE Mean(joseph[i][j], joseph[j][i])]]
=============================================================================

---------------------------- MODULE MCCovariance ----------------------------
(***************************************************************************)
(* Every shape of up to two rows, with entries on both sides of 1.0; and   *)
(* the update of every small covariance by every small gain.               *)
(***************************************************************************)
EXTENDS Covariance

Entries == {-2, 0, 1, 2, 3, 5, 6} \cup {NaN}

Square == {m \in [1..4 -> Entries] :
              Numeric(m) => IntegerSpectrum(m) /\ RotationsConverge(m)}
Shapes ==
    {[matrix |-> m, n_rows |-> 2, n_cols |-> 2] : m \in Square}
    \cup {[matrix |-> <<a>>, n_rows |-> r, n_cols |-> c] :
            a \in Entries, r \in 0..2, c \in 0..2}
    \cup {[matrix |-> <<a, a>>, n_rows |-> r, n_cols |-> c] :
            a \in Entries, r \in 1..2, c \in 1..2}

Tolerances == {<<0, 0>>, <<60, 0>>, <<0, 60>>}

AllInputs ==
    {[matrix |-> s.matrix, n_rows |-> s.n_rows, n_cols |-> s.n_cols,
      symmetry_tolerance |-> t[1], psd_tolerance |-> t[2]] : s \in Shapes, t \in Tolerances}

Small == {-1, 0, 1, 2}
Covariances == {<< <<a, b>>, <<b, d>> >> : a \in 0..2, b \in -1..1, d \in 0..2}
SmallWeights == -4..4

AllUpdates ==
    [P : {m \in Covariances : m[1][1] * m[2][2] >= m[1][2] * m[1][2]},
     K : {<< <<g>>, <<h>> >> : g \in Small, h \in Small},
     H : {<< <<g, h>> >> : g \in Small, h \in Small}, R : {<< <<r>> >> : r \in 0..1}]
=============================================================================

---------------------------- MODULE MCLjEngines -----------------------------
(***************************************************************************)
(* Three particles on four sites, in blocks of two threads: every tie,    *)
(* every cutoff, and pair energies large enough for the sums to overflow.  *)
(***************************************************************************)
EXTENDS LjEngines

Line == 0..3
Range2 == {1, 5, 9}
\* Steep and repulsive near, shallow and attractive far.
PairEnergy == [r \in {1, 4, 9} |-> CASE r = 1 -> 5 [] r = 4 -> -2 [] r = 9 -> -1]
PairStrength == [r \in {1, 4, 9} |-> CASE r = 1 -> 7 [] r = 4 -> -1 [] r = 9 -> 0]
=============================================================================

---------------------------- MODULE MCPairLanded ----------------------------
(***************************************************************************)
(* Two files of two contents, a branch that origin has and one it has not. *)
(***************************************************************************)
EXTENDS PairLanded, TLC

CONSTANTS f1, f2, old, new, main, topic

BothFiles == {f1, f2}
OldAndNew == {old, new}
BothBranches == {main, topic}

Symmetry ==
    Permutations(BothFiles) \cup Permutations(OldAndNew) \cup Permutations(BothBranches)
=============================================================================

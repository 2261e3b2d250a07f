----------------------------- MODULE MCTabGrid -----------------------------
(* TabGrid for TLC.                                                        *)
EXTENDS TabGrid

WebStateSymmetry == Permutations(WebStates)
MCNavIndices == {-1, 0}

=============================================================================

--------------------------- MODULE MCEnvRegistry ---------------------------
(***************************************************************************)
(* EnvRegistry and the abstract service it implements, for TLC.            *)
(***************************************************************************)
EXTENDS EnvRefinement, TLC

MCSentinels == {0, 2}
BlockSymmetry == Permutations(Blocks)
Symmetry == Permutations(Tasks) \cup BlockSymmetry
=============================================================================

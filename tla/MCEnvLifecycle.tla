-------------------------- MODULE MCEnvLifecycle --------------------------
(***************************************************************************)
(* EnvLifecycle for TLC.                                                   *)
(***************************************************************************)
EXTENDS EnvLifecycle, TLC

BlockSymmetry == Permutations(Blocks)
=============================================================================

-------------------------- MODULE MCModelRegistry --------------------------
(***************************************************************************)
(* ModelRegistry for TLC.                                                  *)
(***************************************************************************)
EXTENDS ModelRegistry, TLC

CONSTANTS m1, m2, c1, c2, c3

MCBatches == {Machine}

MCSymmetry == Permutations(Command)
=============================================================================

--------------------------- MODULE MCRepatriation ---------------------------
(***************************************************************************)
(* A small instance of Repatriation: the user's thread owns three blocks,  *)
(* one of two workers a fourth.                                            *)
(***************************************************************************)
EXTENDS Repatriation, TLC

CONSTANTS m, w1, w2, k1, k2, k3, k4

TwoWorkers == {w1, w2}
FourBlocks == {k1, k2, k3, k4}
Owners == [x \in FourBlocks |-> IF x = k4 THEN w1 ELSE m]
Starters == [x \in TwoWorkers |-> m]

Symmetry == Permutations({k1, k2, k3})
=============================================================================

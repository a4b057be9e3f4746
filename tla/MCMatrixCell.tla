---------------------------- MODULE MCMatrixCell ----------------------------
(* A small instance of MatrixCell for TLC: the repeats of a cell are alike.  *)
EXTENDS MatrixCell, TLC

RepeatsAreAlike == Permutations(Repeats)
=============================================================================

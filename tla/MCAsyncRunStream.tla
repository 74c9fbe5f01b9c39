-------------------------- MODULE MCAsyncRunStream --------------------------
(* AsyncRunStream on a small instance: a task for each of the three calls  *)
(* a log of four events can hold.                                          *)
EXTENDS AsyncRunStream, TLC

CONSTANTS k1, k2, k3

TaskSymmetry == Permutations(Workers)
=============================================================================

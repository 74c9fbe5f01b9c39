---------------------------- MODULE MCRunStream ----------------------------
(* RunStream with two pool threads and two POST attempts.                  *)
EXTENDS RunStream

CONSTANTS w1, w2
=============================================================================

---------------------------- MODULE MCTokenCache ---------------------------
(* TokenCache with two threads and three requests: a thread that leads and *)
(* one that follows, joins late or leads the next flight.                  *)
EXTENDS TokenCache

CONSTANTS t1, t2
=============================================================================

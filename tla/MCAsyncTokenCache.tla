------------------------- MODULE MCAsyncTokenCache -------------------------
(* AsyncTokenCache with a leader and two followers.                        *)
EXTENDS AsyncTokenCache

CONSTANTS t1, t2, t3
=============================================================================

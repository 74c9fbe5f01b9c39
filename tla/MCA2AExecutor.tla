--------------------------- MODULE MCA2AExecutor ----------------------------
(* A2AExecutor on four tasks of three contexts.                            *)
EXTENDS A2ATools, TLC

CONSTANTS t1, t2, t3, t4, c1, c2, c3

MCContextOf == t1 :> c1 @@ t2 :> c2 @@ t3 :> c3 @@ t4 :> c1

\* Three turns that overlap, are marked and are aborted at every await, over
\* a map of one session.
Overlapping ==
    [turns |-> {t1, t2, t4}, known |-> {t2, t4}, maxSessions |-> 1, stateless |-> FALSE,
     cancellable |-> {t1}, overlap |-> TRUE, aborts |-> TRUE, closes |-> TRUE]

\* Four turns, no two of one context at once, over a map of two sessions.
Orderly ==
    [turns |-> Tasks, known |-> {t1}, maxSessions |-> 2, stateless |-> FALSE,
     cancellable |-> {}, overlap |-> FALSE, aborts |-> FALSE, closes |-> FALSE]

\* Turns of two contexts, and aclose() at any time.
Closing == [Orderly EXCEPT !.turns = {t1, t2, t4}, !.closes = TRUE]

\* Turns that are runs of their own.
OneShot ==
    [turns |-> {t1, t2, t4}, known |-> {t2, t4}, maxSessions |-> 1, stateless |-> TRUE,
     cancellable |-> {t1}, overlap |-> TRUE, aborts |-> TRUE, closes |-> FALSE]

AllScenarios == {Overlapping, Orderly, Closing, OneShot}

\* The turns of two contexts, none of them aborted.
Quiet == {[Orderly EXCEPT !.turns = {t1, t2, t4}, !.maxSessions = 1]}
=============================================================================

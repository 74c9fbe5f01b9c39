------------------------ MODULE AsyncTokenCacheProofs -----------------------
(***************************************************************************)
(* That the asynchronous token source mints one token at a time, and that  *)
(* a retry after a 401 never gets the token that was rejected: proved for  *)
(* every set of tasks and any number of requests and cancellations.        *)
(***************************************************************************)
EXTENDS AsyncTokenCache, SequenceTheorems, TLAPS

Futures == {"pending", "minted", "failed", "cancelled"}

\* The types the argument needs: what refers to a flight refers to one that
\* was started, or to none.
Types ==
    /\ futures \in Seq(Futures)
    /\ inflight \in 0..Len(futures)
    /\ token \in NoToken..Len(futures)
    /\ pc \in [Tasks -> {"idle", "call", "mint", "wait", "send"}]
    /\ reason \in [Tasks -> {"initial", "unauthorized"}]
    /\ flight \in [Tasks -> 0..Len(futures)]
    /\ got \in [Tasks -> NoToken..Len(futures)]

\* Who minds a flight is on one.
OnFlight == \A t \in Tasks : pc[t] \in {"mint", "wait"} => flight[t] # NoFlight

\* A future that has been resolved with a token has left _inflight.
InflightOpen == inflight # NoFlight => futures[inflight] \in {"pending", "cancelled"}

\* No token is known to the cache or to a task before its flight is over.
KnownWhenOver ==
    /\ token > 0 => futures[token] # "pending"
    /\ \A t \in Tasks : got[t] > 0 => futures[got[t]] # "pending"

\* A task that holds the token of the flight it waits for, which it joined
\* after the flight's future was cancelled, will not be given it again.
NoOldNews ==
    \A t \in Tasks : pc[t] = "wait" /\ got[t] = flight[t]
                        => futures[flight[t]] \in {"failed", "cancelled"}

IInv ==
    /\ Types
    /\ OnFlight
    /\ SingleFlight
    /\ InflightOpen
    /\ KnownWhenOver
    /\ NoOldNews

-----------------------------------------------------------------------------
LEMMA InitIInv == Init => IInv
<1> SUFFICES ASSUME Init PROVE IInv
  OBVIOUS
<1>1. Types
  BY DEF Init, Types, NoToken, NoFlight
<1>2. OnFlight /\ SingleFlight /\ InflightOpen /\ KnownWhenOver /\ NoOldNews
  BY DEF Init, OnFlight, SingleFlight, InflightOpen, KnownWhenOver, NoOldNews, NoToken, NoFlight
<1> QED
  BY <1>1, <1>2 DEF IInv

\* A completed or cancelled future: the only change of `futures` in place.
LEMMA SettledFuture ==
    ASSUME Types, NEW f \in 1..Len(futures), NEW how \in Futures,
           futures' = [futures EXCEPT ![f] = how]
    PROVE  /\ futures' \in Seq(Futures)
           /\ Len(futures') = Len(futures)
           /\ \A g \in 1..Len(futures) : futures'[g] = IF g = f THEN how ELSE futures[g]
  BY DEF Types

\* A task that ends its request holds nothing and waits for nothing.
LEMMA EndedTask ==
    ASSUME Types, NEW t \in Tasks, NEW how, End(t, how)
    PROVE  /\ pc' \in [Tasks -> {"idle", "call", "mint", "wait", "send"}]
           /\ reason' \in [Tasks -> {"initial", "unauthorized"}]
           /\ flight' \in [Tasks -> 0..Len(futures)]
           /\ got' \in [Tasks -> NoToken..Len(futures)]
           /\ pc'[t] = "idle" /\ got'[t] = NoToken
           /\ \A u \in Tasks \ {t} : /\ pc'[u] = pc[u] /\ flight'[u] = flight[u]
                                     /\ got'[u] = got[u] /\ reason'[u] = reason[u]
  BY DEF Types, End, Goto, NoToken, NoFlight

\* A task that returns from the source with a token sends its request.
LEMMA ReturnedTask ==
    ASSUME Types, NEW t \in Tasks, NEW tok \in NoToken..Len(futures),
           Return(t, tok), UNCHANGED flight
    PROVE  /\ pc' \in [Tasks -> {"idle", "call", "mint", "wait", "send"}]
           /\ got' \in [Tasks -> NoToken..Len(futures)]
           /\ flight' \in [Tasks -> 0..Len(futures)]
           /\ pc'[t] = "send" /\ got'[t] = tok
           /\ \A u \in Tasks \ {t} : /\ pc'[u] = pc[u] /\ flight'[u] = flight[u]
                                     /\ got'[u] = got[u]
  BY DEF Types, Return, Goto, NoToken

-----------------------------------------------------------------------------
(* The actions.                                                            *)

LEMMA RequestStep == \A t \in Tasks : IInv /\ Request(t) => IInv'
<1> SUFFICES ASSUME IInv, NEW t \in Tasks, Request(t) PROVE IInv'
  OBVIOUS
<1> USE DEF IInv
<1>1. /\ pc' = [pc EXCEPT ![t] = "call"]
      /\ UNCHANGED <<token, inflight, futures, reason, flight, got>>
  BY DEF Request, Goto, cache
<1>2. Types'
  BY <1>1 DEF Types
<1>3. OnFlight' /\ SingleFlight' /\ NoOldNews'
  BY <1>1 DEF Types, OnFlight, SingleFlight, NoOldNews
<1>4. InflightOpen' /\ KnownWhenOver'
  BY <1>1 DEF InflightOpen, KnownWhenOver
<1> QED
  BY <1>2, <1>3, <1>4

LEMMA CallStep == \A t \in Tasks : IInv /\ Call(t) => IInv'
<1> SUFFICES ASSUME IInv, NEW t \in Tasks, Call(t) PROVE IInv'
  OBVIOUS
<1> USE DEF IInv
<1>0. UNCHANGED <<token, reason>>
  BY DEF Call
<1>1. CASE UseCached(t) /\ Return(t, token) /\ UNCHANGED <<inflight, futures, flight>>
  <2>1. /\ pc' = [pc EXCEPT ![t] = "send"] /\ got' = [got EXCEPT ![t] = token]
    BY <1>1 DEF Return, Goto
  <2>2. Types'
    BY <1>0, <1>1, <2>1 DEF Types
  <2>3. OnFlight' /\ SingleFlight' /\ NoOldNews'
    BY <1>1, <2>1 DEF Types, OnFlight, SingleFlight, NoOldNews
  <2>4. InflightOpen' /\ KnownWhenOver'
    BY <1>0, <1>1, <2>1 DEF Types, InflightOpen, KnownWhenOver
  <2> QED
    BY <2>2, <2>3, <2>4
<1>2. CASE /\ ~CanLead /\ UNCHANGED <<got, inflight, futures>>
           /\ flight' = [flight EXCEPT ![t] = inflight] /\ Goto(t, "wait")
  <2>1. pc' = [pc EXCEPT ![t] = "wait"] /\ inflight # NoFlight
    BY <1>2 DEF Goto, CanLead
  <2>2. Types'
    BY <1>0, <1>2, <2>1 DEF Types
  <2>3. OnFlight' /\ SingleFlight'
    BY <1>2, <2>1 DEF Types, OnFlight, SingleFlight
  <2>4. NoOldNews'
    <3>1. got[t] = inflight => futures[inflight] = "cancelled"
      BY <2>1 DEF Types, InflightOpen, KnownWhenOver, NoFlight
    <3> QED
      BY <1>2, <2>1, <3>1 DEF Types, NoOldNews
  <2>5. InflightOpen' /\ KnownWhenOver'
    BY <1>0, <1>2 DEF InflightOpen, KnownWhenOver
  <2> QED
    BY <2>2, <2>3, <2>4, <2>5
<1>3. CASE /\ CanLead /\ UNCHANGED got /\ futures' = Append(futures, "pending")
           /\ inflight' = Len(futures')
           /\ flight' = [flight EXCEPT ![t] = inflight'] /\ Goto(t, "mint")
  <2>1. /\ pc' = [pc EXCEPT ![t] = "mint"] /\ inflight = NoFlight
        /\ futures' \in Seq(Futures) /\ Len(futures') = Len(futures) + 1
        /\ inflight' = Len(futures) + 1
        /\ futures'[Len(futures) + 1] = "pending"
        /\ \A f \in 1..Len(futures) : futures'[f] = futures[f]
    BY <1>3 DEF Types, Futures, Goto, CanLead
  <2>2. Types'
    BY <1>0, <1>3, <2>1 DEF Types, NoToken
  <2>3. \A u \in Tasks : pc[u] # "mint"
    BY <2>1 DEF OnFlight, SingleFlight, NoFlight
  <2>4. OnFlight' /\ SingleFlight'
    BY <1>3, <2>1, <2>3 DEF Types, OnFlight, SingleFlight, NoFlight
  <2>5. InflightOpen' /\ KnownWhenOver'
    BY <1>0, <1>3, <2>1 DEF Types, InflightOpen, KnownWhenOver, NoToken
  <2>6. NoOldNews'
    BY <1>3, <2>1 DEF Types, NoOldNews, OnFlight, NoFlight
  <2> QED
    BY <2>2, <2>4, <2>5, <2>6
<1> QED
  BY <1>1, <1>2, <1>3 DEF Call

\* The leader's turn after mint(): its future settled, unless it was already.
LEMMA LeaderSettles ==
    ASSUME IInv, NEW t \in Tasks, pc[t] = "mint",
           NEW how \in {"minted", "failed", "cancelled"}, Complete(t, how)
    PROVE  /\ flight[t] = inflight /\ inflight \in 1..Len(futures)
           /\ futures' \in Seq(Futures) /\ Len(futures') = Len(futures)
           /\ Pending(flight[t]) => inflight' = NoFlight
           /\ ~Pending(flight[t]) => inflight' = inflight
           /\ futures'[inflight] # "pending"
           /\ Pending(flight[t]) => futures'[inflight] = how
           /\ ~Pending(flight[t]) => futures'[inflight] = "cancelled"
           /\ \A f \in 1..Len(futures) : f # inflight => futures'[f] = futures[f]
<1>1. flight[t] = inflight /\ inflight \in 1..Len(futures)
  BY DEF IInv, Types, OnFlight, SingleFlight, NoFlight
<1>2. CASE Pending(flight[t])
  <2>1. futures' = [futures EXCEPT ![inflight] = how] /\ inflight' = NoFlight
    BY <1>1, <1>2 DEF Complete
  <2>2. how \in Futures
    BY DEF Futures
  <2>3. /\ futures' \in Seq(Futures)
        /\ Len(futures') = Len(futures)
        /\ \A g \in 1..Len(futures) :
              futures'[g] = IF g = inflight THEN how ELSE futures[g]
    BY <1>1, <2>1, <2>2, SettledFuture DEF IInv
  <2> QED
    BY <1>1, <1>2, <2>1, <2>3
<1>3. CASE ~Pending(flight[t])
  <2>1. UNCHANGED <<futures, inflight>>
    BY <1>3 DEF Complete
  <2>2. futures[inflight] = "cancelled"
    BY <1>1, <1>3 DEF IInv, InflightOpen, Pending, NoFlight
  <2> QED
    BY <1>1, <1>3, <2>1, <2>2 DEF IInv, Types
<1> QED
  BY <1>2, <1>3

LEMMA MintedStep == \A t \in Tasks : IInv /\ Minted(t) => IInv'
<1> SUFFICES ASSUME IInv, NEW t \in Tasks, Minted(t) PROVE IInv'
  OBVIOUS
<1> USE DEF IInv
<1>0. pc[t] = "mint" /\ Complete(t, "minted") /\ token' = flight[t]
  BY DEF Minted
<1>1. /\ flight[t] = inflight /\ inflight \in 1..Len(futures)
      /\ futures' \in Seq(Futures) /\ Len(futures') = Len(futures)
      /\ Pending(flight[t]) => inflight' = NoFlight
      /\ ~Pending(flight[t]) => inflight' = inflight
      /\ futures'[inflight] # "pending"
      /\ ~Pending(flight[t]) => futures'[inflight] = "cancelled"
      /\ \A f \in 1..Len(futures) : f # inflight => futures'[f] = futures[f]
  BY <1>0, LeaderSettles
<1>2. /\ pc' \in [Tasks -> {"idle", "call", "mint", "wait", "send"}]
      /\ reason' \in [Tasks -> {"initial", "unauthorized"}]
      /\ flight' \in [Tasks -> 0..Len(futures)]
      /\ got' \in [Tasks -> NoToken..Len(futures)]
      /\ pc'[t] \in {"send", "idle"} /\ got'[t] \in {inflight, NoToken}
      /\ \A u \in Tasks \ {t} : /\ pc'[u] = pc[u] /\ flight'[u] = flight[u]
                                /\ got'[u] = got[u]
  <2>1. CASE Return(t, flight[t]) /\ UNCHANGED <<reason, flight>>
    BY <1>1, <2>1, ReturnedTask DEF Types, NoToken
  <2>2. CASE End(t, "invalid")
    BY <2>2, EndedTask
  <2> QED
    BY <2>1, <2>2 DEF Minted
<1>3. Types'
  BY <1>0, <1>1, <1>2 DEF Types, NoFlight, NoToken
<1>4. \A u \in Tasks : pc'[u] # "mint"
  BY <1>0, <1>2 DEF SingleFlight
<1>5. OnFlight' /\ SingleFlight'
  BY <1>2, <1>4 DEF OnFlight, SingleFlight
<1>6. InflightOpen'
  BY <1>1 DEF InflightOpen
<1>7. KnownWhenOver'
  <2>1. ASSUME NEW u \in Tasks, got'[u] > 0 PROVE futures'[got'[u]] # "pending"
    <3>1. CASE got'[u] = inflight
      BY <1>1, <3>1
    <3>2. CASE got'[u] # inflight
      <4>1. got'[u] = got[u] /\ got[u] \in 1..Len(futures)
        BY <1>2, <2>1, <3>2 DEF Types, NoToken
      <4> QED
        BY <1>1, <2>1, <3>2, <4>1 DEF KnownWhenOver
    <3> QED
      BY <3>1, <3>2
  <2> QED
    BY <1>0, <1>1, <2>1 DEF KnownWhenOver
<1>8. NoOldNews'
  <2> SUFFICES ASSUME NEW u \in Tasks, pc'[u] = "wait", got'[u] = flight'[u]
               PROVE  futures'[flight'[u]] \in {"failed", "cancelled"}
    BY DEF NoOldNews
  <2>1. u # t /\ pc[u] = "wait" /\ got[u] = flight[u] /\ flight'[u] = flight[u]
    BY <1>2
  <2>2. futures[flight[u]] \in {"failed", "cancelled"} /\ flight[u] \in 1..Len(futures)
    BY <2>1 DEF NoOldNews, OnFlight, Types, NoFlight
  <2>3. CASE flight[u] = inflight
    BY <1>1, <2>1, <2>2, <2>3 DEF Pending
  <2>4. CASE flight[u] # inflight
    BY <1>1, <2>1, <2>2, <2>4
  <2> QED
    BY <2>3, <2>4
<1> QED
  BY <1>3, <1>5, <1>6, <1>7, <1>8

\* The leader gives up: its mint() raised, or it was cancelled.
LEMMA LeaderEndsStep ==
    ASSUME IInv, NEW t \in Tasks, pc[t] = "mint", UNCHANGED token,
           NEW how \in {"failed", "cancelled"}, Complete(t, how),
           NEW ending, End(t, ending)
    PROVE  IInv'
<1> USE DEF IInv
<1>1. /\ inflight \in 1..Len(futures) /\ flight[t] = inflight
      /\ futures' \in Seq(Futures) /\ Len(futures') = Len(futures)
      /\ Pending(flight[t]) => inflight' = NoFlight
      /\ ~Pending(flight[t]) => inflight' = inflight
      /\ futures'[inflight] \in {"failed", "cancelled"}
      /\ ~Pending(flight[t]) => futures'[inflight] = "cancelled"
      /\ \A f \in 1..Len(futures) : f # inflight => futures'[f] = futures[f]
  BY LeaderSettles
<1>2. /\ pc' \in [Tasks -> {"idle", "call", "mint", "wait", "send"}]
      /\ reason' \in [Tasks -> {"initial", "unauthorized"}]
      /\ flight' \in [Tasks -> 0..Len(futures)]
      /\ got' \in [Tasks -> NoToken..Len(futures)]
      /\ pc'[t] = "idle" /\ got'[t] = NoToken
      /\ \A u \in Tasks \ {t} : /\ pc'[u] = pc[u] /\ flight'[u] = flight[u]
                                /\ got'[u] = got[u]
  BY EndedTask
<1>3. Types'
  BY <1>1, <1>2 DEF Types, NoFlight
<1>4. \A u \in Tasks : pc'[u] # "mint"
  BY <1>2 DEF SingleFlight
<1>5. OnFlight' /\ SingleFlight'
  BY <1>2, <1>4 DEF OnFlight, SingleFlight
<1>6. InflightOpen'
  BY <1>1 DEF InflightOpen
<1>7. KnownWhenOver'
  <2>1. ASSUME NEW u \in Tasks, got'[u] > 0 PROVE futures'[got'[u]] # "pending"
    <3>1. CASE got'[u] = inflight
      BY <1>1, <3>1
    <3>2. CASE got'[u] # inflight
      <4>1. got'[u] = got[u] /\ got[u] \in 1..Len(futures)
        BY <1>2, <2>1, <3>2 DEF Types, NoToken
      <4> QED
        BY <1>1, <2>1, <3>2, <4>1 DEF KnownWhenOver
    <3> QED
      BY <3>1, <3>2
  <2> QED
    BY <1>1, <2>1 DEF Types, KnownWhenOver
<1>8. NoOldNews'
  <2> SUFFICES ASSUME NEW u \in Tasks, pc'[u] = "wait", got'[u] = flight'[u]
               PROVE  futures'[flight'[u]] \in {"failed", "cancelled"}
    BY DEF NoOldNews
  <2>1. u # t /\ pc[u] = "wait" /\ got[u] = flight[u] /\ flight'[u] = flight[u]
    BY <1>2
  <2>2. futures[flight[u]] \in {"failed", "cancelled"} /\ flight[u] \in 1..Len(futures)
    BY <2>1 DEF NoOldNews, OnFlight, Types, NoFlight
  <2> QED
    BY <1>1, <2>1, <2>2
<1> QED
  BY <1>3, <1>5, <1>6, <1>7, <1>8

LEMMA MintRaisedStep == \A t \in Tasks : IInv /\ MintRaised(t) => IInv'
  BY LeaderEndsStep DEF MintRaised

LEMMA CancelLeaderStep == \A t \in Tasks : IInv /\ CancelLeader(t) => IInv'
  BY LeaderEndsStep DEF CancelLeader

LEMMA CancelFollowerStep == \A t \in Tasks : IInv /\ CancelFollower(t) => IInv'
<1> SUFFICES ASSUME IInv, NEW t \in Tasks, CancelFollower(t) PROVE IInv'
  OBVIOUS
<1> USE DEF IInv
<1>1. /\ UNCHANGED <<token, inflight, pc, reason, flight, got>>
      /\ futures' = [futures EXCEPT ![flight[t]] = "cancelled"]
      /\ flight[t] \in 1..Len(futures)
  BY DEF CancelFollower, task, OnFlight, Types, NoFlight
<1>2. /\ futures' \in Seq(Futures) /\ Len(futures') = Len(futures)
      /\ \A g \in 1..Len(futures) :
            futures'[g] = IF g = flight[t] THEN "cancelled" ELSE futures[g]
  <2>1. "cancelled" \in Futures
    BY DEF Futures
  <2> QED
    BY <1>1, <2>1, SettledFuture
<1>3. Types'
  BY <1>1, <1>2 DEF Types
<1>4. OnFlight' /\ SingleFlight'
  BY <1>1 DEF OnFlight, SingleFlight
<1>5. InflightOpen' /\ KnownWhenOver' /\ NoOldNews'
  BY <1>1, <1>2 DEF Types, OnFlight, InflightOpen, KnownWhenOver, NoOldNews, NoFlight
<1> QED
  BY <1>3, <1>4, <1>5

LEMMA FollowStep == \A t \in Tasks : IInv /\ Follow(t) => IInv'
<1> SUFFICES ASSUME IInv, NEW t \in Tasks, Follow(t) PROVE IInv'
  OBVIOUS
<1> USE DEF IInv
<1>0. /\ UNCHANGED <<token, inflight, futures>> /\ pc[t] = "wait"
      /\ flight[t] \in 1..Len(futures)
  BY DEF Follow, cache, Types, OnFlight, NoFlight
<1>1. /\ pc' \in [Tasks -> {"idle", "call", "mint", "wait", "send"}]
      /\ reason' \in [Tasks -> {"initial", "unauthorized"}]
      /\ flight' \in [Tasks -> 0..Len(futures)]
      /\ got' \in [Tasks -> NoToken..Len(futures)]
      /\ pc'[t] \in {"send", "idle"}
      /\ got'[t] > 0 => futures[got'[t]] # "pending"
      /\ \A u \in Tasks \ {t} : /\ pc'[u] = pc[u] /\ flight'[u] = flight[u]
                                /\ got'[u] = got[u]
  <2>1. CASE futures[flight[t]] = "minted" /\ Return(t, flight[t]) /\ UNCHANGED <<reason, flight>>
    BY <1>0, <2>1, ReturnedTask DEF Types, NoToken
  <2>2. CASE End(t, futures[flight[t]])
    BY <2>2, EndedTask DEF NoToken
  <2> QED
    BY <2>1, <2>2 DEF Follow
<1>2. Types'
  BY <1>0, <1>1 DEF Types
<1>3. OnFlight' /\ SingleFlight' /\ NoOldNews'
  <2>1. \A u \in Tasks : pc'[u] \in {"mint", "wait"} =>
           u # t /\ pc[u] = pc'[u] /\ flight'[u] = flight[u] /\ got'[u] = got[u]
    BY <1>1
  <2> QED
    BY <1>0, <2>1 DEF OnFlight, SingleFlight, NoOldNews
<1>4. InflightOpen' /\ KnownWhenOver'
  BY <1>0, <1>1 DEF InflightOpen, KnownWhenOver
<1> QED
  BY <1>2, <1>3, <1>4

LEMMA AnsweredStep == \A t \in Tasks : IInv /\ (Answered(t) \/ Rejected(t)) => IInv'
<1> SUFFICES ASSUME IInv, NEW t \in Tasks, Answered(t) \/ Rejected(t) PROVE IInv'
  OBVIOUS
<1> USE DEF IInv
<1>0. UNCHANGED <<token, inflight, futures>> /\ pc[t] = "send"
  BY DEF Answered, Rejected, cache
<1>1. /\ pc' \in [Tasks -> {"idle", "call", "mint", "wait", "send"}]
      /\ reason' \in [Tasks -> {"initial", "unauthorized"}]
      /\ flight' \in [Tasks -> 0..Len(futures)]
      /\ got' \in [Tasks -> NoToken..Len(futures)]
      /\ pc'[t] \in {"call", "idle"}
      /\ got'[t] \in {got[t], NoToken}
      /\ \A u \in Tasks \ {t} : /\ pc'[u] = pc[u] /\ flight'[u] = flight[u]
                                /\ got'[u] = got[u]
  <2>1. CASE End(t, "answered")
    BY <2>1, EndedTask
  <2>2. CASE /\ reason' = [reason EXCEPT ![t] = "unauthorized"]
             /\ Goto(t, "call") /\ UNCHANGED <<flight, got>>
    BY <2>2 DEF Types, Goto
  <2> QED
    BY <2>1, <2>2 DEF Answered, Rejected
<1>2. Types'
  BY <1>0, <1>1 DEF Types
<1>3. OnFlight' /\ SingleFlight' /\ NoOldNews'
  <2>1. \A u \in Tasks : pc'[u] \in {"mint", "wait"} =>
           u # t /\ pc[u] = pc'[u] /\ flight'[u] = flight[u] /\ got'[u] = got[u]
    BY <1>1
  <2> QED
    BY <1>0, <2>1 DEF OnFlight, SingleFlight, NoOldNews
<1>4. InflightOpen' /\ KnownWhenOver'
  <2>1. \A u \in Tasks : got'[u] \in {got[u], NoToken}
    BY <1>1
  <2> QED
    BY <1>0, <2>1 DEF InflightOpen, KnownWhenOver, NoToken
<1> QED
  BY <1>2, <1>3, <1>4

\* What leaves the client's state alone.
LEMMA OutsideStep ==
    ASSUME IInv, UNCHANGED <<token, inflight, futures, task>>
    PROVE  IInv'
  BY DEF IInv, Types, OnFlight, SingleFlight, InflightOpen, KnownWhenOver, NoOldNews, task

LEMMA IInvStep == IInv /\ [Next]_vars => IInv'
<1> SUFFICES ASSUME IInv, [Next]_vars PROVE IInv'
  OBVIOUS
<1>1. ASSUME NEW t \in Tasks, Request(t) \/ Step(t) \/ CancelLeader(t) \/ CancelFollower(t)
      PROVE  IInv'
  BY <1>1, RequestStep, CallStep, MintedStep, MintRaisedStep, FollowStep, AnsweredStep,
     CancelLeaderStep, CancelFollowerStep DEF Step
<1>2. CASE Expire \/ Revoke \/ Finished \/ UNCHANGED vars
  BY <1>2, OutsideStep DEF Expire, Revoke, Finished, vars, cache, task
<1> QED
  BY <1>1, <1>2 DEF Next

LEMMA Invariance == Spec => []IInv
  BY InitIInv, IInvStep, PTL DEF Spec

-----------------------------------------------------------------------------
(* The theorems.                                                           *)

\* oauth.py, "concurrent coroutines coalesce onto one mint": at most one task
\* awaits mint(), and _inflight is its future, whatever tasks are cancelled.
THEOREM OneMintAtATime == Spec => []SingleFlight
<1>1. IInv => SingleFlight
  BY DEF IInv
<1> QED
  BY <1>1, Invariance, PTL

\* In one step, for one task.
LEMMA RetryStep ==
    ASSUME IInv, [Next]_vars, NEW t \in Tasks,
           pc[t] # "send", pc'[t] = "send", reason'[t] = "unauthorized"
    PROVE  got'[t] # got[t]
<1> USE DEF IInv
<1>1. CASE UNCHANGED pc
  BY <1>1
<1>2. ASSUME NEW u \in Tasks, u # t,
             Request(u) \/ Step(u) \/ CancelLeader(u) \/ CancelFollower(u)
      PROVE  pc'[t] = pc[t]
  BY <1>2 DEF Request, Step, Call, Minted, MintRaised, Follow, Answered, Rejected,
              CancelLeader, CancelFollower, Goto, End, Return, task, Types
<1>3. CASE Call(t)
  BY <1>3 DEF Call, UseCached, Return, Goto, Types
<1>4. CASE Minted(t)
  <2>1. Return(t, flight[t]) /\ Pending(flight[t])
    BY <1>4 DEF Minted, End, Goto, Types
  <2>2. got'[t] = flight[t] /\ futures[flight[t]] = "pending" /\ flight[t] > 0
    BY <1>4, <2>1 DEF Minted, Return, Pending, Types, OnFlight, NoFlight
  <2> QED
    BY <2>2 DEF KnownWhenOver
<1>5. CASE Follow(t)
  <2>1. Return(t, flight[t]) /\ futures[flight[t]] = "minted" /\ pc[t] = "wait"
    BY <1>5 DEF Follow, End, Goto, Types
  <2>2. got'[t] = flight[t]
    BY <2>1 DEF Return, Types
  <2> QED
    BY <2>1, <2>2 DEF NoOldNews
<1>6. CASE Request(t) \/ MintRaised(t) \/ Answered(t) \/ Rejected(t)
           \/ CancelLeader(t) \/ CancelFollower(t)
  BY <1>6 DEF Request, MintRaised, Answered, Rejected, CancelLeader, CancelFollower,
              Goto, End, task, Types
<1>7. CASE Expire \/ Revoke \/ Finished \/ UNCHANGED vars
  BY <1>7 DEF Expire, Revoke, Finished, vars, task
<1> QED
  BY <1>1, <1>2, <1>3, <1>4, <1>5, <1>6, <1>7 DEF Next, Step

\* _request_with_retry: a task whose token was answered with a 401 sends its
\* retry with another one, whatever its fellows did since.
THEOREM RetriesUseNewTokens == Spec => RetryUsesNewToken
<1>1. IInv /\ [Next]_vars =>
        [\A t \in Tasks :
           (pc[t] # "send" /\ pc'[t] = "send" /\ reason'[t] = "unauthorized")
              => got'[t] # got[t]]_vars
  BY RetryStep
<1> QED
  BY <1>1, Invariance, PTL DEF Spec, RetryUsesNewToken
=============================================================================

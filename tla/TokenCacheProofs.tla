--------------------------- MODULE TokenCacheProofs -------------------------
(***************************************************************************)
(* That one mint() runs at a time, that no follower is left with a future  *)
(* nobody completes, and that the cache only ever moves to newer tokens:   *)
(* proved for every set of threads and every number of requests, with the  *)
(* type invariant whose bounds say that only flights that were started are *)
(* referred to.                                                            *)
(***************************************************************************)
EXTENDS TokenCache, SequenceTheorems, TLAPS

Futures == {"pending", "minted", "failed"}

\* The types the argument needs, without the bounds of TypeOK.
Types ==
    /\ token \in Int
    /\ inflight \in Nat
    /\ futures \in Seq(Futures)
    /\ lock \in Threads \cup {NoThread}
    /\ pc \in [Threads -> Steps]
    /\ reason \in [Threads -> {"initial", "unauthorized"}]
    /\ flight \in [Threads -> Nat]
    /\ got \in [Threads -> Int]

\* The thread inside the locked block holds the lock.
LockHeld == \A t \in Threads : pc[t] \in LockedSteps => lock = t

\* A thread about to publish its future found none, and none came since.
ClaimFree == \A t \in Threads : pc[t] = "claim" => inflight = NoFlight

\* The flights threads refer to exist.
FlightsExist ==
    /\ inflight <= Len(futures)
    /\ \A t \in Threads : Leads(t) \/ pc[t] = "wait" => flight[t] \in 1..Len(futures)

\* Until its leader completes it, a pending future has its leader.
Uncompleted == {"mint", "store", "resolve", "fail"}
PendingIsLed ==
    \A f \in 1..Len(futures) : futures[f] = "pending" =>
        \E t \in Threads : pc[t] \in Uncompleted /\ flight[t] = f

\* The cache is behind a flight until its token is stored, and holds that
\* token until _inflight is cleared.
StoredInOrder ==
    /\ token \in NoToken..Len(futures)
    /\ \A t \in Threads : pc[t] \in {"mint", "store"} => token < flight[t]
    /\ \A t \in Threads : pc[t] \in {"resolve", "clear"} => token = flight[t]
    /\ \A f \in 1..Len(futures) : futures[f] = "minted" => f <= token

IInv ==
    /\ Types
    /\ LockHeld
    /\ ClaimFree
    /\ FlightsExist
    /\ SingleFlight
    /\ PendingIsLed
    /\ StoredInOrder
    /\ GotIsStored

-----------------------------------------------------------------------------
(* What the small operators do to the variables.                           *)

LEMMA StepNames ==
    /\ {"idle", "look", "enter", "wait", "send", "recheck", "join", "claim"} \subseteq Steps
    /\ {"mint", "store", "resolve", "clear", "fail", "clearfailed"} \subseteq Steps
BY DEF Steps, LeaderSteps, LockedSteps

LEMMA GotoMoves ==
    ASSUME Types, NEW t \in Threads, NEW s \in Steps, Goto(t, s)
    PROVE  /\ pc' \in [Threads -> Steps]
           /\ pc'[t] = s
           /\ \A u \in Threads : u # t => pc'[u] = pc[u]
BY DEF Types, Goto

LEMMA EndClears ==
    ASSUME Types, NEW t \in Threads, End(t)
    PROVE  /\ pc' \in [Threads -> Steps]
           /\ pc'[t] = "idle" /\ got'[t] = NoToken
           /\ reason' \in [Threads -> {"initial", "unauthorized"}]
           /\ flight' \in [Threads -> Nat]
           /\ got' \in [Threads -> Int]
           /\ \A u \in Threads : u # t => pc'[u] = pc[u] /\ flight'[u] = flight[u]
                                         /\ got'[u] = got[u]
<1>1. Goto(t, "idle")
  BY DEF End
<1>2. "idle" \in Steps
  BY StepNames
<1> QED
  BY <1>1, <1>2, GotoMoves DEF End, Types, NoFlight, NoToken

LEMMA ReturnHands ==
    ASSUME Types, NEW t \in Threads, NEW tok \in Int, Return(t, tok)
    PROVE  /\ pc' \in [Threads -> Steps]
           /\ pc'[t] = "send" /\ got'[t] = tok
           /\ got' \in [Threads -> Int]
           /\ \A u \in Threads : u # t => pc'[u] = pc[u] /\ got'[u] = got[u]
<1>1. Goto(t, "send")
  BY DEF Return
<1>2. "send" \in Steps
  BY StepNames
<1> QED
  BY <1>1, <1>2, GotoMoves DEF Return, Types

LEMMA CompleteSets ==
    ASSUME Types, NEW t \in Threads, NEW how \in Futures, Complete(t, how)
    PROVE  /\ futures' \in Seq(Futures)
           /\ Len(futures') = Len(futures)
           /\ \A f \in 1..Len(futures) :
                 futures'[f] = IF f = flight[t] THEN how ELSE futures[f]
<1>1. CASE flight[t] \in 1..Len(futures)
  BY <1>1, ExceptSeq DEF Types, Complete
<1>2. CASE flight[t] \notin 1..Len(futures)
  <2>1. futures' = futures
    BY <1>2 DEF Types, Complete
  <2> QED
    BY <1>2, <2>1 DEF Types
<1> QED
  BY <1>1, <1>2

LEMMA ClaimAppends ==
    ASSUME Types, NEW t \in Threads, Claim(t)
    PROVE  /\ futures' \in Seq(Futures)
           /\ Len(futures') = Len(futures) + 1
           /\ Len(futures) \in Nat
           /\ futures'[Len(futures) + 1] = "pending"
           /\ \A f \in 1..Len(futures) : futures'[f] = futures[f]
           /\ inflight' = Len(futures) + 1
           /\ flight' \in [Threads -> Nat]
           /\ flight'[t] = Len(futures) + 1
           /\ \A u \in Threads : u # t => flight'[u] = flight[u]
           /\ pc' \in [Threads -> Steps]
           /\ pc'[t] = "mint"
           /\ \A u \in Threads : u # t => pc'[u] = pc[u]
<1>1. /\ futures' \in Seq(Futures)
      /\ Len(futures') = Len(futures) + 1
      /\ Len(futures) \in Nat
      /\ futures'[Len(futures) + 1] = "pending"
      /\ \A f \in 1..Len(futures) : futures'[f] = futures[f]
  BY DEF Types, Claim, Futures
<1>2. inflight' = Len(futures') /\ flight' = [flight EXCEPT ![t] = inflight']
  BY DEF Claim
<1>3. flight \in [Threads -> Nat]
  BY DEF Types
<1>4. Goto(t, "mint") /\ "mint" \in Steps
  BY StepNames DEF Claim
<1> QED
  BY <1>1, <1>2, <1>3, <1>4, GotoMoves

-----------------------------------------------------------------------------
LEMMA TypesInit == Init => Types
BY StepNames DEF Init, Types, NoToken, NoFlight

\* Every step keeps the types.
LEMMA TypesStep == Types /\ [Next]_vars => Types'
<1> SUFFICES ASSUME Types, [Next]_vars PROVE Types'
  OBVIOUS
<1> USE StepNames DEF cache, thread, world
<1>1. ASSUME NEW t \in Threads, Request(t) PROVE Types'
  BY <1>1, GotoMoves DEF Types, Request
<1>2. ASSUME NEW t \in Threads, Look(t) PROVE Types'
  BY <1>2, GotoMoves, ReturnHands DEF Types, Look
<1>3. ASSUME NEW t \in Threads, Enter(t) PROVE Types'
  BY <1>3, GotoMoves DEF Types, Enter
<1>4. ASSUME NEW t \in Threads, Recheck(t) PROVE Types'
  BY <1>4, GotoMoves, ReturnHands DEF Types, Recheck
<1>5. ASSUME NEW t \in Threads, Join(t) PROVE Types'
  BY <1>5, GotoMoves DEF Types, Join
<1>6. ASSUME NEW t \in Threads, Claim(t) PROVE Types'
  <2>1. UNCHANGED <<token, reason, got>> /\ lock' = NoThread
    BY <1>6 DEF Claim
  <2> QED
    BY <1>6, <2>1, ClaimAppends DEF Types
<1>7. ASSUME NEW t \in Threads, Minted(t) PROVE Types'
  BY <1>7, GotoMoves DEF Types, Minted
<1>8. ASSUME NEW t \in Threads, MintRaised(t) PROVE Types'
  BY <1>8, GotoMoves DEF Types, MintRaised
<1>9. ASSUME NEW t \in Threads, Store(t) PROVE Types'
  BY <1>9, GotoMoves DEF Types, Store
<1>10. ASSUME NEW t \in Threads, Resolve(t) PROVE Types'
  BY <1>10, GotoMoves, CompleteSets DEF Types, Resolve, Futures
<1>11. ASSUME NEW t \in Threads, Fail(t) PROVE Types'
  BY <1>11, GotoMoves, CompleteSets DEF Types, Fail, Futures
<1>12. ASSUME NEW t \in Threads, Clear(t) PROVE Types'
  BY <1>12, ReturnHands DEF Types, Clear, NoFlight
<1>13. ASSUME NEW t \in Threads, ClearFailed(t) PROVE Types'
  BY <1>13, EndClears DEF Types, ClearFailed, NoFlight
<1>14. ASSUME NEW t \in Threads, Follow(t) PROVE Types'
  BY <1>14, ReturnHands, EndClears DEF Types, Follow
<1>15. ASSUME NEW t \in Threads, Answered(t) PROVE Types'
  BY <1>15, EndClears DEF Types, Answered
<1>16. ASSUME NEW t \in Threads, Rejected(t) PROVE Types'
  BY <1>16, GotoMoves, EndClears DEF Types, Rejected
<1>17. ASSUME Expire \/ Revoke \/ Finished \/ UNCHANGED vars PROVE Types'
  BY <1>17 DEF Types, Expire, Revoke, Finished, vars
<1> QED
  BY <1>1, <1>2, <1>3, <1>4, <1>5, <1>6, <1>7, <1>8, <1>9, <1>10, <1>11, <1>12, <1>13,
     <1>14, <1>15, <1>16, <1>17 DEF Next, Step
-----------------------------------------------------------------------------
LEMMA IInvInit == Init => IInv
BY TypesInit DEF Init, IInv, LockHeld, ClaimFree, FlightsExist, SingleFlight, Leads,
   PendingIsLed, StoredInOrder, GotIsStored, LeaderSteps, LockedSteps, NoToken, NoFlight

\* Every step keeps the invariant, and never takes the cached token back.
LEMMA IInvStep == IInv /\ [Next]_vars => IInv' /\ token' >= token
<1> SUFFICES ASSUME IInv, [Next]_vars PROVE IInv' /\ token' >= token
  OBVIOUS
<1>a. Types /\ Types'
  BY TypesStep DEF IInv
<1>b. /\ LockHeld /\ ClaimFree /\ FlightsExist /\ SingleFlight
      /\ PendingIsLed /\ StoredInOrder /\ GotIsStored
  BY DEF IInv
<1>c. /\ flight \in [Threads -> Nat] /\ inflight \in Nat /\ Len(futures) \in Nat
      /\ token \in Int /\ got \in [Threads -> Int]
  BY <1>a DEF Types
<1>1. ASSUME NEW t \in Threads, Request(t) PROVE IInv' /\ token' >= token
  <2>1. /\ pc[t] = "idle"
        /\ pc'[t] = "look"
        /\ \A u \in Threads : u # t => pc'[u] = pc[u]
        /\ UNCHANGED <<token, inflight, futures, lock, flight, got>>
    BY <1>1, <1>a, GotoMoves, StepNames DEF Types, Request, cache, thread, world
  <2>2. LockHeld'
    BY <2>1, <1>b, <1>c, TokenCacheAssumption DEF LockHeld, LockedSteps
  <2>3. ClaimFree'
    BY <2>1, <1>b, <1>c, TokenCacheAssumption DEF ClaimFree, LockHeld, LockedSteps
  <2>4. FlightsExist'
    BY <2>1, <1>b, <1>c DEF FlightsExist, Leads, LeaderSteps, NoFlight
  <2>5. SingleFlight'
    BY <2>1, <1>b, <1>c, SMTT(40) DEF SingleFlight, ClaimFree, FlightsExist, Leads, LeaderSteps, NoFlight
  <2>6. PendingIsLed'
    BY <2>1, <1>b, <1>c, SMTT(40) DEF PendingIsLed, Uncompleted, SingleFlight, FlightsExist, Leads, LeaderSteps
  <2>7. StoredInOrder'
    BY <2>1, <1>b, <1>c, SMTT(40) DEF StoredInOrder, FlightsExist, SingleFlight, Leads, LeaderSteps, NoToken
  <2>8. GotIsStored'
    BY <2>1, <1>b, <1>c, SMTT(40) DEF GotIsStored, StoredInOrder, FlightsExist, Leads, LeaderSteps, NoToken
  <2>9. token' >= token
    BY <2>1, <1>b, <1>c DEF StoredInOrder
  <2> QED
    BY <1>a, <2>2, <2>3, <2>4, <2>5, <2>6, <2>7, <2>8, <2>9 DEF IInv
<1>2. ASSUME NEW t \in Threads, Look(t) PROVE IInv' /\ token' >= token
  <2>1. /\ pc[t] = "look"
        /\ \/ pc'[t] = "enter" /\ got'[t] = got[t]
           \/ pc'[t] = "send" /\ got'[t] = token
        /\ \A u \in Threads : u # t => pc'[u] = pc[u] /\ got'[u] = got[u]
        /\ UNCHANGED <<token, inflight, futures, lock, flight>>
    <3>1. CASE reason[t] # "unauthorized" /\ Usable
      <4>1. pc[t] = "look" /\ Return(t, token)
            /\ UNCHANGED <<token, inflight, futures, lock, flight>>
        BY <1>2, <3>1, <1>c DEF Look, cache, thread, world
      <4> QED
        BY <4>1, <3>1, <1>a, <1>c, ReturnHands, StepNames
    <3>2. CASE ~(reason[t] # "unauthorized" /\ Usable)
      <4>1. pc[t] = "look" /\ Goto(t, "enter")
            /\ UNCHANGED <<token, inflight, futures, lock, flight, got>>
        BY <1>2, <3>2, <1>c DEF Look, cache, thread, world
      <4>2. pc'[t] = "enter" /\ \A u \in Threads : u # t => pc'[u] = pc[u]
        BY <4>1, <1>a, GotoMoves, StepNames
      <4> QED
        BY <4>1, <4>2, <3>2, <1>c
    <3> QED
      BY <3>1, <3>2
  <2>2. LockHeld'
    BY <2>1, <1>b, <1>c, TokenCacheAssumption DEF LockHeld, LockedSteps
  <2>3. ClaimFree'
    BY <2>1, <1>b, <1>c, TokenCacheAssumption DEF ClaimFree, LockHeld, LockedSteps
  <2>4. FlightsExist'
    BY <2>1, <1>b, <1>c DEF FlightsExist, Leads, LeaderSteps, NoFlight
  <2>5. SingleFlight'
    BY <2>1, <1>b, <1>c, SMTT(40) DEF SingleFlight, ClaimFree, FlightsExist, Leads, LeaderSteps, NoFlight
  <2>6. PendingIsLed'
    BY <2>1, <1>b, <1>c, SMTT(40) DEF PendingIsLed, Uncompleted, SingleFlight, FlightsExist, Leads, LeaderSteps
  <2>7. StoredInOrder'
    BY <2>1, <1>b, <1>c, SMTT(40) DEF StoredInOrder, FlightsExist, SingleFlight, Leads, LeaderSteps, NoToken
  <2>8. GotIsStored'
    BY <2>1, <1>b, <1>c, SMTT(40) DEF GotIsStored, StoredInOrder, FlightsExist, Leads, LeaderSteps, NoToken
  <2>9. token' >= token
    BY <2>1, <1>b, <1>c DEF StoredInOrder
  <2> QED
    BY <1>a, <2>2, <2>3, <2>4, <2>5, <2>6, <2>7, <2>8, <2>9 DEF IInv
<1>3. ASSUME NEW t \in Threads, Enter(t) PROVE IInv' /\ token' >= token
  <2>1. /\ pc[t] = "enter"
        /\ pc'[t] = "recheck"
        /\ lock = NoThread /\ lock' = t
        /\ \A u \in Threads : u # t => pc'[u] = pc[u]
        /\ UNCHANGED <<token, inflight, futures, flight, got>>
    BY <1>3, <1>a, GotoMoves, StepNames DEF Types, Enter, LockFree, cache, thread, world
  <2>2. LockHeld'
    BY <2>1, <1>b, <1>c, TokenCacheAssumption DEF LockHeld, LockedSteps
  <2>3. ClaimFree'
    BY <2>1, <1>b, <1>c, TokenCacheAssumption DEF ClaimFree, LockHeld, LockedSteps
  <2>4. FlightsExist'
    BY <2>1, <1>b, <1>c DEF FlightsExist, Leads, LeaderSteps, NoFlight
  <2>5. SingleFlight'
    BY <2>1, <1>b, <1>c, SMTT(40) DEF SingleFlight, ClaimFree, FlightsExist, Leads, LeaderSteps, NoFlight
  <2>6. PendingIsLed'
    BY <2>1, <1>b, <1>c, SMTT(40) DEF PendingIsLed, Uncompleted, SingleFlight, FlightsExist, Leads, LeaderSteps
  <2>7. StoredInOrder'
    BY <2>1, <1>b, <1>c, SMTT(40) DEF StoredInOrder, FlightsExist, SingleFlight, Leads, LeaderSteps, NoToken
  <2>8. GotIsStored'
    BY <2>1, <1>b, <1>c, SMTT(40) DEF GotIsStored, StoredInOrder, FlightsExist, Leads, LeaderSteps, NoToken
  <2>9. token' >= token
    BY <2>1, <1>b, <1>c DEF StoredInOrder
  <2> QED
    BY <1>a, <2>2, <2>3, <2>4, <2>5, <2>6, <2>7, <2>8, <2>9 DEF IInv
<1>4. ASSUME NEW t \in Threads, Recheck(t) PROVE IInv' /\ token' >= token
  <2>1. /\ pc[t] = "recheck"
        /\ \/ pc'[t] = "join" /\ got'[t] = got[t] /\ lock' = lock
           \/ pc'[t] = "send" /\ got'[t] = token /\ lock' = NoThread
        /\ \A u \in Threads : u # t => pc'[u] = pc[u] /\ got'[u] = got[u]
        /\ UNCHANGED <<token, inflight, futures, flight>>
    <3>1. CASE reason[t] # "unauthorized" /\ Usable
      <4>1. pc[t] = "recheck" /\ Return(t, token) /\ lock' = NoThread
            /\ UNCHANGED <<token, inflight, futures, flight>>
        BY <1>4, <3>1, <1>c DEF Recheck, cache, thread, world
      <4> QED
        BY <4>1, <3>1, <1>a, <1>c, ReturnHands, StepNames
    <3>2. CASE ~(reason[t] # "unauthorized" /\ Usable)
      <4>1. pc[t] = "recheck" /\ Goto(t, "join")
            /\ UNCHANGED <<token, inflight, futures, lock, flight, got>>
        BY <1>4, <3>2, <1>c DEF Recheck, cache, thread, world
      <4>2. pc'[t] = "join" /\ \A u \in Threads : u # t => pc'[u] = pc[u]
        BY <4>1, <1>a, GotoMoves, StepNames
      <4> QED
        BY <4>1, <4>2, <3>2, <1>c
    <3> QED
      BY <3>1, <3>2
  <2>2. LockHeld'
    BY <2>1, <1>b, <1>c, TokenCacheAssumption DEF LockHeld, LockedSteps
  <2>3. ClaimFree'
    BY <2>1, <1>b, <1>c, TokenCacheAssumption DEF ClaimFree, LockHeld, LockedSteps
  <2>4. FlightsExist'
    BY <2>1, <1>b, <1>c DEF FlightsExist, Leads, LeaderSteps, NoFlight
  <2>5. SingleFlight'
    BY <2>1, <1>b, <1>c, SMTT(40) DEF SingleFlight, ClaimFree, FlightsExist, Leads, LeaderSteps, NoFlight
  <2>6. PendingIsLed'
    BY <2>1, <1>b, <1>c, SMTT(40) DEF PendingIsLed, Uncompleted, SingleFlight, FlightsExist, Leads, LeaderSteps
  <2>7. StoredInOrder'
    BY <2>1, <1>b, <1>c, SMTT(40) DEF StoredInOrder, FlightsExist, SingleFlight, Leads, LeaderSteps, NoToken
  <2>8. GotIsStored'
    BY <2>1, <1>b, <1>c, SMTT(40) DEF GotIsStored, StoredInOrder, FlightsExist, Leads, LeaderSteps, NoToken
  <2>9. token' >= token
    BY <2>1, <1>b, <1>c DEF StoredInOrder
  <2> QED
    BY <1>a, <2>2, <2>3, <2>4, <2>5, <2>6, <2>7, <2>8, <2>9 DEF IInv
<1>5. ASSUME NEW t \in Threads, Join(t) PROVE IInv' /\ token' >= token
  <2>1. /\ pc[t] = "join"
        /\ \/ pc'[t] = "wait" /\ flight'[t] = inflight /\ inflight # NoFlight /\ lock' = NoThread
           \/ pc'[t] = "claim" /\ flight'[t] = flight[t] /\ inflight = NoFlight /\ lock' = lock
        /\ \A u \in Threads : u # t => pc'[u] = pc[u] /\ flight'[u] = flight[u]
        /\ UNCHANGED <<token, inflight, futures, got>>
    <3>1. CASE CanLead
      <4>1. pc[t] = "join" /\ Goto(t, "claim") /\ inflight = NoFlight
            /\ UNCHANGED <<token, inflight, futures, lock, flight, got>>
        BY <1>5, <3>1, <1>c DEF Join, CanLead, cache, thread, world
      <4>2. pc'[t] = "claim" /\ \A u \in Threads : u # t => pc'[u] = pc[u]
        BY <4>1, <1>a, GotoMoves, StepNames
      <4> QED
        BY <4>1, <4>2, <3>1, <1>c
    <3>2. CASE ~(CanLead)
      <4>1. pc[t] = "join" /\ Goto(t, "wait") /\ flight' = [flight EXCEPT ![t] = inflight]
             /\ lock' = NoThread /\ inflight # NoFlight
            /\ UNCHANGED <<token, inflight, futures, got>>
        BY <1>5, <3>2, <1>c DEF Join, CanLead, cache, thread, world
      <4>2. pc'[t] = "wait" /\ \A u \in Threads : u # t => pc'[u] = pc[u]
        BY <4>1, <1>a, GotoMoves, StepNames
      <4> QED
        BY <4>1, <4>2, <3>2, <1>c
    <3> QED
      BY <3>1, <3>2
  <2>2. LockHeld'
    BY <2>1, <1>b, <1>c, TokenCacheAssumption DEF LockHeld, LockedSteps
  <2>3. ClaimFree'
    BY <2>1, <1>b, <1>c, TokenCacheAssumption DEF ClaimFree, LockHeld, LockedSteps
  <2>4. FlightsExist'
    BY <2>1, <1>b, <1>c DEF FlightsExist, Leads, LeaderSteps, NoFlight
  <2>5. SingleFlight'
    BY <2>1, <1>b, <1>c, SMTT(40) DEF SingleFlight, ClaimFree, FlightsExist, Leads, LeaderSteps, NoFlight
  <2>6. PendingIsLed'
    BY <2>1, <1>b, <1>c, SMTT(40) DEF PendingIsLed, Uncompleted, SingleFlight, FlightsExist, Leads, LeaderSteps
  <2>7. StoredInOrder'
    BY <2>1, <1>b, <1>c, SMTT(40) DEF StoredInOrder, FlightsExist, SingleFlight, Leads, LeaderSteps, NoToken
  <2>8. GotIsStored'
    BY <2>1, <1>b, <1>c, SMTT(40) DEF GotIsStored, StoredInOrder, FlightsExist, Leads, LeaderSteps, NoToken
  <2>9. token' >= token
    BY <2>1, <1>b, <1>c DEF StoredInOrder
  <2> QED
    BY <1>a, <2>2, <2>3, <2>4, <2>5, <2>6, <2>7, <2>8, <2>9 DEF IInv
<1>6. ASSUME NEW t \in Threads, Claim(t) PROVE IInv' /\ token' >= token
  <2>1. /\ pc[t] = "claim"
        /\ pc'[t] = "mint"
        /\ Len(futures) \in Nat /\ Len(futures') = Len(futures) + 1
        /\ futures'[Len(futures) + 1] = "pending"
        /\ \A f \in 1..Len(futures) : futures'[f] = futures[f]
        /\ inflight' = Len(futures) + 1 /\ flight'[t] = Len(futures) + 1
        /\ lock' = NoThread
        /\ \A u \in Threads : u # t => pc'[u] = pc[u] /\ flight'[u] = flight[u]
        /\ UNCHANGED <<token, got>>
    BY <1>6, <1>a, ClaimAppends, StepNames DEF Types, Claim, cache, thread, world
  <2>2. LockHeld'
    BY <2>1, <1>b, <1>c, TokenCacheAssumption DEF LockHeld, LockedSteps
  <2>3. ClaimFree'
    BY <2>1, <1>b, <1>c, TokenCacheAssumption DEF ClaimFree, LockHeld, LockedSteps
  <2>4. FlightsExist'
    BY <2>1, <1>b, <1>c DEF FlightsExist, Leads, LeaderSteps, NoFlight
  <2>5. SingleFlight'
    <3>1. \A u \in Threads : ~Leads(u)
      BY <2>1, <1>b DEF ClaimFree, SingleFlight, FlightsExist, NoFlight
    <3>2. \A u \in Threads : Leads(u)' => u = t
      BY <2>1, <3>1 DEF Leads
    <3> QED
      BY <2>1, <3>2 DEF SingleFlight
  <2>6. PendingIsLed'
    <3> SUFFICES ASSUME NEW f \in 1..Len(futures'), futures'[f] = "pending"
                 PROVE  \E u \in Threads : pc'[u] \in Uncompleted /\ flight'[u] = f
      BY DEF PendingIsLed
    <3>1. CASE f = Len(futures) + 1
      BY <2>1, <3>1 DEF Uncompleted
    <3>2. CASE f # Len(futures) + 1
      <4>1. f \in 1..Len(futures) /\ futures[f] = "pending"
        BY <2>1, <3>2
      <4>2. PICK u \in Threads : pc[u] \in Uncompleted /\ flight[u] = f
        BY <4>1, <1>b DEF PendingIsLed
      <4>3. u # t
        BY <2>1, <4>2 DEF Uncompleted
      <4> QED
        BY <2>1, <4>2, <4>3
    <3> QED
      BY <3>1, <3>2
  <2>7. StoredInOrder'
    <3>1. token' \in NoToken..Len(futures')
      BY <2>1, <1>b, <1>c DEF StoredInOrder, NoToken
    <3>2. ASSUME NEW u \in Threads, pc'[u] \in {"mint", "store"}
          PROVE  token' < flight'[u]
      BY <2>1, <1>b, <1>c, <3>2 DEF StoredInOrder, NoToken
    <3>3. ASSUME NEW u \in Threads, pc'[u] \in {"resolve", "clear"}
          PROVE  token' = flight'[u]
      BY <2>1, <1>b, <3>3 DEF StoredInOrder
    <3>4. ASSUME NEW f \in 1..Len(futures'), futures'[f] = "minted"
          PROVE  f <= token'
      <4>1. f \in 1..Len(futures) /\ futures[f] = "minted"
        BY <2>1, <3>4
      <4> QED
        BY <4>1, <2>1, <1>b DEF StoredInOrder
    <3> QED
      BY <3>1, <3>2, <3>3, <3>4 DEF StoredInOrder
  <2>8. GotIsStored'
    BY <2>1, <1>b, <1>c, SMTT(40) DEF GotIsStored, StoredInOrder, FlightsExist, Leads, LeaderSteps, NoToken
  <2>9. token' >= token
    BY <2>1, <1>b, <1>c DEF StoredInOrder
  <2> QED
    BY <1>a, <2>2, <2>3, <2>4, <2>5, <2>6, <2>7, <2>8, <2>9 DEF IInv
<1>7. ASSUME NEW t \in Threads, Minted(t) PROVE IInv' /\ token' >= token
  <2>1. /\ pc[t] = "mint"
        /\ pc'[t] = "store"
        /\ \A u \in Threads : u # t => pc'[u] = pc[u]
        /\ UNCHANGED <<token, inflight, futures, lock, flight, got>>
    BY <1>7, <1>a, GotoMoves, StepNames DEF Types, Minted, cache, thread, world
  <2>2. LockHeld'
    BY <2>1, <1>b, <1>c, TokenCacheAssumption DEF LockHeld, LockedSteps
  <2>3. ClaimFree'
    BY <2>1, <1>b, <1>c, TokenCacheAssumption DEF ClaimFree, LockHeld, LockedSteps
  <2>4. FlightsExist'
    BY <2>1, <1>b, <1>c DEF FlightsExist, Leads, LeaderSteps, NoFlight
  <2>5. SingleFlight'
    BY <2>1, <1>b, <1>c, SMTT(40) DEF SingleFlight, ClaimFree, FlightsExist, Leads, LeaderSteps, NoFlight
  <2>6. PendingIsLed'
    BY <2>1, <1>b, <1>c, SMTT(40) DEF PendingIsLed, Uncompleted, SingleFlight, FlightsExist, Leads, LeaderSteps
  <2>7. StoredInOrder'
    BY <2>1, <1>b, <1>c, SMTT(40) DEF StoredInOrder, FlightsExist, SingleFlight, Leads, LeaderSteps, NoToken
  <2>8. GotIsStored'
    BY <2>1, <1>b, <1>c, SMTT(40) DEF GotIsStored, StoredInOrder, FlightsExist, Leads, LeaderSteps, NoToken
  <2>9. token' >= token
    BY <2>1, <1>b, <1>c DEF StoredInOrder
  <2> QED
    BY <1>a, <2>2, <2>3, <2>4, <2>5, <2>6, <2>7, <2>8, <2>9 DEF IInv
<1>8. ASSUME NEW t \in Threads, MintRaised(t) PROVE IInv' /\ token' >= token
  <2>1. /\ pc[t] = "mint"
        /\ pc'[t] = "fail"
        /\ \A u \in Threads : u # t => pc'[u] = pc[u]
        /\ UNCHANGED <<token, inflight, futures, lock, flight, got>>
    BY <1>8, <1>a, GotoMoves, StepNames DEF Types, MintRaised, cache, thread, world
  <2>2. LockHeld'
    BY <2>1, <1>b, <1>c, TokenCacheAssumption DEF LockHeld, LockedSteps
  <2>3. ClaimFree'
    BY <2>1, <1>b, <1>c, TokenCacheAssumption DEF ClaimFree, LockHeld, LockedSteps
  <2>4. FlightsExist'
    BY <2>1, <1>b, <1>c DEF FlightsExist, Leads, LeaderSteps, NoFlight
  <2>5. SingleFlight'
    BY <2>1, <1>b, <1>c, SMTT(40) DEF SingleFlight, ClaimFree, FlightsExist, Leads, LeaderSteps, NoFlight
  <2>6. PendingIsLed'
    BY <2>1, <1>b, <1>c, SMTT(40) DEF PendingIsLed, Uncompleted, SingleFlight, FlightsExist, Leads, LeaderSteps
  <2>7. StoredInOrder'
    BY <2>1, <1>b, <1>c, SMTT(40) DEF StoredInOrder, FlightsExist, SingleFlight, Leads, LeaderSteps, NoToken
  <2>8. GotIsStored'
    BY <2>1, <1>b, <1>c, SMTT(40) DEF GotIsStored, StoredInOrder, FlightsExist, Leads, LeaderSteps, NoToken
  <2>9. token' >= token
    BY <2>1, <1>b, <1>c DEF StoredInOrder
  <2> QED
    BY <1>a, <2>2, <2>3, <2>4, <2>5, <2>6, <2>7, <2>8, <2>9 DEF IInv
<1>9. ASSUME NEW t \in Threads, Store(t) PROVE IInv' /\ token' >= token
  <2>1. /\ pc[t] = "store"
        /\ pc'[t] = "resolve"
        /\ token' = flight[t]
        /\ \A u \in Threads : u # t => pc'[u] = pc[u]
        /\ UNCHANGED <<inflight, futures, lock, flight, got>>
    BY <1>9, <1>a, GotoMoves, StepNames DEF Types, Store, cache, thread, world
  <2>2. LockHeld'
    BY <2>1, <1>b, <1>c, TokenCacheAssumption DEF LockHeld, LockedSteps
  <2>3. ClaimFree'
    BY <2>1, <1>b, <1>c, TokenCacheAssumption DEF ClaimFree, LockHeld, LockedSteps
  <2>4. FlightsExist'
    BY <2>1, <1>b, <1>c DEF FlightsExist, Leads, LeaderSteps, NoFlight
  <2>5. SingleFlight'
    BY <2>1, <1>b, <1>c, SMTT(40) DEF SingleFlight, ClaimFree, FlightsExist, Leads, LeaderSteps, NoFlight
  <2>6. PendingIsLed'
    BY <2>1, <1>b, <1>c, SMTT(40) DEF PendingIsLed, Uncompleted, SingleFlight, FlightsExist, Leads, LeaderSteps
  <2>7. StoredInOrder'
    BY <2>1, <1>b, <1>c, SMTT(40) DEF StoredInOrder, FlightsExist, SingleFlight, Leads, LeaderSteps, NoToken
  <2>8. GotIsStored'
    BY <2>1, <1>b, <1>c, SMTT(40) DEF GotIsStored, StoredInOrder, FlightsExist, Leads, LeaderSteps, NoToken
  <2>9. token' >= token
    BY <2>1, <1>b, <1>c DEF StoredInOrder
  <2> QED
    BY <1>a, <2>2, <2>3, <2>4, <2>5, <2>6, <2>7, <2>8, <2>9 DEF IInv
<1>10. ASSUME NEW t \in Threads, Resolve(t) PROVE IInv' /\ token' >= token
  <2>1. /\ pc[t] = "resolve"
        /\ pc'[t] = "clear"
        /\ Len(futures') = Len(futures)
        /\ \A f \in 1..Len(futures) :
            futures'[f] = IF f = flight[t] THEN "minted" ELSE futures[f]
        /\ \A u \in Threads : u # t => pc'[u] = pc[u]
        /\ UNCHANGED <<token, inflight, lock, flight, got>>
    BY <1>10, <1>a, GotoMoves, CompleteSets, StepNames DEF Types, Resolve, Futures, cache, thread, world
  <2>2. LockHeld'
    BY <2>1, <1>b, <1>c, TokenCacheAssumption DEF LockHeld, LockedSteps
  <2>3. ClaimFree'
    BY <2>1, <1>b, <1>c, TokenCacheAssumption DEF ClaimFree, LockHeld, LockedSteps
  <2>4. FlightsExist'
    BY <2>1, <1>b, <1>c DEF FlightsExist, Leads, LeaderSteps, NoFlight
  <2>5. SingleFlight'
    BY <2>1, <1>b, <1>c, SMTT(40) DEF SingleFlight, ClaimFree, FlightsExist, Leads, LeaderSteps, NoFlight
  <2>6. PendingIsLed'
    <3> SUFFICES ASSUME NEW f \in 1..Len(futures'), futures'[f] = "pending"
                 PROVE  \E u \in Threads : pc'[u] \in Uncompleted /\ flight'[u] = f
      BY DEF PendingIsLed
    <3>1. f # flight[t] /\ f \in 1..Len(futures) /\ futures[f] = "pending"
      BY <2>1
    <3>2. PICK u \in Threads : pc[u] \in Uncompleted /\ flight[u] = f
      BY <3>1, <1>b DEF PendingIsLed
    <3>3. u # t
      BY <3>1, <3>2
    <3> QED
      BY <2>1, <3>2, <3>3
  <2>7. StoredInOrder'
    BY <2>1, <1>b, <1>c, SMTT(40) DEF StoredInOrder, NoToken
  <2>8. GotIsStored'
    BY <2>1, <1>b, <1>c, SMTT(40) DEF GotIsStored, StoredInOrder, FlightsExist, Leads, LeaderSteps, NoToken
  <2>9. token' >= token
    BY <2>1, <1>b, <1>c DEF StoredInOrder
  <2> QED
    BY <1>a, <2>2, <2>3, <2>4, <2>5, <2>6, <2>7, <2>8, <2>9 DEF IInv
<1>11. ASSUME NEW t \in Threads, Fail(t) PROVE IInv' /\ token' >= token
  <2>1. /\ pc[t] = "fail"
        /\ pc'[t] = "clearfailed"
        /\ Len(futures') = Len(futures)
        /\ \A f \in 1..Len(futures) :
            futures'[f] = IF f = flight[t] THEN "failed" ELSE futures[f]
        /\ \A u \in Threads : u # t => pc'[u] = pc[u]
        /\ UNCHANGED <<token, inflight, lock, flight, got>>
    BY <1>11, <1>a, GotoMoves, CompleteSets, StepNames DEF Types, Fail, Futures, cache, thread, world
  <2>2. LockHeld'
    BY <2>1, <1>b, <1>c, TokenCacheAssumption DEF LockHeld, LockedSteps
  <2>3. ClaimFree'
    BY <2>1, <1>b, <1>c, TokenCacheAssumption DEF ClaimFree, LockHeld, LockedSteps
  <2>4. FlightsExist'
    BY <2>1, <1>b, <1>c DEF FlightsExist, Leads, LeaderSteps, NoFlight
  <2>5. SingleFlight'
    BY <2>1, <1>b, <1>c, SMTT(40) DEF SingleFlight, ClaimFree, FlightsExist, Leads, LeaderSteps, NoFlight
  <2>6. PendingIsLed'
    BY <2>1, <1>b, <1>c, SMTT(40) DEF PendingIsLed, Uncompleted, SingleFlight, FlightsExist, Leads, LeaderSteps
  <2>7. StoredInOrder'
    BY <2>1, <1>b, <1>c, SMTT(40) DEF StoredInOrder, FlightsExist, SingleFlight, Leads, LeaderSteps, NoToken
  <2>8. GotIsStored'
    BY <2>1, <1>b, <1>c, SMTT(40) DEF GotIsStored, StoredInOrder, FlightsExist, Leads, LeaderSteps, NoToken
  <2>9. token' >= token
    BY <2>1, <1>b, <1>c DEF StoredInOrder
  <2> QED
    BY <1>a, <2>2, <2>3, <2>4, <2>5, <2>6, <2>7, <2>8, <2>9 DEF IInv
<1>12. ASSUME NEW t \in Threads, Clear(t) PROVE IInv' /\ token' >= token
  <2>1. /\ pc[t] = "clear"
        /\ pc'[t] = "send" /\ got'[t] = flight[t]
        /\ inflight' = NoFlight /\ lock = NoThread
        /\ \A u \in Threads : u # t => pc'[u] = pc[u] /\ got'[u] = got[u]
        /\ UNCHANGED <<token, futures, lock, flight>>
    BY <1>12, <1>a, ReturnHands, StepNames DEF Types, Clear, LockFree, cache, thread, world
  <2>2. LockHeld'
    BY <2>1, <1>b, <1>c, TokenCacheAssumption DEF LockHeld, LockedSteps
  <2>3. ClaimFree'
    BY <2>1, <1>b, <1>c, TokenCacheAssumption DEF ClaimFree, LockHeld, LockedSteps
  <2>4. FlightsExist'
    BY <2>1, <1>b, <1>c DEF FlightsExist, Leads, LeaderSteps, NoFlight
  <2>5. SingleFlight'
    BY <2>1, <1>b, <1>c, SMTT(40) DEF SingleFlight, ClaimFree, FlightsExist, Leads, LeaderSteps, NoFlight
  <2>6. PendingIsLed'
    BY <2>1, <1>b, <1>c, SMTT(40) DEF PendingIsLed, Uncompleted, SingleFlight, FlightsExist, Leads, LeaderSteps
  <2>7. StoredInOrder'
    BY <2>1, <1>b, <1>c, SMTT(40) DEF StoredInOrder, FlightsExist, SingleFlight, Leads, LeaderSteps, NoToken
  <2>8. GotIsStored'
    BY <2>1, <1>b, <1>c, SMTT(40) DEF GotIsStored, StoredInOrder, FlightsExist, Leads, LeaderSteps, NoToken
  <2>9. token' >= token
    BY <2>1, <1>b, <1>c DEF StoredInOrder
  <2> QED
    BY <1>a, <2>2, <2>3, <2>4, <2>5, <2>6, <2>7, <2>8, <2>9 DEF IInv
<1>13. ASSUME NEW t \in Threads, ClearFailed(t) PROVE IInv' /\ token' >= token
  <2>1. /\ pc[t] = "clearfailed"
        /\ pc'[t] = "idle" /\ got'[t] = NoToken
        /\ inflight' = NoFlight /\ lock = NoThread
        /\ \A u \in Threads : u # t => pc'[u] = pc[u] /\ got'[u] = got[u] /\ flight'[u] = flight[u]
        /\ UNCHANGED <<token, futures, lock>>
    BY <1>13, <1>a, EndClears, StepNames DEF Types, ClearFailed, LockFree, cache, thread, world
  <2>2. LockHeld'
    BY <2>1, <1>b, <1>c, TokenCacheAssumption DEF LockHeld, LockedSteps
  <2>3. ClaimFree'
    BY <2>1, <1>b, <1>c, TokenCacheAssumption DEF ClaimFree, LockHeld, LockedSteps
  <2>4. FlightsExist'
    BY <2>1, <1>b, <1>c DEF FlightsExist, Leads, LeaderSteps, NoFlight
  <2>5. SingleFlight'
    BY <2>1, <1>b, <1>c, SMTT(40) DEF SingleFlight, ClaimFree, FlightsExist, Leads, LeaderSteps, NoFlight
  <2>6. PendingIsLed'
    BY <2>1, <1>b, <1>c, SMTT(40) DEF PendingIsLed, Uncompleted, SingleFlight, FlightsExist, Leads, LeaderSteps
  <2>7. StoredInOrder'
    BY <2>1, <1>b, <1>c, SMTT(40) DEF StoredInOrder, FlightsExist, SingleFlight, Leads, LeaderSteps, NoToken
  <2>8. GotIsStored'
    BY <2>1, <1>b, <1>c, SMTT(40) DEF GotIsStored, StoredInOrder, FlightsExist, Leads, LeaderSteps, NoToken
  <2>9. token' >= token
    BY <2>1, <1>b, <1>c DEF StoredInOrder
  <2> QED
    BY <1>a, <2>2, <2>3, <2>4, <2>5, <2>6, <2>7, <2>8, <2>9 DEF IInv
<1>14. ASSUME NEW t \in Threads, Follow(t) PROVE IInv' /\ token' >= token
  <2>1. /\ pc[t] = "wait"
        /\ \/ /\ futures[flight[t]] = "minted"
            /\ pc'[t] = "send" /\ got'[t] = flight[t] /\ flight'[t] = flight[t]
           \/ pc'[t] = "idle" /\ got'[t] = NoToken
        /\ \A u \in Threads : u # t => pc'[u] = pc[u] /\ got'[u] = got[u] /\ flight'[u] = flight[u]
        /\ UNCHANGED <<token, inflight, futures, lock>>
    <3>1. CASE futures[flight[t]] = "minted"
      <4>1. pc[t] = "wait" /\ Return(t, flight[t]) /\ flight[t] \in Int
            /\ UNCHANGED <<token, inflight, futures, lock, flight>>
        BY <1>14, <3>1, <1>c DEF Follow, cache, thread, world
      <4> QED
        BY <4>1, <3>1, <1>a, <1>c, ReturnHands, StepNames
    <3>2. CASE ~(futures[flight[t]] = "minted")
      <4>1. pc[t] = "wait" /\ End(t)
            /\ UNCHANGED <<token, inflight, futures, lock>>
        BY <1>14, <3>2, <1>c DEF Follow, cache, thread, world
      <4> QED
        BY <4>1, <3>2, <1>a, <1>c, EndClears, StepNames
    <3> QED
      BY <3>1, <3>2
  <2>2. LockHeld'
    BY <2>1, <1>b, <1>c, TokenCacheAssumption DEF LockHeld, LockedSteps
  <2>3. ClaimFree'
    BY <2>1, <1>b, <1>c, TokenCacheAssumption DEF ClaimFree, LockHeld, LockedSteps
  <2>4. FlightsExist'
    BY <2>1, <1>b, <1>c DEF FlightsExist, Leads, LeaderSteps, NoFlight
  <2>5. SingleFlight'
    BY <2>1, <1>b, <1>c, SMTT(40) DEF SingleFlight, ClaimFree, FlightsExist, Leads, LeaderSteps, NoFlight
  <2>6. PendingIsLed'
    BY <2>1, <1>b, <1>c, SMTT(40) DEF PendingIsLed, Uncompleted, SingleFlight, FlightsExist, Leads, LeaderSteps
  <2>7. StoredInOrder'
    BY <2>1, <1>b, <1>c, SMTT(40) DEF StoredInOrder, FlightsExist, SingleFlight, Leads, LeaderSteps, NoToken
  <2>8. GotIsStored'
    BY <2>1, <1>b, <1>c, SMTT(40) DEF GotIsStored, StoredInOrder, FlightsExist, Leads, LeaderSteps, NoToken
  <2>9. token' >= token
    BY <2>1, <1>b, <1>c DEF StoredInOrder
  <2> QED
    BY <1>a, <2>2, <2>3, <2>4, <2>5, <2>6, <2>7, <2>8, <2>9 DEF IInv
<1>15. ASSUME NEW t \in Threads, Answered(t) PROVE IInv' /\ token' >= token
  <2>1. /\ pc[t] = "send"
        /\ pc'[t] = "idle" /\ got'[t] = NoToken
        /\ \A u \in Threads : u # t => pc'[u] = pc[u] /\ got'[u] = got[u] /\ flight'[u] = flight[u]
        /\ UNCHANGED <<token, inflight, futures, lock>>
    BY <1>15, <1>a, EndClears, StepNames DEF Types, Answered, cache, thread, world
  <2>2. LockHeld'
    BY <2>1, <1>b, <1>c, TokenCacheAssumption DEF LockHeld, LockedSteps
  <2>3. ClaimFree'
    BY <2>1, <1>b, <1>c, TokenCacheAssumption DEF ClaimFree, LockHeld, LockedSteps
  <2>4. FlightsExist'
    BY <2>1, <1>b, <1>c DEF FlightsExist, Leads, LeaderSteps, NoFlight
  <2>5. SingleFlight'
    BY <2>1, <1>b, <1>c, SMTT(40) DEF SingleFlight, ClaimFree, FlightsExist, Leads, LeaderSteps, NoFlight
  <2>6. PendingIsLed'
    BY <2>1, <1>b, <1>c, SMTT(40) DEF PendingIsLed, Uncompleted, SingleFlight, FlightsExist, Leads, LeaderSteps
  <2>7. StoredInOrder'
    BY <2>1, <1>b, <1>c, SMTT(40) DEF StoredInOrder, FlightsExist, SingleFlight, Leads, LeaderSteps, NoToken
  <2>8. GotIsStored'
    BY <2>1, <1>b, <1>c, SMTT(40) DEF GotIsStored, StoredInOrder, FlightsExist, Leads, LeaderSteps, NoToken
  <2>9. token' >= token
    BY <2>1, <1>b, <1>c DEF StoredInOrder
  <2> QED
    BY <1>a, <2>2, <2>3, <2>4, <2>5, <2>6, <2>7, <2>8, <2>9 DEF IInv
<1>16. ASSUME NEW t \in Threads, Rejected(t) PROVE IInv' /\ token' >= token
  <2>1. /\ pc[t] = "send"
        /\ \/ pc'[t] = "look" /\ got'[t] = got[t] /\ flight'[t] = flight[t]
           \/ pc'[t] = "idle" /\ got'[t] = NoToken
        /\ \A u \in Threads : u # t => pc'[u] = pc[u] /\ got'[u] = got[u] /\ flight'[u] = flight[u]
        /\ UNCHANGED <<token, inflight, futures, lock>>
    <3>1. CASE MayRetry(t)
      <4>1. pc[t] = "send" /\ Goto(t, "look")
            /\ UNCHANGED <<token, inflight, futures, lock, flight, got>>
        BY <1>16, <3>1, <1>c DEF Rejected, cache, thread, world
      <4>2. pc'[t] = "look" /\ \A u \in Threads : u # t => pc'[u] = pc[u]
        BY <4>1, <1>a, GotoMoves, StepNames
      <4> QED
        BY <4>1, <4>2, <3>1, <1>c
    <3>2. CASE ~(MayRetry(t))
      <4>1. pc[t] = "send" /\ End(t)
            /\ UNCHANGED <<token, inflight, futures, lock>>
        BY <1>16, <3>2, <1>c DEF Rejected, cache, thread, world
      <4> QED
        BY <4>1, <3>2, <1>a, <1>c, EndClears, StepNames
    <3> QED
      BY <3>1, <3>2
  <2>2. LockHeld'
    BY <2>1, <1>b, <1>c, TokenCacheAssumption DEF LockHeld, LockedSteps
  <2>3. ClaimFree'
    BY <2>1, <1>b, <1>c, TokenCacheAssumption DEF ClaimFree, LockHeld, LockedSteps
  <2>4. FlightsExist'
    BY <2>1, <1>b, <1>c DEF FlightsExist, Leads, LeaderSteps, NoFlight
  <2>5. SingleFlight'
    BY <2>1, <1>b, <1>c, SMTT(40) DEF SingleFlight, ClaimFree, FlightsExist, Leads, LeaderSteps, NoFlight
  <2>6. PendingIsLed'
    BY <2>1, <1>b, <1>c, SMTT(40) DEF PendingIsLed, Uncompleted, SingleFlight, FlightsExist, Leads, LeaderSteps
  <2>7. StoredInOrder'
    BY <2>1, <1>b, <1>c, SMTT(40) DEF StoredInOrder, FlightsExist, SingleFlight, Leads, LeaderSteps, NoToken
  <2>8. GotIsStored'
    BY <2>1, <1>b, <1>c, SMTT(40) DEF GotIsStored, StoredInOrder, FlightsExist, Leads, LeaderSteps, NoToken
  <2>9. token' >= token
    BY <2>1, <1>b, <1>c DEF StoredInOrder
  <2> QED
    BY <1>a, <2>2, <2>3, <2>4, <2>5, <2>6, <2>7, <2>8, <2>9 DEF IInv
<1>17. ASSUME Expire \/ Revoke \/ Finished \/ UNCHANGED vars PROVE IInv' /\ token' >= token
  <2>1. UNCHANGED <<token, inflight, futures, lock, pc, flight, got>>
    BY <1>17 DEF Expire, Revoke, Finished, vars, cache, thread, world
  <2> QED
    BY <2>1, <1>a, <1>b, <1>c DEF IInv, LockHeld, ClaimFree, FlightsExist,
       SingleFlight, PendingIsLed, StoredInOrder, GotIsStored, Leads
<1> QED
  BY <1>1, <1>2, <1>3, <1>4, <1>5, <1>6, <1>7, <1>8, <1>9, <1>10, <1>11, <1>12, <1>13,
     <1>14, <1>15, <1>16, <1>17 DEF Next, Step

-----------------------------------------------------------------------------
LEMMA Inductive == Spec => []IInv
<1>1. IInv /\ [Next]_vars => IInv'
  BY IInvStep
<1> QED
  BY IInvInit, <1>1, PTL DEF Spec

-----------------------------------------------------------------------------
(* The bounds of TypeOK: they follow the flights, so they rest on IInv.     *)

Bounds ==
    /\ \A t \in Threads : flight[t] <= Len(futures) /\ NoToken <= got[t]
    /\ expiring \in BOOLEAN
    /\ floor \in 0..Len(futures) + 1
    /\ requests \in 0..MaxRequests

LEMMA BoundsInit == Init => Bounds
<1> SUFFICES ASSUME Init PROVE Bounds
  OBVIOUS
<1>1. Len(futures) = 0 /\ expiring = FALSE /\ floor = 0 /\ requests = 0
  BY DEF Init
<1>2. \A t \in Threads : flight[t] = 0 /\ got[t] = -1
  BY DEF Init, NoFlight, NoToken
<1>3. floor \in 0..Len(futures) + 1 /\ requests \in 0..MaxRequests
  BY <1>1, TokenCacheAssumption
<1>4. expiring \in BOOLEAN
  BY <1>1
<1>5. \A t \in Threads : flight[t] <= Len(futures) /\ NoToken <= got[t]
  BY <1>1, <1>2 DEF NoToken
<1> QED
  BY <1>3, <1>4, <1>5 DEF Bounds

LEMMA BoundsStep == IInv /\ Bounds /\ [Next]_vars => Bounds'
<1> SUFFICES ASSUME IInv, Bounds, [Next]_vars PROVE Bounds'
  OBVIOUS
<1>a. /\ Types /\ Types' /\ FlightsExist /\ StoredInOrder
      /\ Len(futures) \in Nat /\ token \in Int /\ inflight \in Nat
      /\ flight \in [Threads -> Nat] /\ got \in [Threads -> Int]
  BY TypesStep DEF IInv, Types
<1> USE TokenCacheAssumption DEF cache, thread, world, NoToken
<1>1. ASSUME NEW t \in Threads, Request(t) PROVE Bounds'
  BY <1>1, <1>a DEF Bounds, Request
<1>2. ASSUME NEW t \in Threads, Look(t) PROVE Bounds'
  BY <1>2, <1>a DEF Bounds, Look, Return, StoredInOrder
<1>3. ASSUME NEW t \in Threads, Enter(t) PROVE Bounds'
  BY <1>3, <1>a DEF Bounds, Enter
<1>4. ASSUME NEW t \in Threads, Recheck(t) PROVE Bounds'
  BY <1>4, <1>a DEF Bounds, Recheck, Return, StoredInOrder
<1>5. ASSUME NEW t \in Threads, Join(t) PROVE Bounds'
  BY <1>5, <1>a DEF Bounds, Join, FlightsExist
<1>6. ASSUME NEW t \in Threads, Claim(t) PROVE Bounds'
  <2>1. UNCHANGED <<got, expiring, floor, requests>>
    BY <1>6 DEF Claim
  <2>2. /\ Len(futures') = Len(futures) + 1
        /\ \A u \in Threads : flight'[u] = IF u = t THEN Len(futures) + 1 ELSE flight[u]
    BY <1>6, <1>a, ClaimAppends
  <2>3. \A u \in Threads : flight'[u] <= Len(futures') /\ NoToken <= got'[u]
    BY <2>1, <2>2, <1>a DEF Bounds
  <2>4. expiring' \in BOOLEAN
    BY <2>1 DEF Bounds
  <2>5. floor' \in 0..Len(futures') + 1 /\ requests' \in 0..MaxRequests
    BY <2>1, <2>2, <1>a DEF Bounds
  <2> QED
    BY <2>3, <2>4, <2>5 DEF Bounds
<1>7. ASSUME NEW t \in Threads, Minted(t) \/ MintRaised(t) PROVE Bounds'
  BY <1>7, <1>a DEF Bounds, Minted, MintRaised
<1>8. ASSUME NEW t \in Threads, Store(t) PROVE Bounds'
  BY <1>8, <1>a DEF Bounds, Store
<1>9. ASSUME NEW t \in Threads, Resolve(t) \/ Fail(t) PROVE Bounds'
  <2>1. Len(futures') = Len(futures)
    BY <1>9, <1>a, CompleteSets DEF Resolve, Fail, Futures
  <2>2. UNCHANGED <<flight, got, expiring, floor, requests>>
    BY <1>9 DEF Resolve, Fail
  <2> QED
    BY <2>1, <2>2, <1>a DEF Bounds
<1>10. ASSUME NEW t \in Threads, Clear(t) PROVE Bounds'
  BY <1>10, <1>a DEF Bounds, Clear, Return
<1>11. ASSUME NEW t \in Threads, End(t), UNCHANGED <<expiring, futures, world>> PROVE Bounds'
  BY <1>11, <1>a DEF Bounds, End, NoFlight
<1>12. ASSUME NEW t \in Threads, ClearFailed(t) \/ Answered(t) PROVE Bounds'
  BY <1>11, <1>12 DEF ClearFailed, Answered
<1>13. ASSUME NEW t \in Threads, Follow(t) PROVE Bounds'
  <2>1. CASE End(t)
    BY <1>11, <1>13, <2>1 DEF Follow
  <2>2. CASE Return(t, flight[t]) /\ UNCHANGED <<reason, flight>>
    BY <1>13, <2>2, <1>a DEF Bounds, Follow, Return
  <2> QED
    BY <1>13, <2>1, <2>2 DEF Follow
<1>14. ASSUME NEW t \in Threads, Rejected(t) PROVE Bounds'
  <2>1. CASE End(t)
    BY <1>11, <1>14, <2>1 DEF Rejected
  <2>2. CASE UNCHANGED <<flight, got>>
    BY <1>14, <2>2, <1>a DEF Bounds, Rejected
  <2> QED
    BY <1>14, <2>1, <2>2 DEF Rejected
<1>15. ASSUME Revoke PROVE Bounds'
  BY <1>15, <1>a DEF Bounds, Revoke, Types
<1>16. ASSUME Expire \/ Finished \/ UNCHANGED vars PROVE Bounds'
  BY <1>16, <1>a DEF Bounds, Expire, Finished, vars
<1> QED
  BY <1>1, <1>2, <1>3, <1>4, <1>5, <1>6, <1>7, <1>8, <1>9, <1>10, <1>12, <1>13,
     <1>14, <1>15, <1>16 DEF Next, Step

\* No variable of the cache, of a thread or of the world refers to a flight
\* that was not started.
THEOREM TypeCorrect == Spec => []TypeOK
<1>1. Init => IInv /\ Bounds
  BY IInvInit, BoundsInit
<1>2. IInv /\ Bounds /\ [Next]_vars => (IInv /\ Bounds)'
  BY IInvStep, BoundsStep
<1>3. IInv /\ Bounds => TypeOK
  <2> SUFFICES ASSUME IInv, Bounds PROVE TypeOK
    OBVIOUS
  <2>1. /\ Types /\ FlightsExist /\ StoredInOrder /\ GotIsStored
        /\ Len(futures) \in Nat /\ token \in Int
    BY DEF IInv, Types
  <2>2. flight \in [Threads -> 0..Len(futures)]
    BY <2>1 DEF Bounds, Types
  <2>3. got \in [Threads -> NoToken..Len(futures)]
    BY <2>1 DEF Bounds, Types, GotIsStored, StoredInOrder, NoToken
  <2> QED
    BY <2>1, <2>2, <2>3 DEF TypeOK, Types, Bounds, FlightsExist, StoredInOrder, Futures
<1> QED
  BY <1>1, <1>2, <1>3, PTL DEF Spec

\* One mint() runs at a time, and _inflight is its future, for any number of
\* threads sharing the source.
THEOREM OneMintAtATime == Spec => []SingleFlight
<1>1. IInv => SingleFlight
  BY DEF IInv
<1> QED
  BY Inductive, <1>1, PTL

\* No follower waits on a future that nobody will complete.
THEOREM FollowersHaveLeader == Spec => []NoOrphanFuture
<1>1. IInv => NoOrphanFuture
  <2> SUFFICES ASSUME IInv, NEW f \in DOMAIN futures, futures[f] = "pending"
               PROVE  inflight = f /\ \E t \in Threads : Leads(t) /\ flight[t] = f
    BY DEF NoOrphanFuture
  <2>1. f \in 1..Len(futures)
    BY DEF IInv, Types
  <2>2. PICK t \in Threads : pc[t] \in Uncompleted /\ flight[t] = f
    BY <2>1 DEF IInv, PendingIsLed
  <2>3. Leads(t)
    BY <2>2 DEF Leads, Uncompleted, LeaderSteps
  <2> QED
    BY <2>2, <2>3 DEF IInv, SingleFlight
<1> QED
  BY Inductive, <1>1, PTL

\* A thread that was handed a token finds it, or a newer one, in the cache.
THEOREM GotTokensAreStored == Spec => []GotIsStored
<1>1. IInv => GotIsStored
  BY DEF IInv
<1> QED
  BY Inductive, <1>1, PTL

\* No thread, however long it was preempted, overwrites a newer token.
THEOREM TokensOnlyGetNewer == Spec => TokenOnlyNewer
<1>1. IInv /\ [Next]_vars => [token' >= token]_vars
  BY IInvStep
<1> QED
  BY Inductive, <1>1, PTL DEF Spec, TokenOnlyNewer
=============================================================================

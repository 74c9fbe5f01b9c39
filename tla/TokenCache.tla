---------------------------- MODULE TokenCache -----------------------------
(***************************************************************************)
(* The token source of a synchronous client (oauth.py, _SyncTokenCache)    *)
(* and the requests that use it (client.py, _request_with_retry), called   *)
(* from several threads.  One action per step a thread can be preempted    *)
(* at: the unlocked look at the cache, the block under the lock, the call  *)
(* of mint(), the store, the completion of the future, the clearing of     *)
(* _inflight under the lock.                                               *)
(*                                                                         *)
(* A call of mint() is a flight; flights are numbered, and so is the token *)
(* a flight brings: token f is that of flight f, token 0 the one the cache *)
(* may have been built with.  Time and the server are seen through what    *)
(* the client can tell: whether _is_expiring finds the cached token        *)
(* expiring, and which tokens the server answers with 401; tokens stop     *)
(* being valid in the order they were issued.                              *)
(***************************************************************************)
EXTENDS Integers, Sequences, FiniteSets

CONSTANTS
    Threads,      \* the threads that share the token source
    MaxRequests,  \* bound on the number of requests made with the source
    NoThread      \* not a thread: the lock is free

ASSUME TokenCacheAssumption ==
    /\ NoThread \notin Threads
    /\ MaxRequests \in Nat

NoToken == -1
NoFlight == 0

VARIABLES
    token,     \* _token
    inflight,  \* _inflight: the flight whose future it is, or NoFlight
    futures,   \* the future of each flight
    lock,      \* who holds _lock
    pc,        \* where each thread stands
    reason,    \* the reason of each thread's present call of the source
    flight,    \* the flight each thread leads or follows
    got,       \* the token each thread got for its present request
    expiring,  \* _is_expiring finds the cached token expiring
    floor,     \* the server takes the tokens from this one on
    requests   \* how many requests have been made

cache == <<token, expiring, inflight, futures, lock>>
thread == <<pc, reason, flight, got>>
world == <<floor, requests>>
vars == <<cache, thread, world>>

LeaderSteps == {"mint", "store", "resolve", "clear", "fail", "clearfailed"}
LockedSteps == {"recheck", "join", "claim"}
Steps == {"idle", "look", "enter", "wait", "send"} \cup LeaderSteps \cup LockedSteps

\* No variable refers to a flight that has not been started.
TypeOK ==
    /\ token \in NoToken..Len(futures)
    /\ inflight \in 0..Len(futures)
    /\ futures \in Seq({"pending", "minted", "failed"})
    /\ lock \in Threads \cup {NoThread}
    /\ pc \in [Threads -> Steps]
    /\ reason \in [Threads -> {"initial", "unauthorized"}]
    /\ flight \in [Threads -> 0..Len(futures)]
    /\ got \in [Threads -> NoToken..Len(futures)]
    /\ expiring \in BOOLEAN
    /\ floor \in 0..Len(futures) + 1
    /\ requests \in 0..MaxRequests

Init ==
    /\ token \in {NoToken, 0}
    /\ inflight = NoFlight
    /\ futures = <<>>
    /\ lock = NoThread
    /\ pc = [t \in Threads |-> "idle"]
    /\ reason = [t \in Threads |-> "initial"]
    /\ flight = [t \in Threads |-> NoFlight]
    /\ got = [t \in Threads |-> NoToken]
    /\ expiring = FALSE
    /\ floor = 0
    /\ requests = 0

Goto(t, step) == pc' = [pc EXCEPT ![t] = step]

\* The request is over, however it went: the thread's locals are gone.
End(t) ==
    /\ Goto(t, "idle")
    /\ reason' = [reason EXCEPT ![t] = "initial"]
    /\ flight' = [flight EXCEPT ![t] = NoFlight]
    /\ got' = [got EXCEPT ![t] = NoToken]

-----------------------------------------------------------------------------
(* The world outside the client.                                           *)

Expire ==
    /\ token # NoToken /\ ~expiring
    /\ expiring' = TRUE
    /\ UNCHANGED <<token, inflight, futures, lock, thread, world>>

\* Token `floor` is no longer taken (external).
Revoke ==
    /\ floor \in {0} \cup {f \in DOMAIN futures : futures[f] # "pending"}
    /\ floor' = floor + 1
    /\ UNCHANGED <<cache, thread, requests>>

-----------------------------------------------------------------------------
(* source(reason).                                                         *)

\* _request: the first call of the source for a request.
Request(t) ==
    /\ pc[t] = "idle"
    /\ requests < MaxRequests
    /\ requests' = requests + 1
    /\ Goto(t, "look")
    /\ UNCHANGED <<cache, reason, flight, got, floor>>

Usable == token # NoToken /\ ~expiring

\* source returns a token to _auth_headers, which sends the request.
Return(t, tok) ==
    /\ got' = [got EXCEPT ![t] = tok]
    /\ Goto(t, "send")

\* The first `if`, without the lock.
Look(t) ==
    /\ pc[t] = "look"
    /\ IF reason[t] # "unauthorized" /\ Usable
       THEN Return(t, token)
       ELSE Goto(t, "enter") /\ UNCHANGED got
    /\ UNCHANGED <<cache, reason, flight, world>>

NeverLocked == TRUE
LockFree == lock = NoThread

Enter(t) ==
    /\ pc[t] = "enter"
    /\ LockFree
    /\ lock' = t
    /\ Goto(t, "recheck")
    /\ UNCHANGED <<token, expiring, inflight, futures, reason, flight, got, world>>

\* The same `if` again, under the lock.
Recheck(t) ==
    /\ pc[t] = "recheck"
    /\ IF reason[t] # "unauthorized" /\ Usable
       THEN Return(t, token) /\ lock' = NoThread
       ELSE Goto(t, "join") /\ UNCHANGED <<lock, got>>
    /\ UNCHANGED <<token, expiring, inflight, futures, reason, flight, world>>

LeadAnyway == TRUE
CanLead == inflight = NoFlight

\* Follow the flight under way, or go on to lead a new one.
Join(t) ==
    /\ pc[t] = "join"
    /\ \/ /\ ~CanLead
          /\ flight' = [flight EXCEPT ![t] = inflight]
          /\ lock' = NoThread
          /\ Goto(t, "wait")
       \/ /\ CanLead
          /\ Goto(t, "claim")
          /\ UNCHANGED <<flight, lock>>
    /\ UNCHANGED <<token, expiring, inflight, futures, reason, got, world>>

ClaimNumberedEarly(t) ==
    /\ pc[t] = "claim"
    /\ futures' = Append(futures, "pending")
    /\ inflight' = Len(futures') + 1
    /\ flight' = [flight EXCEPT ![t] = inflight']
    /\ lock' = NoThread
    /\ Goto(t, "mint")
    /\ UNCHANGED <<token, expiring, reason, got, world>>

\* Still under the lock: the new future is published in _inflight.
Claim(t) ==
    /\ pc[t] = "claim"
    /\ futures' = Append(futures, "pending")
    /\ inflight' = Len(futures')
    /\ flight' = [flight EXCEPT ![t] = inflight']
    /\ lock' = NoThread
    /\ Goto(t, "mint")
    /\ UNCHANGED <<token, expiring, reason, got, world>>

\* mint() returns (external).
Minted(t) ==
    /\ pc[t] = "mint"
    /\ Goto(t, "store")
    /\ UNCHANGED <<cache, reason, flight, got, world>>

\* mint() raises.
MintRaised(t) ==
    /\ pc[t] = "mint"
    /\ Goto(t, "fail")
    /\ UNCHANGED <<cache, reason, flight, got, world>>

StoreNothing(t) ==
    /\ pc[t] = "store"
    /\ Goto(t, "resolve")
    /\ UNCHANGED <<cache, reason, flight, got, world>>

Store(t) ==
    /\ pc[t] = "store"
    /\ token' = flight[t]
    /\ expiring' = FALSE
    /\ Goto(t, "resolve")
    /\ UNCHANGED <<inflight, futures, lock, reason, flight, got, world>>

\* set_result, set_exception.
NeverComplete(t, how) == UNCHANGED futures
Complete(t, how) == futures' = [futures EXCEPT ![flight[t]] = how]

Resolve(t) ==
    /\ pc[t] = "resolve"
    /\ Complete(t, "minted")
    /\ Goto(t, "clear")
    /\ UNCHANGED <<token, expiring, inflight, lock, reason, flight, got, world>>

\* `with self._lock: self._inflight = None`, and the leader returns its token.
Clear(t) ==
    /\ pc[t] = "clear"
    /\ LockFree
    /\ inflight' = NoFlight
    /\ Return(t, flight[t])
    /\ UNCHANGED <<token, expiring, futures, lock, reason, flight, world>>

Fail(t) ==
    /\ pc[t] = "fail"
    /\ Complete(t, "failed")
    /\ Goto(t, "clearfailed")
    /\ UNCHANGED <<token, expiring, inflight, lock, reason, flight, got, world>>

\* The same after an exception, which the leader raises again.
ClearFailed(t) ==
    /\ pc[t] = "clearfailed"
    /\ LockFree
    /\ inflight' = NoFlight
    /\ End(t)
    /\ UNCHANGED <<token, expiring, futures, lock, world>>

\* A follower's future.result() returns or raises.
Follow(t) ==
    /\ pc[t] = "wait"
    /\ \/ /\ futures[flight[t]] = "minted"
          /\ Return(t, flight[t])
          /\ UNCHANGED <<reason, flight>>
       \/ /\ futures[flight[t]] = "failed"
          /\ End(t)
    /\ UNCHANGED <<cache, world>>

-----------------------------------------------------------------------------
(* _request_with_retry: the answer to the request sent with got[t].        *)

\* Any answer but a 401, or a network error: the request is over.
Answered(t) ==
    /\ pc[t] = "send"
    /\ End(t)
    /\ UNCHANGED <<cache, world>>

MayRetry(t) == reason[t] = "initial"

\* A 401 is retried exactly once, with reason "unauthorized".
Rejected(t) ==
    /\ pc[t] = "send"
    /\ got[t] < floor
    /\ \/ /\ MayRetry(t)
          /\ reason' = [reason EXCEPT ![t] = "unauthorized"]
          /\ Goto(t, "look")
          /\ UNCHANGED <<flight, got>>
       \/ ~MayRetry(t) /\ End(t)
    /\ UNCHANGED <<cache, world>>

Step(t) ==
    \/ Look(t) \/ Enter(t) \/ Recheck(t) \/ Join(t) \/ Claim(t)
    \/ Minted(t) \/ MintRaised(t) \/ Store(t) \/ Resolve(t) \/ Clear(t)
    \/ Fail(t) \/ ClearFailed(t) \/ Follow(t)
    \/ Answered(t) \/ Rejected(t)

\* All the requests have been made.
Finished ==
    /\ requests = MaxRequests /\ \A t \in Threads : pc[t] = "idle"
    /\ UNCHANGED vars

Next ==
    \/ \E t \in Threads : Request(t) \/ Step(t)
    \/ Expire \/ Revoke
    \/ Finished

Spec == Init /\ [][Next]_vars

\* Every thread that is not waiting for another one runs; mint() and the
\* server answer.  A lock that is free again and again is got in the end.
FairSpec ==
    /\ Spec
    /\ \A t \in Threads : SF_vars(Enter(t)) /\ SF_vars(Clear(t))
                          /\ SF_vars(ClearFailed(t)) /\ WF_vars(Step(t))

-----------------------------------------------------------------------------
(* Properties.                                                             *)

Leads(t) == pc[t] \in LeaderSteps

\* "so only one mint() runs at a time": one thread at most is between the
\* creation of a future and the clearing of _inflight, and _inflight is its own.
SingleFlight ==
    /\ \A t, u \in Threads : Leads(t) /\ Leads(u) => t = u
    /\ \A t \in Threads : Leads(t) => inflight = flight[t]

\* A future nobody has completed yet is the one _inflight points to, and its
\* leader is still there to complete it: no follower waits for nothing.
NoOrphanFuture ==
    \A f \in DOMAIN futures : futures[f] = "pending" =>
        inflight = f /\ \E t \in Threads : Leads(t) /\ flight[t] = f

\* The cache never goes back to an older token.
TokenOnlyNewer == [][token' >= token]_vars

\* No thread is handed a token of a flight that has not been stored: once a
\* caller has a token, the cache has that token or a newer one.
GotIsStored == \A t \in Threads : got[t] <= token

\* Every request comes to an end.
CallsReturn == \A t \in Threads : pc[t] # "idle" ~> pc[t] = "idle"
=============================================================================

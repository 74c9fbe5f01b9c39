--------------------------- MODULE AsyncTokenCache -------------------------
(***************************************************************************)
(* The token source of an asynchronous client (oauth.py,                   *)
(* _AsyncTokenCache) and the requests that use it (async_client.py,        *)
(* _request_with_retry), called from the tasks of one event loop.  A task  *)
(* runs undisturbed from one `await` to the next, so an action is such a   *)
(* stretch.  A task may be cancelled while it waits (asyncio.timeout,      *)
(* gather, a web framework dropping a request): asyncio then cancels the   *)
(* future the task is waiting on, which _inflight shares between tasks.    *)
(*                                                                         *)
(* Flights, tokens, `expiring` and `floor` are as in TokenCache.           *)
(***************************************************************************)
EXTENDS Integers, Sequences, FiniteSets

CONSTANTS
    Tasks,        \* the tasks that share the token source
    MaxRequests,  \* bound on the number of requests made with the source
    MaxCancels    \* bound on the number of tasks cancelled

ASSUME AsyncTokenCacheAssumption ==
    /\ MaxRequests \in Nat
    /\ MaxCancels \in Nat

NoToken == -1
NoFlight == 0
MaxFlights == 2 * MaxRequests   \* each call of the source flies once at most
Tokens == 0..MaxFlights

VARIABLES
    token,      \* _token
    expiring,   \* _is_expiring finds the cached token expiring
    inflight,   \* _inflight: the flight whose future it is, or NoFlight
    futures,    \* the future of each flight
    pc,         \* where each task stands
    reason,     \* the reason of each task's present call of the source
    flight,     \* the flight each task leads or follows
    got,        \* the token each task got for its present request
    end,        \* how each task's last request ended
    cancelled,  \* the tasks that have been cancelled in their present request
    floor,      \* the server takes the tokens from this one on
    requests,   \* how many requests have been made
    cancels     \* how many times a task has been cancelled

cache == <<token, expiring, inflight, futures>>
task == <<pc, reason, flight, got, end>>
world == <<cancelled, floor, requests, cancels>>
vars == <<cache, task, world>>

TypeOK ==
    /\ token \in Tokens \cup {NoToken}
    /\ expiring \in BOOLEAN
    /\ inflight \in 0..MaxFlights
    /\ futures \in Seq({"pending", "minted", "failed", "cancelled"})
    /\ Len(futures) <= MaxFlights
    /\ pc \in [Tasks -> {"idle", "call", "mint", "wait", "send"}]
    /\ reason \in [Tasks -> {"initial", "unauthorized"}]
    /\ flight \in [Tasks -> 0..MaxFlights]
    /\ got \in [Tasks -> Tokens \cup {NoToken}]
    /\ end \in [Tasks -> {"none", "answered", "failed", "cancelled", "invalid"}]
    /\ cancelled \subseteq Tasks
    /\ floor \in 0..MaxFlights + 1
    /\ requests \in 0..MaxRequests
    /\ cancels \in 0..MaxCancels

Init ==
    /\ token \in {NoToken, 0}
    /\ expiring = FALSE
    /\ inflight = NoFlight
    /\ futures = <<>>
    /\ pc = [t \in Tasks |-> "idle"]
    /\ reason = [t \in Tasks |-> "initial"]
    /\ flight = [t \in Tasks |-> NoFlight]
    /\ got = [t \in Tasks |-> NoToken]
    /\ end = [t \in Tasks |-> "none"]
    /\ cancelled = {}
    /\ floor = 0
    /\ requests = 0
    /\ cancels = 0

Goto(t, step) == pc' = [pc EXCEPT ![t] = step]

\* The request is over, and how: the task's locals are gone.
End(t, how) ==
    /\ Goto(t, "idle")
    /\ reason' = [reason EXCEPT ![t] = "initial"]
    /\ flight' = [flight EXCEPT ![t] = NoFlight]
    /\ got' = [got EXCEPT ![t] = NoToken]
    /\ end' = [end EXCEPT ![t] = how]

-----------------------------------------------------------------------------
(* The world outside the client.                                           *)

Expire ==
    /\ token # NoToken /\ ~expiring
    /\ expiring' = TRUE
    /\ UNCHANGED <<token, inflight, futures, task, world>>

\* Token `floor` is no longer taken (external).
Revoke ==
    /\ floor \in {0} \cup {f \in DOMAIN futures : futures[f] # "pending"}
    /\ floor' = floor + 1
    /\ UNCHANGED <<cache, task, cancelled, requests, cancels>>

-----------------------------------------------------------------------------
(* source(reason).                                                         *)

Request(t) ==
    /\ pc[t] = "idle"
    /\ requests < MaxRequests
    /\ requests' = requests + 1
    /\ cancelled' = cancelled \ {t}
    /\ end' = [end EXCEPT ![t] = "none"]
    /\ Goto(t, "call")
    /\ UNCHANGED <<cache, reason, flight, got, floor, cancels>>

Usable == token # NoToken /\ ~expiring
UseCachedAlways(t) == Usable
UseCached(t) == reason[t] # "unauthorized" /\ Usable

\* source returns a token to _auth_headers, which sends the request.
Return(t, tok) ==
    /\ got' = [got EXCEPT ![t] = tok]
    /\ Goto(t, "send")

LeadAnyway == TRUE
CanLead == inflight = NoFlight

\* From the call to its first await: the cached token, the flight under way,
\* or a flight of its own.
Call(t) ==
    /\ pc[t] = "call"
    /\ \/ /\ UseCached(t)
          /\ Return(t, token)
          /\ UNCHANGED <<inflight, futures, flight>>
       \/ /\ ~UseCached(t)
          /\ UNCHANGED got
          /\ \/ /\ ~CanLead
                /\ flight' = [flight EXCEPT ![t] = inflight]
                /\ Goto(t, "wait")
                /\ UNCHANGED <<inflight, futures>>
             \/ /\ CanLead
                /\ futures' = Append(futures, "pending")
                /\ inflight' = Len(futures')
                /\ flight' = [flight EXCEPT ![t] = inflight']
                /\ Goto(t, "mint")
    /\ UNCHANGED <<token, expiring, reason, end, world>>

\* set_result or set_exception on the leader's future: InvalidStateError when
\* the future is done already, which leaves _inflight as it is.
Pending(f) == futures[f] = "pending"
NeverComplete(t, how) == inflight' = NoFlight /\ UNCHANGED futures
Complete(t, how) ==
    IF Pending(flight[t])
    THEN /\ futures' = [futures EXCEPT ![flight[t]] = how]
         /\ inflight' = NoFlight
    ELSE UNCHANGED <<futures, inflight>>

\* The leader's mint() returns.
Minted(t) ==
    /\ pc[t] = "mint"
    /\ token' = flight[t]
    /\ expiring' = FALSE
    /\ Complete(t, "minted")
    /\ \/ /\ Pending(flight[t])
          /\ Return(t, flight[t])
          /\ UNCHANGED <<reason, flight, end>>
       \/ ~Pending(flight[t]) /\ End(t, "invalid")
    /\ UNCHANGED world

\* The leader's mint() raises; or the leader is cancelled in it, which the
\* `except BaseException` passes on to the followers.
MintRaised(t) ==
    /\ pc[t] = "mint"
    /\ t \notin cancelled
    /\ Complete(t, "failed")
    /\ End(t, IF Pending(flight[t]) THEN "failed" ELSE "invalid")
    /\ UNCHANGED <<token, expiring, world>>

CancelLeader(t) ==
    /\ pc[t] = "mint"
    /\ cancels < MaxCancels
    /\ cancels' = cancels + 1
    /\ cancelled' = cancelled \cup {t}
    /\ Complete(t, "cancelled")
    /\ End(t, IF Pending(flight[t]) THEN "cancelled" ELSE "invalid")
    /\ UNCHANGED <<token, expiring, floor, requests>>

\* A follower is cancelled: Task.cancel() cancels the future it waits on.
CancelFollower(t) ==
    /\ pc[t] = "wait"
    /\ Pending(flight[t])
    /\ cancels < MaxCancels
    /\ cancels' = cancels + 1
    /\ cancelled' = cancelled \cup {t}
    /\ futures' = [futures EXCEPT ![flight[t]] = "cancelled"]
    /\ UNCHANGED <<token, expiring, inflight, task, floor, requests>>

\* A follower's `await self._inflight` returns or raises.
Follow(t) ==
    /\ pc[t] = "wait"
    /\ \/ /\ futures[flight[t]] = "minted"
          /\ Return(t, flight[t])
          /\ UNCHANGED <<reason, flight, end>>
       \/ /\ futures[flight[t]] \in {"failed", "cancelled"}
          /\ End(t, futures[flight[t]])
    /\ UNCHANGED <<cache, world>>

-----------------------------------------------------------------------------
(* _request_with_retry: the answer to the request sent with got[t].        *)

\* Any answer but a 401, or a network error: the request is over.
Answered(t) ==
    /\ pc[t] = "send"
    /\ End(t, "answered")
    /\ UNCHANGED <<cache, world>>

MayRetry(t) == reason[t] = "initial"

\* A 401 is retried exactly once, with reason "unauthorized".
Rejected(t) ==
    /\ pc[t] = "send"
    /\ got[t] < floor
    /\ \/ /\ MayRetry(t)
          /\ reason' = [reason EXCEPT ![t] = "unauthorized"]
          /\ Goto(t, "call")
          /\ UNCHANGED <<flight, got, end>>
       \/ ~MayRetry(t) /\ End(t, "answered")
    /\ UNCHANGED <<cache, world>>

Step(t) ==
    \/ Call(t) \/ Minted(t) \/ MintRaised(t) \/ Follow(t)
    \/ Answered(t) \/ Rejected(t)

\* All the requests have been made.
Finished ==
    /\ requests = MaxRequests /\ \A t \in Tasks : pc[t] = "idle"
    /\ UNCHANGED vars

Next ==
    \/ \E t \in Tasks : Request(t) \/ Step(t) \/ CancelLeader(t) \/ CancelFollower(t)
    \/ Expire \/ Revoke
    \/ Finished

Spec == Init /\ [][Next]_vars

\* The event loop runs every task that is ready; mint() and the server answer.
FairSpec == Spec /\ \A t \in Tasks : WF_vars(Step(t))

-----------------------------------------------------------------------------
(* Properties.                                                             *)

\* "concurrent coroutines coalesce onto one mint": one task at most awaits
\* mint(), and _inflight is its future, cancelled tasks or not.
SingleFlight ==
    /\ \A t, u \in Tasks : pc[t] = "mint" /\ pc[u] = "mint" => t = u
    /\ \A t \in Tasks : pc[t] = "mint" => inflight = flight[t]

\* A retry after a 401 never sends the token that was rejected: in the event
\* loop, the cache is never seen between the store and the clearing of _inflight.
RetryUsesNewToken ==
    [][\A t \in Tasks :
         (pc[t] # "send" /\ pc'[t] = "send" /\ reason'[t] = "unauthorized")
            => got'[t] # got[t]]_vars

\* Every request comes to an end, cancelled tasks or not.
CallsReturn == \A t \in Tasks : pc[t] # "idle" ~> pc[t] = "idle"

\* "refreshes access tokens proactively (and on `401`) so HTTP requests
\* transparently survive token expiry" (README.md): _inflight is left only
\* while its leader is minting; after that the next caller mints again.
RefreshStaysPossible ==
    inflight # NoFlight => \E t \in Tasks : pc[t] = "mint" /\ flight[t] = inflight
=============================================================================

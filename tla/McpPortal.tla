----------------------------- MODULE McpPortal ------------------------------
(***************************************************************************)
(* A client whose calls use local MCP references: the calls of McpRefs     *)
(* with what the client itself adds to them.  A MantyxClient drives the    *)
(* transports from its threads through an anyio portal, an event loop in a *)
(* thread of its own, which _SyncMcpPortal (_local_resolver.py) starts on  *)
(* first use, without a lock, and close() stops.  Both clients close the   *)
(* HTTP client they made.                                                  *)
(***************************************************************************)
EXTENDS McpRefs

CONSTANTS
    MaxPortals,  \* bound on the number of portals made
    MaxCloses    \* bound on the number of times the client is closed

ASSUME McpPortalAssumption == MaxPortals \in Nat /\ MaxCloses \in Nat

VARIABLES
    http,     \* the client's httpx client: "own", "given" by the caller, "closed"
    portal,   \* _SyncMcpPortal._portal
    stack,    \* _SyncMcpPortal._stack: the context manager of a portal
    portals,  \* the state of every portal made
    step,     \* where each thread stands in _ensure_started or close()
    via,      \* the portal each thread has in hand there
    home,     \* the portal each transport lives on, or None in an asyncio task
    placed,   \* the portal of each user's tools/call
    closes,   \* how often the client has been closed
    raced     \* history: a portal was started, or the client closed, while
              \* another thread was starting one

loop == <<portal, stack, portals, closes, raced>>
thread == <<step, via>>
pvars == <<http, loop, thread, home, placed>>
allVars == <<vars, pvars>>

PortalNumbers == 0..MaxPortals
StartSteps == {"create", "enter", "entering"}

PortalTypeOK ==
    /\ TypeOK
    /\ http \in {"own", "given", "closed"}
    /\ portal \in PortalNumbers /\ stack \in PortalNumbers
    /\ portals \in Seq({"created", "starting", "running", "stopping", "stopped"})
    /\ Len(portals) <= MaxPortals
    /\ step \in [Users -> {"none", "return", "closing"} \cup StartSteps]
    /\ via \in [Users -> PortalNumbers]
    /\ home \in Seq(PortalNumbers) /\ Len(home) = Len(transports)
    /\ placed \in [Users -> PortalNumbers]
    /\ closes \in 0..MaxCloses
    /\ raced \in BOOLEAN

PortalInit ==
    /\ Init
    /\ http \in {"own", "given"}
    /\ portal = None /\ stack = None
    /\ portals = <<>>
    /\ step = [u \in Users |-> "none"]
    /\ via = [u \in Users |-> None]
    /\ home = <<>>
    /\ placed = [u \in Users |-> None]
    /\ closes = 0
    /\ raced = FALSE

Advance(u, s) == step' = [step EXCEPT ![u] = s]
Become(p, s) == portals' = [portals EXCEPT ![p] = s]
Runs(p) == p # None /\ portals[p] = "running"
Free(u) == step[u] = "none"

\* A call of the library raises out of portal.resolve, before any `try`.
Raises(u) ==
    /\ Over(u, "left")
    /\ UNCHANGED <<refs, closing, rest>>

-----------------------------------------------------------------------------
(* _SyncMcpPortal._ensure_started, every read and store of an attribute a  *)
(* step of its own.                                                        *)

Look(u) ==
    /\ client = "threads"
    /\ pc[u] = "resolve" /\ Free(u) /\ todo[u] # <<>>
    /\ NeedsOpening(Head(todo[u]))
    /\ Advance(u, IF portal # None THEN "return" ELSE "create")
    /\ raced' = (raced \/ (portal = None /\ \E v \in Users \ {u} : step[v] \in StartSteps))
    /\ UNCHANGED <<vars, http, portal, stack, portals, closes, via, home, placed>>

Create(u) ==
    /\ step[u] = "create"
    /\ Len(portals) < MaxPortals
    /\ portals' = Append(portals, "created")
    /\ stack' = Len(portals')
    /\ Advance(u, "enter")
    /\ UNCHANGED <<vars, http, portal, closes, raced, via, home, placed>>

\* `self._stack.__enter__()`: a context manager is entered once, and `_stack`
\* may be another thread's by now, or None.
Enter(u) ==
    /\ step[u] = "enter"
    /\ IF stack # None /\ portals[stack] = "created"
       THEN /\ Become(stack, "starting")
            /\ via' = [via EXCEPT ![u] = stack]
            /\ Advance(u, "entering")
            /\ UNCHANGED vars
       ELSE /\ Raises(u)
            /\ Advance(u, "none")
            /\ UNCHANGED <<portals, via>>
    /\ UNCHANGED <<http, portal, stack, closes, raced, home, placed>>

Started(u) ==
    /\ step[u] = "entering"
    /\ Become(via[u], "running")
    /\ portal' = via[u]
    /\ Advance(u, "return")
    /\ via' = [via EXCEPT ![u] = None]
    /\ UNCHANGED <<vars, http, stack, closes, raced, home, placed>>

\* The import or the start of the thread fails; `_stack` keeps what it has.
StartFails(u) ==
    /\ step[u] \in {"create", "entering"}
    /\ portals' = [p \in DOMAIN portals |->
          IF step[u] = "entering" /\ p = via[u] THEN "stopped" ELSE portals[p]]
    /\ Raises(u)
    /\ Advance(u, "none")
    /\ via' = [via EXCEPT ![u] = None]
    /\ UNCHANGED <<http, portal, stack, closes, raced, home, placed>>

\* `return self._portal`, which another thread may have set to None, and the
\* portal.call in resolve().
CallOnPortal(u) ==
    /\ step[u] = "return"
    /\ IF Runs(portal)
       THEN Open(u) /\ via' = [via EXCEPT ![u] = portal]
       ELSE Raises(u) /\ UNCHANGED via
    /\ Advance(u, "none")
    /\ UNCHANGED <<http, loop, home, placed>>

-----------------------------------------------------------------------------
(* The transports of McpRefs, where they live.                             *)

OpenInTask(u) ==
    /\ client = "tasks"
    /\ Open(u)
    /\ UNCHANGED pvars

OpeningEnds(u) ==
    /\ Opened(u) \/ OpenFailed(u)
    /\ home' = IF Len(transports') > Len(transports) THEN Append(home, via[u]) ELSE home
    /\ via' = [via EXCEPT ![u] = None]
    /\ UNCHANGED <<http, loop, step, placed>>

\* The portal is the one `resolve` had when it opened the transport.
CurrentPortal(n) == portal
CallPortal(n) == home[n]

\* On a portal that is not running portal.call raises: the call is answered
\* with an error.
DispatchOn(u) ==
    /\ Free(u)
    /\ Dispatch(u)
    /\ client = "threads" => Runs(CallPortal(tool'[u]))
    /\ placed' = [placed EXCEPT ![u] = CallPortal(tool'[u])]
    /\ UNCHANGED <<http, loop, thread, home>>

AnsweredOn(u) ==
    /\ Answered(u)
    /\ placed' = [placed EXCEPT ![u] = None]
    /\ UNCHANGED <<http, loop, thread, home>>

\* _close_sync swallows what portal.call raises.
CloseOn(u) ==
    /\ pc[u] = "close" /\ todo[u] # <<>>
    /\ LET n == resolved[Head(todo[u])]
       IN IF n # None /\ client = "threads" /\ ~Runs(home[n])
          THEN /\ Detach(Head(todo[u]))
               /\ todo' = [todo EXCEPT ![u] = Tail(@)]
               /\ UNCHANGED <<transports, pc, call, closing, ended, rest>>
          ELSE CloseNext(u)
    /\ UNCHANGED pvars

ClosingEnds(u) == (Closed(u) \/ CloseInterrupted(u)) /\ UNCHANGED pvars

-----------------------------------------------------------------------------
(* MantyxClient.close and AsyncMantyxClient.aclose.                        *)

KeepPortal == UNCHANGED portal
ForgetPortal == portal' = None

\* _SyncMcpPortal.close, by a thread that is in no call, or between the
\* turns, or the events of a turn, of its session.  The context manager is
\* left as it is: one that was not entered is disposed of, one that is being
\* entered raises, which is swallowed.
CloseClient(u) ==
    /\ Free(u) /\ pc[u] \in {"idle", "ready", "streaming"}
    /\ closes < MaxCloses
    /\ closes' = closes + 1
    /\ http' = IF http = "own" THEN "closed" ELSE http
    /\ IF stack = None
       THEN UNCHANGED <<portal, stack, portals, raced, thread>>
       ELSE /\ stack' = None
            /\ ForgetPortal
            /\ raced' = (raced \/ portals[stack] = "starting")
            /\ CASE portals[stack] = "running" ->
                      /\ Become(stack, "stopping")
                      /\ via' = [via EXCEPT ![u] = stack]
                      /\ Advance(u, "closing")
                 [] portals[stack] = "created" ->
                      Become(stack, "stopped") /\ UNCHANGED thread
                 [] OTHER -> UNCHANGED <<portals, thread>>
    /\ UNCHANGED <<vars, home, placed>>

\* What a portal waits for before it stops: every coroutine it was given.
Busy(p) ==
    \E u \in Users :
       \/ pc[u] = "opening" /\ via[u] = p
       \/ placed[u] = p
       \/ closing[u] # None /\ home[closing[u]] = p

\* Its event loop ends, and with it the transports that live on it.
ClientClosed(u) ==
    /\ step[u] = "closing"
    /\ ~Busy(via[u])
    /\ Become(via[u], "stopped")
    /\ transports' = [n \in DOMAIN transports |->
          IF home[n] = via[u] THEN [transports[n] EXCEPT !.state = "closed"] ELSE transports[n]]
    /\ Advance(u, "none")
    /\ via' = [via EXCEPT ![u] = None]
    /\ UNCHANGED <<resolved, user, rest, http, portal, stack, closes, raced, home, placed>>

-----------------------------------------------------------------------------
PortalNext ==
    \E u \in Users :
       \/ Free(u) /\ Calling(u) /\ UNCHANGED pvars
       \/ Free(u) /\ http # "closed" /\ Requesting(u) /\ UNCHANGED pvars
       \/ Look(u) \/ Create(u) \/ Enter(u) \/ Started(u)
       \/ StartFails(u) \/ CallOnPortal(u)
       \/ OpenInTask(u) \/ OpeningEnds(u)
       \/ DispatchOn(u) \/ AnsweredOn(u)
       \/ CloseOn(u) \/ ClosingEnds(u)
       \/ CloseClient(u) \/ ClientClosed(u)

PortalSpec == PortalInit /\ [][PortalNext]_allVars

-----------------------------------------------------------------------------
(* Properties.                                                             *)

LiveOf(r) == {n \in OpenOf(r) : client = "threads" => Runs(home[n])}

\* A run or a session has, from its first request to its end or to the
\* closing of the client, an open transport for every reference of its tools
\* list, whatever the calls made before it left attached to those references.
TransportsLastUntilClose == closes = 0 => UsersHaveTransports

\* A call that closes leaves none of its references attached and none of
\* their transports open, beside those a failed Initialize or a cancelled
\* task dropped and those of a portal that is about to stop.
ClosingIsThorough ==
    \A u \in Users : pc[u] = "idle" /\ ended[u] = "closed" =>
        \A r \in ToolSet(u) : resolved[r] = None /\ LiveOf(r) = {}

\* "Refs whose snapshot was already populated are left untouched (no double-
\* open)" (_local_resolver.py): a reference never has two open transports.
NoDoubleOpen == \A r \in Refs : Cardinality(LiveOf(r)) <= 1

\* "closed when the client is closed" (_SyncMcpPortal): a portal that runs is
\* the one close() would stop, if no two threads started one at once; and no
\* call is sent to a portal that is gone, whoever raced.
PortalIsOwned ==
    /\ portal # None => portals[portal] = "running"
    /\ ~raced => \A p \in DOMAIN portals : portals[p] = "running" => p = stack
=============================================================================

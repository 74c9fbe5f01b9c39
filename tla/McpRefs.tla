------------------------------ MODULE McpRefs -------------------------------
(***************************************************************************)
(* The life of the MCP transports behind define_local_mcp references       *)
(* (_local_resolver.py) under the calls of the client that use them        *)
(* (client.py, async_client.py).  A reference is an object of the caller's *)
(* program; each call resolves the ones in its tools list in place, and    *)
(* closes them in place when it is over.  Opening and closing a transport  *)
(* take a round trip (an `await`, or a call of the anyio portal), so other *)
(* threads or tasks run between the look at `_resolved` and the store.     *)
(*                                                                         *)
(* A user is a thread or task making one call after another with its own   *)
(* tools list.  The calls differ in what they close when they fail:        *)
(*   "run"      run_agent, and the async stream_agent                       *)
(*   "stream"   the synchronous stream_agent                               *)
(*   "session"  create_session, turns (send, stream), end                  *)
(*   "resumed"  resume_session, turns, end                                 *)
(*   "submit"   create_eval_run on its own                                 *)
(* What the synchronous client puts between a thread and its transports is *)
(* in McpPortal.                                                           *)
(***************************************************************************)
EXTENDS Integers, Sequences, FiniteSets

CONSTANTS
    Users,     \* the threads or tasks that call the client
    Refs,      \* the LocalMcpServer objects
    ToolsOf,   \* the tools list each user passes
    CallsOf,   \* the kinds of call each user makes
    MaxOpens   \* bound on the number of transports opened

Calls == {"run", "stream", "session", "resumed", "submit"}

ASSUME McpRefsAssumption ==
    /\ ToolsOf \in [Users -> Seq(Refs)]
    /\ CallsOf \in [Users -> SUBSET Calls]
    /\ MaxOpens \in Nat

None == 0

VARIABLES
    client,      \* whose users these are: "threads" of a MantyxClient, or
                 \* "tasks" of an AsyncMantyxClient
    resolved,    \* `_resolved` of each reference: its transport, or None
    transports,  \* every transport opened: its reference and its state
    pc,          \* where each user stands
    call,        \* the kind of call each user is making
    todo,        \* the references its resolve or close loop has yet to visit
    closing,     \* the transport its close loop is closing
    tool,        \* the transport of a tools/call in flight on its behalf
    ended,       \* history: how each user's last call went about closing
    outlived     \* history: whether the run or session of that tools/call
                 \* was given up by its own user

refs == <<resolved, transports>>
rest == <<client, tool, outlived>>
user == <<pc, call, todo, closing, ended>>
vars == <<refs, user, rest>>

ToolSet(u) == {ToolsOf[u][i] : i \in DOMAIN ToolsOf[u]}
Opens == 0..MaxOpens

TypeOK ==
    /\ client \in {"threads", "tasks"}
    /\ resolved \in [Refs -> Opens]
    /\ transports \in Seq([ref : Refs, state : {"open", "orphan", "closed"}])
    /\ Len(transports) <= MaxOpens
    /\ pc \in [Users -> {"idle", "resolve", "opening", "request", "use",
                          "ready", "streaming", "close", "closing"}]
    /\ call \in [Users -> Calls \cup {"none"}]
    /\ todo \in [Users -> Seq(Refs)]
    /\ closing \in [Users -> Opens]
    /\ tool \in [Users -> Opens]
    /\ ended \in [Users -> {"new", "closed", "left"}]
    /\ outlived \in [Users -> BOOLEAN]

Init ==
    /\ client \in {"threads", "tasks"}
    /\ resolved = [r \in Refs |-> None]
    /\ transports = <<>>
    /\ pc = [u \in Users |-> "idle"]
    /\ call = [u \in Users |-> "none"]
    /\ todo = [u \in Users |-> <<>>]
    /\ closing = [u \in Users |-> None]
    /\ tool = [u \in Users |-> None]
    /\ ended = [u \in Users |-> "new"]
    /\ outlived = [u \in Users |-> FALSE]

Goto(u, step) == pc' = [pc EXCEPT ![u] = step]
Sessions == {"session", "resumed"}

\* The call is over; `how` says whether it ran its close loop.
Over(u, how) ==
    /\ Goto(u, "idle")
    /\ call' = [call EXCEPT ![u] = "none"]
    /\ todo' = [todo EXCEPT ![u] = <<>>]
    /\ ended' = [ended EXCEPT ![u] = how]

\* Every reference of the tools list is closed, whoever opened it.
AllButFirst(u) == Tail(ToolsOf[u])
ToClose(u) == ToolsOf[u]

StartClosing(u) ==
    /\ Goto(u, "close")
    /\ todo' = [todo EXCEPT ![u] = ToClose(u)]
    /\ UNCHANGED <<call, ended>>

-----------------------------------------------------------------------------
(* *_resolve_local_refs.                                                   *)

Start(u, kind) ==
    /\ pc[u] = "idle"
    /\ kind = "stream" => client = "threads"
    /\ Goto(u, "resolve")
    /\ call' = [call EXCEPT ![u] = kind]
    /\ todo' = [todo EXCEPT ![u] = ToolsOf[u]]
    /\ UNCHANGED <<refs, closing, ended, rest>>

AlwaysOpens(r) == TRUE
NeedsOpening(r) == resolved[r] = None

Skip(u) ==
    /\ pc[u] = "resolve" /\ todo[u] # <<>>
    /\ ~NeedsOpening(Head(todo[u]))
    /\ todo' = [todo EXCEPT ![u] = Tail(@)]
    /\ UNCHANGED <<refs, pc, call, closing, ended, rest>>

Open(u) ==
    /\ pc[u] = "resolve" /\ todo[u] # <<>>
    /\ NeedsOpening(Head(todo[u]))
    /\ Goto(u, "opening")
    /\ UNCHANGED <<refs, call, todo, closing, ended, rest>>

Opened(u) ==
    /\ pc[u] = "opening"
    /\ Len(transports) < MaxOpens
    /\ transports' = Append(transports, [ref |-> Head(todo[u]), state |-> "open"])
    /\ resolved' = [resolved EXCEPT ![Head(todo[u])] = Len(transports')]
    /\ todo' = [todo EXCEPT ![u] = Tail(@)]
    /\ Goto(u, "resolve")
    /\ UNCHANGED <<call, closing, ended, rest>>

\* Initialize or tools/list raises, or the task is cancelled: the exit stack
\* is dropped, its transport with it; or the transport does not open at all.
\* Every caller resolves before its `try`, so what was opened before stays
\* attached.
OpenFailed(u) ==
    /\ pc[u] = "opening"
    /\ \/ /\ Len(transports) < MaxOpens
          /\ transports' = Append(transports, [ref |-> Head(todo[u]), state |-> "orphan"])
       \/ UNCHANGED transports
    /\ Over(u, "left")
    /\ UNCHANGED <<resolved, closing, rest>>

-----------------------------------------------------------------------------
(* The calls.                                                              *)

\* All resolved.  resume_session sends no body.
Submit(u) ==
    /\ pc[u] = "resolve" /\ todo[u] = <<>>
    /\ Goto(u, IF call[u] = "resumed" THEN "ready" ELSE "request")
    /\ UNCHANGED <<refs, call, todo, closing, ended, rest>>

\* serialize_tool_refs ships the catalog of each reference, and raises if
\* another call has detached it.
Serializable(u) == \A r \in ToolSet(u) : resolved[r] # None

Accepted(u) ==
    /\ pc[u] = "request"
    /\ Serializable(u)
    /\ CASE call[u] = "submit" -> Over(u, "left")
         [] call[u] = "session" -> Goto(u, "ready") /\ UNCHANGED <<call, todo, ended>>
         [] OTHER -> Goto(u, "use") /\ UNCHANGED <<call, todo, ended>>
    /\ UNCHANGED <<refs, closing, rest>>

\* The body cannot be serialized, the request fails, or its answer holds no
\* id: stream_agent closes only in the last case.
Refused(u) ==
    /\ pc[u] = "request"
    /\ \/ /\ call[u] \in {"run", "session", "stream"}
          /\ call[u] = "stream" => Serializable(u)
          /\ StartClosing(u)
       \/ call[u] \in {"stream", "submit"} /\ Over(u, "left")
    /\ UNCHANGED <<refs, closing, rest>>

\* The task is cancelled in its request: create_session closes after an
\* Exception, which CancelledError is not.
Interrupted(u) ==
    /\ client = "tasks" /\ pc[u] = "request" /\ call[u] = "session"
    /\ Over(u, "left")
    /\ UNCHANGED <<refs, closing, rest>>

\* A turn of a session: send() drives it to its end, stream() returns after
\* each event.  A turn that is refused leaves the session as it is.
TurnBegins(u) ==
    /\ pc[u] = "ready"
    /\ Serializable(u)
    /\ \/ Goto(u, "use")
       \/ Goto(u, "streaming")
    /\ UNCHANGED <<refs, call, todo, closing, ended, rest>>

\* A local_tool_call of kind mcp_local reaches _dispatch_local_tool; without
\* a transport the call is answered with an error at once.
Dispatch(u) ==
    /\ pc[u] \in {"use", "streaming"} /\ tool[u] = None
    /\ \E r \in ToolSet(u) :
          /\ resolved[r] # None
          /\ tool' = [tool EXCEPT ![u] = resolved[r]]
    /\ UNCHANGED <<refs, user, client, outlived>>

Answered(u) ==
    /\ tool[u] # None
    /\ tool' = [tool EXCEPT ![u] = None]
    /\ outlived' = [outlived EXCEPT ![u] = FALSE]
    /\ UNCHANGED <<refs, user, client>>

\* The dispatches of a run are waited for before it is over.
MayEnd(u) == tool[u] = None

RunOver(u) ==
    IF call[u] \in Sessions
    THEN Goto(u, "ready") /\ UNCHANGED <<call, todo, ended>>
    ELSE StartClosing(u)

End(u) ==
    /\ \/ pc[u] = "use"
       \/ pc[u] = "streaming"
    /\ MayEnd(u)
    /\ RunOver(u)
    /\ UNCHANGED <<refs, closing, rest>>

\* _drive_run raises for a failed run, or the consumer of an asynchronous
\* stream() breaks off: the generator is left suspended, its dispatches run on.
GiveUp(u) ==
    /\ client = "tasks" /\ pc[u] \in {"use", "streaming"} /\ tool[u] # None
    /\ RunOver(u)
    /\ outlived' = [outlived EXCEPT ![u] = TRUE]
    /\ UNCHANGED <<refs, closing, client, tool>>

\* The generator of stream_agent is dropped before its first event: its
\* `finally` has not been entered.
Drop(u) ==
    /\ pc[u] = "use" /\ call[u] = "stream" /\ tool[u] = None
    /\ Over(u, "left")
    /\ UNCHANGED <<refs, closing, rest>>

\* AgentSession.end, which does not ask for a stream() that is suspended.
EndSession(u) ==
    /\ pc[u] \in {"ready", "streaming"}
    /\ StartClosing(u)
    /\ outlived' = [outlived EXCEPT ![u] = @ \/ (pc[u] = "streaming" /\ tool[u] # None)]
    /\ UNCHANGED <<refs, closing, client, tool>>

-----------------------------------------------------------------------------
(* *_close_mcp_refs.                                                       *)

KeepAttached(r) == UNCHANGED resolved
Detach(r) == resolved' = [resolved EXCEPT ![r] = None]

\* A reference that is not attached is passed over.
Pass(u) ==
    /\ pc[u] = "close" /\ todo[u] # <<>>
    /\ resolved[Head(todo[u])] = None
    /\ todo' = [todo EXCEPT ![u] = Tail(@)]
    /\ UNCHANGED <<refs, pc, call, closing, ended, rest>>

CloseNext(u) ==
    /\ pc[u] = "close" /\ todo[u] # <<>>
    /\ resolved[Head(todo[u])] # None
    /\ Detach(Head(todo[u]))
    /\ closing' = [closing EXCEPT ![u] = resolved[Head(todo[u])]]
    /\ Goto(u, "closing")
    /\ todo' = [todo EXCEPT ![u] = Tail(@)]
    /\ UNCHANGED <<transports, call, ended, rest>>

Closed(u) ==
    /\ pc[u] = "closing"
    /\ transports' = [transports EXCEPT ![closing[u]].state = "closed"]
    /\ closing' = [closing EXCEPT ![u] = None]
    /\ Goto(u, "close")
    /\ UNCHANGED <<resolved, call, todo, ended, rest>>

\* The task is cancelled while it closes, and closes no further.
CloseInterrupted(u) ==
    /\ client = "tasks" /\ pc[u] = "closing"
    /\ \E how \in {"orphan", "closed"} :
          transports' = [transports EXCEPT ![closing[u]].state = how]
    /\ closing' = [closing EXCEPT ![u] = None]
    /\ Over(u, "left")
    /\ UNCHANGED <<resolved, rest>>

CloseDone(u) ==
    /\ pc[u] = "close" /\ todo[u] = <<>>
    /\ Over(u, "closed")
    /\ UNCHANGED <<refs, closing, rest>>

\* What a user does without its transports, and what it does to them.
Calling(u) ==
    \/ \E kind \in CallsOf[u] : Start(u, kind)
    \/ Skip(u) \/ Submit(u) \/ Refused(u) \/ Interrupted(u)
    \/ End(u) \/ GiveUp(u) \/ Drop(u) \/ EndSession(u)
    \/ Pass(u) \/ CloseDone(u)
Requesting(u) == Accepted(u) \/ TurnBegins(u)
Transporting(u) ==
    \/ Open(u) \/ Opened(u) \/ OpenFailed(u)
    \/ Dispatch(u) \/ Answered(u)
    \/ CloseNext(u) \/ Closed(u) \/ CloseInterrupted(u)

Next == \E u \in Users : Calling(u) \/ Requesting(u) \/ Transporting(u)

Spec == Init /\ [][Next]_vars

-----------------------------------------------------------------------------
(* Properties.                                                             *)

\* The users whose run or session is under way.
Using == {u \in Users : pc[u] \in {"use", "ready", "streaming"}}
OpenOf(r) == {n \in DOMAIN transports : transports[n].ref = r /\ transports[n].state = "open"}

\* A run or a session has, from its first request to its end, an open
\* transport for every reference of its tools list, whatever the calls made
\* before it left attached to those references.
UsersHaveTransports ==
    \A u \in Using : \A r \in ToolSet(u) : resolved[r] \in OpenOf(r)

\* A tools/call is neither made on a closed transport nor cut by the closing
\* of its transport, unless its own user gave the run up or ended the session
\* under it.
ToolsRunOnOpenTransports ==
    \A u \in Users : tool[u] # None /\ ~outlived[u] => transports[tool[u]].state = "open"
=============================================================================

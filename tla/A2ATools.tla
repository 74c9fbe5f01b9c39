------------------------------ MODULE A2ATools -------------------------------
(***************************************************************************)
(* A2AExecutor for an agent with local MCP tools.  The sessions of all     *)
(* contexts are created with the one tools list of MantyxAgentSpec         *)
(* (_spec_to_session_kwargs copies the list, not its references), so what  *)
(* create_session opens for one context serves them all, and what closes   *)
(* the references for one session (AgentSession.end, and create_session    *)
(* when it fails) closes them for all.  A turn declares the tools of its   *)
(* session again, which serialize_tool_refs does only for references that  *)
(* are attached.                                                           *)
(*                                                                         *)
(* References are opened and closed one by one, each behind an await.  A   *)
(* reference is its place in the list; it is attached while its _resolved  *)
(* is set.  (A transport that is lost because two turns open a reference   *)
(* at once is a matter of McpRefs.)                                        *)
(***************************************************************************)
EXTENDS A2AExecutor

CONSTANT NumTools   \* how many local MCP references the agent has

ASSUME A2AToolsAssumption == NumTools \in Nat

Refs == 1..NumTools

VARIABLES
    attached,  \* the references that are attached
    stage,     \* what each turn does with the references: see Stages
    ref,       \* the reference it is opening or closing
    endRef,    \* the reference aclose() is closing
    left       \* history: the references that a turn has left attached when it
               \*          gave up, and that are still attached

tools == <<attached, stage, ref, endRef, left>>
toolVars == <<vars, tools>>

\* "open": async_resolve_local_refs; "use": a request, or a run, under way that
\* was told of the references; "delete": the DELETE of a session.  The rest is
\* async_close_mcp_refs, whose turn then goes on, fails, or is aborted.
Loops == {"close", "fail", "abort"}
Stages == {"none", "open", "use", "delete"} \cup Loops

ToolsTypeOK ==
    /\ TypeOK
    /\ attached \subseteq Refs
    /\ stage \in [Tasks -> Stages]
    /\ ref \in [Tasks -> 0..NumTools]
    /\ endRef \in 0..NumTools
    /\ left \subseteq attached

ToolsInit ==
    /\ Init
    /\ attached = {}
    /\ stage = [t \in Tasks |-> "none"]
    /\ ref = [t \in Tasks |-> 0]
    /\ endRef = 0
    /\ left = {}

Move(t, to, r) ==
    /\ stage' = [stage EXCEPT ![t] = to]
    /\ ref' = [ref EXCEPT ![t] = r]

First(S) == {r \in S : \A s \in S : r <= s}

-----------------------------------------------------------------------------
(* Opening: create_session, and run_agent for a turn without a session.    *)

\* async_resolve_local_refs goes on after r with `held` attached: it awaits the
\* next reference that is not, or the body is built.  That fails, and closes
\* them all, if another turn has closed one in the meantime.
ResolvesFrom(t, held, r) ==
    LET missing == {m \in Refs \ held : m > r}
    IN  \/ \E m \in First(missing) : Move(t, "open", m) /\ attached' = held
        \/ missing = {} /\ held = Refs /\ Move(t, "use", 0) /\ attached' = held
        \/ /\ missing = {} /\ held # Refs
           /\ \E m \in First(held) : Move(t, "fail", m) /\ attached' = held \ {m}

Prepares(t) ==
    /\ NeedSession(t) \/ RunStateless(t)
    /\ ResolvesFrom(t, attached, 0)
    /\ UNCHANGED <<endRef, left>>

StillLeft == left' = left \cap attached'

Opened(t) ==
    /\ stage[t] = "open"
    /\ ResolvesFrom(t, attached \cup {ref[t]}, ref[t])
    /\ StillLeft
    /\ UNCHANGED <<vars, endRef>>

\* The references are resolved before the `try` whose `except` or `finally`
\* closes them: those opened before one that fails stay attached.
OpenFails(t) ==
    /\ stage[t] = "open"
    /\ CreateFailed(t) \/ Failed(t)
    /\ Move(t, "none", 0)
    /\ left' = attached
    /\ UNCHANGED <<attached, endRef>>

-----------------------------------------------------------------------------
(* Using.                                                                  *)

\* send() builds its message before its first await; serialize_tool_refs
\* raises when a reference is detached.
Declares(t) == Move(t, IF attached = Refs THEN "use" ELSE "none", 0)

GoesOn(t) ==
    /\ FindSession(t)
    /\ Declares(t)
    /\ UNCHANGED <<attached, endRef, left>>

\* What a turn does about the references once the map has its session.
EndsOrDeclares(t) == IF pc'[t] = "ending" THEN Move(t, "delete", 0) ELSE Declares(t)

CreateSucceeds(t) ==
    /\ stage[t] = "use"
    /\ Created(t)
    /\ EndsOrDeclares(t)
    /\ UNCHANGED <<attached, endRef, left>>

\* The answer of a session, or an error; a message that could not be built is one.
Sent(t) ==
    /\ ~scenario.stateless
    /\ (stage[t] = "use" /\ Completed(t)) \/ Failed(t)
    /\ Move(t, "none", 0)
    /\ UNCHANGED <<attached, endRef, left>>

-----------------------------------------------------------------------------
(* Closing: create_session that fails, AgentSession.end, run_agent.        *)

\* The turn is at its close loop, or where that begins.
Closes(t) ==
    \/ stage[t] \in Loops \cup {"delete"}
    \/ stage[t] = "use" /\ (pc[t] = "create" \/ scenario.stateless)

\* The references that async_close_mcp_refs has yet to close.  One that is
\* detached already is passed over.
RestWithoutExcept(t) == {r \in attached : r > ref[t] /\ pc[t] # "create"}
Rest(t) == {r \in attached : r > ref[t]}

\* The next one is detached, and then waited for to close.
Detaches(t) ==
    /\ Closes(t)
    /\ \E r \in First(Rest(t)) :
          /\ attached' = attached \ {r}
          /\ Move(t, IF stage[t] \in Loops THEN stage[t] ELSE "close", r)
    /\ StillLeft
    /\ UNCHANGED <<vars, endRef>>

\* After the last one.
CreateFails(t) ==
    /\ Closes(t) /\ Rest(t) = {}
    /\ CreateFailed(t)
    /\ Move(t, "none", 0)
    /\ UNCHANGED <<attached, endRef, left>>

EvictedEnds(t) ==
    /\ Closes(t) /\ Rest(t) = {} /\ stage[t] # "abort"
    /\ Ended(t)
    /\ EndsOrDeclares(t)
    /\ UNCHANGED <<attached, endRef, left>>

RunEnds(t) ==
    /\ scenario.stateless
    /\ Closes(t) /\ Rest(t) = {} /\ stage[t] # "abort"
    /\ (stage[t] # "fail" /\ Completed(t)) \/ Failed(t)
    /\ Move(t, "none", 0)
    /\ UNCHANGED <<attached, endRef, left>>

\* aclose() ends its sessions one after the other.
SessionDetaches ==
    /\ draining # <<>>
    /\ \E r \in First({r \in attached : r > endRef}) : attached' = attached \ {r} /\ endRef' = r
    /\ StillLeft
    /\ UNCHANGED <<vars, stage, ref>>

SessionCloses ==
    /\ {r \in attached : r > endRef} = {}
    /\ CloseNext
    /\ endRef' = 0
    /\ UNCHANGED <<attached, stage, ref, left>>

-----------------------------------------------------------------------------
(* A turn whose task is cancelled.                                         *)

\* end() and run_agent close in a `finally`, which comes first.
InFinally(t) == stage[t] = "delete" \/ (stage[t] = "use" /\ scenario.stateless)

AbortedFirstCloses(t) ==
    /\ scenario.aborts
    /\ InFinally(t)
    /\ \E r \in First(attached) : attached' = attached \ {r} /\ Move(t, "abort", r)
    /\ StillLeft
    /\ UNCHANGED <<vars, endRef>>

\* create_session closes after an Exception, which CancelledError is not, and
\* a close loop that is cancelled stops where it is.
LeavesBehind(t) ==
    {r \in attached : \/ stage[t] = "open"
                      \/ stage[t] = "use" /\ pc[t] = "create"
                      \/ stage[t] \in Loops /\ r > ref[t]}

TurnAborted(t) ==
    /\ InFinally(t) => attached = {}
    /\ Aborted(t)
    /\ made' # made => stage[t] = "use"
    /\ Move(t, "none", 0)
    /\ left' = left \cup LeavesBehind(t)
    /\ UNCHANGED <<attached, endRef>>

\* What does not look at the references.
Other ==
    /\ \/ \E t \in Tasks :
             \/ Execute(t) \/ Announce(t) \/ CancelledBeforeRun(t) \/ Cancel(t)
             \/ Delta(t) /\ stage[t] = "use"
       \/ Close
       \/ AllDone
    /\ UNCHANGED tools

ToolsNext ==
    \/ \E t \in Tasks :
          \/ Prepares(t) \/ Opened(t) \/ OpenFails(t)
          \/ GoesOn(t) \/ CreateSucceeds(t) \/ Sent(t)
          \/ Detaches(t) \/ CreateFails(t) \/ EvictedEnds(t) \/ RunEnds(t)
          \/ AbortedFirstCloses(t) \/ TurnAborted(t)
    \/ SessionDetaches \/ SessionCloses
    \/ Other

ToolsSpec == ToolsInit /\ [][ToolsNext]_toolVars

-----------------------------------------------------------------------------
(* Properties.                                                             *)

\* A turn that makes or ends a session, or is a run without one.
HasTools(t) == pc[t] \in {"create", "ending"} \/ (scenario.stateless /\ pc[t] = "send")

\* However turns overlap, and close references under each other: once the map
\* is empty, aclose() has nothing left to end and no turn is making or ending
\* a session, no reference is attached, but for those that a turn which failed
\* to open the next one, or was aborted, has left behind and nobody has closed.
ToolsEndWithSessions ==
    sessions = <<>> /\ draining = <<>> /\ (\A t \in Tasks : ~HasTools(t)) => attached \subseteq left

\* "Each unique A2A context_id opens a long-lived MANTYX session by default,
\* so multi-turn message/send calls share conversational history"
\* (python/README.md): while no turn has failed, a turn whose session is alive
\* gets its message sent.
NoneFailed == \A t \in Tasks : \A i \in DOMAIN status[t] : status[t][i] # "failed"

SessionTakesTurns ==
    NoneFailed => \A t \in Tasks : pc[t] = "send" /\ session[t] \in alive => stage[t] = "use"
=============================================================================

---------------------------- MODULE A2AExecutor -----------------------------
(***************************************************************************)
(* MantyxAgentExecutor (a2a_server.py): the turns an A2A server hands to a *)
(* MANTYX agent, the LRU map from A2A contexts to agent sessions, the      *)
(* marks left by cancel() and the status updates each turn publishes.      *)
(* Everything runs on one event loop; an action is what happens between    *)
(* two awaits.                                                             *)
(*                                                                         *)
(* A turn is one execute() of one A2A task.  Sessions are numbered in the  *)
(* order the server makes them.  The text of statuses is left out.         *)
(***************************************************************************)
EXTENDS Integers, FiniteSets, SequencesExt

CONSTANTS
    Tasks,        \* the A2A tasks, one turn each
    Contexts,     \* the A2A contexts
    ContextOf,    \* the context of each task
    MaxStatuses,  \* bound on the statuses of a turn before a delta
    Scenarios     \* the executors, and the worlds, considered: see Scenario

Scenario ==
    [turns : SUBSET Tasks,        \* the tasks that arrive
     known : SUBSET Tasks,        \* those the A2A server had before
     maxSessions : Nat,           \* max_sessions
     stateless : BOOLEAN,         \* conversation="stateless"
     cancellable : SUBSET Tasks,  \* the tasks cancel() may be called for
     overlap : BOOLEAN,           \* turns of one context may overlap
     aborts : BOOLEAN,            \* the asyncio task of a turn may be cancelled
     closes : BOOLEAN]            \* aclose() may be called

ASSUME A2AExecutorAssumption ==
    /\ ContextOf \in [Tasks -> Contexts]
    /\ IsFiniteSet(Tasks)
    /\ Scenarios \subseteq Scenario

NoSession == 0
SessionIds == 0..Cardinality(Tasks)
Finals == {"completed", "failed", "canceled"}

VARIABLES
    scenario,   \* the executor and its world, chosen once
    sessions,   \* _sessions, least recently used first
    cancelled,  \* _cancelled
    pc,         \* where each turn stands
    session,    \* the session a turn sends to
    ending,     \* the evicted session a turn is waiting to end
    status,     \* the states each turn has published
    draining,   \* the sessions aclose() has yet to end
    made,       \* how many sessions the server has made
    alive,      \* the sessions made and not ended
    stuck,      \* history: the sessions whose end() failed
    given,      \* history: the sessions given to each context's turns since
                \*          the last time its session was evicted
    lastUse     \* history: when each context's session was last given

map == <<sessions, given, lastUse>>
turn == <<pc, session, ending, status>>
server == <<draining, made, alive, stuck>>
vars == <<scenario, map, cancelled, turn, server>>

Steps == {"idle", "announce", "working", "create", "ending", "send", "done", "cut"}

\* A turn that is over has published its last status, or was cut off before.
Over == {"done", "cut"}

TypeOK ==
    /\ scenario \in Scenarios
    /\ sessions \in Seq([context : Contexts, session : SessionIds])
    /\ cancelled \subseteq Tasks
    /\ pc \in [Tasks -> Steps]
    /\ session \in [Tasks -> SessionIds]
    /\ ending \in [Tasks -> SessionIds]
    /\ status \in [Tasks -> Seq({"submitted", "working"} \cup Finals)]
    /\ draining \in Seq(SessionIds)
    /\ made \in SessionIds
    /\ alive \subseteq 1..made
    /\ stuck \subseteq SessionIds
    /\ given \in [Contexts -> SUBSET SessionIds]
    /\ lastUse \in [Contexts -> 0..Cardinality(Tasks)]

Init ==
    /\ scenario \in Scenarios
    /\ sessions = <<>>
    /\ cancelled = {}
    /\ pc = [t \in Tasks |-> "idle"]
    /\ session = [t \in Tasks |-> NoSession]
    /\ ending = [t \in Tasks |-> NoSession]
    /\ status = [t \in Tasks |-> <<>>]
    /\ draining = <<>>
    /\ made = 0
    /\ alive = {}
    /\ stuck = {}
    /\ given = [c \in Contexts |-> {}]
    /\ lastUse = [c \in Contexts |-> 0]

Goto(t, step) == pc' = [pc EXCEPT ![t] = step]
Publish(t, state) == status' = [status EXCEPT ![t] = Append(@, state)]

\* The turn publishes its last status and is over; its task can be cancelled
\* while it waits for room in the event queue, which is outside the `try`.
Finish(t, state) ==
    \/ Publish(t, state) /\ Goto(t, "done")
    \/ scenario.aborts /\ Goto(t, "cut") /\ UNCHANGED status

Entries(c) == {i \in DOMAIN sessions : sessions[i].context = c}
Held == {sessions[i].session : i \in DOMAIN sessions}
Later == 1 + Max({lastUse[c] : c \in Contexts})

-----------------------------------------------------------------------------
(* execute().                                                              *)

\* The A2A server starts the turn; a new task is announced first.
Execute(t) ==
    /\ pc[t] = "idle" /\ t \in scenario.turns
    /\ scenario.overlap \/ \A u \in Tasks : ContextOf[u] = ContextOf[t] => pc[u] \in Over \cup {"idle"}
    /\ IF t \in scenario.known THEN UNCHANGED status ELSE Publish(t, "submitted")
    /\ Goto(t, "announce")
    /\ UNCHANGED <<scenario, map, cancelled, session, ending, server>>

Announce(t) ==
    /\ pc[t] = "announce"
    /\ Publish(t, "working")
    /\ Goto(t, "working")
    /\ UNCHANGED <<scenario, map, cancelled, session, ending, server>>

\* `if task_id in self._cancelled`.
FallsThrough(t) == Publish(t, "canceled") /\ Goto(t, "create")
ReturnsCanceled(t) == Finish(t, "canceled")

CancelledBeforeRun(t) ==
    /\ pc[t] = "working" /\ t \in cancelled
    /\ cancelled' = cancelled \ {t}
    /\ ReturnsCanceled(t)
    /\ UNCHANGED <<scenario, map, session, ending, server>>

RunStateless(t) ==
    /\ pc[t] = "working" /\ t \notin cancelled
    /\ scenario.stateless
    /\ Goto(t, "send")
    /\ UNCHANGED <<scenario, map, cancelled, session, ending, status, server>>

\* _get_or_create_session: the context has a session, which becomes the most
\* recently used one.
KeepPlace(i) == sessions
MoveToEnd(i) == Append(RemoveAt(sessions, i), sessions[i])

FindSession(t) ==
    /\ pc[t] = "working" /\ t \notin cancelled
    /\ ~scenario.stateless
    /\ \E i \in Entries(ContextOf[t]) :
          /\ sessions' = MoveToEnd(i)
          /\ session' = [session EXCEPT ![t] = sessions[i].session]
    /\ given' = [given EXCEPT ![ContextOf[t]] = @ \cup {session'[t]}]
    /\ lastUse' = [lastUse EXCEPT ![ContextOf[t]] = Later]
    /\ Goto(t, "send")
    /\ UNCHANGED <<scenario, cancelled, ending, status, server>>

NeedSession(t) ==
    /\ pc[t] = "working" /\ t \notin cancelled
    /\ ~scenario.stateless
    /\ Entries(ContextOf[t]) = {}
    /\ Goto(t, "create")
    /\ UNCHANGED <<scenario, map, cancelled, session, ending, status, server>>

Limit == scenario.maxSessions

\* _evict_if_needed, from its start or from the end of a session to the next
\* await: the turn waits for the end of what it has popped, or goes on.
NotPopped(entries) == entries
Popped(entries) == Tail(entries)

EvictOrSend(t, entries, giving) ==
    IF Len(entries) > Limit
    THEN /\ sessions' = Popped(entries)
         /\ given' = [giving EXCEPT ![Head(entries).context] = {}]
         /\ ending' = [ending EXCEPT ![t] = Head(entries).session]
         /\ Goto(t, "ending")
    ELSE /\ sessions' = entries
         /\ given' = giving
         /\ ending' = [ending EXCEPT ![t] = NoSession]
         /\ Goto(t, "send")

\* create_session answers.  Storing under a key the OrderedDict already has
\* keeps the key's place.
NeverStored(entry) == sessions
Stored(entry) ==
    IF Entries(entry.context) = {}
    THEN Append(sessions, entry)
    ELSE [i \in DOMAIN sessions |->
            IF sessions[i].context = entry.context THEN entry ELSE sessions[i]]

Created(t) ==
    /\ pc[t] = "create"
    /\ made' = made + 1
    /\ alive' = alive \cup {made'}
    /\ session' = [session EXCEPT ![t] = made']
    /\ lastUse' = [lastUse EXCEPT ![ContextOf[t]] = Later]
    /\ EvictOrSend(t, Stored([context |-> ContextOf[t], session |-> made']),
                   [given EXCEPT ![ContextOf[t]] = @ \cup {made'}])
    /\ UNCHANGED <<scenario, cancelled, status, draining, stuck>>

CreateFailed(t) ==
    /\ pc[t] = "create"
    /\ Finish(t, "failed")
    /\ UNCHANGED <<scenario, map, cancelled, session, ending, server>>

\* `with suppress(Exception): await oldest.end()`.
Ended(t) ==
    /\ pc[t] = "ending"
    /\ \/ alive' = alive \ {ending[t]} /\ UNCHANGED stuck
       \/ stuck' = stuck \cup {ending[t]} /\ UNCHANGED alive
    /\ EvictOrSend(t, sessions, given)
    /\ UNCHANGED <<scenario, cancelled, session, status, lastUse, draining, made>>

\* A delta of the run is published as a status of its own.
Delta(t) ==
    /\ pc[t] = "send"
    /\ Len(status[t]) < MaxStatuses
    /\ Publish(t, "working")
    /\ UNCHANGED <<scenario, map, cancelled, pc, session, ending, server>>

\* The run of the turn succeeds.
Completed(t) ==
    /\ pc[t] = "send"
    /\ scenario.stateless \/ session[t] \in alive
    /\ Finish(t, "completed")
    /\ UNCHANGED <<scenario, map, cancelled, session, ending, server>>

\* MantyxRunError, or any other Exception.
Failed(t) ==
    /\ pc[t] = "send"
    /\ Finish(t, "failed")
    /\ UNCHANGED <<scenario, map, cancelled, session, ending, server>>

-----------------------------------------------------------------------------
(* What comes from outside the turn.                                       *)

\* cancel(): it only marks the task.
Cancel(t) ==
    /\ t \in scenario.cancellable \ cancelled
    /\ pc[t] \notin Over
    /\ cancelled' = cancelled \cup {t}
    /\ UNCHANGED <<scenario, map, turn, server>>

\* asyncio cancels the task of the turn (external).  Before the `try` that
\* publishes nothing; a session being made or ended may be made, or ended,
\* on the server all the same.
Aborted(t) ==
    /\ scenario.aborts
    /\ \/ /\ pc[t] \in {"announce", "working"}
          /\ Goto(t, "cut")
          /\ UNCHANGED <<status, made, alive, stuck>>
       \/ /\ pc[t] \in {"create", "ending", "send"}
          /\ Finish(t, "canceled")
          /\ \/ pc[t] = "create" /\ made' = made + 1 /\ alive' = alive \cup {made'}
                /\ UNCHANGED stuck
             \/ pc[t] = "ending" /\ alive' = alive \ {ending[t]} /\ UNCHANGED <<made, stuck>>
             \/ UNCHANGED <<made, alive, stuck>>
    /\ ending' = [ending EXCEPT ![t] = NoSession]
    /\ UNCHANGED <<scenario, map, cancelled, session, draining>>

\* aclose(): the map is cleared at once, its sessions are ended one by one.
Close ==
    /\ scenario.closes
    /\ draining = <<>> /\ sessions # <<>>
    /\ draining' = [i \in DOMAIN sessions |-> sessions[i].session]
    /\ sessions' = <<>>
    /\ given' = [c \in Contexts |-> IF Entries(c) = {} THEN given[c] ELSE {}]
    /\ UNCHANGED <<scenario, lastUse, cancelled, turn, made, alive, stuck>>

CloseNext ==
    /\ draining # <<>>
    /\ LET s == Head(draining) IN
         \/ alive' = alive \ {s} /\ UNCHANGED stuck
         \/ stuck' = stuck \cup {s} /\ UNCHANGED alive
    /\ draining' = Tail(draining)
    /\ UNCHANGED <<scenario, map, cancelled, turn, made>>

AllDone == (\A t \in scenario.turns : pc[t] \in Over) /\ UNCHANGED vars

Next ==
    \/ \E t \in Tasks :
          \/ Execute(t) \/ Announce(t) \/ CancelledBeforeRun(t)
          \/ RunStateless(t) \/ FindSession(t) \/ NeedSession(t)
          \/ Created(t) \/ CreateFailed(t) \/ Ended(t)
          \/ Delta(t) \/ Completed(t) \/ Failed(t)
          \/ Cancel(t) \/ Aborted(t)
    \/ Close \/ CloseNext
    \/ AllDone

Spec == Init /\ [][Next]_vars

-----------------------------------------------------------------------------
(* Properties.                                                             *)

IsFinal(state) == state \in Finals

\* A turn publishes one final state at most, and nothing after it, however
\* it is cancelled, aborted or failed; one that is over without a final state
\* had its task cancelled outside the `try` of execute().
OneFinalStatus ==
    \A t \in Tasks :
        /\ \A i \in DOMAIN status[t] : IsFinal(status[t][i]) => i = Len(status[t])
        /\ pc[t] = "done" => status[t] # <<>> /\ IsFinal(status[t][Len(status[t])])

\* Between any two awaits, whatever turns and aclose() do: the map is within
\* its limit and holds no session that has been ended, nor a context twice.
MapHoldsLive ==
    /\ Len(sessions) <= scenario.maxSessions
    /\ Held \subseteq alive
    /\ \A i, j \in DOMAIN sessions :
          i # j => sessions[i].context # sessions[j].context
                   /\ sessions[i].session # sessions[j].session

\* Between evictions, all turns of a context whose turns do not overlap talk
\* to one session: "multi-turn conversations share history" (a2a_server.py).
OneConversation ==
    ~scenario.overlap => \A c \in Contexts : Cardinality(given[c]) <= 1

\* What is evicted is what was used least recently.
LeastRecentFirst ==
    ~scenario.overlap => \A i, j \in DOMAIN sessions :
        i < j => lastUse[sessions[i].context] < lastUse[sessions[j].context]

\* A session that is alive is in the map, is being ended by an eviction or by
\* aclose(), or could not be ended: none is lost, unless overlapping or
\* aborted turns made it.
NoSessionLost ==
    ~scenario.overlap /\ ~scenario.aborts => alive \subseteq Held \cup {ending[t] : t \in Tasks} \cup stuck
                  \cup {draining[i] : i \in DOMAIN draining}
=============================================================================

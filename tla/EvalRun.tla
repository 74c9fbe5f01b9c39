------------------------------ MODULE EvalRun -------------------------------
(***************************************************************************)
(* run_eval: a poll loop that waits for an eval run to end, and beside it  *)
(* a consumer of the run's event stream, which runs local tools when a     *)
(* case of the run calls them.  In client.py the consumer is a daemon      *)
(* thread with a pool of its own, joined for thirty seconds; in            *)
(* async_client.py it is a task that runs one call at a time, cancelled    *)
(* when the polling is over.  Unlike an agent run's, the stream is opened  *)
(* once and read without a cursor.                                         *)
(*                                                                         *)
(* Every call is to a tool of a local MCP server, whose transport run_eval *)
(* closes at its end; other tools do not notice.  A call is named by the   *)
(* position of its event.                                                  *)
(***************************************************************************)
EXTENDS Integers, Sequences, FiniteSets

CONSTANTS
    PoolSize,   \* max_workers of the consumer's pool
    MaxEvents   \* bound on the number of events of the run

ASSUME EvalRunAssumption == PoolSize \in Nat \ {0} /\ MaxEvents \in Nat \ {0}

Positions == 1..MaxEvents

VARIABLES
    flavour,    \* "threads" (client.py) or "tasks" (async_client.py)
    tools,      \* the caller passed local tools
    callback,   \* the caller passed on_event
    events,     \* what the server has to tell of the run (external)
    main,       \* where the poll loop stands
    outcome,    \* what run_eval returns or raises
    late,       \* the join timed out
    consumer,   \* where the consumer of the stream stands
    reason,     \* attempt_reason of stream_eval_run
    next,       \* the last event received
    fault,      \* the exception that ended the consumer
    cancel,     \* stream_task.cancel() has been called
    jobs,       \* what became of each call
    mcpOpen,    \* the transports of the tools are open
    from        \* history: the events before the stream was opened

choice == <<flavour, tools, callback>>
loop == <<main, outcome, late>>
stream == <<consumer, reason, next, fault, from>>
vars == <<choice, events, loop, stream, cancel, jobs, mcpOpen>>

TypeOK ==
    /\ flavour \in {"threads", "tasks"} /\ tools \in BOOLEAN /\ callback \in BOOLEAN
    /\ events \in Seq({"progress", "call", "end"}) /\ Len(events) <= MaxEvents
    /\ main \in {"submit", "poll", "sleep", "join", "close", "over"}
    /\ outcome \in {"none", "detail", "raised", "cancelled", "streamfault"}
    /\ consumer \in {"off", "open", "read", "event", "dispatch", "callback", "drain", "over"}
    /\ reason \in {"initial", "unauthorized"}
    /\ next \in 0..MaxEvents /\ from \in 0..MaxEvents
    /\ fault \in {"none", "network", "error", "cancelled"}
    /\ jobs \in [Positions -> {"none", "queued", "running", "answered",
                               "refused", "aborted", "cut"}]
    /\ late \in BOOLEAN /\ cancel \in BOOLEAN /\ mcpOpen \in BOOLEAN

Init ==
    /\ flavour \in {"threads", "tasks"} /\ tools \in BOOLEAN /\ callback \in BOOLEAN
    /\ events = <<>>
    /\ main = "submit" /\ outcome = "none" /\ late = FALSE
    /\ consumer = "off" /\ reason = "initial" /\ next = 0 /\ fault = "none" /\ from = 0
    /\ cancel = FALSE
    /\ jobs = [c \in Positions |-> "none"]
    /\ mcpOpen = TRUE

Threads == flavour = "threads"
Tasks == flavour = "tasks"
Ended == events # <<>> /\ events[Len(events)] = "end"
JobsIn(states) == {c \in Positions : jobs[c] \in states}

\* Tasks switch only where they await: what the consumer does with an event
\* in hand is one turn of the event loop.
MainRuns == Tasks => consumer \notin {"event", "callback"}

-----------------------------------------------------------------------------
(* The server (external).                                                  *)

Emit(kind) ==
    /\ main # "submit" /\ ~Ended
    /\ kind # "end" => Len(events) < MaxEvents - 1
    /\ events' = Append(events, kind)
    /\ UNCHANGED <<choice, loop, stream, cancel, jobs, mcpOpen>>

-----------------------------------------------------------------------------
(* The poll loop.                                                          *)

\* run_eval goes on to its outer `finally`; tasks cancel the consumer first.
Leave(how) ==
    /\ outcome' = how
    /\ IF Tasks /\ consumer # "off"
       THEN main' = "join" /\ cancel' = (consumer # "over")
       ELSE main' = "close" /\ UNCHANGED cancel

Accepted ==
    /\ main = "submit"
    /\ main' = "poll"
    /\ consumer' = IF tools \/ callback THEN "open" ELSE "off"
    /\ UNCHANGED <<choice, events, outcome, late, reason, next, fault, from, cancel, jobs, mcpOpen>>

\* create_eval_run raises.
NotAccepted ==
    /\ main = "submit"
    /\ Leave("raised")
    /\ UNCHANGED <<choice, events, late, stream, jobs, mcpOpen>>

\* The status is a terminal one.  Threads wait for the consumer to finish.
PollEnded ==
    /\ main = "poll" /\ MainRuns /\ Ended
    /\ \/ Tasks /\ Leave("detail")
       \/ /\ Threads
          /\ outcome' = "detail"
          /\ main' = IF consumer = "off" THEN "close" ELSE "join"
          /\ UNCHANGED cancel
    /\ UNCHANGED <<choice, events, late, stream, jobs, mcpOpen>>

PollRunning ==
    /\ main = "poll" /\ MainRuns /\ ~Ended
    /\ main' = "sleep"
    /\ UNCHANGED <<choice, events, outcome, late, stream, cancel, jobs, mcpOpen>>

Wake ==
    /\ main = "sleep" /\ MainRuns
    /\ main' = "poll"
    /\ UNCHANGED <<choice, events, outcome, late, stream, cancel, jobs, mcpOpen>>

\* get_eval_run raises: threads leave without a look at the consumer.
PollFailed ==
    /\ main = "poll" /\ MainRuns
    /\ Leave("raised")
    /\ UNCHANGED <<choice, events, late, stream, jobs, mcpOpen>>

\* The caller's task is cancelled.  (In "join" it is suppressed together with
\* the cancellation of the consumer, and nothing changes.)
Cancelled ==
    /\ Tasks /\ main \in {"submit", "poll", "sleep"} /\ MainRuns
    /\ Leave("cancelled")
    /\ UNCHANGED <<choice, events, late, stream, jobs, mcpOpen>>

JoinedAnyway == TRUE
ConsumerOver == consumer = "over"

\* `await stream_task` raises what the consumer raised, unless it was a
\* cancellation; a thread's exception stays in the thread.
Joined ==
    /\ main = "join"
    /\ ConsumerOver
    /\ main' = "close"
    /\ outcome' = IF Tasks /\ fault = "error" THEN "streamfault" ELSE outcome
    /\ UNCHANGED <<choice, events, late, stream, cancel, jobs, mcpOpen>>

NoTimeout == FALSE
JoinTimesOut == Threads

JoinTimedOut ==
    /\ main = "join"
    /\ JoinTimesOut
    /\ main' = "close"
    /\ late' = TRUE
    /\ UNCHANGED <<choice, events, outcome, stream, cancel, jobs, mcpOpen>>

\* *_close_mcp_refs: the tools/call requests under way end with the transport.
Close ==
    /\ main = "close"
    /\ main' = "over"
    /\ mcpOpen' = FALSE
    /\ jobs' = [c \in Positions |-> IF jobs[c] = "running" THEN "cut" ELSE jobs[c]]
    /\ UNCHANGED <<choice, events, outcome, late, stream, cancel>>

-----------------------------------------------------------------------------
(* The consumer: stream_eval_run and _consume_stream.                      *)

\* Threads leave the `with` block of the pool before they are over.
Exit(exception) ==
    /\ fault' = exception
    /\ consumer' = IF Threads THEN "drain" ELSE "over"

\* The server begins where it likes: the request has no cursor (external).
OpenAccepted ==
    /\ consumer = "open" /\ ~cancel
    /\ consumer' = "read"
    /\ next' \in 0..Len(events)
    /\ from' = next'
    /\ UNCHANGED <<choice, events, loop, reason, fault, cancel, jobs, mcpOpen>>

OpenUnauthorized ==
    /\ consumer = "open" /\ ~cancel
    /\ reason = "initial"
    /\ reason' = "unauthorized"
    /\ UNCHANGED <<choice, events, loop, consumer, next, fault, from, cancel, jobs, mcpOpen>>

\* Only the token source raises MantyxNetworkError, which is caught; httpx
\* errors and refusals are not.
OpenFailed ==
    /\ consumer = "open" /\ ~cancel
    /\ \E exception \in {"network", "error"} : Exit(exception)
    /\ UNCHANGED <<choice, events, loop, reason, next, from, cancel, jobs, mcpOpen>>

Receive ==
    /\ consumer = "read" /\ ~cancel
    /\ next < Len(events)
    /\ next' = next + 1
    /\ consumer' = "event"
    /\ UNCHANGED <<choice, events, loop, reason, fault, from, cancel, jobs, mcpOpen>>

\* The connection ends, cleanly or not, or a frame is no JSON.
Broken ==
    /\ consumer = "read" /\ ~cancel
    /\ \E exception \in {"none", "error"} : Exit(exception)
    /\ UNCHANGED <<choice, events, loop, reason, next, from, cancel, jobs, mcpOpen>>

ForThisClient == events[next] = "call" /\ tools

\* `_resolved` is looked at when the dispatch starts: without a transport
\* the call is answered with an error.
StartJob(c) == jobs' = [jobs EXCEPT ![c] = IF mcpOpen THEN "running" ELSE "refused"]

\* pool.submit, or an inline await of the dispatch.
Dispatch ==
    /\ consumer = "event" /\ ForThisClient
    /\ \/ /\ Threads
          /\ jobs' = [jobs EXCEPT ![next] = "queued"]
          /\ consumer' = "callback"
       \/ /\ Tasks
          /\ StartJob(next)
          /\ consumer' = "dispatch"
    /\ UNCHANGED <<choice, events, loop, reason, next, fault, from, cancel, mcpOpen>>

PassOn ==
    /\ consumer = "event" /\ ~ForThisClient
    /\ consumer' = "callback"
    /\ UNCHANGED <<choice, events, loop, reason, next, fault, from, cancel, jobs, mcpOpen>>

Dispatched ==
    /\ consumer = "dispatch" /\ ~cancel
    /\ jobs' = [jobs EXCEPT ![next] = "answered"]
    /\ consumer' = "callback"
    /\ UNCHANGED <<choice, events, loop, reason, next, fault, from, cancel, mcpOpen>>

\* on_event returns; stream_eval_run is resumed and ends with the run.
CalledBack ==
    /\ consumer = "callback"
    /\ IF events[next] = "end"
       THEN Exit("none")
       ELSE consumer' = "read" /\ UNCHANGED fault
    /\ UNCHANGED <<choice, events, loop, reason, next, from, cancel, jobs, mcpOpen>>

CallbackRaised ==
    /\ consumer = "callback" /\ callback
    /\ Exit("error")
    /\ UNCHANGED <<choice, events, loop, reason, next, from, cancel, jobs, mcpOpen>>

\* The CancelledError reaches the consumer where it awaits.
CancelDelivered ==
    /\ cancel
    /\ consumer' = "over"
    /\ fault' = "cancelled"
    /\ cancel' = FALSE
    /\ jobs' = IF consumer = "dispatch" THEN [jobs EXCEPT ![next] = "aborted"] ELSE jobs
    /\ UNCHANGED <<choice, events, loop, reason, next, from, mcpOpen>>

-----------------------------------------------------------------------------
(* The consumer's pool.                                                    *)

Take(c) ==
    /\ jobs[c] = "queued"
    /\ Cardinality(JobsIn({"running"})) < PoolSize
    /\ StartJob(c)
    /\ UNCHANGED <<choice, events, loop, stream, cancel, mcpOpen>>

Answered(c) ==
    /\ Threads /\ jobs[c] = "running"
    /\ jobs' = [jobs EXCEPT ![c] = "answered"]
    /\ UNCHANGED <<choice, events, loop, stream, cancel, mcpOpen>>

DrainedAnyway == TRUE
PoolIdle == JobsIn({"queued", "running"}) = {}

Drained ==
    /\ consumer = "drain"
    /\ PoolIdle
    /\ consumer' = "over"
    /\ UNCHANGED <<choice, events, loop, reason, next, fault, from, cancel, jobs, mcpOpen>>

-----------------------------------------------------------------------------
Poll == Accepted \/ NotAccepted \/ PollEnded \/ PollRunning \/ Wake \/ PollFailed
        \/ Joined \/ JoinTimedOut \/ Close
Turn == Dispatch \/ PassOn \/ CalledBack \/ CallbackRaised \/ CancelDelivered
World == OpenAccepted \/ OpenUnauthorized \/ OpenFailed \/ Receive \/ Broken
         \/ Dispatched \/ Cancelled

\* Both are over; nothing more is asked of the server.
Done ==
    /\ main = "over" /\ consumer \in {"off", "over"}
    /\ UNCHANGED vars

Next ==
    \/ Poll \/ Turn \/ World \/ Drained \/ Done
    \/ \E c \in Positions : Take(c) \/ Answered(c)
    \/ \E kind \in {"progress", "call", "end"} : Emit(kind)

Spec == Init /\ [][Next]_vars

\* The caller's thread and the event loop run, requests are answered, and the
\* server ends the run.  Handlers need not return, nor the stream say anything.
FairSpec ==
    /\ Spec
    /\ WF_vars(Poll) /\ WF_vars(Turn)
    /\ WF_vars(Emit("end"))

-----------------------------------------------------------------------------
(* Properties.                                                             *)

GaveUpOnConsumer == Threads /\ (late \/ outcome = "raised")

\* When run_eval is over so is its consumer, except where the thread is
\* abandoned: after the join's timeout and after a failed poll.
ConsumerEndsFirst ==
    main = "over" => consumer \in {"off", "over"} \/ GaveUpOnConsumer

\* A transport is closed under a running call, and a call answered with "No
\* local MCP server", only after the consumer was abandoned.
CallsCutOnlyWhenGivenUp ==
    JobsIn({"cut", "refused"}) # {} => GaveUpOnConsumer

\* When run_eval returns the detail of a run, every call it received for
\* its tools has been answered, or was cancelled with the consumer.
ReceivedCallsServed ==
    main = "over" /\ outcome = "detail" /\ ~late /\ tools =>
        \A c \in from + 1..next : events[c] = "call" =>
            jobs[c] = "answered" \/ (Tasks /\ jobs[c] = "aborted")

\* run_eval comes to its end whatever the stream and the handlers do.
Returns == <>(main = "over")
=============================================================================

----------------------------- MODULE RunStream -----------------------------
(***************************************************************************)
(* One agent run seen by the synchronous client (client.py): the server's  *)
(* log of the run, the SSE connection over which it is replayed and        *)
(* followed, the generator _stream_events that reads it and reconnects,    *)
(* the caller that consumes the generator (_drive_run, or the user of      *)
(* stream_agent), the pool of tool threads that run _dispatch_local_tool   *)
(* and _post_tool_result, and run_agent's closing of the MCP transports.   *)
(*                                                                         *)
(* An event is its kind, as in RunEvents.                                  *)
(* A call is named by the position of its local_tool_call in the log.      *)
(***************************************************************************)
EXTENDS Integers, Sequences, FiniteSets, RunEvents

CONSTANTS
    Workers,         \* the threads of the tool pool (max_workers=4)
    MaxAttempts,     \* _TOOL_RESULT_POST_MAX_ATTEMPTS
    MaxLog,          \* bound on the length of the server's log
    HasTokenSource   \* whether the client was built with a token_source

ASSUME RunStreamAssumption ==
    /\ IsFiniteSet(Workers) /\ Workers # {}
    /\ MaxAttempts \in Nat \ {0}
    /\ MaxLog \in Nat \ {0}
    /\ HasTokenSource \in BOOLEAN

Positions == 1..MaxLog
NoCall == 0
Idle == [step |-> "idle", call |-> NoCall, attempt |-> 0]

VARIABLES
    log,        \* the server's event log of the run
    answered,   \* the calls whose result the server has taken
    pc,         \* where the generator and the caller's thread stand
    reason,     \* attempt_reason of the open under way
    sent,       \* last log position sent on the present connection
    ended,      \* the response body has come to its end
    lastSeq,    \* last_seq
    cur,        \* the event at the `yield`
    outcome,    \* what the caller has learnt of the run
    queue,      \* work submitted to the pool, not yet taken by a thread
    work,       \* what each pool thread is doing
    mcpOpen,    \* the MCP transports of the run are open
    delivered,  \* history: positions of the whole frames yielded, in order
    ran         \* history: how often the handler of each call has been run

server == <<log, answered>>
stream == <<pc, reason, sent, ended, lastSeq, cur, outcome, delivered>>
pool == <<queue, work, ran>>
vars == <<server, stream, pool, mcpOpen>>

RunEnded == log # <<>> /\ IsTerminal(log[Len(log)])
CallsIn(s) == {i \in DOMAIN s : s[i] = "call"}

TypeOK ==
    /\ log \in Seq(Kinds) /\ Len(log) <= MaxLog
    /\ answered \subseteq Positions
    /\ pc \in {"open", "read", "yield", "sleep", "drain", "close", "done"}
    /\ reason \in {"initial", "unauthorized"}
    /\ sent \in 0..MaxLog
    /\ ended \in BOOLEAN
    /\ lastSeq \in 0..MaxLog
    /\ cur \in [kind : Kinds, seq : 0..MaxLog, whole : BOOLEAN]
    /\ outcome \in {"none", "success", "failure", "unauthorized", "raised"}
    /\ queue \in Seq(Positions)
    /\ work \in [Workers -> [step : {"idle", "handle", "post"},
                             call : 0..MaxLog, attempt : 0..MaxAttempts - 1]]
    /\ mcpOpen \in BOOLEAN
    /\ delivered \in Seq(Positions)
    /\ ran \in [Positions -> Nat]

\* A run has been accepted by POST /agent-runs and nothing of it read yet.
Init ==
    /\ log = <<>>
    /\ answered = {}
    /\ pc = "open"
    /\ reason = "initial"
    /\ sent = 0
    /\ ended = FALSE
    /\ lastSeq = 0
    /\ cur = [kind |-> "delta", seq |-> 0, whole |-> FALSE]
    /\ outcome = "none"
    /\ queue = <<>>
    /\ work = [w \in Workers |-> Idle]
    /\ mcpOpen = TRUE
    /\ delivered = <<>>
    /\ ran = [c \in Positions |-> 0]

-----------------------------------------------------------------------------
(* The server (external).  It appends events until a terminal one; the     *)
(* last place of the log is kept for that one.                             *)

Emit(kind) ==
    /\ ~RunEnded
    /\ IF IsTerminal(kind) THEN Len(log) < MaxLog ELSE Len(log) < MaxLog - 1
    /\ log' = Append(log, kind)
    /\ UNCHANGED <<answered, stream, pool, mcpOpen>>

-----------------------------------------------------------------------------
(* Opening the stream.                                                     *)

\* `params["lastSeq"]` and `Last-Event-ID`: where the server starts to replay.
ResumeFromStart == 0
ResumeFrom == lastSeq

\* An exception other than httpx.HTTPError leaves the generator: the pool's
\* __exit__ comes next.
Leave(how) ==
    /\ outcome' = how
    /\ pc' = "drain"

OpenAccepted ==
    /\ pc = "open"
    /\ pc' = "read"
    /\ sent' = ResumeFrom
    /\ ended' = FALSE
    /\ UNCHANGED <<server, reason, lastSeq, cur, outcome, delivered, pool, mcpOpen>>

\* A 401 is retried once, with a fresh token, when there is a token source.
OpenUnauthorized ==
    /\ pc = "open"
    /\ IF HasTokenSource /\ reason = "initial"
       THEN reason' = "unauthorized" /\ UNCHANGED <<pc, outcome>>
       ELSE Leave("unauthorized") /\ UNCHANGED reason
    /\ UNCHANGED <<server, sent, ended, lastSeq, cur, delivered, pool, mcpOpen>>

\* Any other status than 200, or a token source that raises.
OpenRefused ==
    /\ pc = "open"
    /\ Leave("raised")
    /\ UNCHANGED <<server, reason, sent, ended, lastSeq, cur, delivered, pool, mcpOpen>>

\* httpx.HTTPError, while opening or while reading.
Blip ==
    /\ \/ pc = "open"
       \/ pc = "read" /\ ~ended
    /\ pc' = "sleep"
    /\ UNCHANGED <<server, reason, sent, ended, lastSeq, cur, outcome, delivered,
                   pool, mcpOpen>>

Wake ==
    /\ pc = "sleep"
    /\ pc' = "open"
    /\ reason' = "initial"
    /\ UNCHANGED <<server, sent, ended, lastSeq, cur, outcome, delivered, pool, mcpOpen>>

-----------------------------------------------------------------------------
(* Reading the stream.                                                     *)

NeverAdvance(seq) == lastSeq
Advance(seq) == IF seq > lastSeq THEN seq ELSE lastSeq

\* The next frame of the log, whole: it is yielded to the caller.
Receive ==
    /\ pc = "read" /\ ~ended
    /\ sent < Len(log)
    /\ sent' = sent + 1
    /\ cur' = [kind |-> log[sent'], seq |-> sent', whole |-> TRUE]
    /\ lastSeq' = Advance(sent')
    /\ delivered' = Append(delivered, sent')
    /\ pc' = "yield"
    /\ UNCHANGED <<server, reason, ended, outcome, pool, mcpOpen>>

\* The body ends inside the next frame: iter_sse parses what is left.
ReceiveCut ==
    /\ pc = "read" /\ ~ended
    /\ sent < Len(log)
    /\ \E kind \in CutKinds(log[sent + 1]) :
          cur' = [kind |-> kind, seq |-> lastSeq, whole |-> FALSE]
    /\ ended' = TRUE
    /\ pc' = "yield"
    /\ UNCHANGED <<server, reason, sent, lastSeq, outcome, delivered, pool, mcpOpen>>

\* The body ends without a terminal event: the loop opens the stream again.
CleanEnd ==
    /\ pc = "read"
    /\ pc' = "open"
    /\ reason' = "initial"
    /\ UNCHANGED <<server, sent, ended, lastSeq, cur, outcome, delivered, pool, mcpOpen>>

-----------------------------------------------------------------------------
(* The caller's side of the `yield`.                                       *)

\* _dispatch_local_tool returns at once when there is no toolUseId.
SubmittedAny(ev) == IF ev.whole THEN Append(queue, ev.seq) ELSE queue
SubmittedTwice(ev) == IF ev.kind = "call" /\ ev.whole THEN queue \o <<ev.seq, ev.seq>> ELSE queue
Submitted(ev) == IF ev.kind = "call" /\ ev.whole THEN Append(queue, ev.seq) ELSE queue

Reported(ev) == IF IsTerminal(ev.kind) THEN ev.kind ELSE outcome

\* The caller takes the event and asks for the next one.  A terminal event
\* that is not a success makes _drive_run raise instead; the generator ends
\* there either way.
Resume ==
    /\ pc = "yield"
    /\ queue' = Submitted(cur)
    /\ outcome' = Reported(cur)
    /\ pc' = IF IsTerminal(cur.kind) THEN "drain" ELSE "read"
    /\ UNCHANGED <<server, reason, sent, ended, lastSeq, cur, delivered, work, ran, mcpOpen>>

\* A callback raises, or the user closes the generator: GeneratorExit at the
\* `yield`, so a call just yielded is not submitted.
Abandon ==
    /\ pc = "yield"
    /\ Leave("raised")
    /\ UNCHANGED <<server, reason, sent, ended, lastSeq, cur, delivered, pool, mcpOpen>>

-----------------------------------------------------------------------------
(* The pool.                                                               *)

Take(w) ==
    /\ work[w].step = "idle"
    /\ queue # <<>>
    /\ work' = [work EXCEPT ![w] = [step |-> "handle", call |-> Head(queue), attempt |-> 0]]
    /\ queue' = Tail(queue)
    /\ ran' = [ran EXCEPT ![Head(queue)] = @ + 1]
    /\ UNCHANGED <<server, stream, mcpOpen>>

\* The handler returns, or raises: its result, or its error, is to be posted.
Handled(w) ==
    /\ work[w].step = "handle"
    /\ work' = [work EXCEPT ![w].step = "post"]
    /\ UNCHANGED <<server, stream, queue, ran, mcpOpen>>

\* 200: the server takes the result of a call it is waiting for.
PostAccepted(w) ==
    /\ work[w].step = "post"
    /\ work[w].call \notin answered
    /\ ~RunEnded
    /\ answered' = answered \cup {work[w].call}
    /\ work' = [work EXCEPT ![w] = Idle]
    /\ UNCHANGED <<log, stream, queue, ran, mcpOpen>>

\* 404, 409, 401 and every other status that is not retried; also the 200 by
\* which a cancelled run ignores the result.
PostRefused(w) ==
    /\ work[w].step = "post"
    /\ work' = [work EXCEPT ![w] = Idle]
    /\ UNCHANGED <<server, stream, queue, ran, mcpOpen>>

AttemptsLeftOneMore(attempt) == attempt < MaxAttempts
AttemptsLeft(attempt) == attempt < MaxAttempts - 1

\* A network error, 429 or 5xx.  After a lost response the server may have
\* taken the result all the same.
PostFailed(w) ==
    /\ work[w].step = "post"
    /\ \/ UNCHANGED answered
       \/ ~RunEnded /\ answered' = answered \cup {work[w].call}
    /\ work' = IF AttemptsLeft(work[w].attempt)
               THEN [work EXCEPT ![w].attempt = @ + 1]
               ELSE [work EXCEPT ![w] = Idle]
    /\ UNCHANGED <<log, stream, queue, ran, mcpOpen>>

\* The token source raises what is no MantyxError: the `except` around handler
\* and post answers the call, although it succeeded, with an error (this post
\* and its retries are one step); if the source raises once more, nothing does.
PostRaises(w) ==
    /\ HasTokenSource
    /\ work[w].step = "post"
    /\ \/ UNCHANGED answered
       \/ ~RunEnded /\ answered' = answered \cup {work[w].call}
    /\ work' = [work EXCEPT ![w] = Idle]
    /\ UNCHANGED <<log, stream, queue, ran, mcpOpen>>

-----------------------------------------------------------------------------
(* The end of the run.                                                     *)

QuietWhenQueueEmpty == queue = <<>>
QuietAtOnce == TRUE
NeverQuiet == FALSE
PoolQuiet == queue = <<>> /\ \A w \in Workers : work[w] = Idle

\* ThreadPoolExecutor.__exit__ waits for everything that was submitted.
Drain ==
    /\ pc = "drain"
    /\ PoolQuiet
    /\ pc' = "close"
    /\ UNCHANGED <<server, reason, sent, ended, lastSeq, cur, outcome, delivered,
                   pool, mcpOpen>>

\* sync_close_mcp_refs in the `finally` of run_agent and of stream_agent.
CloseMcp ==
    /\ pc = "close"
    /\ mcpOpen' = FALSE
    /\ pc' = "done"
    /\ UNCHANGED <<server, reason, sent, ended, lastSeq, cur, outcome, delivered, pool>>

Post(w) == PostAccepted(w) \/ PostRefused(w) \/ PostFailed(w) \/ PostRaises(w)
Work(w) == Take(w) \/ Handled(w) \/ Post(w)
Finished == pc = "done" /\ UNCHANGED vars

Next ==
    \/ \E kind \in Kinds : Emit(kind)
    \/ OpenAccepted \/ OpenUnauthorized \/ OpenRefused \/ Blip \/ Wake
    \/ Receive \/ ReceiveCut \/ CleanEnd
    \/ Resume \/ Abandon
    \/ \E w \in Workers : Work(w)
    \/ Drain \/ CloseMcp
    \/ Finished

Spec == Init /\ [][Next]_vars

\* The client's threads run and its caller keeps iterating; handlers return;
\* the server ends the run; a connection that is tried again and again is
\* accepted in the end and carries a frame in the end.
Fairness ==
    /\ WF_vars(\E kind \in Kinds : IsTerminal(kind) /\ Emit(kind))
    /\ SF_vars(OpenAccepted) /\ WF_vars(Wake)
    /\ SF_vars(Receive) /\ WF_vars(ended /\ CleanEnd)
    /\ WF_vars(Resume \/ Abandon)
    /\ \A w \in Workers :
          /\ WF_vars(Take(w)) /\ WF_vars(Handled(w)) /\ WF_vars(Post(w))
    /\ WF_vars(Drain) /\ WF_vars(CloseMcp)

FairSpec == Spec /\ Fairness

-----------------------------------------------------------------------------
(* Properties.                                                             *)

InPool(c) == \/ \E i \in DOMAIN queue : queue[i] = c
             \/ \E w \in Workers : work[w].step # "idle" /\ work[w].call = c

\* Whatever the connection does, the whole frames yielded are the log from
\* its start, in order, none skipped and none repeated, and last_seq is the
\* last of them.
ExactDelivery ==
    /\ delivered = [i \in 1..lastSeq |-> i]
    /\ lastSeq <= Len(log)

\* The server holds a result only for a call it made and whose handler ran: a
\* frame cut short or a retry never answers another call.
AnswersMatchCalls == \A c \in answered : c \in CallsIn(log) /\ ran[c] = 1

\* No call is pending or running once the run's MCP transports are closed:
\* the pool is left before the `finally` of run_agent.
TransportsOutliveCalls == ~mcpOpen => \A c \in Positions : ~InPool(c)

\* When the run has returned, every call it was given has been run, but for
\* one at whose `yield` the caller gave up.
CallsServed ==
    pc = "done" => \A c \in CallsIn(SubSeq(log, 1, lastSeq)) :
                      ran[c] = 1 \/ (outcome = "raised" /\ c = lastSeq)

\* A call submitted to the pool is run and its result posted, or given up.
SubmittedIsServed ==
    \A c \in Positions : InPool(c) ~> (ran[c] = 1 /\ ~InPool(c))

\* The run returns to its caller.
Terminates == <>(pc = "done")

\* The run keeps the promise of RunContract.
Contract == INSTANCE RunContract WITH
    seen <- lastSeq,
    done <- {c \in Positions : ran[c] > 0},
    told <- IF pc = "done" THEN outcome ELSE "none",
    LateRuns <- FALSE

ImplementsContract == Contract!ContractSpec
=============================================================================

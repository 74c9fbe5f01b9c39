--------------------------- MODULE AsyncRunStream ---------------------------
(***************************************************************************)
(* One agent run seen by the asynchronous client (async_client.py).  The   *)
(* reading, reconnecting and posting code is that of the synchronous       *)
(* client line for line, so its actions are those of RunStream.  What      *)
(* differs: every call gets an asyncio task of its own, which the module   *)
(* has with as many Workers as the log has positions; an async generator   *)
(* whose consumer raises is not closed there and then but left suspended   *)
(* at its `yield`, for the event loop to finalise some time later, so the  *)
(* consumer goes on to close the MCP transports at once; and the task that *)
(* consumes the run can be cancelled at any await.                         *)
(***************************************************************************)
EXTENDS RunStream

\* The consumer raises at the `yield`: a callback did, the task was cancelled
\* in one, or _drive_run raises the MantyxRunError of a failed run.
GivesUp ==
    /\ pc = "yield"
    /\ \/ outcome' = "raised"
       \/ cur.kind = "failure" /\ outcome' = "failure"
    /\ pc' = "close"
    /\ UNCHANGED <<server, reason, sent, ended, lastSeq, cur, delivered, pool, mcpOpen>>

\* The consumer's task is cancelled inside the generator, whose `finally`
\* gathers the tasks of the calls.
CancelInStream ==
    /\ pc \in {"open", "read", "sleep"}
    /\ Leave("raised")
    /\ UNCHANGED <<server, reason, sent, ended, lastSeq, cur, delivered, pool, mcpOpen>>

\* Cancelled while it gathers: asyncio.gather (external) cancels the tasks and
\* goes on waiting for them, and raises when the last of them is over.  A task
\* that has not begun never runs; one that is posting is over, and the server
\* may have taken its answer; a handler may end, or go on all the same.
CancelTasks ==
    /\ queue' = <<>>
    /\ \E deaf \in SUBSET {w \in Workers : work[w].step = "handle"} :
          work' = [w \in Workers |-> IF w \in deaf THEN work[w] ELSE Idle]
    /\ \E taken \in SUBSET {work[w].call : w \in {v \in Workers : work[v].step = "post"}} :
          answered' = IF RunEnded THEN answered ELSE answered \cup taken

SwallowsCancel ==
    /\ pc = "drain" /\ ~PoolQuiet
    /\ CancelTasks
    /\ UNCHANGED <<log, stream, ran, mcpOpen>>

CancelInGather ==
    /\ pc = "drain" /\ ~PoolQuiet
    /\ CancelTasks
    /\ outcome' = "raised"
    /\ UNCHANGED <<log, pc, reason, sent, ended, lastSeq, cur, delivered, ran, mcpOpen>>

\* The actions of RunStream, by the coroutine that takes them.
Generator ==
    \/ OpenAccepted \/ OpenUnauthorized \/ OpenRefused \/ Blip \/ Wake
    \/ Receive \/ ReceiveCut \/ CleanEnd
    \/ Drain \/ CancelInStream \/ CancelInGather
Consumer == Resume \/ Abandon \/ GivesUp
Dispatch(w) == Take(w) \/ Handled(w)

AsyncNext ==
    \/ \E kind \in Kinds : Emit(kind)
    \/ Generator \/ Consumer \/ CloseMcp
    \/ \E w \in Workers : Dispatch(w) \/ Post(w)
    \/ Finished

AsyncSpec == Init /\ [][AsyncNext]_vars

-----------------------------------------------------------------------------
(* Properties.                                                             *)

\* A run whose consumer has not given it up returns only when every call it
\* was given has been run and its result posted.
SuccessWaitsForCalls ==
    outcome = "success" /\ pc \in {"close", "done"} =>
        \A c \in CallsIn(log) : ran[c] = 1 /\ ~InPool(c)

\* The run keeps the promise of RunContract, but that a task may still run
\* its handler after a run that did not succeed has returned.
AsyncContract == INSTANCE RunContract WITH
    seen <- lastSeq,
    done <- {c \in Positions : ran[c] > 0},
    told <- IF pc = "done" THEN outcome ELSE "none",
    LateRuns <- TRUE

ImplementsAsyncContract == AsyncContract!ContractSpec

\* "Best-effort wait for in-flight tool dispatches so their results are POSTed
\* before the iterator returns" (async_client.py, _stream_events): when
\* run_agent has reported a failed run, no dispatch is in flight.
ResultsBeforeReturn ==
    pc = "done" /\ outcome = "failure" => \A c \in Positions : ~InPool(c)
=============================================================================

# Verification of the MANTYX Python SDK

TLA+ models of the Python SDK of MANTYX (`src/python/src/mantyx`), checked with TLC on small instances, and theorems about
all of them proved with TLAPS: every safety property the passing runs check, for every instance. The SDK lets a program run agents on a MANTYX server: it submits a run,
follows the run's event stream over Server-Sent Events, runs the tools that live in the program when the server calls them,
posts their results, and returns the outcome. It comes in a synchronous client (threads) and an asynchronous one (asyncio),
which share most of their text and differ where it is hard: in what can happen between two steps.

The Go and TypeScript SDKs in the same repository implement the same protocol a second and a third time. They are not
modelled; where the modules are faithful, they are faithful to the Python code.

## 1. Inventory

| Component | Source | State it keeps | Operations | Module |
|---|---|---|---|---|
| Run stream, synchronous | `client.py` `_stream_events`, `_drive_run`, `_dispatch_local_tool`, `_post_tool_result`, `run_agent` | `last_seq`, the connection, the pool of 4 threads, the outcome | open, refresh after a 401, read, yield, dispatch, POST with retries, reconnect, leave the pool, close MCP | `RunStream`, `RunContract`, `RunStreamProofs` |
| Run stream, asynchronous | `async_client.py`, the same names | the same, with one task per call | the same, and giving up a generator, cancelling a task, `gather` | `AsyncRunStream`, `RunStreamProofs` |
| SSE parser | `sse.py`, `_to_run_event` | `buffer` | feed, split, parse the rest | `SseParser`, `RunEvents`, `SseParserProofs` |
| Token cache, synchronous | `oauth.py` `_SyncTokenCache`, `client.py` `_request_with_retry` | `_token`, `_inflight`, `_lock` | look, lock, lead or follow, mint, store, resolve, clear, retry after a 401 | `TokenCache`, `TokenCacheProofs` |
| Token cache, asynchronous | `oauth.py` `_AsyncTokenCache`, `async_client.py` `_request_with_retry` | `_token`, `_inflight` | the same between awaits, and cancellation | `AsyncTokenCache`, `AsyncTokenCacheProofs` |
| Local MCP references | `_local_resolver.py`, and every call of the clients that takes tools | `_resolved` of each reference, the transports | resolve, use, close | `McpRefs` |
| Synchronous MCP portal | `_SyncMcpPortal`, `MantyxClient.close` | `_portal`, `_stack`, the event loop in a thread behind them | start on first use, call, close | `McpPortal`, `McpPortalProofs` |
| Sessions | `AgentSession`, `AsyncAgentSession` | session id, handlers, tools | create, resume, send, stream, end | `McpRefs` and `McpPortal`, for the references they hold; `A2ATools`, in an A2A server; `Requests`, for the body of a message |
| Local A2A peers | `define_local_a2a`, `*_call_a2a` | the agent card, fetched once | resolve, call | `LocalTools`, for their declaration and dispatch |
| A2A executor | `a2a_server.py` `MantyxAgentExecutor` | `_sessions` (an LRU map), `_cancelled`, the references its sessions share | `execute`, `cancel`, `aclose`, find, create and evict a session | `A2AExecutor`, `A2ATools`, `A2AProofs` |
| A2A server application | `serve_agent_over_a2a`, `build_agent_card` | none of its own | start, stop | not modelled |
| Eval runs | `run_eval`, `create_eval_run`, `stream_eval_run` | event thread or task beside a poll loop | submit, poll, dispatch, join or cancel | `EvalRun`, `EvalRunProofs`; `Requests`, for their tools |
| Tool declarations and handlers | `tools.py` constructors, `serialize_tool_refs`, `collect_local_handlers`; `_dispatch_local_tool` | three tables of handlers | declare, serialise, look up, call | `LocalTools`, checked in `Requests` and `RequestsProofs`; `RunStream`, for the call |
| Normalisers, serialisers | `tools.py`, `client.py` `_serialize_*` | none | validate options, make request bodies | `Options`, `Requests`, `RequestsProofs` |
| Response parsers, types, errors | `client.py`, `types.py`, `errors.py` | none | convert JSON | not modelled |

How they interact. A run needs a token for every request (the token cache), the MCP transports of its references while its
tools run (`McpRefs`), which the synchronous client reaches through a portal that goes with the client (`McpPortal`), and the parser for its stream (`SseParser`). An A2A turn is a run, or a message to a
session, and all sessions of an A2A server have one list of references (`A2ATools`). The
tools of a run execute in other threads or tasks than its consumer, and the token cache and the references are shared by all
threads or tasks of the program: no component has its state to itself.

What makes each correct. A run: every event is seen once and in order, every call is run at most once and answered before the
caller is told, and "success" means the run succeeded. The parser: what it yields does not depend on how the transport cuts the
body. A token cache: one refresh at a time, nobody stranded, no older token over a newer one. References: a transport is there
while somebody uses it and gone afterwards. An A2A turn: one final status, its context's session, no session lost. An eval
run: it ends, and closes nothing under a call it still waits for. A request: it says what the caller said, within the limits
of the protocol.

What is hard, and tested little or not at all in `src/python/tests`, where the mock server sends a whole stream in one
piece and answers every request:

* the connection drops, ends early, or ends inside a frame; every reconnect replays events;
* tool calls run beside the stream that brings them and beside the end of the run;
* responses to POSTs are lost and the POSTs retried;
* a refresh of the token is shared by threads that can be preempted, and tasks that can be cancelled, at every step;
* transports hang on objects that the caller's program shares between calls, and every await lets another call in;
* the portal is started and stopped without a lock, by threads that may be using it;
* A2A turns overlap, are cancelled, are aborted, and share a bounded map;
* an eval run is polled and streamed at once, and each of the two can end, fail or hang before the other;
* options have limits on both sides, two spellings, and types of which Python's booleans are a subtype.

`PROJECT.json` lists these hazards one by one, at their lines, with the properties that cover them.

## 2. The modules

Every module has one action per operation or step of the code. Two steps are one action only if nothing else can come between
them: for threads that is a block under a lock or a single assignment, for tasks the code between two awaits. Histories
(marked so where they are declared) record what a property needs and are read by no guard.

**`RunEvents`**: the kinds of events, which of them end a run, and what a frame cut short is taken for.

**`RunStream`**: one run of the synchronous client. The server is its event log (`log`, which only `Emit` extends) and the
results it has taken (`answered`). The generator and its consumer share a thread, so one `pc` does for both: `open`
(`OpenAccepted`, `OpenUnauthorized`, `OpenRefused`), `read` (`Receive`, `ReceiveCut`, `CleanEnd`), `yield` (`Resume`,
`Abandon`), `sleep` (the 0.5 s after a blip), `drain` (leaving the pool's `with` block), `close` (`sync_close_mcp_refs`).
Each pool thread takes a call, runs its handler, and posts the result up to `MaxAttempts` times; a POST may be taken by the
server although its response is lost, and a token source that raises ends the posting in the handler's own `except`
(`PostRaises`). A call is named by its place in the log.

**`RunContract`** is the abstract specification: the events are seen in order, each once; a handler runs at most once and only
after its call was seen; whoever is told "success" has seen the whole log and had all its calls run. `RunStream` implements
it under the mapping given by `Contract` at its end (`seen` is `lastSeq`, `done` the calls whose handler has run, `told` the
outcome once the run has returned), and the run `run_stream` checks that. Its parameter `LateRuns` is what the two clients differ in:
the synchronous one runs no handler after it has returned, the asynchronous one may, if what it returned was no success.

**`AsyncRunStream`** extends `RunStream`: the reading, reconnecting and posting code is the same line by line. It adds what
asyncio adds. A call gets a task of its own (as many `Workers` as a log has positions, so none waits). A consumer that raises
at the `yield` does not close the generator but leaves it to the event loop (`GivesUp`); a task can be cancelled in the
generator (`CancelInStream`) and again in its `gather` (`CancelInGather`), which passes the cancellation on to the tasks and still waits
for them; that it waits is asyncio's doing and taken as given, what becomes of the run is checked. It implements `RunContract` with `LateRuns` (`AsyncContract`). `Generator`, `Consumer`, `Dispatch` and `Post` say
which coroutine of `async_client.py` takes which action.

**`SseParser`**: `iter_sse` as a loop that feeds, searches and splits, `_parse_block` and `_to_run_event` as operators. A body
is a sequence of symbols: a byte the parser looks at, or a run of bytes it makes no difference to cut, with field names, event
names and data of several symbols each. The number of a frame is one symbol, `Digits[k]`, unlike the others and unlike the bytes the
parser looks at (`Marks`). Bodies are what the server sends: frames of up to `MaxFrames` events in either newline
convention, with or without heartbeats (`Heartbeat`), with or without event lines (the protocol says that middleware may strip them). A
heartbeat and the lines of an event (`Block`) each end in an empty line, so the parser takes each for a block. The
transport chooses the chunks and the end. The module is what justifies `Receive` and `ReceiveCut` in `RunStream`.

**`TokenCache`**: `_SyncTokenCache` with its callers. `look` is the unlocked look; `recheck`, `join`, `claim` are the block
under the lock; `mint`, `store`, `resolve`, `clear` the leader's way, `fail`, `clearfailed` its way after an exception;
`wait` is the follower's; `send` has the token and waits for an answer, which may be the 401 that is retried once. Flights
are numbered and a token is the number of its flight, so "older" is "less". The world is `expiring` (what `_is_expiring`
sees) and `floor` (the server takes tokens from this one on).

**`AsyncTokenCache`**: the same between awaits, with tasks cancelled while they mint (`CancelLeader`) or wait
(`CancelFollower`). Awaiting a future without a shield makes a cancelled task cancel the future, which is what asyncio does.

**`McpRefs`**: the life of the transports behind `define_local_mcp` references. A user is a thread or task (`client` says
which) that makes calls with its tools list; a call resolves, submits, uses and closes. The calls differ in what they close when
they fail, and `Refused`, `Interrupted`, `OpenFailed` and `Drop` follow each in that: `run_agent` closes in a `finally` that begins after
resolving, `stream_agent` only when the answer has no run id, `create_session` after an `Exception`, which a cancellation is not,
`create_eval_run` never. A session has turns (`TurnBegins`), which are driven to their end (`use`) or return after each event
(`streaming`), and is ended by `EndSession`, also while a stream of its own is suspended. A run that is given up by an
asynchronous consumer leaves its dispatches running (`GiveUp`), and a cancelled task stops closing where it is
(`CloseInterrupted`). `run_eval` resolves and closes as `run_agent` does, and what differs, the consumer beside it, is in `EvalRun`.

**`McpPortal`** extends it with what the client adds. `_ensure_started` is one action per read or store of an attribute (`Look`,
`Create`, `Enter`, `Started`, `CallOnPortal`), because nothing locks it; `CloseClient` and `ClientClosed` are
`_SyncMcpPortal.close`, of which the second waits for the coroutines the portal was given, as an anyio portal does (`Busy`). A
transport lives on the portal it was opened on (`home`), a `tools/call` is sent to that one. `portals` has every portal ever made,
also those nobody refers to any more.

**`A2AExecutor`**: the turns of an A2A server, one action for the code between two awaits: `Created` and `Ended` therefore go on into
`_evict_if_needed` (`EvictOrSend`). `sessions` is the `OrderedDict`, least recently used first; storing under a key it has keeps the
key's place, as in Python. `scenario`, chosen once, says which turns arrive, for which of them the server already has a task, how large
the map is, and what the world does: overlapping turns of one context, aborted asyncio tasks, `aclose()`. A turn ends as "done", with its
last status published, or as "cut", when its task is cancelled outside the `try` of `execute()`, before it or at the last `enqueue_event`.

**`A2ATools`** extends it for an agent with local MCP tools: `_spec_to_session_kwargs` hands the same objects to every
`create_session`, also those of `run_agent` for a stateless turn. The references are followed one by one (`NumTools` of them), since they
are opened and closed one by one with an await each, and turns overlap in these loops: `attached` is which of them have `_resolved` set,
`stage` and `ref` where each turn is in `async_resolve_local_refs` or `async_close_mcp_refs`, `endRef` where `aclose()` is. What closes is
part of the action that the code closes in: the `except` of `create_session` (after a failed request, not after a failed open, which comes
before the `try`), and the `finally` of `end()` and `run_agent`, also when the task is cancelled. A close loop that is cancelled stops where
it is. `left` is what turns have left attached so. All else is done by the actions of `A2AExecutor`.

**`EvalRun`**: `run_eval` of both clients, told apart by `flavour`. `main` is the poll loop with the closing after it, `consumer`
the thread or task that reads the event stream, `jobs` the calls it was sent. Threads are joined for thirty seconds after the
run has ended (`Joined`, `JoinTimedOut`) and not at all after a failed poll; tasks are cancelled and awaited in every case
(`Leave`, `CancelDelivered`). Every call is to a tool behind an MCP transport, because those are the ones `run_eval` closes;
a call that starts without a transport is answered with an error (`refused`), one under way is `cut`. The server's events are
`events`; where a stream begins in them the server decides.

**`Options`**: the normalisers of `tools.py` as operators from what the caller passed to what is sent, or `Refused`. Integers are
integers, so that limits are limits; strings and JSON values are model values, told apart only by whether they are right for
their place.

**`LocalTools`**: a tool of the caller's from its declaration to its call, as operators of a list of tools: which ones the constructors
refuse (`Definable`), the entry each is sent as (`Entry`, `WireName`), the tables by which it is found again (`Handler`: one per kind,
the last of a name wins) and what `_dispatch_local_tool` makes of a call (`Dispatched`, `UpstreamName`).

**`Requests`**: one call per behaviour. `RunAgent` makes the body of `POST /agent-runs` from the agent, the turn (prompt, messages,
attachments) and one option, `SendMessage` that of a message to a session; `CreateEvalRun` merges the tools of an inline agent
with those beside it, as `create_eval_run` and `run_eval` do, coercing once or twice; `CallTool` sends a list of tools to the model and
follows the call of each name it is offered back to a tool.

## 3. The runs

| Run | Instance | Properties | What it shows |
|---|---|---|---|
| `run_stream` | 2 pool threads, log of 4 events, 2 POST attempts | `ExactDelivery`, `AnswersMatchCalls`, `TransportsOutliveCalls`, `CallsServed`, `ImplementsContract`, `SubmittedIsServed`, `Terminates` | the run keeps its contract over any connection, and returns |
| `async_run_stream` | 3 tasks, log of 4 | `SuccessWaitsForCalls`, `ImplementsAsyncContract` | given up or cancelled at any await, the run keeps its contract; a success waits for its calls |
| `sse_parser` | 3 frames, all chunkings, all ends | `FramesYieldedOnArrival`, `CutFrameIsKnown` | parsing does not depend on chunks; a cut body yields only what `RunStream` allows |
| `token_cache` | 2 threads, 3 requests | `SingleFlight`, `NoOrphanFuture`, `GotIsStored`, `TokenOnlyNewer`, `CallsReturn` | one refresh at a time, nobody stranded, no older token stored |
| `async_token_cache` | 3 tasks, 3 requests, 1 cancellation | `SingleFlight`, `RetryUsesNewToken`, `CallsReturn` | the same between awaits; a retry never sends the rejected token |
| `mcp_refs` | 2 users with lists of 2 and 1 references of their own, 3 opens, 2 portals, 1 closing of the client, threads and tasks | `TransportsLastUntilClose`, `ToolsRunOnOpenTransports`, `ClosingIsThorough`, `NoDoubleOpen`, `PortalIsOwned` | transports are there while needed and gone after every call that reaches its close loop; the portal that runs is the one `close()` stops |
| `a2a_turns` | four scenarios of 3 or 4 turns, maps of 1 or 2 | `OneFinalStatus`, `MapHoldsLive`, `OneConversation`, `LeastRecentFirst`, `NoSessionLost`, `ToolsEndWithSessions` | statuses and the map stay sound; without a session no MCP reference is attached but those a turn has left behind |
| `eval_run` | 4 events, a pool of 1, both clients | `ConsumerEndsFirst`, `CallsCutOnlyWhenGivenUp`, `ReceivedCallsServed`, `Returns` | what `run_eval` leaves behind, and when; it always ends |
| `requests` | every option at, inside and outside each limit; turns of up to 2 messages; 2 + 2 tools of an eval run; every pair of local tools of all kinds whose names share a part | `SentIsTaken`, `BodyNamesTheAgent`, `EveryToolDeclared`, `DeclaredToolIsCalled` | what is sent is what the protocol takes and the caller passed; what is called is what was declared |

`run_stream` and `token_cache` check their modules' `TypeOK` too; in the other modules `TypeOK` documents the variables. Three
runs end in a violation. Each checks one statement that a comment or document makes and the code does not keep:

| Run | Statement | What happens |
|---|---|---|
| `async_stragglers` | `ResultsBeforeReturn` | `_drive_run` raises for a failed run; the suspended generator's `finally` has not run, so the transports are closed and the call returns with dispatches in flight |
| `async_wedge` | `RefreshStaysPossible` | a follower is cancelled and with it the shared future; the leader's `set_result` raises, `_inflight` is never cleared, and every later refresh fails |
| `a2a_tools` | `SessionTakesTurns` | a turn of a second context arrives, the session of the first is evicted and ended, which closes and detaches the references all sessions share; the turn that evicted cannot build its own first message, nor can any other context |

Met while modelling, present in the models as steps, without a run of their own:

* `sse.py:79`: what is left in the buffer when the body ends is parsed as a frame. A successful `result` cut in its data line
  becomes a `result` without data, and `_drive_run` raises for a run that succeeded (`ReceiveCut`, `CutKinds`).
* `a2a_server.py:376`: a turn of another context evicts and ends the session a turn is about to send to (`EvictOrSend`). What one
  eviction, one failed `create_session` or one aborted `end()` does to the tools of everyone else is the run `a2a_tools`.
* `client.py:1244`: a token source that raises (and not a `MantyxError`) while a result is posted makes the dispatch post an error for a call
  that succeeded (`PostRaises`).
* `client.py:1124` calls mid-stream 401s network blips; after one refresh, a 401 on a reconnect ends the run (`OpenRefused`).
* `oauth.py:402`: between the completion of the future and the clearing of `_inflight`, a thread that retries after a 401 joins
  the landed flight and is handed the token that was just rejected (`RetryUsesNewToken` of `AsyncTokenCache`, stated of
  `TokenCache`, fails in a dozen steps). The asynchronous cache has no such gap.
* `oauth.py:459`: cancelling a leader cancels every follower's request.
* `_local_resolver.py:342`: overlapping calls that share an unresolved reference open it twice and lose the first transport.
* `_local_resolver.py:450`: a call that shares references with a session closes and detaches the session's (`Detach`); the session's
  next message raises in `serialize_tool_refs`, although `client.py:897` says that it keeps them for its lifetime. The runs of
  `McpRefs` therefore give every user references of its own.
* `client.py:548`: when the second reference of a list fails to open, the first stays open until a later call closes it. The same holds
  of a `stream_agent` that is refused or dropped before its first event, and of a `create_session` that is cancelled
  (`async_client.py:570`). In an A2A server the references so left serve, and are closed with, the next session; if none comes they stay
  (`OpenFails`, `LeavesBehind`).
* `client.py:1269`: a result whose POST was taken but not answered is posted again (`PostFailed`); the server has to ignore the second.
* `client.py:1566`: `AgentSession.end()`, called while a `stream()` of the session is suspended, closes the transports under its calls.
* `_local_resolver.py:384`: two threads that find no portal start two. The second store wins and `close()` stops only that one; one thread may
  also enter the other's context manager, and raise (`Enter`).
* `_local_resolver.py:410`: `close()` leaves the references of a session attached to the portal it stopped. Their calls are answered with an error
  from then on; they are not opened again, because `_resolved` is set. A new call with other references starts a new portal, on a
  client that was closed, and needs another `close()`.
* `a2a_server.py:367`: overlapping first turns of one context make two sessions and split the conversation.
* `a2a_server.py:325` says the running `execute()` publishes "canceled"; it looks at the mark once, before the run.
* `client.py:783`: the event stream of an eval run is opened once and has no cursor. When it drops, later tool calls are never
  served; `run_eval` polls on.
* `async_client.py:527`: awaiting the consumer raises the httpx error it ended with, so a run that succeeded can be reported by
  an exception (`streamfault`); a cancellation that arrives in that await is suppressed together with the consumer's own.
* `client.py:874`: after a failed poll the thread is abandoned, and the transports are closed under the calls it runs.
* `client.py:1966`: tools given as objects in an inline eval agent are declared twice, by `run_eval` three times, under one name;
  `docs/wire-protocol.md:400` says that equal names collide.
* `client.py:1217`: a tool whose own name begins with its server's name and an underscore is offered under that name, since
  `_prefixed_mcp_tool_name` (`tools.py:201`) does not prefix twice, and is called without it: `fs_read` of the server `fs` is
  called as `read`. `DeclaredToolIsCalled` leaves these names out.
* `tools.py:747`: of two local MCP servers of one name the second takes the calls of both, also when their catalogs have no
  name in common and the model was offered both. `DeclaredToolIsCalled` leaves them out too.
* `_local_resolver.py:92`: an A2A peer whose task has failed, or whose answer has no text, makes a successful result, the text of its
  status or the answer as JSON.
* `_local_resolver.py:142` looks for `url` at the top of an agent card; `build_agent_card` (`a2a_server.py:197`) sets only that of an entry of
  `supported_interfaces`. For such a card messages go to the URL the card was fetched from.
* `tools.py:1041`: `supervisor=True` is refused, which `docs/agent-runs-protocol.md:1024` takes for "platform defaults"; a
  `modelId` in it is dropped.
* `tools.py:889`: `$` matches before a final newline, so a schema name that ends in one is sent.
* `tools.py:942`: the two thresholds are compared only if both are given: a hard cutoff of 3 alone passes, although the other
  one's default is 3 (`docs/agent-runs-protocol.md:901`).

### Bounds, and why they are enough

* A log of four events holds a call, an event between, a second call and the terminal event, or three calls and the end: a
  disconnect can fall before, between and after, and the pool of two has one call waiting. Two attempts have a first and a last one.
  The bound `MaxLog` stops only the server.
* Two threads make every role of the token cache appear together: a leader in each of its steps, and a thread that looks,
  waits for the lock, follows, or leads the next flight. What holds of them is proved for all numbers of threads (section 4).
  Three requests let a token be minted, rejected and minted again. In the asynchronous cache three tasks are a leader and two
  followers of which one is cancelled.
* Two users with two and one references of their own: one makes all calls of all kinds, the other runs, until three transports have been
  opened. That is a failed call, a call that inherits what it left, and a call of the other user between them. Two portals are what a race
  makes, and what a client uses before and after it is closed.
* The A2A scenarios: three overlapping turns of two contexts over a map of one, so that every new context evicts; four turns of
  three contexts over a map of two, so that the order of use decides who goes; three turns with `aclose()` at any time; three
  stateless turns, each with two references, so that a loop can stop between them. `MaxStatuses` lets a turn publish a delta where its last status could go wrong. `OneConversation` and `LeastRecentFirst` are stated of the scenarios without overlap and `NoSessionLost` of
  those without overlap and abortion, because the code does lose sessions in the others (see above).
* Three frames are a first, a middle and a last one. Two messages are one that names the agent and one that does not (`MaxMessages`).
* Four events of an eval run hold two calls, something between them and the end; with a pool of one, one call waits while another
  runs. The code's pool of four differs in how many wait.
* Each option is varied alone, because no normaliser looks at another option. `MaxEntries` is two instead of 32, so that a
  budget can have one entry too many. Two tools are enough for a name to be taken for another tool's, of the same kind or not; their names
  are of one or two parts out of two, so that one can be the beginning of another.

No run uses symmetry with a liveness property. Deadlock is checked in all of them: the modules stop only where the code has
returned (`Finished`, `AllDone`, `Done`).

### Fairness

* `RunStream`: the client's threads run (weak fairness of the consumer, the pool threads, `Wake`, `Drain`, `CloseMcp`); the
  server ends every run, as it does at the latest by its own time limit; handlers return. Opening and receiving are
  strongly fair: a client that reconnects for ever is let in and is sent something in the end. No fairness is assumed of
  success: POSTs may all fail, and the consumer may raise.
* `TokenCache`: threads run; the operating system's lock is not fair, but a thread that finds it free again and again gets it in the
  end (strong fairness of the three steps that acquire it). `mint()` returns or raises; the server answers.
* `AsyncTokenCache`: the event loop runs every ready task (weak fairness). Cancellation is never assumed.
* `EvalRun`: the caller's thread runs and its polls are answered or fail, the event loop runs ready tasks, and the server ends the run.
  Nothing is assumed of the event stream, of handlers or of the consumer's pool: that `run_eval` ends in spite of them is the
  point of the join's timeout and of the cancellation.

## 4. The proofs

Eight modules hold theorems, each beside the components it is about. Their constants are arbitrary, within the assumption each
component names, which TLC evaluates in the component's run:

| Assumption | What it asks |
|---|---|
| `TokenCacheAssumption`, `AsyncTokenCacheAssumption`, `RunStreamAssumption`, `EvalRunAssumption` | bounds are numbers, positive where the code's are; the pool of `RunStream` is finite, and the threads of `TokenCache` may be infinitely many |
| `A2AExecutorAssumption` | every task has a context, the tasks are finitely many, and the scenarios are of the kind declared, with any `max_sessions` |
| `A2AToolsAssumption` | the agent has some number of references, also none |
| `McpRefsAssumption`, `McpPortalAssumption` | every user has a list of references and a set of calls; bounds are numbers |
| `SseParserAssumption` | a body has room for a frame; the numbers of frames as they are written differ from each other and from the bytes the parser looks at |
| `OptionsAssumption` | the model values for "absent", "refused" and the like differ from each other and from what stands for a number |
| `RequestsAssumption` | the inputs are of the kinds a caller can pass: numbers of any size where the code looks at a number, and values that are no number where it looks at the type |

In each, an inductive invariant is established with one lemma per action (or per group of actions that change the same variables), and
under it one step per conjunct the action can disturb. What the invariants say is in the modules, at their definitions.

| Module | Theorem | Statement |
|---|---|---|
| `TokenCacheProofs` | `OneMintAtATime` | `Spec => []SingleFlight` |
| | `FollowersHaveLeader` | `Spec => []NoOrphanFuture` |
| | `GotTokensAreStored` | `Spec => []GotIsStored` |
| | `TokensOnlyGetNewer` | `Spec => TokenOnlyNewer` |
| | `TypeCorrect` | `Spec => []TypeOK` |
| `RunStreamProofs` | `EachEventOnceInOrder` | `Spec => []ExactDelivery` |
| | `ResultsAreOfCalls` | `Spec => []AnswersMatchCalls` |
| | `TransportsLast` | `Spec => []TransportsOutliveCalls` |
| | `EveryCallRun` | `Spec => []CallsServed` |
| | `RunKeepsContract` | `Spec => ImplementsContract` |
| | `TypeCorrect` | `Spec => []TypeOK` |
| | `AsyncEventsOnceInOrder` | `AsyncSpec => []ExactDelivery` |
| | `AsyncResultsAreOfCalls` | `AsyncSpec => []AnswersMatchCalls` |
| | `SuccessIsComplete` | `AsyncSpec => []SuccessWaitsForCalls` |
| | `AsyncRunKeepsContract` | `AsyncSpec => ImplementsAsyncContract` |
| `AsyncTokenCacheProofs` | `OneMintAtATime` | `Spec => []SingleFlight` |
| | `RetriesUseNewTokens` | `Spec => RetryUsesNewToken` |
| `EvalRunProofs` | `ConsumerIsOver` | `Spec => []ConsumerEndsFirst` |
| | `NoCallCut` | `Spec => []CallsCutOnlyWhenGivenUp` |
| | `CallsAreServed` | `Spec => []ReceivedCallsServed` |
| | `TypeCorrect` | `Spec => []TypeOK` |
| `A2AProofs` | `FinalOnce` | `Spec => []OneFinalStatus` |
| | `MapStaysLive` | `Spec => [](MapHoldsLive /\ EndedOnce)` |
| | `ConversationIsOne` | `Spec => []OneConversation` |
| | `EvictsLeastRecent` | `Spec => []LeastRecentFirst` |
| | `SessionsAccountedFor` | `Spec => []NoSessionLost` |
| | `ToolsRefineExecutor` | `ToolsSpec => Spec` |
| | `ToolsHaveAnEnd` | `ToolsSpec => []ToolsEndWithSessions` |
| | `TypeCorrect` | `Spec => [](TypeOK /\ Counted)` |
| `McpPortalProofs` | `OwnReferencesAreSafe` | `PortalSpec => [](OwnKept /\ OwnToolsRun /\ OwnClosed /\ OwnOpenOnce)` |
| | `TransportsLast` | if no two users share a reference, `PortalSpec => []TransportsLastUntilClose` |
| | `ToolsOnOpenTransports` | under the same condition, `PortalSpec => []ToolsRunOnOpenTransports` |
| | `CallsCloseTheirs` | under the same condition, `PortalSpec => []ClosingIsThorough` |
| | `NoReferenceOpensTwice` | under the same condition, `PortalSpec => []NoDoubleOpen` |
| | `OnePortalIsOwned` | `PortalSpec => []PortalIsOwned` |
| | `PortalTypeCorrect` | `PortalSpec => []PortalTypeOK` |
| `RequestsProofs` | `WhatIsSentIsTaken` | `Spec => []SentIsTaken` |
| | `EveryBodyNamesTheAgent` | `Spec => []BodyNamesTheAgent` |
| | `EveryEvalToolIsDeclared` | `Spec => []EveryToolDeclared` |
| | `EveryDeclaredToolIsCalled` | `Spec => []DeclaredToolIsCalled` |
| `SseParserProofs` | `ParserInvariant` | `Spec => []ParserInv` |
| | `FramesAreYieldedOnArrival` | `Spec => []FramesYieldedOnArrival` |
| | `CutFramesAreKnown` | `Spec => []CutFrameIsKnown` |
| | `TypeCorrect` | `Spec => []TypeOK` |

Hardly any of the properties is inductive; what each argument turns on:

* **Token cache, threads.** `SingleFlight` depends on the lock: two threads may both have found `_inflight` empty unless the block between
  that look and the assignment belongs to one thread (`LockHeld`, `ClaimFree`). A pending future has its leader (`PendingIsLed`). The
  cached token is behind a flight until `store` and equal to it until `clear` (`StoredInOrder`), which with `SingleFlight` excludes that a
  slow leader overwrites a newer token.
* **Run stream.** The invariant has a `Core` that both clients keep. Exactly-once delivery rests on the cursor: while the generator reads,
  the connection's position is `last_seq` (`AtLastSeq`), which `Last-Event-ID` re-establishes at every reconnect, also after a cut body
  has advanced it. Exactly-once execution rests on where a call can be: shown at the `yield` and not yet taken, queued and not run
  (`QueueFresh`), or at a thread that has run it (`WorkOnce`, `RanOnce`); a call of the log that is at none of these is `Lost`. The
  threads' client loses at most the call at whose `yield` the caller gave up (`Served`), and leaves the pool quiet (`Quiet`).
* **The contract.** `RunContract` says what a caller may count on, with four steps: the log grows, the next event is seen, a call seen
  is run, the run returns. The mapping shows it the log, the events handed over, the set of calls run, and the outcome. `EmitGrows`, `ReceiveSees`,
  `TakeRuns` and `CloseReturns` prove the steps that are not stutters; every other action leaves the contract's variables alone.
* **Run stream, tasks.** The three steps that asyncio adds keep the `Core`. They do lose calls and do leave the pool busy, but only on the
  way to an exception: a lost call means that the run raised (`Kept`), and after a success the tasks are joined (`Joined`). That is the
  contract with `LateRuns`, whose other steps are those of the threads' client (`SameContract`).
* **Parser.** A heartbeat or a block has one separator, its end (`Closed`, `NoneInside`, `OneAtTheEnd`). So the leftmost separator of the buffer is
  the end of the first of them that it holds (`Arrived`), and a buffer without one is a proper beginning of the next (`Waiting`): the invariant
  says that the buffer always starts where a heartbeat or a block does, with the frames before it yielded (`Reading`). What a
  beginning of a block makes is read off its lines, one lemma for each field (`IdFields`, `NameFields`, `DataFields`): the whole block makes its
  event (`WholeBlock`), a proper beginning the same event, nothing, or what `CutKinds` allows (`CutBlock`). Where the frames of a body lie follows
  by induction over their number (`NextFrame`, `FramesText`, `Layout`).
* **Token cache, tasks.** Cancelling a follower cancels the shared future, and its flight stays in `_inflight`, so a retry may join the
  very flight whose token was rejected. It is never handed that token again: a token gets known only after its future is settled
  (`KnownWhenOver`), so the flight a holder of its token waits for has failed or was cancelled (`NoOldNews`).
* **Eval run.** A call at work has a consumer that waits for it (`AtWork`), and `run_eval` reaches the closing of the transports with that
  consumer over, or having given it up (`Leaving`); a cancelled consumer is only ever at an `await` (`Cancelling`), where no event is in
  hand (`Passed`).
* **A2A executor.** The sessions are followed through two layers: what `move_to_end`, storing and evicting do to a sequence of entries, and
  what each step does to the map. Storing makes the map one too long at most, and the eviction that follows in the same step takes
  one session out (`EvictionKeepsLimit`); `EndedOnce` needs every session that somebody is ending, or that waits in `aclose()`, to be out of
  the map already. `OneConversation` and `LeastRecentFirst` are about turns that do not overlap: a turn under way has its context to
  itself, a context outside the map has been given no session since its last eviction, and the map is sorted by last use (`TurnsInv`).
  The maximum of a bounded set of numbers exists by well-founded induction on the sets of larger numbers
  (`MaxOfBounded`). An executor with local MCP tools takes only steps of the one without (`ToolsStepIsStep`), so all of this holds of
  it. For the references the invariant names who will close each: a session of the map, which some `end()` will follow; `aclose()`, if it has
  not passed it in its last session (`WillDrain`); or a turn that is opening or using the references, or whose close loop has not come to
  it yet (`WillClose`). A turn may close a reference under another, but none is passed over (`FirstOfRest`), and a turn that gives up
  without closing leaves its references to `left`.
* **MCP references and the portal.** Three layers. What a thread does with a portal between two reads of an attribute is its own
  (`Hands`): the one it is entering is starting, the one it opens on runs or is being stopped by somebody who waits for it; without a race
  there is one (`OnePortal`). What a call has attached is known by where it is in its list (`Progress`). And a transport that is open is
  attached, or in the hands of the one who detached it, or on a portal that does not run (`Attached`, `Detached`, `Accounted`,
  `ToolHeld`).
  References shared by two users can be detached by one under the other (`_local_resolver.py:450`), which the code allows and section 3
  reports: TLC finds `TransportsLastUntilClose` violated as soon as the lists of two users overlap. The invariant is therefore stated of the references that only one user passes (`Own`), and
  holds whatever other references are shared: `OwnReferencesAreSafe` has no condition. The properties the runs check are about all references; they
  follow where none is shared (`OwnRefs`), as in the runs.
* **Requests.** A behaviour is one call, so the work is in the operators: what a normaliser lets through is what the protocol
  takes (`NormalizedIsTaken`, one lemma per option), a prefixed name loses exactly its prefix (`NamesRoundTrip`), and looking a name up in the
  tables finds the tool that offered it (`CallsFindTheirTool`). That an eval run declares every tool is about a loop that appends
  some tools of one list to another: it keeps those that pass its test, by induction over the list (`KeptOfMeans`).

The library states induction for operators, which no installed prover can instantiate. Induction over the numbers is
proved here instead, for sets (`AllNumbers`): strict inclusion of finite sets is well-founded, so among the intervals up to a number that a
set lacks one would be smallest. The models therefore write their loops as recursive functions or as folds (`FlattenSeq`), and have no RECURSIVE operator where something
is proved.

Checked by TLC only: all liveness (`SubmittedIsServed`, `Terminates`, `CallsReturn`, `Returns`), because fairness and ENABLED are
beyond the prover. TLC also finds the three violations of section 3.

## 5. What is not modelled

* The Go and TypeScript SDKs, the documentation site, examples and release scripts.
* Text: prompts, the content of messages, wording of results and errors, form bodies, URLs, PKCE; JSON schemas of tool parameters.
* Field-by-field parsing of responses into data classes, and the exception classes.
* `serve_agent_over_a2a` and `build_agent_card`: an ASGI application assembled from the `a2a` package and `uvicorn`, which own its state. Its
  `aclose` stops the server and then calls the executor's.
* The agent cards of `define_local_a2a`: fetched once, cached for ever; the search of a peer's answer for a text.
* What lies under the SDK is taken at its word: `httpx` delivers a body in order or raises, an anyio portal waits for the coroutines it was
  given before its loop ends, a pool runs what was submitted to it, and an MCP transport may be closed from another task than the one that
  opened it (a cancel scope of anyio forbids that in places, and then the close raises).
* A refresh does not rotate the refresh token (`oauth.py:57`), so two at once would cost a request and not the session: `SingleFlight` is
  the class's promise, of load more than of correctness. `TokenOnlyNewer` and `RetryUsesNewToken` are about correctness.

## 6. Plan

What is left, in this order:

1. More of the theorems that need no condition: what holds of *shared* references (that a call which shares none of the session's
   cannot close them is `OwnReferencesAreSafe`; that overlapping calls lose only the transports they opened at once is not stated).
2. The three hazards without a property (`oauth.py:402`, `a2a_server.py:256`, `async_client.py:525`): each is a step of a
   module, and what would state it fails, so it stands in the list of section 3.

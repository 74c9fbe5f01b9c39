---------------------------- MODULE EvalRunProofs ---------------------------
(***************************************************************************)
(* That run_eval leaves nothing behind: its consumer is over before it is, *)
(* no transport is closed under a call, and every call received for its    *)
(* tools is answered, except where the code gives the consumer up.  Proved *)
(* for every pool size and every number of events, and for both clients.   *)
(***************************************************************************)
EXTENDS EvalRun, SequenceTheorems, TLAPS

Idle == {"off", "over"}

\* There is room for the end of the run until it has ended.
RoomForEnd == ~Ended => Len(events) < MaxEvents

\* What the consumer has in hand, it has received; a pool is left in steps.
AtEvent ==
    /\ from <= next /\ next <= Len(events)
    /\ consumer \in {"event", "dispatch", "callback"} => from < next
    /\ Tasks => consumer # "drain"
    /\ Threads => consumer # "dispatch"

\* A consumer is there from the acceptance of the run, if it is wanted.
Wanted ==
    /\ main = "submit" => consumer = "off"
    /\ main \in {"poll", "sleep"} /\ (tools \/ callback) => consumer # "off"
    /\ outcome = "detail" /\ tools => consumer # "off"

\* A call at work has a consumer that waits for it.
AtWork ==
    \A c \in Positions :
        /\ Threads /\ jobs[c] \in {"queued", "running"} => consumer \notin Idle
        /\ Tasks => jobs[c] # "queued"
        /\ Tasks /\ jobs[c] = "running" => consumer = "dispatch" /\ c = next
        /\ jobs[c] = "aborted" => Tasks

\* A consumer is cancelled where it awaits, and run_eval waits for its end.
Cancelling ==
    /\ cancel => Tasks /\ main = "join" /\ consumer \in {"open", "read", "dispatch"}
    /\ main = "join" /\ Tasks => cancel \/ consumer = "over"

\* run_eval closes its transports when its consumer is over, or given up.
Leaving ==
    /\ mcpOpen <=> main # "over"
    /\ main \in {"close", "over"} => consumer \in Idle \/ GaveUpOnConsumer
    /\ main \in {"submit", "poll", "sleep"} => outcome = "none"

\* A call received is in the pool, or the one in hand.
Passed ==
    \A c \in from + 1..next :
        tools /\ events[c] = "call" => jobs[c] # "none" \/ (c = next /\ consumer = "event")

\* CallsCutOnlyWhenGivenUp, call by call.
CutWhenGivenUp == \A c \in Positions : jobs[c] \in {"cut", "refused"} => GaveUpOnConsumer

IInv ==
    /\ TypeOK
    /\ RoomForEnd
    /\ AtEvent
    /\ Wanted
    /\ AtWork
    /\ Cancelling
    /\ Leaving
    /\ Passed
    /\ CutWhenGivenUp

-----------------------------------------------------------------------------
LEMMA Bounds == MaxEvents \in Nat /\ MaxEvents > 0
  BY EvalRunAssumption

LEMMA Received == TypeOK => from + 1..next \subseteq Positions
<1> SUFFICES ASSUME TypeOK PROVE from + 1..next \subseteq Positions
  OBVIOUS
<1>1. from \in Nat /\ next \in Nat /\ next <= MaxEvents
  BY Bounds DEF TypeOK
<1> QED
  BY <1>1, Bounds DEF Positions

LEMMA InitIInv == Init => IInv
<1> SUFFICES ASSUME Init PROVE IInv
  OBVIOUS
<1>1. TypeOK
  <2>1. jobs \in [Positions -> {"none", "queued", "running", "answered",
                                "refused", "aborted", "cut"}]
    BY DEF Init
  <2>2. events \in Seq({"progress", "call", "end"}) /\ Len(events) <= MaxEvents
    BY Bounds DEF Init
  <2>3. next \in 0..MaxEvents /\ from \in 0..MaxEvents
    BY Bounds DEF Init
  <2> QED
    BY <2>1, <2>2, <2>3 DEF Init, TypeOK
<1>2. RoomForEnd /\ AtEvent /\ Wanted /\ Cancelling /\ Leaving
  BY Bounds DEF Init, RoomForEnd, AtEvent, Wanted, Cancelling, Leaving, Idle, Tasks, Threads
<1>3. AtWork /\ Passed /\ CutWhenGivenUp
  BY DEF Init, AtWork, Passed, CutWhenGivenUp
<1> QED
  BY <1>1, <1>2, <1>3 DEF IInv

-----------------------------------------------------------------------------
(* The poll loop: it leaves the consumer and the calls alone, and does not *)
(* come back on a consumer it gave up.                                     *)

LEMMA LoopStep ==
    ASSUME IInv, UNCHANGED <<choice, events, stream, jobs>>,
           TypeOK', Wanted', Cancelling', Leaving',
           GaveUpOnConsumer => GaveUpOnConsumer'
    PROVE  IInv'
<1> USE DEF IInv, choice, stream
<1>1. RoomForEnd' /\ AtEvent'
  BY DEF RoomForEnd, AtEvent, Ended, Tasks, Threads
<1>2. AtWork' /\ Passed'
  BY DEF AtWork, Passed, Tasks, Threads
<1>3. CutWhenGivenUp'
  BY DEF CutWhenGivenUp
<1> QED
  BY <1>1, <1>2, <1>3

\* Leaving for the outer `finally`.
LEMMA LeaveStep ==
    ASSUME IInv, NEW how \in {"detail", "raised", "cancelled"},
           main \in {"submit", "poll", "sleep"}, MainRuns,
           main = "submit" => how # "detail", Threads => how = "raised",
           Leave(how), UNCHANGED <<choice, events, late, stream, jobs, mcpOpen>>
    PROVE  IInv'
<1> USE DEF IInv, choice, stream
<1>1. main' \in {"join", "close"} /\ cancel' \in BOOLEAN
  BY DEF Leave, TypeOK
<1>2. TypeOK'
  BY <1>1 DEF TypeOK, Leave
<1>3. Wanted'
  BY <1>1 DEF Wanted, Leave
<1>4. Cancelling'
  BY DEF TypeOK, Wanted, Cancelling, Leave, MainRuns, AtEvent, Tasks, Threads
<1>5. Leaving'
  BY <1>1 DEF TypeOK, Leaving, Leave, GaveUpOnConsumer, Idle, Tasks, Threads
<1>6. GaveUpOnConsumer => GaveUpOnConsumer'
  BY DEF GaveUpOnConsumer, Leaving, Threads
<1> QED
  BY <1>2, <1>3, <1>4, <1>5, <1>6, LoopStep

LEMMA AcceptedStep == IInv /\ Accepted => IInv'
<1> SUFFICES ASSUME IInv, Accepted PROVE IInv'
  OBVIOUS
<1> USE DEF IInv, Accepted, choice
<1>1. TypeOK'
  BY DEF TypeOK
<1>2. RoomForEnd' /\ AtEvent'
  BY DEF RoomForEnd, AtEvent, Ended, Tasks, Threads
<1>3. Wanted' /\ Cancelling' /\ Leaving'
  BY DEF Wanted, Cancelling, Leaving, Tasks
<1>4. AtWork'
  BY DEF AtWork, Wanted, Idle, Tasks, Threads
<1>5. Passed' /\ CutWhenGivenUp'
  BY DEF Wanted, Passed, CutWhenGivenUp, GaveUpOnConsumer, Threads
<1> QED
  BY <1>1, <1>2, <1>3, <1>4, <1>5

LEMMA NotAcceptedStep == IInv /\ NotAccepted => IInv'
<1> SUFFICES ASSUME IInv, NotAccepted PROVE IInv'
  OBVIOUS
<1>1. MainRuns
  BY DEF IInv, NotAccepted, MainRuns, Wanted
<1> QED
  BY <1>1, LeaveStep DEF NotAccepted

LEMMA PollFailedStep == IInv /\ PollFailed => IInv'
  BY LeaveStep DEF PollFailed

LEMMA CancelledStep == IInv /\ Cancelled => IInv'
  BY LeaveStep DEF Cancelled, Tasks, Threads

LEMMA PollEndedStep == IInv /\ PollEnded => IInv'
<1> SUFFICES ASSUME IInv, PollEnded PROVE IInv'
  OBVIOUS
<1>1. CASE Tasks /\ Leave("detail")
  BY <1>1, LeaveStep DEF PollEnded, Tasks, Threads
<1>2. CASE /\ Threads /\ outcome' = "detail" /\ UNCHANGED cancel
           /\ main' = IF consumer = "off" THEN "close" ELSE "join"
  <2> USE <1>2 DEF IInv, PollEnded, choice, stream
  <2>1. main' \in {"join", "close"}
    OBVIOUS
  <2>2. TypeOK'
    BY <2>1 DEF TypeOK
  <2>3. Wanted'
    BY <2>1 DEF Wanted
  <2>4. Cancelling'
    BY DEF Cancelling, Tasks, Threads
  <2>5. Leaving'
    BY <2>1 DEF Leaving, Idle
  <2>6. GaveUpOnConsumer => GaveUpOnConsumer'
    BY DEF GaveUpOnConsumer, Leaving, Threads
  <2> QED
    BY <2>2, <2>3, <2>4, <2>5, <2>6, LoopStep
<1> QED
  BY <1>1, <1>2 DEF PollEnded

LEMMA PollingStep == IInv /\ (PollRunning \/ Wake) => IInv'
<1> SUFFICES ASSUME IInv, PollRunning \/ Wake PROVE IInv'
  OBVIOUS
<1> USE DEF IInv, PollRunning, Wake, choice, stream
<1>1. TypeOK'
  BY DEF TypeOK
<1>2. Wanted' /\ Cancelling' /\ Leaving'
  BY DEF Wanted, Cancelling, Leaving, Tasks
<1>3. GaveUpOnConsumer => GaveUpOnConsumer'
  BY DEF GaveUpOnConsumer, Threads
<1>4. UNCHANGED <<choice, events, stream, jobs>>
  OBVIOUS
<1> QED
  BY <1>1, <1>2, <1>3, <1>4, LoopStep

LEMMA JoinedStep == IInv /\ (Joined \/ JoinTimedOut) => IInv'
<1> SUFFICES ASSUME IInv, Joined \/ JoinTimedOut PROVE IInv'
  OBVIOUS
<1> USE DEF IInv, Joined, JoinTimedOut, ConsumerOver, JoinTimesOut, choice, stream
<1>1. TypeOK'
  BY DEF TypeOK
<1>2. Wanted' /\ Cancelling'
  BY DEF Wanted, Cancelling, Tasks, Threads
<1>3. GaveUpOnConsumer => GaveUpOnConsumer'
  BY DEF GaveUpOnConsumer, Tasks, Threads
<1>4. Leaving'
  BY DEF Leaving, GaveUpOnConsumer, Idle, Threads
<1>5. UNCHANGED <<choice, events, stream, jobs>>
  OBVIOUS
<1> QED
  BY <1>1, <1>2, <1>3, <1>4, <1>5, LoopStep

\* What runs when the transports close belongs to a consumer given up.
LEMMA CloseStep == IInv /\ Close => IInv'
<1> SUFFICES ASSUME IInv, Close PROVE IInv'
  OBVIOUS
<1> USE DEF IInv, Close, choice, stream
<1>1. \A c \in Positions : jobs[c] = "running" => GaveUpOnConsumer
  BY DEF TypeOK, AtWork, Leaving, Idle, Tasks, Threads
<1>2. TypeOK'
  <2>0. \A c \in Positions : jobs[c] \in {"none", "queued", "running", "answered",
                                          "refused", "aborted", "cut"}
    BY DEF TypeOK
  <2>1. jobs' \in [Positions -> {"none", "queued", "running", "answered",
                                 "refused", "aborted", "cut"}]
    BY <2>0
  <2>2. /\ main' = "over" /\ mcpOpen' = FALSE
        /\ UNCHANGED <<flavour, tools, callback, events, outcome, late, consumer, reason, next,
                       fault, from, cancel>>
    OBVIOUS
  <2>3. mcpOpen' \in BOOLEAN
    BY <2>2
  <2> HIDE DEF Close
  <2>4. UNCHANGED <<flavour, tools, callback, events, outcome, late, consumer, reason, next,
                    fault, from, cancel>> /\ main' = "over"
    BY <2>2
  <2> QED
    BY <2>1, <2>3, <2>4 DEF TypeOK
<1>3. GaveUpOnConsumer' <=> GaveUpOnConsumer
  BY DEF GaveUpOnConsumer, Threads
<1>4. RoomForEnd' /\ AtEvent' /\ Wanted' /\ Cancelling' /\ Leaving'
  BY <1>3 DEF RoomForEnd, AtEvent, Wanted, Cancelling, Leaving, Ended, Tasks, Threads
<1>5. AtWork'
  BY DEF AtWork, Tasks, Threads
<1>6. Passed'
  <2>1. from + 1..next \subseteq Positions
    BY Received
  <2> QED
    BY <2>1 DEF Passed
<1>7. CutWhenGivenUp'
  BY <1>1, <1>3 DEF CutWhenGivenUp
<1> QED
  BY <1>2, <1>4, <1>5, <1>6, <1>7

-----------------------------------------------------------------------------
(* The consumer: it leaves the poll loop alone.                            *)

\* A step that starts no call and receives nothing.
LEMMA StreamStep ==
    ASSUME IInv, UNCHANGED <<choice, events, loop, next, from, cancel, jobs, mcpOpen>>,
           TypeOK', consumer \notin Idle, ~cancel,
           consumer # "dispatch", consumer' # "off", consumer' \notin {"event", "dispatch"},
           consumer' = "callback" => consumer = "event" /\ ~ForThisClient,
           consumer = "event" => consumer' = "callback",
           Tasks => consumer' # "drain",
           Threads /\ consumer' = "over" => PoolIdle
    PROVE  IInv'
<1> USE DEF IInv, choice, loop
<1>1. RoomForEnd' /\ AtEvent'
  BY DEF RoomForEnd, AtEvent, Ended, Tasks, Threads
<1>2. Wanted' /\ Cancelling' /\ Leaving'
  BY DEF Wanted, Cancelling, Leaving, GaveUpOnConsumer, Idle, Tasks, Threads
<1>3. AtWork'
  BY DEF AtWork, PoolIdle, JobsIn, Idle, Tasks, Threads
<1>4. Passed'
  BY DEF Passed, ForThisClient
<1>5. CutWhenGivenUp'
  BY DEF CutWhenGivenUp, GaveUpOnConsumer, Threads
<1> QED
  BY <1>1, <1>2, <1>3, <1>4, <1>5

LEMMA OpenUnauthorizedStep == IInv /\ OpenUnauthorized => IInv'
<1> SUFFICES ASSUME IInv, OpenUnauthorized PROVE IInv'
  OBVIOUS
<1> USE DEF OpenUnauthorized, choice, loop
<1>1. TypeOK'
  BY DEF IInv, TypeOK
<1> QED
  BY <1>1, StreamStep DEF Idle, Tasks

\* The consumer's end, where it hears of it.
LEMMA ExitStep ==
    ASSUME IInv, consumer \in {"open", "read", "callback"}, ~cancel,
           NEW exception \in {"none", "network", "error"}, Exit(exception),
           UNCHANGED <<choice, events, loop, reason, next, from, cancel, jobs, mcpOpen>>
    PROVE  IInv'
<1> USE DEF Exit, choice, loop
<1>1. consumer' \in {"drain", "over"} /\ (Tasks => consumer' = "over")
      /\ (Threads => consumer' = "drain")
  BY DEF Tasks, Threads
<1>2. TypeOK'
  BY <1>1 DEF IInv, TypeOK
<1> QED
  BY <1>1, <1>2, StreamStep DEF Idle, Tasks, Threads

LEMMA NotCancelledInTurn ==
    ASSUME IInv, consumer \in {"event", "callback", "drain"}
    PROVE  ~cancel
  BY DEF IInv, Cancelling

LEMMA FailStep == IInv /\ (OpenFailed \/ Broken) => IInv'
  BY ExitStep DEF OpenFailed, Broken

LEMMA CalledBackStep == IInv /\ (CalledBack \/ CallbackRaised) => IInv'
<1> SUFFICES ASSUME IInv, CalledBack \/ CallbackRaised PROVE IInv'
  OBVIOUS
<1>1. consumer = "callback" /\ ~cancel
      /\ UNCHANGED <<choice, events, loop, reason, next, from, cancel, jobs, mcpOpen>>
  BY NotCancelledInTurn DEF CalledBack, CallbackRaised
<1>2. CASE Exit("none") \/ Exit("error")
  BY <1>1, <1>2, ExitStep
<1>3. CASE consumer' = "read" /\ UNCHANGED fault
  <2>1. TypeOK'
    BY <1>1, <1>3 DEF IInv, TypeOK, choice, loop
  <2> QED
    BY <1>1, <1>3, <2>1, StreamStep DEF Idle
<1> QED
  BY <1>2, <1>3 DEF CalledBack, CallbackRaised

LEMMA PassOnStep == IInv /\ PassOn => IInv'
<1> SUFFICES ASSUME IInv, PassOn PROVE IInv'
  OBVIOUS
<1> USE DEF PassOn, choice, loop
<1>1. TypeOK'
  BY DEF IInv, TypeOK
<1> QED
  BY <1>1, StreamStep, NotCancelledInTurn DEF Idle

LEMMA DrainedStep == IInv /\ Drained => IInv'
<1> SUFFICES ASSUME IInv, Drained PROVE IInv'
  OBVIOUS
<1> USE DEF Drained, choice, loop
<1>1. TypeOK'
  BY DEF IInv, TypeOK
<1> QED
  BY <1>1, StreamStep, NotCancelledInTurn DEF Idle

LEMMA OpenAcceptedStep == IInv /\ OpenAccepted => IInv'
<1> SUFFICES ASSUME IInv, OpenAccepted PROVE IInv'
  OBVIOUS
<1> USE DEF IInv, OpenAccepted, choice, loop
<1>0. next' \in 0..Len(events) /\ from' = next' /\ Len(events) \in Nat
  BY DEF TypeOK
<1>1. TypeOK'
  BY <1>0, Bounds DEF TypeOK
<1>2. RoomForEnd' /\ AtEvent'
  BY <1>0 DEF RoomForEnd, AtEvent, Ended, Tasks, Threads
<1>3. Wanted' /\ Cancelling' /\ Leaving'
  BY DEF Wanted, Cancelling, Leaving, GaveUpOnConsumer, Idle, Tasks, Threads
<1>4. AtWork' /\ CutWhenGivenUp'
  BY DEF AtWork, CutWhenGivenUp, GaveUpOnConsumer, Idle, Tasks, Threads
<1>5. Passed'
  <2>1. PICK n \in Nat : next' = n /\ from' = n
    BY <1>0
  <2>2. (from + 1..next)' = n + 1..n
    BY <2>1
  <2>3. n + 1..n = {}
    OBVIOUS
  <2> QED
    BY <2>2, <2>3 DEF Passed
<1> QED
  BY <1>1, <1>2, <1>3, <1>4, <1>5

LEMMA ReceiveStep == IInv /\ Receive => IInv'
<1> SUFFICES ASSUME IInv, Receive PROVE IInv'
  OBVIOUS
<1> USE DEF IInv, Receive, choice, loop
<1>0. next' = next + 1 /\ next' <= Len(events) /\ Len(events) \in Nat /\ next \in Nat /\ from \in Nat
  BY DEF TypeOK
<1>1. TypeOK'
  BY <1>0, Bounds DEF TypeOK
<1>2. RoomForEnd' /\ AtEvent'
  BY <1>0 DEF RoomForEnd, AtEvent, Ended, Tasks, Threads
<1>3. Wanted' /\ Cancelling' /\ Leaving'
  BY DEF Wanted, Cancelling, Leaving, GaveUpOnConsumer, Idle, Tasks, Threads
<1>4. AtWork' /\ CutWhenGivenUp'
  BY DEF AtWork, CutWhenGivenUp, GaveUpOnConsumer, Idle, Tasks, Threads
<1>5. Passed'
  BY <1>0 DEF Passed
<1> QED
  BY <1>1, <1>2, <1>3, <1>4, <1>5

\* The calls are a function of the positions, and one of them changes.
LEMMA JobsChange ==
    ASSUME TypeOK, NEW c \in Positions, NEW state, jobs' = [jobs EXCEPT ![c] = state],
           state \in {"none", "queued", "running", "answered", "refused", "aborted", "cut"}
    PROVE  /\ jobs' \in [Positions -> {"none", "queued", "running", "answered",
                                       "refused", "aborted", "cut"}]
           /\ \A d \in Positions : jobs'[d] = IF d = c THEN state ELSE jobs[d]
  BY DEF TypeOK

LEMMA DispatchStep == IInv /\ Dispatch => IInv'
<1> SUFFICES ASSUME IInv, Dispatch PROVE IInv'
  OBVIOUS
<1> USE DEF IInv, Dispatch, choice, loop
<1>0. /\ next \in Positions /\ from < next /\ ~cancel /\ consumer = "event"
      /\ from \in Nat /\ next \in Nat /\ from + 1..next \subseteq Positions
  BY NotCancelledInTurn, Bounds DEF TypeOK, AtEvent, Positions
<1>1. PICK state \in {"queued", "running", "refused"} :
        /\ jobs' = [jobs EXCEPT ![next] = state]
        /\ Threads => state = "queued" /\ consumer' = "callback"
        /\ Tasks => state = (IF mcpOpen THEN "running" ELSE "refused") /\ consumer' = "dispatch"
  BY DEF StartJob, Tasks, Threads
<1>2. /\ jobs' \in [Positions -> {"none", "queued", "running", "answered",
                                  "refused", "aborted", "cut"}]
      /\ \A d \in Positions : jobs'[d] = IF d = next THEN state ELSE jobs[d]
  BY <1>0, <1>1, JobsChange
<1>3. consumer' \in {"callback", "dispatch"} /\ (Tasks \/ Threads) /\ ~(Tasks /\ Threads)
  BY <1>1 DEF TypeOK, Tasks, Threads
<1>4. TypeOK'
  BY <1>2, <1>3 DEF TypeOK
<1>5. RoomForEnd' /\ AtEvent'
  BY <1>0, <1>1, <1>3 DEF RoomForEnd, AtEvent, Ended, Tasks, Threads
<1>6. Wanted' /\ Cancelling' /\ Leaving'
  BY <1>0, <1>1, <1>3 DEF Wanted, Cancelling, Leaving, GaveUpOnConsumer, Idle, Tasks, Threads
<1>7. AtWork'
  BY <1>0, <1>1, <1>2, <1>3 DEF AtWork, Idle, Tasks, Threads
<1>8. Passed'
  BY <1>0, <1>1, <1>2 DEF Passed
<1>9. CutWhenGivenUp'
  <2>1. state = "refused" => GaveUpOnConsumer
    BY <1>0, <1>1, <1>3 DEF Leaving, Idle
  <2> QED
    BY <1>2, <2>1 DEF CutWhenGivenUp, GaveUpOnConsumer, Threads
<1> QED
  BY <1>4, <1>5, <1>6, <1>7, <1>8, <1>9

LEMMA DispatchedStep == IInv /\ Dispatched => IInv'
<1> SUFFICES ASSUME IInv, Dispatched PROVE IInv'
  OBVIOUS
<1> USE DEF IInv, Dispatched, choice, loop
<1>0. /\ next \in Positions /\ from < next /\ ~Threads /\ consumer = "dispatch"
      /\ from + 1..next \subseteq Positions
  BY Bounds DEF TypeOK, AtEvent, Positions
<1>1. /\ jobs' \in [Positions -> {"none", "queued", "running", "answered",
                                  "refused", "aborted", "cut"}]
      /\ \A d \in Positions : jobs'[d] = IF d = next THEN "answered" ELSE jobs[d]
  BY <1>0, JobsChange
<1>2. TypeOK'
  BY <1>1 DEF TypeOK
<1>3. RoomForEnd' /\ AtEvent' /\ Wanted' /\ Cancelling' /\ Leaving'
  BY <1>0 DEF RoomForEnd, AtEvent, Ended, Wanted, Cancelling, Leaving, GaveUpOnConsumer, Idle,
              Tasks, Threads
<1>4. AtWork' /\ CutWhenGivenUp'
  BY <1>0, <1>1 DEF AtWork, CutWhenGivenUp, GaveUpOnConsumer, Idle, Tasks, Threads
<1>5. Passed'
  BY <1>0, <1>1 DEF Passed
<1> QED
  BY <1>2, <1>3, <1>4, <1>5

LEMMA CancelDeliveredStep == IInv /\ CancelDelivered => IInv'
<1> SUFFICES ASSUME IInv, CancelDelivered PROVE IInv'
  OBVIOUS
<1> USE DEF IInv, CancelDelivered, choice, loop
<1>0. /\ Tasks /\ ~Threads /\ main = "join" /\ consumer \in {"open", "read", "dispatch"}
      /\ consumer = "dispatch" => next \in Positions
      /\ from + 1..next \subseteq Positions
  BY Bounds DEF TypeOK, AtEvent, Cancelling, Positions, Tasks, Threads
<1>1. /\ jobs' \in [Positions -> {"none", "queued", "running", "answered",
                                  "refused", "aborted", "cut"}]
      /\ \A d \in Positions :
            jobs'[d] = IF consumer = "dispatch" /\ d = next THEN "aborted" ELSE jobs[d]
  BY <1>0, JobsChange DEF TypeOK
<1>2. TypeOK'
  BY <1>1 DEF TypeOK
<1>3. RoomForEnd' /\ AtEvent' /\ Wanted' /\ Cancelling' /\ Leaving'
  BY <1>0 DEF RoomForEnd, AtEvent, Ended, Wanted, Cancelling, Leaving, GaveUpOnConsumer, Idle,
              Tasks, Threads
<1>4. AtWork' /\ CutWhenGivenUp'
  BY <1>0, <1>1 DEF AtWork, CutWhenGivenUp, GaveUpOnConsumer, Idle, Tasks, Threads
<1>5. Passed'
  BY <1>0, <1>1 DEF Passed
<1> QED
  BY <1>2, <1>3, <1>4, <1>5

-----------------------------------------------------------------------------
(* The pool and the server.                                                *)

\* A call of the pool moves on.
LEMMA PoolStep ==
    ASSUME IInv, Threads, NEW c \in Positions,
           NEW state \in {"running", "answered", "refused"},
           jobs[c] \in {"queued", "running"}, jobs' = [jobs EXCEPT ![c] = state],
           state = "refused" => ~mcpOpen,
           UNCHANGED <<choice, events, loop, stream, cancel, mcpOpen>>
    PROVE  IInv'
<1> USE DEF IInv, choice, loop, stream
<1>1. /\ jobs' \in [Positions -> {"none", "queued", "running", "answered",
                                  "refused", "aborted", "cut"}]
      /\ \A d \in Positions : jobs'[d] = IF d = c THEN state ELSE jobs[d]
  BY JobsChange
<1>2. TypeOK' /\ from + 1..next \subseteq Positions
  BY <1>1, Received DEF TypeOK
<1>3. RoomForEnd' /\ AtEvent' /\ Wanted' /\ Cancelling' /\ Leaving'
  BY DEF RoomForEnd, AtEvent, Ended, Wanted, Cancelling, Leaving, GaveUpOnConsumer, Idle,
         Tasks, Threads
<1>4. AtWork'
  BY <1>1 DEF AtWork, Tasks, Threads
<1>5. Passed'
  BY <1>1, <1>2 DEF Passed
<1>6. CutWhenGivenUp'
  <2>1. state = "refused" => GaveUpOnConsumer
    BY DEF AtWork, Leaving
  <2> QED
    BY <1>1, <2>1 DEF CutWhenGivenUp, GaveUpOnConsumer, Threads
<1> QED
  BY <1>2, <1>3, <1>4, <1>5, <1>6

LEMMA TakeStep == \A c \in Positions : IInv /\ (Take(c) \/ Answered(c)) => IInv'
<1> SUFFICES ASSUME IInv, NEW c \in Positions, Take(c) \/ Answered(c) PROVE IInv'
  OBVIOUS
<1>1. CASE Take(c)
  <2>1. Threads
    BY <1>1 DEF IInv, AtWork, Take, TypeOK, Tasks, Threads
  <2> QED
    BY <1>1, <2>1, PoolStep DEF Take, StartJob
<1>2. CASE Answered(c)
  BY <1>2, PoolStep DEF Answered
<1> QED
  BY <1>1, <1>2

LEMMA EmitStep == \A kind \in {"progress", "call", "end"} : IInv /\ Emit(kind) => IInv'
<1> SUFFICES ASSUME IInv, NEW kind \in {"progress", "call", "end"}, Emit(kind) PROVE IInv'
  OBVIOUS
<1> USE DEF IInv, Emit, choice, loop, stream
<1>1. /\ events' \in Seq({"progress", "call", "end"}) /\ Len(events') = Len(events) + 1
      /\ events'[Len(events) + 1] = kind /\ Len(events) \in Nat
      /\ \A c \in 1..Len(events) : events'[c] = events[c]
  BY DEF TypeOK
<1>2. Len(events') <= MaxEvents /\ (kind # "end" => Len(events') < MaxEvents)
  BY <1>1, Bounds DEF RoomForEnd, TypeOK
<1>3. TypeOK'
  BY <1>1, <1>2 DEF TypeOK
<1>4. RoomForEnd'
  BY <1>1, <1>2 DEF RoomForEnd, Ended
<1>5. AtEvent' /\ Wanted' /\ Cancelling' /\ Leaving'
  BY <1>1 DEF TypeOK, AtEvent, Wanted, Cancelling, Leaving, GaveUpOnConsumer, Tasks, Threads
<1>6. AtWork' /\ CutWhenGivenUp'
  BY DEF AtWork, CutWhenGivenUp, GaveUpOnConsumer, Tasks, Threads
<1>7. Passed'
  <2>1. \A c \in from + 1..next : c \in 1..Len(events)
    BY <1>1 DEF TypeOK, AtEvent
  <2> QED
    BY <1>1, <2>1 DEF Passed
<1> QED
  BY <1>3, <1>4, <1>5, <1>6, <1>7

LEMMA IInvStep == IInv /\ [Next]_vars => IInv'
<1> SUFFICES ASSUME IInv, [Next]_vars PROVE IInv'
  OBVIOUS
<1>1. CASE Poll
  BY <1>1, AcceptedStep, NotAcceptedStep, PollEndedStep, PollingStep, PollFailedStep,
     JoinedStep, CloseStep DEF Poll
<1>2. CASE Turn
  BY <1>2, DispatchStep, PassOnStep, CalledBackStep, CancelDeliveredStep DEF Turn
<1>3. CASE World
  BY <1>3, OpenAcceptedStep, OpenUnauthorizedStep, FailStep, ReceiveStep, DispatchedStep,
     CancelledStep DEF World
<1>4. CASE Done \/ UNCHANGED vars
  <2>1. UNCHANGED <<choice, events, loop, stream, cancel, jobs, mcpOpen>>
    BY <1>4 DEF Done, vars
  <2>2. /\ TypeOK' /\ Wanted' /\ Cancelling' /\ Leaving'
        /\ GaveUpOnConsumer => GaveUpOnConsumer'
    BY <2>1 DEF IInv, TypeOK, Wanted, Cancelling, Leaving, GaveUpOnConsumer, Tasks, Threads,
                choice, loop, stream
  <2> QED
    BY <2>1, <2>2, LoopStep
<1> QED
  BY <1>1, <1>2, <1>3, <1>4, DrainedStep, TakeStep, EmitStep DEF Next

LEMMA Invariance == Spec => []IInv
  BY InitIInv, IInvStep, PTL DEF Spec

-----------------------------------------------------------------------------
(* The theorems.                                                           *)

\* No position of the stream, of the cursor or of a call is beyond the events.
THEOREM TypeCorrect == Spec => []TypeOK
<1>1. IInv => TypeOK
  BY DEF IInv
<1> QED
  BY <1>1, Invariance, PTL

\* run_eval's outer `finally`: when it is over its consumer is, except where
\* a thread is abandoned.
THEOREM ConsumerIsOver == Spec => []ConsumerEndsFirst
<1>1. IInv => ConsumerEndsFirst
  BY DEF IInv, Leaving, ConsumerEndsFirst, Idle
<1> QED
  BY <1>1, Invariance, PTL

\* _close_mcp_refs never takes a transport from a call, nor does one come
\* after it, unless the consumer was abandoned.
THEOREM NoCallCut == Spec => []CallsCutOnlyWhenGivenUp
<1>1. IInv => CallsCutOnlyWhenGivenUp
  BY DEF IInv, CutWhenGivenUp, CallsCutOnlyWhenGivenUp, JobsIn
<1> QED
  BY <1>1, Invariance, PTL

\* When run_eval returns a detail, every call it received for its tools has
\* been answered, or was cancelled together with the consumer.
THEOREM CallsAreServed == Spec => []ReceivedCallsServed
<1>1. IInv => ReceivedCallsServed
  <2> SUFFICES ASSUME IInv, main = "over", outcome = "detail", ~late, tools,
                      NEW c \in from + 1..next, events[c] = "call"
               PROVE  jobs[c] = "answered" \/ (Tasks /\ jobs[c] = "aborted")
    BY DEF ReceivedCallsServed
  <2> USE DEF IInv
  <2>1. c \in Positions
    BY Received
  <2>2. ~GaveUpOnConsumer /\ consumer = "over"
    BY DEF GaveUpOnConsumer, Leaving, Wanted, Idle
  <2>3. jobs[c] # "none"
    BY <2>2 DEF Passed
  <2>4. jobs[c] \notin {"queued", "running"} /\ (jobs[c] = "aborted" => Tasks)
    BY <2>1, <2>2 DEF AtWork, TypeOK, Idle, Tasks, Threads
  <2>5. jobs[c] \notin {"cut", "refused"}
    BY <2>1, <2>2 DEF CutWhenGivenUp
  <2> QED
    BY <2>1, <2>3, <2>4, <2>5 DEF TypeOK
<1> QED
  BY <1>1, Invariance, PTL
=============================================================================

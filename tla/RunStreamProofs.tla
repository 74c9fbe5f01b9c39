-------------------------- MODULE RunStreamProofs ---------------------------
(***************************************************************************)
(* That a run over any number of connections, with any pool of threads,    *)
(* any number of attempts to post and a log of any length, delivers each   *)
(* event once and in order, runs each call once and closes the transports  *)
(* under none, and that it implements RunContract: the safety properties   *)
(* of RunStream, proved from one inductive invariant.  Then the same of    *)
(* AsyncRunStream, as far as it goes: a run it reports as a success has    *)
(* had all its calls run and their results posted.                         *)
(***************************************************************************)
EXTENDS AsyncRunStream, TLAPS

\* A terminal event is the last of the log.
EndsLog == \A i \in 1..Len(log) : IsTerminal(log[i]) => i = Len(log)

\* The connection is at last_seq, and so is a whole frame at the `yield`; a
\* cut one is never a success.
AtLastSeq ==
    /\ pc \in {"read", "yield"} => sent = lastSeq
    /\ pc = "yield" /\ cur.whole =>
          cur.seq = lastSeq /\ lastSeq \in 1..Len(log) /\ cur.kind = log[lastSeq]
    /\ pc = "yield" /\ ~cur.whole => cur.kind # "success"

\* A call the caller is being shown, and one it has been shown and has taken.
Shown(c) == pc = "yield" /\ cur.whole /\ cur.seq = c
Seen(c) == c \in 1..lastSeq /\ log[c] = "call" /\ ~Shown(c)

\* The queue holds calls that were taken and have not been run, each once.
QueueFresh ==
    /\ \A i \in 1..Len(queue) : Seen(queue[i]) /\ ran[queue[i]] = 0
    /\ \A i, j \in 1..Len(queue) : queue[i] = queue[j] => i = j

\* What a thread is at has been run once.
WorkOnce == \A w \in Workers :
    work[w].step # "idle" => Seen(work[w].call) /\ ran[work[w].call] = 1

RanOnce == \A c \in Positions : ran[c] \in {0, 1} /\ (ran[c] = 1 => Seen(c))

Answers == \A c \in answered : ran[c] = 1

\* The outcome is known once the generator is left, and a success is that of
\* the whole log.
Over == {"drain", "close", "done"}
Told ==
    /\ pc \in Over <=> outcome # "none"
    /\ outcome = "success" => /\ lastSeq = Len(log) /\ log # <<>>
                              /\ log[Len(log)] = "success"

\* What holds whichever client reads the run.
Core ==
    /\ TypeOK
    /\ EndsLog
    /\ ExactDelivery
    /\ AtLastSeq
    /\ QueueFresh
    /\ WorkOnce
    /\ RanOnce
    /\ Answers
    /\ Told

\* A call that was shown, and that nobody has run or is going to run.
Lost(c) ==
    /\ c \in 1..lastSeq /\ log[c] = "call"
    /\ ran[c] # 1
    /\ ~Shown(c)
    /\ \A i \in 1..Len(queue) : queue[i] # c

LosesNone == \A c : Lost(c)' => Lost(c)

\* No call gets lost on its way to the pool, but for the one at whose `yield`
\* the caller gave up.
Served == \A c : Lost(c) => outcome = "raised" /\ c = lastSeq /\ pc \in Over

\* The pool is quiet before the transports are closed.
Quiet ==
    /\ pc \in {"close", "done"} => PoolQuiet
    /\ ~mcpOpen => pc = "done"

IInv == Core /\ Served /\ Quiet
-----------------------------------------------------------------------------
(* Facts about the values.                                                 *)

LEMMA Bounds ==
    /\ MaxLog \in Nat /\ MaxLog >= 1
    /\ MaxAttempts \in Nat /\ MaxAttempts >= 1
    /\ HasTokenSource \in BOOLEAN
BY RunStreamAssumption

LEMMA KindsSplit ==
    /\ \A kind \in Kinds : IsTerminal(kind) <=> kind \in {"success", "failure"}
    /\ \A kind \in Kinds : CutKinds(kind) \subseteq Kinds \ {"success"}
BY DEF Kinds, IsTerminal, CutKinds

LEMMA CountTo ==
    ASSUME NEW n \in Nat, NEW s, s = [i \in 1..n |-> i]
    PROVE  Append(s, n + 1) = [i \in 1..n + 1 |-> i]
<1>1. s \in Seq(Nat) /\ Len(s) = n
  OBVIOUS
<1> QED
  BY <1>1

LEMMA CallsSeen ==
    ASSUME TypeOK, lastSeq <= Len(log), NEW c
    PROVE  c \in CallsIn(SubSeq(log, 1, lastSeq)) <=> c \in 1..lastSeq /\ log[c] = "call"
<1>1. lastSeq \in Nat /\ Len(log) \in Nat
  BY Bounds DEF TypeOK
<1>2. /\ DOMAIN SubSeq(log, 1, lastSeq) = 1..lastSeq
      /\ \A i \in 1..lastSeq : SubSeq(log, 1, lastSeq)[i] = log[i]
  BY <1>1 DEF TypeOK
<1> QED
  BY <1>2 DEF CallsIn

-----------------------------------------------------------------------------
(* The initial states.                                                     *)

LEMMA InitCore == Init => Core /\ \A c : ~Lost(c)
<1> SUFFICES ASSUME Init PROVE Core /\ \A c : ~Lost(c)
  OBVIOUS
<1>1. TypeOK
  <2>1. work \in [Workers -> [step : {"idle", "handle", "post"},
                             call : 0..MaxLog, attempt : 0..MaxAttempts - 1]]
    BY Bounds DEF Init, Idle, NoCall
  <2>2. cur \in [kind : Kinds, seq : 0..MaxLog, whole : BOOLEAN]
    BY Bounds DEF Init, Kinds
  <2>3. ran \in [Positions -> Nat]
    BY DEF Init
  <2>4. /\ log \in Seq(Kinds) /\ Len(log) <= MaxLog
        /\ queue \in Seq(Positions) /\ delivered \in Seq(Positions)
    BY Bounds DEF Init
  <2>5. sent \in 0..MaxLog /\ lastSeq \in 0..MaxLog /\ answered \subseteq Positions
    BY Bounds DEF Init
  <2> QED
    BY <2>1, <2>2, <2>3, <2>4, <2>5 DEF Init, TypeOK
<1>2. EndsLog /\ ExactDelivery
  BY DEF Init, EndsLog, ExactDelivery
<1>3. AtLastSeq /\ QueueFresh /\ WorkOnce /\ RanOnce
  BY DEF Init, AtLastSeq, QueueFresh, WorkOnce, RanOnce, Idle
<1>4. Answers /\ Told
  BY DEF Init, Answers, Told, Over
<1>5. \A c : ~Lost(c)
  BY DEF Init, Lost
<1> QED
  BY <1>1, <1>2, <1>3, <1>4, <1>5 DEF Core

-----------------------------------------------------------------------------
(* The steps of the generator that yield nothing.                          *)

LEMMA NoEventStep ==
    ASSUME Core, TypeOK', Told',
           UNCHANGED <<log, answered, lastSeq, cur, delivered, queue, work, ran>>,
           pc # "yield", pc' # "yield",
           pc' = "read" => sent' = lastSeq,
           pc \in Over => pc' \in Over /\ outcome' = outcome
    PROVE  Core' /\ LosesNone
<1>1. EndsLog' /\ ExactDelivery'
  BY DEF Core, EndsLog, ExactDelivery
<1>2. AtLastSeq'
  BY DEF AtLastSeq
<1>3. \A c : Seen(c)' <=> Seen(c)
  BY DEF Seen, Shown
<1>4. QueueFresh'
  BY <1>3 DEF Core, QueueFresh
<1>5. WorkOnce' /\ RanOnce'
  BY <1>3 DEF Core, WorkOnce, RanOnce
<1>6. LosesNone
  BY DEF LosesNone, Lost, Shown
<1>7. Answers'
  BY DEF Core, Answers
<1> QED
  BY <1>1, <1>2, <1>4, <1>5, <1>6, <1>7 DEF Core

LEMMA OpenAcceptedStep == Core /\ OpenAccepted => Core' /\ LosesNone
<1> SUFFICES ASSUME Core, OpenAccepted PROVE Core' /\ LosesNone
  OBVIOUS
<1> USE DEF OpenAccepted, server, pool
<1>1. TypeOK'
  BY DEF Core, TypeOK, ResumeFrom
<1>2. Told'
  BY DEF Core, Told, Over
<1>3. sent' = lastSeq
  BY DEF ResumeFrom
<1> QED
  BY <1>1, <1>2, <1>3, NoEventStep DEF Over

LEMMA OpenUnauthorizedStep == Core /\ OpenUnauthorized => Core' /\ LosesNone
<1> SUFFICES ASSUME Core, OpenUnauthorized PROVE Core' /\ LosesNone
  OBVIOUS
<1> USE DEF OpenUnauthorized, Leave, server, pool
<1>1. TypeOK'
  BY DEF Core, TypeOK
<1>2. Told'
  BY DEF Core, Told, Over
<1> QED
  BY <1>1, <1>2, NoEventStep DEF Over

LEMMA OpenRefusedStep == Core /\ OpenRefused => Core' /\ LosesNone
<1> SUFFICES ASSUME Core, OpenRefused PROVE Core' /\ LosesNone
  OBVIOUS
<1> USE DEF OpenRefused, Leave, server, pool
<1>1. TypeOK'
  BY DEF Core, TypeOK
<1>2. Told'
  BY DEF Core, Told, Over
<1> QED
  BY <1>1, <1>2, NoEventStep DEF Over

LEMMA BlipStep == Core /\ Blip => Core' /\ LosesNone
<1> SUFFICES ASSUME Core, Blip PROVE Core' /\ LosesNone
  OBVIOUS
<1> USE DEF Blip, server, pool
<1>1. TypeOK'
  BY DEF Core, TypeOK
<1>2. Told'
  BY DEF Core, Told, Over
<1> QED
  BY <1>1, <1>2, NoEventStep DEF Over

LEMMA WakeStep == Core /\ Wake => Core' /\ LosesNone
<1> SUFFICES ASSUME Core, Wake PROVE Core' /\ LosesNone
  OBVIOUS
<1> USE DEF Wake, server, pool
<1>1. TypeOK'
  BY DEF Core, TypeOK
<1>2. Told'
  BY DEF Core, Told, Over
<1> QED
  BY <1>1, <1>2, NoEventStep DEF Over

LEMMA CleanEndStep == Core /\ CleanEnd => Core' /\ LosesNone
<1> SUFFICES ASSUME Core, CleanEnd PROVE Core' /\ LosesNone
  OBVIOUS
<1> USE DEF CleanEnd, server, pool
<1>1. TypeOK'
  BY DEF Core, TypeOK
<1>2. Told'
  BY DEF Core, Told, Over
<1> QED
  BY <1>1, <1>2, NoEventStep DEF Over

LEMMA DrainStep == Core /\ Drain => Core' /\ LosesNone
<1> SUFFICES ASSUME Core, Drain PROVE Core' /\ LosesNone
  OBVIOUS
<1> USE DEF Drain, server, pool
<1>1. TypeOK'
  BY DEF Core, TypeOK
<1>2. Told'
  BY DEF Core, Told, Over
<1> QED
  BY <1>1, <1>2, NoEventStep DEF Over

LEMMA CloseMcpStep == Core /\ CloseMcp => Core' /\ LosesNone
<1> SUFFICES ASSUME Core, CloseMcp PROVE Core' /\ LosesNone
  OBVIOUS
<1> USE DEF CloseMcp, server, pool
<1>1. TypeOK'
  BY DEF Core, TypeOK
<1>2. Told'
  BY DEF Core, Told, Over
<1> QED
  BY <1>1, <1>2, NoEventStep DEF Over

-----------------------------------------------------------------------------
(* The log grows behind last_seq.                                          *)

LEMMA EmitAppends ==
    ASSUME TypeOK, NEW kind \in Kinds, Emit(kind)
    PROVE  /\ log' \in Seq(Kinds) /\ Len(log') = Len(log) + 1
           /\ Len(log) \in Nat /\ Len(log') <= MaxLog
           /\ log'[Len(log')] = kind
           /\ \A i \in 1..Len(log) : log'[i] = log[i]
<1>1. log \in Seq(Kinds) /\ log' = Append(log, kind)
  BY DEF TypeOK, Emit
<1>2. Len(log) < MaxLog
  BY <1>1, Bounds DEF Emit
<1> QED
  BY <1>1, <1>2, Bounds

LEMMA EmitStep == \A kind \in Kinds : Core /\ Emit(kind) => Core' /\ LosesNone
<1> SUFFICES ASSUME NEW kind \in Kinds, Core, Emit(kind) PROVE Core' /\ LosesNone
  OBVIOUS
<1>1. UNCHANGED <<answered, stream, pool, mcpOpen>> /\ ~RunEnded
  BY DEF Emit
<1>2. /\ log' \in Seq(Kinds) /\ Len(log') = Len(log) + 1
      /\ Len(log) \in Nat /\ Len(log') <= MaxLog
      /\ log'[Len(log')] = kind
      /\ \A i \in 1..Len(log) : log'[i] = log[i]
  BY EmitAppends DEF Core
<1>3. lastSeq \in Nat /\ lastSeq <= Len(log)
  BY Bounds DEF Core, TypeOK, ExactDelivery
<1>4. \A c \in 1..lastSeq : log'[c] = log[c]
  BY <1>2, <1>3
<1>5. TypeOK'
  BY <1>1, <1>2 DEF Core, TypeOK, stream, pool
<1>6. EndsLog'
  <2>1. \A i \in 1..Len(log) : ~IsTerminal(log[i])
    BY <1>1, <1>2 DEF Core, EndsLog, RunEnded, TypeOK
  <2>2. \A i \in 1..Len(log') : i = Len(log') \/ ~IsTerminal(log'[i])
    BY <2>1, <1>2
  <2> QED
    BY <2>2 DEF EndsLog
<1>7. ExactDelivery'
  BY <1>1, <1>2, <1>3 DEF Core, ExactDelivery, stream
<1>8. AtLastSeq'
  BY <1>1, <1>2, <1>3, <1>4 DEF Core, AtLastSeq, stream
<1>9. \A c : Seen(c)' <=> Seen(c)
  BY <1>1, <1>4 DEF Seen, Shown, stream
<1>10. QueueFresh' /\ WorkOnce' /\ RanOnce'
  BY <1>1, <1>9 DEF Core, QueueFresh, WorkOnce, RanOnce, pool
<1>11. Answers' /\ LosesNone
  BY <1>1, <1>4 DEF Core, Answers, LosesNone, Lost, Shown, stream, pool
<1>12. Told'
  <2>1. outcome # "success"
    BY <1>1 DEF Core, Told, RunEnded, IsTerminal
  <2> QED
    BY <1>1, <2>1 DEF Core, Told, Over, stream, pool
<1> QED
  BY <1>5, <1>6, <1>7, <1>8, <1>10, <1>11, <1>12 DEF Core

-----------------------------------------------------------------------------
(* A frame is yielded and taken.                                           *)

LEMMA ReceiveStep == Core /\ Receive => Core' /\ LosesNone
<1> SUFFICES ASSUME Core, Receive PROVE Core' /\ LosesNone
  OBVIOUS
<1>1. /\ pc = "read" /\ pc' = "yield"
      /\ UNCHANGED <<log, answered, reason, ended, outcome, queue, work, ran, mcpOpen>>
  BY DEF Receive, server, pool
<1>2. /\ lastSeq \in Nat /\ Len(log) \in Nat /\ Len(log) <= MaxLog
      /\ lastSeq < Len(log) /\ lastSeq' = lastSeq + 1 /\ sent' = lastSeq'
  BY <1>1, Bounds DEF Core, TypeOK, AtLastSeq, Receive, Advance
<1>3. cur' = [kind |-> log[lastSeq'], seq |-> lastSeq', whole |-> TRUE]
  BY <1>1, <1>2 DEF Receive
<1>4. /\ delivered' = [i \in 1..lastSeq' |-> i]
      /\ delivered' \in Seq(Positions)
  <2>1. delivered = [i \in 1..lastSeq |-> i] /\ delivered' = Append(delivered, lastSeq + 1)
    BY <1>2 DEF Core, ExactDelivery, Receive
  <2>2. delivered' \in Seq(Positions)
    <3>1. lastSeq + 1 \in Positions
      BY <1>2, Bounds DEF Positions
    <3> QED
      BY <2>1, <3>1 DEF Core, TypeOK
  <2> QED
    BY <2>1, <2>2, <1>2, CountTo
<1>5. TypeOK'
  <2>1. sent' \in 0..MaxLog /\ lastSeq' \in 0..MaxLog
    BY <1>2, Bounds
  <2>2. cur' \in [kind : Kinds, seq : 0..MaxLog, whole : BOOLEAN]
    BY <1>2, <1>3, <2>1 DEF Core, TypeOK
  <2> QED
    BY <1>1, <1>4, <2>1, <2>2 DEF Core, TypeOK
<1>6. EndsLog' /\ ExactDelivery'
  BY <1>1, <1>2, <1>4 DEF Core, EndsLog, ExactDelivery
<1>7. AtLastSeq'
  BY <1>1, <1>2, <1>3 DEF AtLastSeq
<1>8. \A c : Shown(c)' <=> c = lastSeq + 1
  BY <1>1, <1>2, <1>3 DEF Shown
<1>9. \A c : Seen(c) => Seen(c)'
  BY <1>1, <1>2, <1>8 DEF Seen
<1>10. QueueFresh' /\ WorkOnce' /\ RanOnce'
  BY <1>1, <1>9 DEF Core, QueueFresh, WorkOnce, RanOnce
<1>11. LosesNone
  <2>1. \A c \in 1..lastSeq' : c \in 1..lastSeq \/ c = lastSeq + 1
    BY <1>2
  <2> QED
    BY <1>1, <1>8, <2>1 DEF LosesNone, Lost, Shown
<1>12. Answers' /\ Told'
  BY <1>1 DEF Core, Answers, Told, Over
<1> QED
  BY <1>5, <1>6, <1>7, <1>10, <1>11, <1>12 DEF Core

LEMMA ReceiveCutStep == Core /\ ReceiveCut => Core' /\ LosesNone
<1> SUFFICES ASSUME Core, ReceiveCut PROVE Core' /\ LosesNone
  OBVIOUS
<1>1. /\ pc = "read" /\ pc' = "yield"
      /\ UNCHANGED <<log, answered, reason, sent, lastSeq, outcome, delivered,
                     queue, work, ran, mcpOpen>>
      /\ ended' = TRUE
  BY DEF ReceiveCut, server, pool
<1>2. /\ lastSeq \in 0..MaxLog /\ sent = lastSeq
      /\ sent + 1 \in 1..Len(log)
  BY <1>1, Bounds DEF Core, TypeOK, AtLastSeq, ReceiveCut
<1>3. \E kind \in Kinds \ {"success"} :
         cur' = [kind |-> kind, seq |-> lastSeq, whole |-> FALSE]
  <2>1. log[sent + 1] \in Kinds
    BY <1>2 DEF Core, TypeOK
  <2> QED
    BY <2>1, KindsSplit DEF ReceiveCut
<1>4. TypeOK'
  BY <1>1, <1>2, <1>3 DEF Core, TypeOK
<1>5. EndsLog' /\ ExactDelivery'
  BY <1>1 DEF Core, EndsLog, ExactDelivery
<1>6. AtLastSeq'
  BY <1>1, <1>2, <1>3 DEF AtLastSeq
<1>7. \A c : Seen(c)' <=> Seen(c)
  BY <1>1, <1>3 DEF Seen, Shown
<1>8. QueueFresh' /\ WorkOnce' /\ RanOnce'
  BY <1>1, <1>7 DEF Core, QueueFresh, WorkOnce, RanOnce
<1>9. LosesNone
  BY <1>1 DEF LosesNone, Lost, Shown
<1>10. Answers' /\ Told'
  BY <1>1 DEF Core, Answers, Told, Over
<1> QED
  BY <1>4, <1>5, <1>6, <1>8, <1>9, <1>10 DEF Core

LEMMA AbandonStep ==
    Core /\ Abandon => Core' /\ \A c : Lost(c)' => Lost(c) \/ c = lastSeq
<1> SUFFICES ASSUME Core, Abandon
             PROVE  Core' /\ \A c : Lost(c)' => Lost(c) \/ c = lastSeq
  OBVIOUS
<1>1. /\ pc = "yield" /\ pc' = "drain" /\ outcome' = "raised"
      /\ UNCHANGED <<log, answered, reason, sent, ended, lastSeq, cur, delivered,
                     queue, work, ran, mcpOpen>>
  BY DEF Abandon, Leave, server, pool
<1>2. TypeOK'
  BY <1>1 DEF Core, TypeOK
<1>3. EndsLog' /\ ExactDelivery' /\ AtLastSeq'
  BY <1>1 DEF Core, EndsLog, ExactDelivery, AtLastSeq
<1>4. \A c : Seen(c) => Seen(c)'
  BY <1>1 DEF Seen, Shown
<1>5. QueueFresh' /\ WorkOnce' /\ RanOnce'
  BY <1>1, <1>4 DEF Core, QueueFresh, WorkOnce, RanOnce
<1>6. \A c : Lost(c)' => Lost(c) \/ c = lastSeq
  <2>1. \A c : Shown(c) => c = lastSeq
    BY DEF Core, AtLastSeq, Shown
  <2> QED
    BY <1>1, <2>1 DEF Lost
<1>7. Answers' /\ Told'
  BY <1>1 DEF Core, Answers, Told, Over
<1> QED
  BY <1>2, <1>3, <1>5, <1>6, <1>7 DEF Core

LEMMA ResumeStep == Core /\ Resume => Core' /\ LosesNone
<1> SUFFICES ASSUME Core, Resume PROVE Core' /\ LosesNone
  OBVIOUS
<1>1. /\ pc = "yield"
      /\ queue' = Submitted(cur) /\ outcome' = Reported(cur)
      /\ pc' = IF IsTerminal(cur.kind) THEN "drain" ELSE "read"
      /\ UNCHANGED <<log, answered, reason, sent, ended, lastSeq, cur, delivered,
                     work, ran, mcpOpen>>
  BY DEF Resume, server
<1>2. /\ cur.kind \in Kinds
      /\ cur.whole => cur.seq = lastSeq /\ lastSeq \in 1..Len(log)
                      /\ cur.kind = log[lastSeq]
      /\ ~cur.whole => cur.kind # "success"
      /\ outcome = "none" /\ queue \in Seq(Positions)
  BY <1>1 DEF Core, TypeOK, AtLastSeq, Told, Over
<1>3. cur.kind = "call" /\ cur.whole => lastSeq \in Positions
  BY <1>2, Bounds DEF Core, TypeOK, Positions
<1>4. /\ queue' \in Seq(Positions)
      /\ Len(queue) \in Nat
      /\ IF cur.kind = "call" /\ cur.whole
         THEN /\ Len(queue') = Len(queue) + 1
              /\ queue'[Len(queue')] = lastSeq
              /\ \A i \in 1..Len(queue) : queue'[i] = queue[i]
         ELSE queue' = queue
  BY <1>1, <1>2, <1>3 DEF Submitted
<1>5. /\ pc' = "drain" \/ pc' = "read"
      /\ pc' = "drain" <=> outcome' # "none"
      /\ outcome' \in {"none", "success", "failure"}
      /\ outcome' = "success" => cur.whole /\ cur.kind = "success"
  BY <1>1, <1>2 DEF Reported, IsTerminal, Kinds
<1>6. TypeOK'
  BY <1>1, <1>4, <1>5 DEF Core, TypeOK
<1>7. EndsLog' /\ ExactDelivery'
  BY <1>1 DEF Core, EndsLog, ExactDelivery
<1>8. AtLastSeq'
  BY <1>1, <1>5 DEF Core, AtLastSeq
<1>9. \A c : Seen(c)' <=> c \in 1..lastSeq /\ log[c] = "call"
  BY <1>1, <1>5 DEF Seen, Shown
<1>10. \A c : Seen(c) => Seen(c)'
  BY <1>9 DEF Seen
<1>11. QueueFresh'
  <2>1. CASE ~(cur.kind = "call" /\ cur.whole)
    BY <2>1, <1>1, <1>4, <1>10 DEF Core, QueueFresh
  <2>2. CASE cur.kind = "call" /\ cur.whole
    <3>1. ~Seen(lastSeq) /\ Seen(lastSeq)'
      BY <1>1, <1>2, <1>9, <2>2 DEF Seen, Shown
    <3>2. ran[lastSeq] = 0
      BY <3>1, <1>3, <2>2 DEF Core, RanOnce
    <3>3. \A i \in 1..Len(queue) : queue[i] # lastSeq
      BY <3>1 DEF Core, QueueFresh
    <3>4. \A i \in 1..Len(queue') : i \in 1..Len(queue) \/ i = Len(queue')
      BY <1>4, <2>2
    <3>5. (\A i \in 1..Len(queue) : Seen(queue[i]) /\ ran[queue[i]] = 0)'
      BY <1>1, <1>4, <1>10, <2>2, <3>1, <3>2, <3>4 DEF Core, QueueFresh
    <3>6. \A i, j \in 1..Len(queue') : queue'[i] = queue'[j] => i = j
      BY <1>4, <2>2, <3>3, <3>4 DEF Core, QueueFresh
    <3> QED
      BY <3>5, <3>6 DEF QueueFresh
  <2> QED
    BY <2>1, <2>2
<1>12. WorkOnce' /\ RanOnce'
  BY <1>1, <1>10 DEF Core, WorkOnce, RanOnce
<1>13. LosesNone
  <2> SUFFICES ASSUME NEW c, Lost(c)' PROVE Lost(c)
    BY DEF LosesNone
  <2>1. /\ c \in 1..lastSeq /\ log[c] = "call" /\ ran[c] # 1
        /\ \A i \in 1..Len(queue') : queue'[i] # c
    BY <1>1 DEF Lost
  <2>2. \A i \in 1..Len(queue) : queue[i] # c
    BY <2>1, <1>4
  <2>3. ~Shown(c)
    BY <2>1, <1>2, <1>4 DEF Shown
  <2> QED
    BY <2>1, <2>2, <2>3 DEF Lost
<1>14. Answers'
  BY <1>1 DEF Core, Answers
<1>15. Told'
  <2>1. outcome' = "success" => lastSeq = Len(log) /\ log # <<>> /\ log[Len(log)] = "success"
    BY <1>2, <1>5 DEF Core, EndsLog, IsTerminal
  <2> QED
    BY <1>1, <1>5, <2>1 DEF Core, Told, Over
<1> QED
  BY <1>6, <1>7, <1>8, <1>11, <1>12, <1>13, <1>14, <1>15 DEF Core

-----------------------------------------------------------------------------
(* The pool.                                                               *)

LEMMA TakeStep == \A w \in Workers : Core /\ Take(w) => Core' /\ LosesNone
<1> SUFFICES ASSUME NEW w \in Workers, Core, Take(w) PROVE Core' /\ LosesNone
  OBVIOUS
<1> DEFINE c == queue[1]
<1>1. /\ queue \in Seq(Positions) /\ queue # <<>> /\ c \in Positions
      /\ Len(queue) \in Nat /\ 1 \in 1..Len(queue)
  BY DEF Core, TypeOK, Take
<1>2. /\ queue' \in Seq(Positions) /\ Len(queue') = Len(queue) - 1
      /\ \A i \in 1..Len(queue') : i + 1 \in 1..Len(queue) /\ queue'[i] = queue[i + 1]
  BY <1>1 DEF Take
<1>3. /\ UNCHANGED <<log, answered, stream, mcpOpen>>
      /\ work' = [work EXCEPT ![w] = [step |-> "handle", call |-> c, attempt |-> 0]]
      /\ ran' = [ran EXCEPT ![c] = @ + 1]
  BY <1>1 DEF Take, server
<1>4. Seen(c) /\ ran[c] = 0
  BY <1>1 DEF Core, QueueFresh
<1>5. /\ ran' \in [Positions -> Nat] /\ ran'[c] = 1
      /\ \A d \in Positions : d # c => ran'[d] = ran[d]
  BY <1>1, <1>3, <1>4 DEF Core, TypeOK
<1>6. TypeOK'
  <2>1. [step |-> "handle", call |-> c, attempt |-> 0] \in
           [step : {"idle", "handle", "post"}, call : 0..MaxLog, attempt : 0..MaxAttempts - 1]
    BY <1>1, Bounds DEF Positions
  <2> QED
    BY <1>2, <1>3, <1>5, <2>1 DEF Core, TypeOK, stream
<1>7. EndsLog' /\ ExactDelivery' /\ AtLastSeq'
  BY <1>3 DEF Core, EndsLog, ExactDelivery, AtLastSeq, stream
<1>8. \A d : (Seen(d)' <=> Seen(d)) /\ (Shown(d)' <=> Shown(d))
  BY <1>3 DEF Seen, Shown, stream
<1>9. \A i \in 1..Len(queue') : queue'[i] # c
  BY <1>1, <1>2 DEF Core, QueueFresh
<1>10. QueueFresh'
  <2>1. \A i \in 1..Len(queue') : /\ queue'[i] \in Positions
                                   /\ Seen(queue'[i]) /\ ran[queue'[i]] = 0
    BY <1>2 DEF Core, QueueFresh
  <2>2. (\A i \in 1..Len(queue) : Seen(queue[i]) /\ ran[queue[i]] = 0)'
    BY <1>5, <1>8, <1>9, <2>1
  <2>3. \A i, j \in 1..Len(queue') : queue'[i] = queue'[j] => i = j
    BY <1>1, <1>2 DEF Core, QueueFresh
  <2> QED
    BY <2>2, <2>3 DEF QueueFresh
<1>11. WorkOnce'
  <2> SUFFICES ASSUME NEW v \in Workers, work'[v].step # "idle"
               PROVE  (Seen(work[v].call) /\ ran[work[v].call] = 1)'
    BY DEF WorkOnce
  <2>1. CASE v = w
    <3>1. work'[v].call = c
      BY <1>3, <2>1 DEF Core, TypeOK
    <3> QED
      BY <3>1, <1>4, <1>5, <1>8
  <2>2. CASE v # w
    <3>1. work'[v] = work[v]
      BY <1>3, <2>2 DEF Core, TypeOK
    <3>2. Seen(work[v].call) /\ ran[work[v].call] = 1
      BY <3>1 DEF Core, WorkOnce
    <3>3. work[v].call \in Positions
      BY <3>2, Bounds DEF Seen, Core, TypeOK, Positions
    <3> QED
      BY <3>1, <3>2, <3>3, <1>4, <1>5, <1>8
  <2> QED
    BY <2>1, <2>2
<1>12. RanOnce'
  BY <1>4, <1>5, <1>8 DEF Core, RanOnce
<1>13. LosesNone
  <2> SUFFICES ASSUME NEW d \in 1..lastSeq, log[d] = "call", ran'[d] # 1,
                      \E i \in 1..Len(queue) : queue[i] = d
               PROVE  \E i \in 1..Len(queue') : queue'[i] = d
    BY <1>3, <1>5, <1>8 DEF LosesNone, Lost, stream
  <2>1. d \in Positions /\ d # c
    <3>1. lastSeq \in 0..MaxLog
      BY DEF Core, TypeOK
    <3>2. d \in Positions
      BY <3>1, Bounds DEF Positions
    <3> QED
      BY <3>2, <1>5
  <2>2. PICK i \in 1..Len(queue) : queue[i] = d
    OBVIOUS
  <2>3. i - 1 \in 1..Len(queue') /\ queue'[i - 1] = d
    BY <2>1, <2>2, <1>1, <1>2
  <2> QED
    BY <2>3
<1>14. Answers'
  BY <1>3, <1>4, <1>5 DEF Core, Answers, TypeOK
<1>15. Told'
  BY <1>3 DEF Core, Told, Over, stream
<1> QED
  BY <1>6, <1>7, <1>10, <1>11, <1>12, <1>13, <1>14, <1>15 DEF Core

\* What a thread does between taking a call and giving it up.
LEMMA ThreadStep ==
    ASSUME Core, TypeOK', NEW w \in Workers, work[w].step # "idle",
           UNCHANGED <<log, stream, queue, ran, mcpOpen>>,
           \A v \in Workers : v # w => work'[v] = work[v],
           work'[w].step = "idle" \/ work'[w].call = work[w].call,
           answered' \subseteq answered \cup {work[w].call}
    PROVE  Core' /\ LosesNone
<1>1. Seen(work[w].call) /\ ran[work[w].call] = 1
  BY DEF Core, WorkOnce
<1>2. EndsLog' /\ ExactDelivery' /\ AtLastSeq'
  BY DEF Core, EndsLog, ExactDelivery, AtLastSeq, stream
<1>3. \A c : (Seen(c)' <=> Seen(c)) /\ (Shown(c)' <=> Shown(c))
  BY DEF Seen, Shown, stream
<1>4. QueueFresh' /\ RanOnce'
  BY <1>3 DEF Core, QueueFresh, RanOnce
<1>5. WorkOnce'
  BY <1>1, <1>3 DEF Core, WorkOnce
<1>6. LosesNone
  BY <1>3 DEF LosesNone, Lost, stream
<1>7. Answers'
  BY <1>1 DEF Core, Answers
<1>8. Told'
  BY DEF Core, Told, Over, stream
<1> QED
  BY <1>2, <1>4, <1>5, <1>6, <1>7, <1>8 DEF Core

LEMMA HandledStep == \A w \in Workers : Core /\ Handled(w) => Core' /\ LosesNone
<1> SUFFICES ASSUME NEW w \in Workers, Core, Handled(w) PROVE Core' /\ LosesNone
  OBVIOUS
<1>1. /\ work[w].step = "handle"
      /\ UNCHANGED <<log, answered, stream, queue, ran, mcpOpen>>
      /\ work' = [work EXCEPT ![w].step = "post"]
  BY DEF Handled, server
<1>2. TypeOK'
  BY <1>1 DEF Core, TypeOK, stream
<1>3. /\ \A v \in Workers : v # w => work'[v] = work[v]
      /\ work'[w].call = work[w].call
  BY <1>1 DEF Core, TypeOK
<1> QED
  BY <1>1, <1>2, <1>3, ThreadStep

LEMMA PostStep == \A w \in Workers : Core /\ Post(w) => Core' /\ LosesNone
<1> SUFFICES ASSUME NEW w \in Workers, Core, Post(w) PROVE Core' /\ LosesNone
  OBVIOUS
<1>1. /\ work[w].step = "post"
      /\ UNCHANGED <<log, stream, queue, ran, mcpOpen>>
      /\ answered' \subseteq answered \cup {work[w].call}
  BY DEF Post, PostAccepted, PostRefused, PostFailed, PostRaises, server
<1>2. \/ work' = [work EXCEPT ![w] = Idle]
      \/ /\ work[w].attempt < MaxAttempts - 1
         /\ work' = [work EXCEPT ![w].attempt = @ + 1]
  <2>1. CASE PostAccepted(w) \/ PostRefused(w) \/ PostRaises(w)
    BY <2>1 DEF PostAccepted, PostRefused, PostRaises
  <2>2. CASE PostFailed(w) /\ AttemptsLeft(work[w].attempt)
    BY <2>2 DEF PostFailed, AttemptsLeft
  <2>3. CASE PostFailed(w) /\ ~AttemptsLeft(work[w].attempt)
    BY <2>3 DEF PostFailed
  <2> QED
    BY <2>1, <2>2, <2>3 DEF Post
<1>3. work \in [Workers -> [step : {"idle", "handle", "post"},
                            call : 0..MaxLog, attempt : 0..MaxAttempts - 1]]
  BY DEF Core, TypeOK
<1>4. /\ work' \in [Workers -> [step : {"idle", "handle", "post"},
                                call : 0..MaxLog, attempt : 0..MaxAttempts - 1]]
      /\ \A v \in Workers : v # w => work'[v] = work[v]
      /\ work'[w].step = "idle" \/ work'[w].call = work[w].call
  <2>1. CASE work' = [work EXCEPT ![w] = Idle]
    <3>1. Idle \in [step : {"idle", "handle", "post"},
                    call : 0..MaxLog, attempt : 0..MaxAttempts - 1]
      BY Bounds DEF Idle, NoCall
    <3> QED
      BY <2>1, <3>1, <1>3 DEF Idle
  <2>2. CASE /\ work[w].attempt < MaxAttempts - 1
             /\ work' = [work EXCEPT ![w].attempt = @ + 1]
    <3>1. work[w].attempt + 1 \in 0..MaxAttempts - 1
      BY <2>2, <1>3, Bounds
    <3> QED
      BY <2>2, <3>1, <1>3
  <2> QED
    BY <1>2, <2>1, <2>2
<1>5. work[w].call \in Positions
  BY <1>1, Bounds DEF Core, WorkOnce, Seen, TypeOK, Positions
<1>6. TypeOK'
  BY <1>1, <1>4, <1>5 DEF Core, TypeOK, stream
<1> QED
  BY <1>1, <1>4, <1>6, ThreadStep

-----------------------------------------------------------------------------
(* The invariant.                                                          *)

LEMMA StutterCore ==
    Core /\ UNCHANGED vars => Core' /\ (\A c : Lost(c)' <=> Lost(c))
<1> SUFFICES ASSUME Core, UNCHANGED vars
             PROVE  Core' /\ (\A c : Lost(c)' <=> Lost(c))
  OBVIOUS
<1> USE DEF vars, server, stream, pool
<1>1. \A c : (Seen(c)' <=> Seen(c)) /\ (Shown(c)' <=> Shown(c))
  BY DEF Seen, Shown
<1>2. TypeOK' /\ EndsLog' /\ ExactDelivery' /\ AtLastSeq'
  BY DEF Core, TypeOK, EndsLog, ExactDelivery, AtLastSeq
<1>3. QueueFresh' /\ WorkOnce' /\ RanOnce'
  BY <1>1 DEF Core, QueueFresh, WorkOnce, RanOnce
<1>4. Answers' /\ Told'
  BY DEF Core, Answers, Told, Over
<1>5. \A c : Lost(c)' <=> Lost(c)
  BY <1>1 DEF Lost
<1> QED
  BY <1>2, <1>3, <1>4, <1>5 DEF Core

LEMMA NextCore ==
    ASSUME Core, [Next]_vars
    PROVE  Core' /\ \A c : Lost(c)' => Lost(c) \/ (Abandon /\ c = lastSeq)
<1>1. CASE \E kind \in Kinds : Emit(kind)
  BY <1>1, EmitStep DEF LosesNone
<1>2. CASE OpenAccepted \/ OpenUnauthorized \/ OpenRefused \/ Blip \/ Wake
  BY <1>2, OpenAcceptedStep, OpenUnauthorizedStep, OpenRefusedStep, BlipStep, WakeStep
     DEF LosesNone
<1>3. CASE Receive \/ ReceiveCut \/ CleanEnd
  BY <1>3, ReceiveStep, ReceiveCutStep, CleanEndStep DEF LosesNone
<1>4. CASE Resume
  BY <1>4, ResumeStep DEF LosesNone
<1>5. CASE Abandon
  BY <1>5, AbandonStep
<1>6. CASE \E w \in Workers : Work(w)
  BY <1>6, TakeStep, HandledStep, PostStep DEF Work, LosesNone
<1>7. CASE Drain \/ CloseMcp
  BY <1>7, DrainStep, CloseMcpStep DEF LosesNone
<1>8. CASE UNCHANGED vars
  BY <1>8, StutterCore
<1> QED
  BY <1>1, <1>2, <1>3, <1>4, <1>5, <1>6, <1>7, <1>8 DEF Next, Finished

\* The generator, once left, is over for good.
LEMMA OverForGood ==
    ASSUME [Next]_vars, pc \in Over
    PROVE  pc' \in Over /\ UNCHANGED <<outcome, lastSeq>>
<1> USE DEF Over, server, stream, pool
<1>1. CASE \E kind \in Kinds : Emit(kind)
  BY <1>1 DEF Emit
<1>2. CASE OpenAccepted \/ OpenUnauthorized \/ OpenRefused \/ Blip \/ Wake
  BY <1>2 DEF OpenAccepted, OpenUnauthorized, OpenRefused, Blip, Wake
<1>3. CASE Receive \/ ReceiveCut \/ CleanEnd \/ Resume \/ Abandon
  BY <1>3 DEF Receive, ReceiveCut, CleanEnd, Resume, Abandon
<1>4. CASE \E w \in Workers : Work(w)
  BY <1>4 DEF Work, Take, Handled, Post, PostAccepted, PostRefused, PostFailed, PostRaises
<1>5. CASE Drain \/ CloseMcp \/ UNCHANGED vars
  BY <1>5 DEF Drain, CloseMcp, vars
<1> QED
  BY <1>1, <1>2, <1>3, <1>4, <1>5 DEF Next, Finished

LEMMA ServedStep == IInv /\ [Next]_vars => Served'
<1> SUFFICES ASSUME IInv, [Next]_vars, NEW c, Lost(c)'
             PROVE  (outcome = "raised" /\ c = lastSeq /\ pc \in Over)'
  BY DEF Served
<1>1. CASE Lost(c)
  BY <1>1, OverForGood DEF IInv, Served
<1>2. CASE Abandon /\ c = lastSeq
  BY <1>2 DEF Abandon, Leave, Over
<1> QED
  BY <1>1, <1>2, NextCore DEF IInv

\* The pool is not quiet as long as one of its threads can take a step.
LEMMA PoolStepIsBusy == \A w \in Workers : Work(w) => ~PoolQuiet
BY DEF Work, Take, Handled, Post, PostAccepted, PostRefused, PostFailed, PostRaises,
       PoolQuiet, Idle

LEMMA QuietStep == IInv /\ [Next]_vars => Quiet'
<1> SUFFICES ASSUME Core, Quiet, [Next]_vars PROVE Quiet'
  BY DEF IInv
<1> USE DEF Quiet, PoolQuiet, server, stream, pool
<1>1. CASE \E kind \in Kinds : Emit(kind)
  BY <1>1 DEF Emit
<1>2. CASE OpenAccepted \/ OpenUnauthorized \/ OpenRefused \/ Blip \/ Wake
  BY <1>2 DEF OpenAccepted, OpenUnauthorized, OpenRefused, Blip, Wake, Leave
<1>3. CASE Receive \/ ReceiveCut \/ CleanEnd \/ Abandon
  BY <1>3 DEF Receive, ReceiveCut, CleanEnd, Abandon, Leave
<1>4. CASE Resume
  BY <1>4 DEF Resume
<1>5. CASE \E w \in Workers : Work(w)
  <2>1. pc \notin {"close", "done"} /\ mcpOpen
    BY <1>5, PoolStepIsBusy DEF Core, TypeOK
  <2>2. UNCHANGED <<pc, mcpOpen>>
    BY <1>5 DEF Work, Take, Handled, Post, PostAccepted, PostRefused, PostFailed, PostRaises
  <2> QED
    BY <2>1, <2>2
<1>6. CASE Drain \/ CloseMcp \/ UNCHANGED vars
  BY <1>6 DEF Drain, CloseMcp, vars
<1> QED
  BY <1>1, <1>2, <1>3, <1>4, <1>5, <1>6 DEF Next, Finished

LEMMA InitIInv == Init => IInv
BY InitCore DEF IInv, Served, Quiet, Init

LEMMA IInvStep == IInv /\ [Next]_vars => IInv'
BY NextCore, ServedStep, QuietStep DEF IInv

LEMMA Invariance == Spec => []IInv
BY InitIInv, IInvStep, PTL DEF Spec

-----------------------------------------------------------------------------
(* The properties.                                                         *)

\* Type correctness: in particular no thread posts more often than
\* _TOOL_RESULT_POST_MAX_ATTEMPTS allows.
THEOREM TypeCorrect == Spec => []TypeOK
<1>1. IInv => TypeOK
  BY DEF IInv, Core
<1> QED
  BY <1>1, Invariance, PTL

\* Over any sequence of connections, blips, cut bodies and refusals, the
\* frames yielded by _stream_events are the log from its start, each once.
THEOREM EachEventOnceInOrder == Spec => []ExactDelivery
<1>1. IInv => ExactDelivery
  BY DEF IInv, Core
<1> QED
  BY <1>1, Invariance, PTL

LEMMA AnsweredCalls == Core => AnswersMatchCalls
<1> SUFFICES ASSUME Core, NEW c \in answered
             PROVE  c \in CallsIn(log) /\ ran[c] = 1
  BY DEF AnswersMatchCalls
<1>1. c \in Positions /\ ran[c] = 1
  BY DEF Core, TypeOK, Answers
<1>2. Seen(c)
  BY <1>1 DEF Core, RanOnce
<1>3. c \in 1..Len(log)
  BY <1>2, Bounds DEF Seen, Core, TypeOK, ExactDelivery
<1> QED
  BY <1>1, <1>2, <1>3 DEF Seen, CallsIn, Core, TypeOK

\* The server has results only of calls it made and whose handler has been
\* run once, however often _post_tool_result retries.
THEOREM ResultsAreOfCalls == Spec => []AnswersMatchCalls
BY AnsweredCalls, Invariance, PTL DEF IInv

\* run_agent closes the MCP transports of no call that waits or runs.
THEOREM TransportsLast == Spec => []TransportsOutliveCalls
<1>1. IInv => TransportsOutliveCalls
  BY DEF IInv, Quiet, PoolQuiet, Idle, InPool, TransportsOutliveCalls
<1> QED
  BY <1>1, Invariance, PTL

\* A run that has returned has run every call its caller was given.
THEOREM EveryCallRun == Spec => []CallsServed
<1>1. IInv => CallsServed
  <2> SUFFICES ASSUME IInv, pc = "done", NEW c \in CallsIn(SubSeq(log, 1, lastSeq))
               PROVE  ran[c] = 1 \/ (outcome = "raised" /\ c = lastSeq)
    BY DEF CallsServed
  <2>1. c \in 1..lastSeq /\ log[c] = "call"
    BY CallsSeen DEF IInv, Core, ExactDelivery
  <2>2. queue = <<>> /\ ~Shown(c)
    BY DEF IInv, Quiet, PoolQuiet, Shown
  <2>3. ran[c] = 1 \/ Lost(c)
    BY <2>1, <2>2 DEF Lost
  <2> QED
    BY <2>3 DEF IInv, Served
<1> QED
  BY <1>1, Invariance, PTL

-----------------------------------------------------------------------------
(* The refinement.                                                         *)

LEMMA InitContract == Init => Contract!ContractInit
BY DEF Init, Contract!ContractInit

LEMMA EmitGrows == \A kind \in Kinds : Emit(kind) => Contract!Grow(kind)
<1> SUFFICES ASSUME NEW kind \in Kinds, Emit(kind) PROVE Contract!Grow(kind)
  OBVIOUS
<1>1. log = <<>> \/ log[Len(log)] \notin {"success", "failure"}
  BY DEF Emit, RunEnded, IsTerminal
<1>2. UNCHANGED <<lastSeq, ran, pc, outcome>>
  BY DEF Emit, stream, pool
<1> QED
  BY <1>1, <1>2 DEF Emit, Contract!Grow

LEMMA ReceiveSees == Core /\ Receive => Contract!See
<1> SUFFICES ASSUME Core, Receive PROVE Contract!See
  OBVIOUS
<1>1. lastSeq < Len(log) /\ lastSeq' = lastSeq + 1
  BY Bounds DEF Core, TypeOK, AtLastSeq, Receive, Advance
<1>2. UNCHANGED <<log, ran>> /\ pc = "read" /\ pc' = "yield"
  BY DEF Receive, server, pool
<1> QED
  BY <1>1, <1>2 DEF Contract!See

LEMMA TakeRuns == \A w \in Workers : Core /\ Take(w) => \E c \in 1..lastSeq : Contract!Runs(c)
<1> SUFFICES ASSUME NEW w \in Workers, Core, Take(w)
             PROVE  \E c \in 1..lastSeq : Contract!Runs(c)
  OBVIOUS
<1>1. queue \in Seq(Positions) /\ queue # <<>> /\ 1 \in 1..Len(queue)
  BY DEF Core, TypeOK, Take
<1>2. PICK c \in Positions : c = queue[1]
  BY <1>1
<1>3. Seen(c) /\ ran[c] = 0
  BY <1>1, <1>2 DEF Core, QueueFresh
<1>4. c \in 1..lastSeq /\ c \in Contract!Calls(lastSeq)
  BY <1>3 DEF Seen, Contract!Calls
<1>5. ran' = [ran EXCEPT ![c] = @ + 1] /\ ran \in [Positions -> Nat]
  BY <1>1, <1>2 DEF Take, Core, TypeOK
<1>6. {d \in Positions : ran'[d] > 0} = {d \in Positions : ran[d] > 0} \cup {c}
  BY <1>2, <1>3, <1>5
<1>7. UNCHANGED <<log, lastSeq, pc, outcome>>
  BY DEF Take, server, stream
<1>8. c \notin {d \in Positions : ran[d] > 0}
  BY <1>3
<1> QED
  BY <1>4, <1>6, <1>7, <1>8 DEF Contract!Runs

\* A run that was not given up returns with every call run.
LEMMA CloseReturns ==
    ASSUME Core, CloseMcp, outcome = "success" => queue = <<>> /\ \A c : ~Lost(c)
    PROVE  \E how \in {"success", "failure", "unauthorized", "raised"} :
              Contract!Return(how)
<1>1. /\ pc = "close" /\ pc' = "done"
      /\ UNCHANGED <<log, lastSeq, outcome, ran>>
  BY DEF CloseMcp, server, pool
<1>2. outcome \in {"success", "failure", "unauthorized", "raised"}
  BY <1>1 DEF Core, TypeOK, Told, Over
<1>3. ASSUME outcome = "success"
      PROVE  {c \in Positions : ran[c] > 0} = Contract!Calls(lastSeq)
  <2>1. \A c \in Positions : ran[c] > 0 => c \in 1..lastSeq /\ log[c] = "call"
    BY DEF Core, RanOnce, Seen
  <2>2. \A c \in 1..lastSeq : log[c] = "call" => ran[c] = 1
    BY <1>1, <1>3 DEF Lost, Shown
  <2>3. 1..lastSeq \subseteq Positions
    BY Bounds DEF Core, TypeOK, Positions
  <2> QED
    BY <2>1, <2>2, <2>3 DEF Contract!Calls
<1>4. outcome = "success" => /\ lastSeq = Len(log) /\ log # <<>>
                             /\ log[Len(log)] = "success"
  BY DEF Core, Told
<1> QED
  BY <1>1, <1>2, <1>3, <1>4 DEF Contract!Return

\* Everything else is invisible to the caller.
LEMMA StepContract == IInv /\ [Next]_vars => [Contract!ContractNext]_(Contract!contractVars)
<1> SUFFICES ASSUME IInv, [Next]_vars
             PROVE  [Contract!ContractNext]_(Contract!contractVars)
  OBVIOUS
<1> USE DEF Contract!ContractNext, Contract!contractVars
<1>1. CASE \E kind \in Kinds : Emit(kind)
  BY <1>1, EmitGrows DEF Kinds
<1>2. CASE OpenAccepted \/ OpenUnauthorized \/ OpenRefused \/ Blip \/ Wake
  BY <1>2 DEF OpenAccepted, OpenUnauthorized, OpenRefused, Blip, Wake, Leave, server, pool
<1>3. CASE Receive
  BY <1>3, ReceiveSees DEF IInv
<1>4. CASE ReceiveCut \/ CleanEnd
  BY <1>4 DEF ReceiveCut, CleanEnd, server, pool
<1>5. CASE Resume \/ Abandon
  BY <1>5 DEF Resume, Abandon, Leave, server, pool
<1>6. CASE \E w \in Workers : Take(w)
  <2>1. pc # "done"
    BY <1>6, PoolStepIsBusy DEF IInv, Quiet, Work
  <2>2. PICK c \in 1..lastSeq : Contract!Runs(c)
    BY <1>6, TakeRuns DEF IInv
  <2>3. Contract!Run(c)
    BY <2>1, <2>2 DEF Contract!Run
  <2> QED
    BY <2>3
<1>7. CASE \E w \in Workers : Handled(w) \/ Post(w)
  BY <1>7 DEF Handled, Post, PostAccepted, PostRefused, PostFailed, PostRaises, server, stream
<1>8. CASE Drain
  BY <1>8 DEF Drain, server, pool
<1>9. CASE CloseMcp
  <2>1. outcome = "success" => queue = <<>> /\ \A c : ~Lost(c)
    BY <1>9 DEF CloseMcp, IInv, Served, Quiet, PoolQuiet
  <2> QED
    BY <1>9, <2>1, CloseReturns DEF IInv
<1>10. CASE UNCHANGED vars
  BY <1>10 DEF vars, server, stream, pool
<1> QED
  BY <1>1, <1>2, <1>3, <1>4, <1>5, <1>6, <1>7, <1>8, <1>9, <1>10
     DEF Next, Finished, Work

\* The run keeps the promise of RunContract: events are seen in order and
\* once, calls run once and after they were seen, and a success is the success
\* of the whole run with all its calls run.
THEOREM RunKeepsContract == Spec => ImplementsContract
BY InitContract, Invariance, StepContract, PTL
   DEF Spec, ImplementsContract, Contract!ContractSpec

-----------------------------------------------------------------------------
(* The asynchronous client, for any number of tasks.  Its consumer may go  *)
(* away without waiting for the generator and be cancelled at any await.   *)
(* The steps it shares with the synchronous client preserve Core, as shown *)
(* above; what its own steps do is shown here.                             *)

\* Calls get lost only in a run that raises.
Kept == \A c : Lost(c) => outcome = "raised"

\* The generator of a success was left through its `finally`, which waited.
Joined == outcome = "success" /\ pc \in {"close", "done"} => PoolQuiet

AsyncInv == Core /\ Kept /\ Joined

-----------------------------------------------------------------------------
(* The steps of its own.                                                   *)

LEMMA AsyncStepCases ==
    AsyncNext => Next \/ GivesUp \/ CancelInStream \/ CancelInGather
BY DEF AsyncNext, Generator, Consumer, Dispatch, Next, Work

LEMMA GivesUpStep ==
    ASSUME Core, GivesUp
    PROVE  Core' /\ \A c : Lost(c)' => Lost(c) \/ outcome' = "raised"
<1>1. /\ pc = "yield" /\ pc' = "close"
      /\ outcome' = "raised" \/ (outcome' = "failure" /\ cur.kind = "failure")
      /\ UNCHANGED <<log, answered, reason, sent, ended, lastSeq, cur, delivered,
                     queue, work, ran, mcpOpen>>
  BY DEF GivesUp, server, pool
<1>2. TypeOK'
  BY <1>1 DEF Core, TypeOK
<1>3. EndsLog' /\ ExactDelivery' /\ AtLastSeq'
  BY <1>1 DEF Core, EndsLog, ExactDelivery, AtLastSeq
<1>4. \A c : Seen(c) => Seen(c)'
  BY <1>1 DEF Seen, Shown
<1>5. QueueFresh' /\ WorkOnce' /\ RanOnce'
  BY <1>1, <1>4 DEF Core, QueueFresh, WorkOnce, RanOnce
<1>6. Answers' /\ Told'
  BY <1>1 DEF Core, Answers, Told, Over
<1>7. ASSUME NEW c, Lost(c)', ~Lost(c) PROVE outcome' = "raised"
  <2>1. Shown(c) /\ log[c] = "call"
    BY <1>1, <1>7 DEF Lost
  <2>2. cur.kind = "call"
    BY <1>1, <2>1 DEF Core, AtLastSeq, Shown
  <2> QED
    BY <1>1, <2>2
<1> QED
  BY <1>2, <1>3, <1>5, <1>6, <1>7 DEF Core

LEMMA CancelInStreamStep ==
    ASSUME Core, CancelInStream
    PROVE  Core' /\ LosesNone
<1> USE DEF CancelInStream, Leave, server, pool
<1>1. TypeOK'
  BY DEF Core, TypeOK
<1>2. Told'
  BY DEF Core, Told, Over
<1> QED
  BY <1>1, <1>2, NoEventStep DEF Over

LEMMA CancelInGatherStep ==
    ASSUME Core, CancelInGather
    PROVE  Core'
<1>1. /\ pc = "drain" /\ outcome' = "raised" /\ queue' = <<>>
      /\ UNCHANGED <<log, pc, reason, sent, ended, lastSeq, cur, delivered, ran, mcpOpen>>
  BY DEF CancelInGather, CancelTasks
<1>2. PICK deaf \in SUBSET {w \in Workers : work[w].step = "handle"} :
         work' = [w \in Workers |-> IF w \in deaf THEN work[w] ELSE Idle]
  BY DEF CancelInGather, CancelTasks
<1>3. \A w \in Workers : work'[w] = work[w] \/ work'[w] = Idle
  BY <1>2
<1>4. \A c \in answered' \ answered : \E w \in Workers : work[w].step = "post" /\ work[w].call = c
  BY DEF CancelInGather, CancelTasks
<1>5. answered' \subseteq Positions /\ \A c \in answered' : ran[c] = 1
  <2>1. \A w \in Workers : work[w].step = "post" =>
           work[w].call \in Positions /\ ran[work[w].call] = 1
    BY Bounds DEF Core, WorkOnce, Seen, TypeOK, Positions
  <2>2. answered \subseteq Positions /\ \A c \in answered : ran[c] = 1
    BY DEF Core, Answers, TypeOK
  <2> QED
    BY <1>4, <2>1, <2>2
<1>6. TypeOK'
  <2> DEFINE Place == [step : {"idle", "handle", "post"},
                       call : 0..MaxLog, attempt : 0..MaxAttempts - 1]
  <2>1. Idle \in Place
    BY Bounds DEF Idle, NoCall
  <2>2. \A w \in Workers : work[w] \in Place
    BY DEF Core, TypeOK
  <2>3. work' \in [Workers -> Place]
    <3> HIDE DEF Place
    <3> QED
      BY <1>2, <2>1, <2>2
  <2>4. queue' \in Seq(Positions)
    BY <1>1
  <2> QED
    BY <1>1, <1>5, <2>3, <2>4 DEF Core, TypeOK
<1>7. EndsLog' /\ ExactDelivery' /\ AtLastSeq'
  BY <1>1 DEF Core, EndsLog, ExactDelivery, AtLastSeq
<1>8. \A c : Seen(c)' <=> Seen(c)
  BY <1>1 DEF Seen, Shown
<1>9. QueueFresh'
  BY <1>1 DEF QueueFresh
<1>10. WorkOnce'
  BY <1>1, <1>3, <1>8 DEF Core, WorkOnce, Idle
<1>11. RanOnce'
  BY <1>1, <1>8 DEF Core, RanOnce
<1>12. Answers' /\ Told'
  BY <1>1, <1>5 DEF Core, Answers, Told, Over
<1> QED
  BY <1>6, <1>7, <1>9, <1>10, <1>11, <1>12 DEF Core

-----------------------------------------------------------------------------
(* The invariant.                                                          *)

LEMMA AsyncCore == ASSUME Core, [AsyncNext]_vars PROVE Core'
BY AsyncStepCases, NextCore, GivesUpStep, CancelInStreamStep, CancelInGatherStep

LEMMA KeptStep == ASSUME AsyncInv, [AsyncNext]_vars PROVE Kept'
<1> SUFFICES ASSUME NEW c, Lost(c)' PROVE outcome' = "raised"
  BY DEF Kept
<1>1. CASE [Next]_vars
  <2>1. CASE Lost(c)
    <3>1. outcome = "raised" /\ pc \in Over
      BY <2>1 DEF AsyncInv, Kept, Core, Told
    <3> QED
      BY <3>1, <1>1, OverForGood
  <2>2. CASE Abandon
    BY <2>2 DEF Abandon, Leave
  <2> QED
    BY <1>1, <2>1, <2>2, NextCore DEF AsyncInv
<1>2. CASE GivesUp
  <2>1. outcome = "none"
    BY <1>2 DEF GivesUp, AsyncInv, Core, Told, Over
  <2> QED
    BY <1>2, <2>1, GivesUpStep DEF AsyncInv, Kept
<1>3. CASE CancelInStream \/ CancelInGather
  BY <1>3 DEF CancelInStream, CancelInGather, Leave
<1> QED
  BY <1>1, <1>2, <1>3, AsyncStepCases

LEMMA JoinedStep == ASSUME AsyncInv, [AsyncNext]_vars PROVE Joined'
<1> USE DEF Joined, PoolQuiet, server, stream, pool
<1>1. CASE \E kind \in Kinds : Emit(kind)
  BY <1>1 DEF Emit, AsyncInv
<1>2. CASE OpenAccepted \/ OpenUnauthorized \/ OpenRefused \/ Blip \/ Wake
  BY <1>2 DEF OpenAccepted, OpenUnauthorized, OpenRefused, Blip, Wake, Leave
<1>3. CASE Receive \/ ReceiveCut \/ CleanEnd \/ Resume \/ Abandon
  BY <1>3 DEF Receive, ReceiveCut, CleanEnd, Resume, Abandon, Leave
<1>4. CASE \E w \in Workers : Work(w)
  <2>1. ~(outcome = "success" /\ pc \in {"close", "done"})
    BY <1>4, PoolStepIsBusy DEF AsyncInv
  <2>2. UNCHANGED <<pc, outcome>>
    BY <1>4 DEF Work, Take, Handled, Post, PostAccepted, PostRefused, PostFailed, PostRaises
  <2> QED
    BY <2>1, <2>2
<1>5. CASE Drain \/ CloseMcp \/ UNCHANGED vars
  BY <1>5 DEF Drain, CloseMcp, vars, AsyncInv
<1>6. CASE GivesUp \/ CancelInStream \/ CancelInGather
  BY <1>6 DEF GivesUp, CancelInStream, CancelInGather, Leave
<1> QED
  BY <1>1, <1>2, <1>3, <1>4, <1>5, <1>6, AsyncStepCases DEF Next, Finished

LEMMA InitAsync == Init => AsyncInv
BY InitCore DEF AsyncInv, Kept, Joined, Init

LEMMA AsyncInvStep == AsyncInv /\ [AsyncNext]_vars => AsyncInv'
BY AsyncCore, KeptStep, JoinedStep DEF AsyncInv

LEMMA AsyncInvariance == AsyncSpec => []AsyncInv
BY InitAsync, AsyncInvStep, PTL DEF AsyncSpec

-----------------------------------------------------------------------------
(* The properties.                                                         *)

\* Wherever the consumer's task is cancelled, and whatever the connections
\* do, the frames yielded by _stream_events are the log from its start, each
\* once.
THEOREM AsyncEventsOnceInOrder == AsyncSpec => []ExactDelivery
<1>1. AsyncInv => ExactDelivery
  BY DEF AsyncInv, Core
<1> QED
  BY <1>1, AsyncInvariance, PTL

\* Only calls of the log are answered, and each after its one run, also by
\* the tasks that live on after the run has been given up.
THEOREM AsyncResultsAreOfCalls == AsyncSpec => []AnswersMatchCalls
BY AnsweredCalls, AsyncInvariance, PTL DEF AsyncInv

\* A run that succeeds returns when all its calls have been run and posted.
THEOREM SuccessIsComplete == AsyncSpec => []SuccessWaitsForCalls
<1>1. AsyncInv => SuccessWaitsForCalls
  <2> SUFFICES ASSUME AsyncInv, outcome = "success", pc \in {"close", "done"},
                      NEW c \in CallsIn(log)
               PROVE  ran[c] = 1 /\ ~InPool(c)
    BY DEF SuccessWaitsForCalls
  <2>1. PoolQuiet
    BY DEF AsyncInv, Joined
  <2>2. ~InPool(c)
    BY <2>1 DEF PoolQuiet, InPool, Idle
  <2>3. c \in 1..lastSeq /\ log[c] = "call"
    BY DEF AsyncInv, Core, Told, TypeOK, CallsIn
  <2>4. ran[c] = 1 \/ Lost(c)
    BY <2>1, <2>3 DEF PoolQuiet, Shown, Lost
  <2>5. ~Lost(c)
    BY DEF AsyncInv, Kept
  <2> QED
    BY <2>2, <2>4, <2>5
<1> QED
  BY <1>1, AsyncInvariance, PTL

-----------------------------------------------------------------------------
(* The refinement.  The two instances of RunContract differ in Run alone.  *)

LEMMA SameContract ==
    /\ \A kind : Contract!Grow(kind) => AsyncContract!Grow(kind)
    /\ Contract!See => AsyncContract!See
    /\ \A how : Contract!Return(how) => AsyncContract!Return(how)
    /\ \A c : Contract!Runs(c) => AsyncContract!Runs(c)
    /\ Contract!ContractInit => AsyncContract!ContractInit
BY DEF Contract!Grow, Contract!See, Contract!Return, Contract!Runs, Contract!ContractInit,
       Contract!Calls, AsyncContract!Grow, AsyncContract!See, AsyncContract!Return,
       AsyncContract!Runs, AsyncContract!ContractInit, AsyncContract!Calls

LEMMA StepAsyncContract ==
    ASSUME AsyncInv, [AsyncNext]_vars
    PROVE  [AsyncContract!ContractNext]_(AsyncContract!contractVars)
<1> USE DEF AsyncContract!ContractNext, AsyncContract!contractVars
<1>1. CASE \E kind \in Kinds : Emit(kind)
  BY <1>1, EmitGrows, SameContract DEF Kinds
<1>2. CASE OpenAccepted \/ OpenUnauthorized \/ OpenRefused \/ Blip \/ Wake
  BY <1>2 DEF OpenAccepted, OpenUnauthorized, OpenRefused, Blip, Wake, Leave, server, pool
<1>3. CASE Receive
  BY <1>3, ReceiveSees, SameContract DEF AsyncInv
<1>4. CASE ReceiveCut \/ CleanEnd \/ Resume \/ Abandon \/ Drain
  BY <1>4 DEF ReceiveCut, CleanEnd, Resume, Abandon, Drain, Leave, server, pool
<1>5. CASE \E w \in Workers : Take(w)
  <2>1. ~(outcome = "success" /\ pc = "done")
    BY <1>5, PoolStepIsBusy DEF AsyncInv, Joined, Work
  <2>2. PICK c \in 1..lastSeq : AsyncContract!Runs(c)
    BY <1>5, TakeRuns, SameContract DEF AsyncInv
  <2>3. AsyncContract!Run(c)
    BY <2>1, <2>2 DEF AsyncContract!Run
  <2> QED
    BY <2>3
<1>6. CASE \E w \in Workers : Handled(w) \/ Post(w)
  BY <1>6 DEF Handled, Post, PostAccepted, PostRefused, PostFailed, PostRaises, server, stream
<1>7. CASE CloseMcp
  <2>1. outcome = "success" => queue = <<>> /\ \A c : ~Lost(c)
    BY <1>7 DEF CloseMcp, AsyncInv, Kept, Joined, PoolQuiet
  <2> QED
    BY <1>7, <2>1, CloseReturns, SameContract DEF AsyncInv
<1>8. CASE GivesUp \/ CancelInStream \/ CancelInGather
  BY <1>8 DEF GivesUp, CancelInStream, CancelInGather, Leave, server, pool
<1>9. CASE UNCHANGED vars
  BY <1>9 DEF vars, server, stream, pool
<1> QED
  BY <1>1, <1>2, <1>3, <1>4, <1>5, <1>6, <1>7, <1>8, <1>9, AsyncStepCases
     DEF Next, Finished, Work

\* Refinement: events are seen in order and once, calls run at most once and
\* after they were seen, and a success is the success of the whole run with
\* all its calls run; only after a run that did not succeed may a task still
\* run its handler.
THEOREM AsyncRunKeepsContract == AsyncSpec => ImplementsAsyncContract
<1>1. Init => AsyncContract!ContractInit
  BY InitContract, SameContract
<1>2. AsyncInv /\ [AsyncNext]_vars =>
        [AsyncContract!ContractNext]_(AsyncContract!contractVars)
  BY StepAsyncContract
<1> QED
  BY <1>1, <1>2, AsyncInvariance, PTL
     DEF AsyncSpec, ImplementsAsyncContract, AsyncContract!ContractSpec
=============================================================================

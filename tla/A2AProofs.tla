----------------------------- MODULE A2AProofs ------------------------------
(***************************************************************************)
(* That an A2A executor with any number of tasks and contexts and any      *)
(* limit keeps what it promises: one final status per turn, a map of live  *)
(* sessions within its limit, each ended once; and, when the turns of a    *)
(* context do not overlap, one conversation per context, evicted by least  *)
(* recent use, and no session lost.  The last section shows that the       *)
(* executor of an agent with MCP tools is that executor, and that each     *)
(* reference that is attached has someone to close it, or was left behind. *)
(*                                                                         *)
(* The sessions are followed through two layers: what each operator does   *)
(* to a sequence of entries, and what each step does to the map.           *)
(***************************************************************************)
EXTENDS A2ATools, FiniteSetTheorems, SequenceTheorems, TLAPS

\* The maximum of a bounded set of natural numbers is one of its members:
\* the one above which the fewest numbers are left.
LEMMA MaxOfBounded ==
    ASSUME NEW S \in SUBSET Nat, S # {}, NEW n \in Nat, \A x \in S : x <= n
    PROVE  Max(S) \in S /\ \A x \in S : x <= Max(S)
<1> DEFINE Above(x) == (x + 1)..n
           Gaps == {Above(x) : x \in S}
<1>1. Gaps \subseteq FiniteSubsetsOf(Nat) /\ Gaps # {}
  <2>1. \A x \in S : IsFiniteSet(Above(x)) /\ Above(x) \subseteq Nat
    BY FS_Interval
  <2> QED  BY <2>1 DEF FiniteSubsetsOf
<1>2. \E g \in Gaps : \A h \in Gaps : <<h, g>> \notin StrictSubsetOrdering(Nat)
  <2> HIDE DEF Gaps
  <2> QED  BY <1>1, FS_StrictSubsetOrderingWellFounded, WFMin
<1>3. PICK x \in S : \A y \in S : <<Above(y), Above(x)>> \notin StrictSubsetOrdering(Nat)
  BY <1>2
<1>4. ASSUME NEW y \in S, y > x  PROVE FALSE
  <2>1. Above(y) \subseteq Above(x) /\ Above(y) # Above(x)
    <3>1. y \in Above(x) /\ y \notin Above(y)
      BY <1>4
    <3>2. Above(y) \subseteq Above(x)
      BY <1>4
    <3> QED  BY <3>1, <3>2
  <2>2. Above(x) \subseteq Nat /\ Above(y) \subseteq Nat
    OBVIOUS
  <2> HIDE DEF Above
  <2> QED  BY <1>3, <2>1, <2>2 DEF StrictSubsetOrdering
<1>5. \A y \in S : x >= y
  BY <1>4
<1>6. Max(S) \in S /\ \A y \in S : Max(S) >= y
  BY <1>5 DEF Max
<1> QED  BY <1>6

-----------------------------------------------------------------------------
(* What the operators of the map do.                                       *)

Entry == [context : Contexts, session : SessionIds]

\* move_to_end: the entries after the i-th close up, and the i-th is last.
LEMMA MoveToEndProperties ==
    ASSUME sessions \in Seq(Entry), NEW i \in 1..Len(sessions)
    PROVE  /\ MoveToEnd(i) \in Seq(Entry)
           /\ Len(MoveToEnd(i)) = Len(sessions)
           /\ \A j \in 1..Len(sessions) : MoveToEnd(i)[j] =
                 IF j < i THEN sessions[j]
                 ELSE IF j < Len(sessions) THEN sessions[j + 1] ELSE sessions[i]
<1> DEFINE n == Len(sessions)
           before == SubSeq(sessions, 1, i - 1)
           after == SubSeq(sessions, i + 1, n)
<1>0. n \in Nat /\ i \in 1..n /\ \A j \in 1..n : sessions[j] \in Entry
  BY LenProperties, ElementOfSeq
<1>1. /\ before \in Seq(Entry) /\ Len(before) = i - 1
      /\ \A j \in 1..i - 1 : before[j] = sessions[j]
  <2>1. \A j \in 1..i - 1 : sessions[j] \in Entry
    BY <1>0
  <2> QED  BY <1>0, <2>1, SubSeqProperties
<1>2. /\ after \in Seq(Entry) /\ Len(after) = n - i
      /\ \A j \in 1..n - i : after[j] = sessions[i + j]
  <2>1. \A j \in i + 1..n : sessions[j] \in Entry
    BY <1>0
  <2>2. /\ after \in Seq(Entry) /\ Len(after) = IF i + 1 <= n THEN n - (i + 1) + 1 ELSE 0
        /\ \A j \in 1..n - (i + 1) + 1 : after[j] = sessions[i + 1 + j - 1]
    BY <1>0, <2>1, SubSeqProperties
  <2> QED  BY <1>0, <2>2
<1> HIDE DEF before, after
<1>3. /\ before \o after \in Seq(Entry) /\ Len(before \o after) = n - 1
      /\ \A j \in 1..n - 1 : (before \o after)[j] = IF j < i THEN sessions[j] ELSE sessions[j + 1]
  <2>1. /\ before \o after \in Seq(Entry)
        /\ Len(before \o after) = Len(before) + Len(after)
        /\ \A j \in 1..Len(before) + Len(after) : (before \o after)[j] =
              IF j <= Len(before) THEN before[j] ELSE after[j - Len(before)]
    BY <1>1, <1>2, ConcatProperties
  <2>2. Len(before) + Len(after) = n - 1
    BY <1>0, <1>1, <1>2
  <2>3. ASSUME NEW j \in 1..n - 1
        PROVE  (before \o after)[j] = IF j < i THEN sessions[j] ELSE sessions[j + 1]
    <3>1. CASE j < i
      BY <1>0, <1>1, <2>1, <2>2, <3>1
    <3>2. CASE ~(j < i)
      <4>1. j - (i - 1) \in 1..n - i /\ i + (j - (i - 1)) = j + 1
        BY <1>0, <3>2
      <4>2. (before \o after)[j] = after[j - (i - 1)]
        BY <1>0, <1>1, <2>1, <2>2, <3>2
      <4> QED  BY <1>2, <3>2, <4>1, <4>2
    <3> QED  BY <3>1, <3>2
  <2> QED  BY <2>1, <2>2, <2>3
<1>4. MoveToEnd(i) = Append(before \o after, sessions[i])
  BY DEF MoveToEnd, RemoveAt, before, after
<1> HIDE DEF n
<1> QED
  <2>1. sessions[i] \in Entry
    BY <1>0
  <2>2. /\ MoveToEnd(i) \in Seq(Entry) /\ Len(MoveToEnd(i)) = n
        /\ \A j \in 1..n : MoveToEnd(i)[j] = IF j < n THEN (before \o after)[j] ELSE sessions[i]
    BY <1>0, <1>3, <1>4, <2>1
  <2> QED  BY <1>0, <1>3, <2>2 DEF n

\* It is a permutation that keeps the order of the others.
LEMMA MoveToEndPermutes ==
    ASSUME sessions \in Seq(Entry), NEW i \in 1..Len(sessions)
    PROVE  \E from :
              /\ \A j \in 1..Len(sessions) :
                    from[j] \in 1..Len(sessions) /\ MoveToEnd(i)[j] = sessions[from[j]]
              /\ \A k \in 1..Len(sessions) : \E j \in 1..Len(sessions) : from[j] = k
              /\ \A j, k \in 1..Len(sessions) : j < k =>
                    from[j] # i /\ (from[k] = i \/ from[j] < from[k])
<1> DEFINE n == Len(sessions)
           from == [j \in 1..n |-> IF j < i THEN j ELSE IF j < n THEN j + 1 ELSE i]
<1>1. n \in Nat
  BY LenProperties
<1>2. i \in 1..n
  OBVIOUS
<1>3. \A j \in 1..n : MoveToEnd(i)[j] =
        IF j < i THEN sessions[j] ELSE IF j < n THEN sessions[j + 1] ELSE sessions[i]
  BY MoveToEndProperties
<1> HIDE DEF n
<1>4. \A j \in 1..n : from[j] = IF j < i THEN j ELSE IF j < n THEN j + 1 ELSE i
  OBVIOUS
<1>5. \A j \in 1..n : from[j] \in 1..n
  BY <1>1, <1>2
<1> HIDE DEF from
<1>6. \A j \in 1..n : MoveToEnd(i)[j] = sessions[from[j]]
  BY <1>3, <1>4
<1>7. ASSUME NEW k \in 1..n PROVE \E j \in 1..n : from[j] = k
  <2>1. CASE k < i
    BY <1>4, <2>1
  <2>2. CASE k = i
    BY <1>1, <1>2, <1>4, <2>2
  <2>3. CASE k > i
    <3>1. k - 1 \in 1..n /\ ~(k - 1 < i) /\ k - 1 < n /\ (k - 1) + 1 = k
      BY <1>1, <1>2, <2>3
    <3> QED  BY <1>4, <3>1
  <2> QED  BY <1>1, <1>2, <2>1, <2>2, <2>3
<1>8. ASSUME NEW j \in 1..n, NEW k \in 1..n, j < k
      PROVE  from[j] # i /\ (from[k] = i \/ from[j] < from[k])
  <2>1. CASE k < n
    BY <1>1, <1>2, <1>4, <1>8, <2>1
  <2>2. CASE k = n
    BY <1>1, <1>2, <1>4, <1>8, <2>2
  <2> QED  BY <1>1, <2>1, <2>2
<1> QED  BY <1>5, <1>6, <1>7, <1>8 DEF n

\* The new entry is stored last, or in the place its context had.
LEMMA StoredProperties ==
    ASSUME sessions \in Seq(Entry), NEW entry \in Entry
    PROVE  /\ Stored(entry) \in Seq(Entry)
           /\ \/ /\ Entries(entry.context) = {}
                 /\ Stored(entry) = Append(sessions, entry)
                 /\ Len(Stored(entry)) = Len(sessions) + 1
                 /\ \A j \in 1..Len(sessions) + 1 : Stored(entry)[j] =
                       IF j <= Len(sessions) THEN sessions[j] ELSE entry
              \/ /\ Entries(entry.context) # {}
                 /\ Len(Stored(entry)) = Len(sessions)
                 /\ \A j \in 1..Len(sessions) : Stored(entry)[j] =
                       IF sessions[j].context = entry.context THEN entry ELSE sessions[j]
<1>1. Len(sessions) \in Nat /\ DOMAIN sessions = 1..Len(sessions)
  BY LenProperties
<1>2. \A j \in 1..Len(sessions) : sessions[j] \in Entry
  BY ElementOfSeq
<1>3. CASE Entries(entry.context) = {}
  BY <1>1, <1>3 DEF Stored
<1>4. CASE Entries(entry.context) # {}
  <2> DEFINE e(j) == IF sessions[j].context = entry.context THEN entry ELSE sessions[j]
  <2>1. Stored(entry) = [j \in 1..Len(sessions) |-> e(j)]
    BY <1>1, <1>4 DEF Stored
  <2>2. \A j \in 1..Len(sessions) : e(j) \in Entry
    BY <1>2
  <2> HIDE DEF e
  <2>3. [j \in 1..Len(sessions) |-> e(j)] \in Seq(Entry)
    BY <1>1, <2>2
  <2>4. Len([j \in 1..Len(sessions) |-> e(j)]) = Len(sessions)
    BY <1>1
  <2> QED  BY <1>4, <2>1, <2>3, <2>4 DEF e
<1> QED  BY <1>3, <1>4

\* One entry at most is popped, the first one.
LEMMA EvictOrSendProperties ==
    ASSUME NEW t \in Tasks, NEW entries \in Seq(Entry), NEW giving,
           scenario.maxSessions \in Nat, EvictOrSend(t, entries, giving)
    PROVE  \/ /\ Len(entries) > scenario.maxSessions
              /\ entries[1] \in Entry /\ Len(entries) \in Nat \ {0}
              /\ sessions' \in Seq(Entry) /\ Len(sessions') = Len(entries) - 1
              /\ \A j \in 1..Len(entries) - 1 : sessions'[j] = entries[j + 1]
              /\ given' = [giving EXCEPT ![entries[1].context] = {}]
              /\ ending' = [ending EXCEPT ![t] = entries[1].session]
              /\ pc' = [pc EXCEPT ![t] = "ending"]
           \/ /\ Len(entries) <= scenario.maxSessions
              /\ sessions' = entries /\ given' = giving
              /\ ending' = [ending EXCEPT ![t] = NoSession]
              /\ pc' = [pc EXCEPT ![t] = "send"]
<1>1. Len(entries) \in Nat
  BY LenProperties
<1>2. CASE Len(entries) > scenario.maxSessions
  <2>1. entries # << >>
    BY <1>1, <1>2
  <2>2. Head(entries) = entries[1] /\ entries[1] \in Entry
    BY <1>1, <1>2, ElementOfSeq
  <2>3. /\ Tail(entries) \in Seq(Entry) /\ Len(Tail(entries)) = Len(entries) - 1
        /\ \A j \in 1..Len(Tail(entries)) : Tail(entries)[j] = entries[j + 1]
    BY <2>1, HeadTailProperties
  <2>4. /\ sessions' = Tail(entries)
        /\ given' = [giving EXCEPT ![Head(entries).context] = {}]
        /\ ending' = [ending EXCEPT ![t] = Head(entries).session]
        /\ pc' = [pc EXCEPT ![t] = "ending"]
    BY <1>2 DEF EvictOrSend, Popped, Limit, Goto
  <2>5. /\ sessions' \in Seq(Entry) /\ Len(sessions') = Len(entries) - 1
        /\ \A j \in 1..Len(entries) - 1 : sessions'[j] = entries[j + 1]
    BY <2>3, <2>4
  <2>6. Len(entries) \in Nat \ {0}
    BY <1>1, <1>2
  <2> QED  BY <1>2, <2>2, <2>4, <2>5, <2>6
<1>3. CASE Len(entries) <= scenario.maxSessions
  BY <1>1, <1>3 DEF EvictOrSend, Limit, Goto
<1> QED  BY <1>1, <1>2, <1>3

-----------------------------------------------------------------------------
(* The parts of the inductive invariant.                                   *)

\* The turns that are past the choice of a session: each has made one session
\* at most, and given one.
Past == {t \in Tasks : pc[t] \in {"ending", "send", "done", "cut"}}

Counted ==
    /\ made <= Cardinality(Past)
    /\ \A c \in Contexts : lastUse[c] <= Cardinality(Past)

\* A turn that is not over, or that was cut off, has published nothing final.
StillOpen == \A t \in Tasks :
    pc[t] # "done" => \A i \in DOMAIN status[t] : ~IsFinal(status[t][i])

\* A session is ended once: what an eviction or aclose() is ending is alive,
\* has not been tried before, is in the map no more and is ended by no other.
EndedOnce ==
    /\ stuck \subseteq alive /\ Held \cap stuck = {}
    /\ \A t \in Tasks :
          IF pc[t] = "ending" THEN ending[t] \in alive \ (stuck \cup Held)
                              ELSE ending[t] = NoSession
    /\ \A i \in DOMAIN draining : draining[i] \in alive \ (stuck \cup Held)
    /\ \A t, u \in Tasks : pc[t] = "ending" /\ ending[t] = ending[u] => t = u
    /\ \A i, j \in DOMAIN draining : draining[i] = draining[j] => i = j
    /\ \A t \in Tasks : \A i \in DOMAIN draining : ending[t] # draining[i]

\* When turns do not overlap: a context has one turn under way, and no entry
\* while that turn makes a session.
Active(t) == pc[t] \notin Over \cup {"idle"}

OneTurnEach ==
    /\ \A t, u \in Tasks : Active(t) /\ Active(u) /\ ContextOf[t] = ContextOf[u] => t = u
    /\ \A t \in Tasks : pc[t] = "create" => Entries(ContextOf[t]) = {}

\* What each context was given is what its entry holds, and nothing when it
\* has none.
Holds(entries, giving) ==
    /\ \A c \in Contexts : (\A i \in DOMAIN entries : entries[i].context # c) => giving[c] = {}
    /\ \A i \in DOMAIN entries : giving[entries[i].context] \subseteq {entries[i].session}

\* The entries stand in the order of their last use.
Sorted(entries, use) == \A i, j \in DOMAIN entries :
    i < j => use[entries[i].context] < use[entries[j].context]

TurnsInv ==
    ~scenario.overlap => OneTurnEach /\ Holds(sessions, given) /\ Sorted(sessions, lastUse)

\* What a turn does with the references fits where it stands, and its place in
\* the list, or that of aclose(), is 0 unless it is opening or closing.
ToolsAtStep(t) ==
    /\ stage[t] \in {"open"} \cup Loops => HasTools(t) /\ ref[t] \in Refs
    /\ stage[t] = "delete" => pc[t] = "ending"
    /\ stage[t] = "use" => pc[t] \in {"create", "send"}
    /\ pc[t] = "create" => stage[t] \in {"open", "use", "close", "fail"}
    /\ pc[t] = "ending" => stage[t] \in {"delete", "close", "abort"}
    /\ scenario.stateless => pc[t] \notin {"create", "ending"}
    /\ scenario.stateless /\ pc[t] = "send" => stage[t] \in {"open", "use"} \cup Loops
    /\ stage[t] \notin {"open"} \cup Loops => ref[t] = 0

ToolsTyped ==
    /\ attached \subseteq Refs
    /\ stage \in [Tasks -> Stages]
    /\ ref \in [Tasks -> 0..NumTools]
    /\ endRef \in 0..NumTools
    /\ left \subseteq attached
    /\ draining = <<>> => endRef = 0
    /\ \A t \in Tasks : ToolsAtStep(t)

\* A turn will still come to reference r with its close loop; so will aclose().
WillClose(t, r) == HasTools(t) /\ (stage[t] \in {"open", "use", "delete"} \/ r > ref[t])
WillDrain(r) == draining # <<>> /\ (Len(draining) > 1 \/ r > endRef)

\* A reference that is attached is held by a session of the map, is to be
\* closed by aclose() or by a turn, or has been left behind.
SomeoneCloses ==
    \A r \in attached \ left :
        sessions # <<>> \/ WillDrain(r) \/ \E t \in Tasks : WillClose(t, r)

-----------------------------------------------------------------------------
(* The steps.                                                              *)

\* The steps of a turn that leave the map and the sessions alone.
Quiet(t) ==
    \/ Execute(t) \/ Announce(t) \/ CancelledBeforeRun(t)
    \/ RunStateless(t) \/ NeedSession(t) \/ CreateFailed(t)
    \/ Delta(t) \/ Completed(t) \/ Failed(t)

States == {"submitted", "working"} \cup Finals

LEMMA QuietStep ==
    ASSUME TypeOK, NEW t \in Tasks, Quiet(t)
    PROVE  /\ UNCHANGED <<scenario, map, session, ending, server>>
           /\ cancelled' \subseteq Tasks
           /\ \E step \in Steps : pc' = [pc EXCEPT ![t] = step]
           /\ \/ pc[t] = "idle" /\ pc'[t] = "announce"
              \/ pc[t] = "announce" /\ pc'[t] = "working"
              \/ pc[t] = "working" /\ pc'[t] \in {"send", "create"}
              \/ pc[t] = "send" /\ pc'[t] = "send"
              \/ pc[t] \in {"working", "create", "send"} /\ pc'[t] \in {"done", "cut"}
           /\ pc'[t] = "create" => Entries(ContextOf[t]) = {}
           /\ pc[t] = "idle" /\ ~scenario.overlap =>
                 \A u \in Tasks : ContextOf[u] = ContextOf[t] => pc[u] \in Over \cup {"idle"}
           /\ \/ pc'[t] # "done" /\ status' = status
              \/ \E state \in States :
                    /\ status' = [status EXCEPT ![t] = Append(status[t], state)]
                    /\ IsFinal(state) <=> pc'[t] = "done"
<1> USE DEF TypeOK, Goto, Publish, Finish, ReturnsCanceled, IsFinal, Finals, States, Steps, Over
<1>1. CASE Execute(t)
  BY <1>1 DEF Execute
<1>2. CASE Announce(t)
  BY <1>2 DEF Announce
<1>3. CASE CancelledBeforeRun(t)
  BY <1>3 DEF CancelledBeforeRun
<1>4. CASE RunStateless(t)
  BY <1>4 DEF RunStateless
<1>5. CASE NeedSession(t)
  BY <1>5 DEF NeedSession
<1>6. CASE CreateFailed(t)
  BY <1>6 DEF CreateFailed
<1>7. CASE Delta(t)
  BY <1>7 DEF Delta
<1>8. CASE Completed(t)
  BY <1>8 DEF Completed
<1>9. CASE Failed(t)
  BY <1>9 DEF Failed
<1> QED  BY <1>1, <1>2, <1>3, <1>4, <1>5, <1>6, <1>7, <1>8, <1>9 DEF Quiet

\* The step of a turn, of aclose(), or one that changes nothing but a mark.
LEMMA StepCases ==
    ASSUME TypeOK, [Next]_vars
    PROVE  \/ \E t \in Tasks : \/ Quiet(t) \/ FindSession(t) \/ Created(t)
                                \/ Ended(t) \/ Aborted(t)
           \/ Close
           \/ CloseNext
           \/ UNCHANGED <<scenario, map, turn, server>> /\ cancelled' \subseteq Tasks
<1>1. ASSUME NEW t \in Tasks, Cancel(t)
      PROVE  UNCHANGED <<scenario, map, turn, server>> /\ cancelled' \subseteq Tasks
  BY <1>1 DEF Cancel, TypeOK
<1>2. ASSUME AllDone \/ UNCHANGED vars
      PROVE  UNCHANGED <<scenario, map, turn, server>> /\ cancelled' \subseteq Tasks
  BY <1>2 DEF AllDone, vars, TypeOK
<1> QED  BY <1>1, <1>2 DEF Next, Quiet

-----------------------------------------------------------------------------
(* Types, and the numbers of sessions and of uses.                         *)

LEMMA PastGrows ==
    ASSUME pc \in [Tasks -> Steps], NEW t \in Tasks, NEW step \in Steps,
           pc' = [pc EXCEPT ![t] = step],
           t \in Past => step \in {"ending", "send", "done", "cut"}
    PROVE  /\ Cardinality(Past) \in Nat /\ Cardinality(Past') \in SessionIds
           /\ Cardinality(Past) <= Cardinality(Past')
           /\ t \notin Past /\ step \in {"ending", "send", "done", "cut"} =>
                 Cardinality(Past') = Cardinality(Past) + 1
<1>1. IsFiniteSet(Tasks) /\ Past \in SUBSET Tasks /\ Past' \in SUBSET Tasks
  BY A2AExecutorAssumption DEF Past
<1>2. /\ IsFiniteSet(Past) /\ IsFiniteSet(Past')
      /\ Cardinality(Past) \in Nat /\ Cardinality(Past') \in Nat /\ Cardinality(Tasks) \in Nat
      /\ Cardinality(Past') <= Cardinality(Tasks)
  BY <1>1, FS_Subset, FS_CardinalityType
<1>3. CASE step \in {"ending", "send", "done", "cut"}
  <2>1. Past' = Past \cup {t}
    BY <1>3 DEF Past
  <2>2. Cardinality(Past') = IF t \in Past THEN Cardinality(Past) ELSE Cardinality(Past) + 1
    BY <1>2, <2>1, FS_AddElement
  <2> QED  BY <1>2, <2>2 DEF SessionIds
<1>4. CASE step \notin {"ending", "send", "done", "cut"}
  <2>1. Past' = Past
    BY <1>4 DEF Past
  <2> QED  BY <1>2, <1>4, <2>1 DEF SessionIds
<1> QED  BY <1>3, <1>4

\* A session given now is the last one given.
LEMMA LaterIsLast ==
    ASSUME TypeOK, Counted, Cardinality(Past) \in Nat, NEW t \in Tasks
    PROVE  /\ Later \in Nat /\ Later <= Cardinality(Past) + 1
           /\ \A c \in Contexts : lastUse[c] < Later
<1> DEFINE S == {lastUse[c] : c \in Contexts}
<1>1. \A c \in Contexts : lastUse[c] \in Nat /\ lastUse[c] <= Cardinality(Past)
  <2>1. Cardinality(Tasks) \in Nat
    BY A2AExecutorAssumption, FS_CardinalityType
  <2> QED  BY <2>1 DEF TypeOK, Counted
<1>2. ContextOf[t] \in Contexts
  BY A2AExecutorAssumption
<1>3. S \in SUBSET Nat /\ S # {} /\ \A x \in S : x <= Cardinality(Past)
  BY <1>1, <1>2
<1>4. Max(S) \in S /\ \A x \in S : x <= Max(S)
  <2> HIDE DEF S
  <2> QED  BY <1>3, MaxOfBounded
<1>5. Later = 1 + Max(S) /\ \A c \in Contexts : lastUse[c] \in S
  BY DEF Later
<1>6. Max(S) \in Nat /\ Max(S) <= Cardinality(Past)
  <2> HIDE DEF S
  <2> QED  BY <1>3, <1>4
<1>7. \A c \in Contexts : lastUse[c] <= Max(S)
  <2> HIDE DEF S
  <2> QED  BY <1>4, <1>5
<1> HIDE DEF S
<1> QED  BY <1>1, <1>5, <1>6, <1>7

LEMMA EvictOrSendTyped ==
    ASSUME TypeOK, NEW t \in Tasks, NEW entries \in Seq(Entry),
           NEW giving \in [Contexts -> SUBSET SessionIds], EvictOrSend(t, entries, giving)
    PROVE  /\ sessions' \in Seq(Entry)
           /\ given' \in [Contexts -> SUBSET SessionIds]
           /\ ending' \in [Tasks -> SessionIds]
           /\ \E step \in {"ending", "send"} : pc' = [pc EXCEPT ![t] = step]
<1>1. scenario.maxSessions \in Nat /\ 0 \in SessionIds
  BY A2AExecutorAssumption, FS_CardinalityType DEF TypeOK, Scenario, SessionIds
<1>2. CASE Len(entries) > scenario.maxSessions
  <2>1. /\ entries[1] \in Entry
        /\ sessions' \in Seq(Entry)
        /\ given' = [giving EXCEPT ![entries[1].context] = {}]
        /\ ending' = [ending EXCEPT ![t] = entries[1].session]
        /\ pc' = [pc EXCEPT ![t] = "ending"]
    <3>1. Len(entries) \in Nat
      BY LenProperties
    <3> QED  BY <1>1, <1>2, <3>1, EvictOrSendProperties
  <2>2. entries[1].session \in SessionIds
    BY <2>1 DEF Entry
  <2>3. given' \in [Contexts -> SUBSET SessionIds]
    BY <2>1
  <2>4. ending' \in [Tasks -> SessionIds]
    BY <2>1, <2>2 DEF TypeOK
  <2> QED  BY <2>1, <2>3, <2>4
<1>3. CASE ~(Len(entries) > scenario.maxSessions)
  <2>1. /\ sessions' = entries /\ given' = giving
        /\ ending' = [ending EXCEPT ![t] = NoSession]
        /\ pc' = [pc EXCEPT ![t] = "send"]
    <3>1. Len(entries) \in Nat
      BY LenProperties
    <3> QED  BY <1>1, <1>3, <3>1, EvictOrSendProperties
  <2>2. ending' \in [Tasks -> SessionIds]
    BY <1>1, <2>1 DEF TypeOK, NoSession
  <2> QED  BY <2>1, <2>2
<1> QED  BY <1>2, <1>3

LEMMA InitTyped == Init => TypeOK /\ Counted
<1> SUFFICES ASSUME Init PROVE TypeOK /\ Counted
  OBVIOUS
<1>1. Past = {} /\ Cardinality(Past) = 0
  BY FS_EmptySet DEF Init, Past
<1>2. Cardinality(Tasks) \in Nat
  BY A2AExecutorAssumption, FS_CardinalityType
<1> QED  BY <1>1, <1>2 DEF Init, TypeOK, Counted, SessionIds, NoSession, Steps

\* One step adds one session at most, and one use.
LEMMA StepTyped ==
    ASSUME TypeOK, Counted, [Next]_vars
    PROVE  TypeOK' /\ Counted'
<1>0. Cardinality(Tasks) \in Nat
  BY A2AExecutorAssumption, FS_CardinalityType
<1>1. ASSUME NEW t \in Tasks, Quiet(t)
      PROVE  TypeOK' /\ Counted'
  <2>1. PICK step \in Steps : pc' = [pc EXCEPT ![t] = step]
    BY <1>1, QuietStep
  <2>2. t \in Past => step \in {"ending", "send", "done", "cut"}
    <3>1. pc'[t] = step
      BY <2>1 DEF TypeOK
    <3> QED  BY <1>1, <3>1, QuietStep DEF Past
  <2>3. /\ Cardinality(Past) \in Nat /\ Cardinality(Past') \in SessionIds
        /\ Cardinality(Past) <= Cardinality(Past')
    BY <2>1, <2>2, PastGrows DEF TypeOK
  <2>4. UNCHANGED <<scenario, map, session, ending, server>> /\ cancelled' \subseteq Tasks
    BY <1>1, QuietStep
  <2>5. status' \in [Tasks -> Seq(States)]
    <3>1. \/ status' = status
          \/ \E state \in States : status' = [status EXCEPT ![t] = Append(status[t], state)]
      BY <1>1, QuietStep
    <3>2. status \in [Tasks -> Seq(States)]
      BY DEF TypeOK, States
    <3>3. \A state \in States : Append(status[t], state) \in Seq(States)
      BY <3>2
    <3> QED  BY <3>1, <3>2, <3>3
  <2>6. Counted'
    BY <1>0, <2>3, <2>4 DEF Counted, TypeOK, SessionIds, map, server
  <2>7. TypeOK'
    BY <2>1, <2>4, <2>5 DEF TypeOK, States, SessionIds, map, server
  <2> QED  BY <2>6, <2>7
<1>2. ASSUME NEW t \in Tasks, FindSession(t)
      PROVE  TypeOK' /\ Counted'
  <2>1. pc' = [pc EXCEPT ![t] = "send"] /\ t \notin Past /\ pc \in [Tasks -> Steps]
    BY <1>2 DEF FindSession, Goto, Past, TypeOK
  <2>2. /\ Cardinality(Past) \in Nat /\ Cardinality(Past') \in SessionIds
        /\ Cardinality(Past') = Cardinality(Past) + 1
    BY <2>1, PastGrows DEF Steps
  <2>3. /\ Later \in Nat /\ Later <= Cardinality(Past)'
    BY <2>2, LaterIsLast
  <2>4. PICK i \in Entries(ContextOf[t]) : /\ sessions' = MoveToEnd(i)
                                           /\ session' = [session EXCEPT ![t] = sessions[i].session]
    BY <1>2 DEF FindSession
  <2>5. sessions \in Seq(Entry) /\ i \in 1..Len(sessions) /\ sessions[i] \in Entry
    BY LenProperties, ElementOfSeq DEF Entries, TypeOK, Entry
  <2>6. sessions' \in Seq(Entry)
    BY <2>4, <2>5, MoveToEndProperties
  <2>7. session' \in [Tasks -> SessionIds] /\ session'[t] \in SessionIds
    BY <2>4, <2>5 DEF TypeOK, Entry
  <2>8. /\ given' = [given EXCEPT ![ContextOf[t]] = @ \cup {session'[t]}]
        /\ lastUse' = [lastUse EXCEPT ![ContextOf[t]] = Later]
        /\ UNCHANGED <<scenario, cancelled, ending, status, server>>
    BY <1>2 DEF FindSession
  <2>9. given' \in [Contexts -> SUBSET SessionIds]
    BY <2>7, <2>8 DEF TypeOK
  <2>10. lastUse' \in [Contexts -> 0..Cardinality(Tasks)]
    <3>1. Later \in 0..Cardinality(Tasks)
      BY <1>0, <2>2, <2>3 DEF SessionIds
    <3> QED  BY <2>8, <3>1 DEF TypeOK
  <2>11. Counted'
    BY <1>0, <2>2, <2>3, <2>8 DEF Counted, TypeOK, SessionIds, server
  <2>12. TypeOK'
    BY <2>1, <2>6, <2>7, <2>8, <2>9, <2>10 DEF TypeOK, Entry, Steps, server
  <2> QED  BY <2>11, <2>12
<1>3. ASSUME NEW t \in Tasks, Created(t)
      PROVE  TypeOK' /\ Counted'
  <2> DEFINE entry == [context |-> ContextOf[t], session |-> made + 1]
             giving == [given EXCEPT ![ContextOf[t]] = @ \cup {made + 1}]
  <2>1. /\ pc[t] = "create" /\ made' = made + 1 /\ alive' = alive \cup {made + 1}
        /\ session' = [session EXCEPT ![t] = made + 1]
        /\ lastUse' = [lastUse EXCEPT ![ContextOf[t]] = Later]
        /\ EvictOrSend(t, Stored(entry), giving)
        /\ UNCHANGED <<scenario, cancelled, status, draining, stuck>>
    BY <1>3 DEF Created
  <2>2. PICK step \in {"ending", "send"} : pc' = [pc EXCEPT ![t] = step]
    <3>1. \/ pc' = [pc EXCEPT ![t] = "ending"]
          \/ pc' = [pc EXCEPT ![t] = "send"]
      BY <2>1 DEF EvictOrSend, Goto
    <3> QED  BY <3>1
  <2>3. /\ Cardinality(Past) \in Nat /\ Cardinality(Past') \in SessionIds
        /\ Cardinality(Past') = Cardinality(Past) + 1
    <3>1. t \notin Past /\ pc \in [Tasks -> Steps] /\ step \in Steps
      BY <2>1 DEF Past, TypeOK, Steps
    <3> QED  BY <2>2, <3>1, PastGrows
  <2>4. made + 1 \in SessionIds \ {0} /\ made \in Nat
    BY <1>0, <2>3 DEF Counted, TypeOK, SessionIds
  <2>5. /\ Later \in Nat /\ Later <= Cardinality(Past)'
    BY <2>3, LaterIsLast
  <2>6. entry \in Entry /\ sessions \in Seq(Entry) /\ ContextOf[t] \in Contexts
    BY <2>4, A2AExecutorAssumption DEF Entry, TypeOK
  <2>7. Stored(entry) \in Seq(Entry) /\ giving \in [Contexts -> SUBSET SessionIds]
    BY <2>4, <2>6, StoredProperties DEF TypeOK
  <2>8. /\ sessions' \in Seq(Entry)
        /\ given' \in [Contexts -> SUBSET SessionIds]
        /\ ending' \in [Tasks -> SessionIds]
    <3> HIDE DEF entry, giving
    <3> QED  BY <2>1, <2>7, EvictOrSendTyped
  <2>9. lastUse' \in [Contexts -> 0..Cardinality(Tasks)]
    <3>1. Later \in 0..Cardinality(Tasks)
      BY <1>0, <2>3, <2>5 DEF SessionIds
    <3> QED  BY <2>1, <3>1 DEF TypeOK
  <2>10. alive' \subseteq 1..made'
    BY <2>1, <2>4 DEF TypeOK
  <2>11. Counted'
    BY <1>0, <2>1, <2>3, <2>5 DEF Counted, TypeOK, SessionIds
  <2>12. TypeOK'
    BY <2>1, <2>2, <2>4, <2>8, <2>9, <2>10 DEF TypeOK, Entry, Steps
  <2> QED  BY <2>11, <2>12
<1>4. ASSUME NEW t \in Tasks, Ended(t)
      PROVE  TypeOK' /\ Counted'
  <2>1. /\ pc[t] = "ending" /\ EvictOrSend(t, sessions, given)
        /\ alive' \subseteq alive /\ stuck' \subseteq stuck \cup {ending[t]}
        /\ UNCHANGED <<scenario, cancelled, session, status, lastUse, draining, made>>
    BY <1>4 DEF Ended
  <2>2. /\ sessions' \in Seq(Entry)
        /\ given' \in [Contexts -> SUBSET SessionIds]
        /\ ending' \in [Tasks -> SessionIds]
        /\ \E step \in {"ending", "send"} : pc' = [pc EXCEPT ![t] = step]
    BY <2>1, EvictOrSendTyped DEF TypeOK, Entry
  <2>3. PICK step \in {"ending", "send"} : pc' = [pc EXCEPT ![t] = step]
    BY <2>2
  <2>4. /\ Cardinality(Past) \in Nat /\ Cardinality(Past') \in SessionIds
        /\ Cardinality(Past) <= Cardinality(Past')
    BY <2>3, PastGrows DEF TypeOK, Steps
  <2>5. Counted'
    BY <1>0, <2>1, <2>4 DEF Counted, TypeOK, SessionIds
  <2>6. stuck' \subseteq SessionIds
    BY <2>1 DEF TypeOK
  <2>7. TypeOK'
    BY <2>1, <2>2, <2>3, <2>6 DEF TypeOK, Entry, Steps
  <2> QED  BY <2>5, <2>7
<1>5. ASSUME NEW t \in Tasks, Aborted(t)
      PROVE  TypeOK' /\ Counted'
  <2>0. PICK step \in {"done", "cut"} : pc' = [pc EXCEPT ![t] = step]
    BY <1>5 DEF Aborted, Finish, Goto
  <2>1. /\ pc[t] \notin {"idle", "done", "cut"}
        /\ \/ UNCHANGED <<made, alive, stuck>>
           \/ pc[t] = "create" /\ made' = made + 1 /\ alive' = alive \cup {made + 1} /\ stuck' = stuck
           \/ made' = made /\ alive' \subseteq alive /\ stuck' = stuck
        /\ ending' = [ending EXCEPT ![t] = NoSession]
        /\ UNCHANGED <<scenario, map, cancelled, session, draining>>
    BY <1>5 DEF Aborted, Finish, Goto
  <2>2. status' = status \/ status' = [status EXCEPT ![t] = Append(status[t], "canceled")]
    BY <1>5 DEF Aborted, Finish, Publish
  <2>3. /\ Cardinality(Past) \in Nat /\ Cardinality(Past') \in SessionIds
        /\ Cardinality(Past) <= Cardinality(Past')
        /\ pc[t] = "create" => Cardinality(Past') = Cardinality(Past) + 1
    BY <2>0, <2>1, PastGrows DEF TypeOK, Steps, Past
  <2>4. made' \in SessionIds /\ alive' \subseteq 1..made' /\ made' <= Cardinality(Past')
    <3>1. made \in Nat /\ alive \subseteq 1..made /\ made <= Cardinality(Past)
      BY <1>0 DEF TypeOK, Counted, SessionIds
    <3>2. Cardinality(Past') \in Nat /\ Cardinality(Past') <= Cardinality(Tasks)
      BY <1>0, <2>3 DEF SessionIds
    <3>3. CASE made' = made /\ alive' \subseteq alive
      BY <1>0, <2>3, <3>1, <3>2, <3>3 DEF SessionIds
    <3>4. CASE pc[t] = "create" /\ made' = made + 1 /\ alive' = alive \cup {made + 1}
      BY <1>0, <2>3, <3>1, <3>2, <3>4 DEF SessionIds
    <3> QED  BY <2>1, <3>3, <3>4
  <2>5. Counted'
    BY <1>0, <2>1, <2>3, <2>4 DEF Counted, TypeOK, SessionIds, map
  <2>6. status' \in [Tasks -> Seq(States)]
    <3>1. status \in [Tasks -> Seq(States)] /\ "canceled" \in States
      BY DEF TypeOK, States, Finals
    <3>2. Append(status[t], "canceled") \in Seq(States)
      BY <3>1
    <3> QED  BY <2>2, <3>1, <3>2
  <2>7. TypeOK'
    <3>1. 0 \in SessionIds /\ step \in Steps /\ stuck' = stuck
      BY <1>0, <2>1 DEF SessionIds, Steps
    <3>2. ending' \in [Tasks -> SessionIds] /\ pc' \in [Tasks -> Steps]
      BY <2>0, <2>1, <3>1 DEF TypeOK, NoSession
    <3> QED  BY <2>1, <2>4, <2>6, <3>1, <3>2 DEF TypeOK, States, map
  <2> QED  BY <2>5, <2>7
<1>6. ASSUME Close
      PROVE  TypeOK' /\ Counted'
  <2>1. /\ draining' = [i \in DOMAIN sessions |-> sessions[i].session]
        /\ sessions' = <<>>
        /\ given' = [c \in Contexts |-> IF Entries(c) = {} THEN given[c] ELSE {}]
        /\ UNCHANGED <<scenario, lastUse, cancelled, turn, made, alive, stuck>>
    BY <1>6 DEF Close
  <2>2. Len(sessions) \in Nat /\ DOMAIN sessions = 1..Len(sessions)
        /\ \A i \in 1..Len(sessions) : sessions[i].session \in SessionIds
    <3>1. sessions \in Seq(Entry)
      BY DEF TypeOK, Entry
    <3>2. \A i \in 1..Len(sessions) : sessions[i] \in Entry
      BY <3>1, ElementOfSeq
    <3> QED  BY <3>1, <3>2, LenProperties DEF Entry
  <2>3. draining' \in Seq(SessionIds)
    BY <2>1, <2>2
  <2>4. Past' = Past
    BY <2>1 DEF Past, turn
  <2>5. Counted'
    BY <2>1, <2>4 DEF Counted
  <2>6. TypeOK'
    BY <2>1, <2>3 DEF TypeOK, turn
  <2> QED  BY <2>5, <2>6
<1>7. ASSUME CloseNext
      PROVE  TypeOK' /\ Counted'
  <2>1. /\ draining # <<>> /\ draining' = Tail(draining)
        /\ alive' \subseteq alive /\ stuck' \subseteq stuck \cup {Head(draining)}
        /\ UNCHANGED <<scenario, map, cancelled, turn, made>>
    BY <1>7 DEF CloseNext
  <2>2. Head(draining) \in SessionIds /\ draining' \in Seq(SessionIds)
    BY <2>1, HeadTailProperties DEF TypeOK
  <2>3. Past' = Past
    BY <2>1 DEF Past, turn
  <2>4. Counted'
    BY <2>1, <2>3 DEF Counted, map
  <2>5. TypeOK'
    BY <2>1, <2>2 DEF TypeOK, map, turn
  <2> QED  BY <2>4, <2>5
<1>8. ASSUME UNCHANGED <<scenario, map, turn, server>>, cancelled' \subseteq Tasks
      PROVE  TypeOK' /\ Counted'
  <2>1. Past' = Past
    BY <1>8 DEF Past, turn
  <2> QED  BY <1>8, <2>1 DEF TypeOK, Counted, map, turn, server
<1> QED  BY <1>1, <1>2, <1>3, <1>4, <1>5, <1>6, <1>7, <1>8, StepCases

\* Every variable keeps its type; no more sessions are made, and no more are
\* given, than there are turns.
THEOREM TypeCorrect == Spec => [](TypeOK /\ Counted)
<1>1. TypeOK /\ Counted /\ [Next]_vars => TypeOK' /\ Counted'
  BY StepTyped
<1> QED  BY InitTyped, <1>1, PTL DEF Spec

-----------------------------------------------------------------------------
(* What a turn publishes.                                                  *)

WellPublished(u) ==
    /\ pc[u] # "done" => \A i \in DOMAIN status[u] : ~IsFinal(status[u][i])
    /\ \A i \in DOMAIN status[u] : IsFinal(status[u][i]) => i = Len(status[u])
    /\ pc[u] = "done" => status[u] # <<>> /\ IsFinal(status[u][Len(status[u])])

LEMMA EachWellPublished ==
    (\A u \in Tasks : WellPublished(u)) <=> StillOpen /\ OneFinalStatus
BY DEF WellPublished, StillOpen, OneFinalStatus

\* A turn that goes on, or is cut off, publishes nothing final, and one that is
\* done publishes its final state.
LEMMA Publishing ==
    ASSUME TypeOK, StillOpen, OneFinalStatus, NEW t \in Tasks, NEW step \in Steps,
           pc[t] # "done", pc' = [pc EXCEPT ![t] = step],
           \/ status' = status /\ step # "done"
           \/ \E state \in States : /\ status' = [status EXCEPT ![t] = Append(status[t], state)]
                                    /\ IsFinal(state) <=> step = "done"
    PROVE  StillOpen' /\ OneFinalStatus'
<1>1. \A u \in Tasks : status[u] \in Seq(States) /\ Len(status[u]) \in Nat
                       /\ DOMAIN status[u] = 1..Len(status[u])
  <2>1. status \in [Tasks -> Seq(States)]
    BY DEF TypeOK, States
  <2> QED  BY <2>1, LenProperties
<1>2. pc'[t] = step /\ \A u \in Tasks \ {t} : pc'[u] = pc[u]
  BY DEF TypeOK
<1>3. \A u \in Tasks \ {t} : status'[u] = status[u]
  BY DEF TypeOK
<1>4. ASSUME NEW u \in Tasks \ {t}
      PROVE  WellPublished(u)'
  BY <1>2, <1>3, <1>4, EachWellPublished DEF WellPublished
<1>5. WellPublished(t)'
  <2>1. CASE status' = status /\ step # "done"
    BY <1>2, <2>1, EachWellPublished DEF WellPublished
  <2>2. ASSUME NEW state \in States, status' = [status EXCEPT ![t] = Append(status[t], state)],
               IsFinal(state) <=> step = "done"
        PROVE  WellPublished(t)'
    <3> DEFINE n == Len(status[t])
    <3>1. n \in Nat /\ DOMAIN status[t] = 1..n
      BY <1>1
    <3>2. status'[t] = Append(status[t], state)
      BY <2>2 DEF TypeOK
    <3>3. /\ Len(status'[t]) = n + 1 /\ DOMAIN status'[t] = 1..n + 1
          /\ status'[t][n + 1] = state /\ \A i \in 1..n : status'[t][i] = status[t][i]
      BY <1>1, <3>2
    <3>4. \A i \in 1..n : ~IsFinal(status'[t][i])
      BY <3>1, <3>3 DEF StillOpen
    <3> HIDE DEF n
    <3>5. \A i \in 1..n + 1 : IsFinal(status'[t][i]) <=> i = n + 1 /\ step = "done"
      BY <2>2, <3>1, <3>3, <3>4
    <3>6. status'[t] # <<>>
      BY <3>1, <3>3
    <3>7. step = "done" => IsFinal(status'[t][Len(status'[t])])
      BY <3>1, <3>3, <3>5
    <3> QED  BY <1>2, <3>1, <3>3, <3>5, <3>6, <3>7 DEF WellPublished
  <2> QED  BY <2>1, <2>2
<1> QED  BY <1>4, <1>5, EachWellPublished DEF WellPublished, StillOpen, OneFinalStatus

LEMMA StepPublishes ==
    ASSUME TypeOK, StillOpen, OneFinalStatus, [Next]_vars
    PROVE  StillOpen' /\ OneFinalStatus'
<1>1. ASSUME NEW t \in Tasks, Quiet(t)
      PROVE  StillOpen' /\ OneFinalStatus'
  <2>1. PICK step \in Steps : pc' = [pc EXCEPT ![t] = step]
    BY <1>1, QuietStep
  <2>2. pc[t] # "done" /\ step = pc'[t]
    <3>1. pc'[t] = step
      BY <2>1 DEF TypeOK
    <3> QED  BY <1>1, <3>1, QuietStep
  <2>3. \/ status' = status /\ step # "done"
        \/ \E state \in States : /\ status' = [status EXCEPT ![t] = Append(status[t], state)]
                                 /\ IsFinal(state) <=> step = "done"
    BY <1>1, <2>2, QuietStep
  <2> QED  BY <2>1, <2>2, <2>3, Publishing
<1>2. ASSUME NEW t \in Tasks, NEW step \in {"send", "ending"},
             pc[t] # "done", pc' = [pc EXCEPT ![t] = step], UNCHANGED status
      PROVE  StillOpen' /\ OneFinalStatus'
  BY <1>2, Publishing DEF Steps
<1>3. ASSUME NEW t \in Tasks, FindSession(t)
      PROVE  StillOpen' /\ OneFinalStatus'
  BY <1>2, <1>3 DEF FindSession, Goto, TypeOK
<1>4. ASSUME NEW t \in Tasks, Created(t)
      PROVE  StillOpen' /\ OneFinalStatus'
  BY <1>2, <1>4 DEF Created, EvictOrSend, Goto, TypeOK
<1>5. ASSUME NEW t \in Tasks, Ended(t)
      PROVE  StillOpen' /\ OneFinalStatus'
  BY <1>2, <1>5 DEF Ended, EvictOrSend, Goto
<1>6. ASSUME NEW t \in Tasks, Aborted(t)
      PROVE  StillOpen' /\ OneFinalStatus'
  <2>1. PICK step \in {"done", "cut"} : pc' = [pc EXCEPT ![t] = step]
    BY <1>6 DEF Aborted, Finish, Goto
  <2>2. pc'[t] = step /\ pc[t] # "done"
    BY <1>6, <2>1 DEF Aborted, TypeOK
  <2>3. \/ step = "cut" /\ status' = status
        \/ step = "done" /\ status' = [status EXCEPT ![t] = Append(status[t], "canceled")]
    BY <1>6, <2>1, <2>2 DEF Aborted, Finish, Publish, Goto, TypeOK
  <2>4. "canceled" \in States /\ IsFinal("canceled") /\ step \in Steps
    BY DEF States, Finals, IsFinal, Steps
  <2> QED  BY <2>1, <2>2, <2>3, <2>4, Publishing
<1>7. ASSUME UNCHANGED <<pc, status>>
      PROVE  StillOpen' /\ OneFinalStatus'
  BY <1>7 DEF StillOpen, OneFinalStatus
<1>8. ASSUME Close \/ CloseNext \/ UNCHANGED <<scenario, map, turn, server>>
      PROVE  UNCHANGED <<pc, status>>
  BY <1>8 DEF Close, CloseNext, turn
<1> QED  BY <1>1, <1>3, <1>4, <1>5, <1>6, <1>7, <1>8, StepCases

\* Each turn publishes one final state at most, as its last one.
THEOREM FinalOnce == Spec => []OneFinalStatus
<1>1. Init => StillOpen /\ OneFinalStatus
  BY DEF Init, StillOpen, OneFinalStatus
<1>2. TypeOK /\ StillOpen /\ OneFinalStatus /\ [Next]_vars => StillOpen' /\ OneFinalStatus'
  BY StepPublishes
<1> QED  BY <1>1, <1>2, TypeCorrect, PTL DEF Spec

-----------------------------------------------------------------------------
(* The map and the sessions that leave it.                                 *)

Ids(entries) == {entries[i].session : i \in DOMAIN entries}

Distinct(entries) == \A i, j \in DOMAIN entries :
    i # j => entries[i].context # entries[j].context /\ entries[i].session # entries[j].session

\* Taking entries from places of their own keeps them distinct.
LEMMA Renumbered ==
    ASSUME NEW a, NEW b, NEW from,
           \A j \in DOMAIN b : from[j] \in DOMAIN a /\ b[j] = a[from[j]],
           \A j, k \in DOMAIN b : j # k => from[j] # from[k],
           Distinct(a)
    PROVE  Distinct(b) /\ Ids(b) \subseteq Ids(a)
<1>1. ASSUME NEW j \in DOMAIN b, NEW k \in DOMAIN b, j # k
      PROVE  b[j].context # b[k].context /\ b[j].session # b[k].session
  <2>1. from[j] # from[k] /\ from[j] \in DOMAIN a /\ from[k] \in DOMAIN a
    BY <1>1
  <2> QED  BY <2>1 DEF Distinct
<1> QED  BY <1>1 DEF Distinct, Ids

\* An eviction brings the map back within its limit, and takes one session
\* out of it.
LEMMA EvictionKeepsLimit ==
    ASSUME NEW t \in Tasks, NEW entries \in Seq(Entry), NEW giving,
           scenario.maxSessions \in Nat, EvictOrSend(t, entries, giving),
           Distinct(entries), Len(entries) <= scenario.maxSessions + 1
    PROVE  /\ sessions' \in Seq(Entry) /\ Len(sessions') <= scenario.maxSessions
           /\ Distinct(sessions')
           /\ \/ /\ pc' = [pc EXCEPT ![t] = "send"]
                 /\ ending' = [ending EXCEPT ![t] = NoSession]
                 /\ Ids(sessions') = Ids(entries)
              \/ /\ pc' = [pc EXCEPT ![t] = "ending"]
                 /\ \E id \in Ids(entries) : /\ ending' = [ending EXCEPT ![t] = id]
                                             /\ Ids(sessions') = Ids(entries) \ {id}
<1>1. Len(entries) \in Nat /\ DOMAIN entries = 1..Len(entries)
  BY LenProperties
<1>2. CASE Len(entries) > scenario.maxSessions
  <2> DEFINE n == Len(entries)
  <2>1. /\ entries[1] \in Entry /\ n \in Nat \ {0}
        /\ sessions' \in Seq(Entry) /\ Len(sessions') = n - 1
        /\ \A j \in 1..n - 1 : sessions'[j] = entries[j + 1]
        /\ ending' = [ending EXCEPT ![t] = entries[1].session]
        /\ pc' = [pc EXCEPT ![t] = "ending"]
    <3> HIDE DEF n
    <3>1. ~(Len(entries) <= scenario.maxSessions)
      BY <1>1, <1>2
    <3> QED  BY <3>1, EvictOrSendProperties DEF n
  <2>2. DOMAIN sessions' = 1..n - 1
    BY <2>1, LenProperties
  <2>3. Distinct(sessions')
    <3> DEFINE from == [j \in 1..n - 1 |-> j + 1]
    <3>1. \A j \in DOMAIN sessions' : from[j] \in DOMAIN entries /\ sessions'[j] = entries[from[j]]
      BY <1>1, <2>1, <2>2
    <3>2. \A j, k \in DOMAIN sessions' : j # k => from[j] # from[k]
      BY <2>1, <2>2
    <3> HIDE DEF from
    <3> QED  BY <3>1, <3>2, Renumbered
  <2>4. Ids(sessions') = Ids(entries) \ {entries[1].session}
    <3>1. Ids(sessions') \subseteq Ids(entries) \ {entries[1].session}
      <4>1. ASSUME NEW j \in 1..n - 1
            PROVE  sessions'[j].session \in Ids(entries) \ {entries[1].session}
        <5>1. j + 1 \in 1..n /\ 1 \in 1..n /\ j + 1 # 1 /\ sessions'[j] = entries[j + 1]
          BY <2>1
        <5> QED  BY <1>1, <5>1 DEF Ids, Distinct
      <4> QED  BY <2>2, <4>1 DEF Ids
    <3>2. ASSUME NEW i \in 1..n, entries[i].session # entries[1].session
          PROVE  entries[i].session \in Ids(sessions')
      <4>1. i # 1 /\ i - 1 \in 1..n - 1 /\ (i - 1) + 1 = i
        BY <2>1, <3>2
      <4>2. sessions'[i - 1] = entries[i]
        BY <2>1, <4>1
      <4> QED  BY <2>2, <4>1, <4>2 DEF Ids
    <3> QED  BY <1>1, <3>1, <3>2 DEF Ids
  <2>5. entries[1].session \in Ids(entries)
    BY <1>1, <2>1 DEF Ids
  <2>6. Len(sessions') <= scenario.maxSessions
    BY <2>1
  <2> HIDE DEF n
  <2> QED  BY <2>1, <2>3, <2>4, <2>5, <2>6
<1>3. CASE Len(entries) <= scenario.maxSessions
  BY <1>1, <1>3, EvictOrSendProperties
<1> QED  BY <1>1, <1>2, <1>3

\* Moving an entry to the end loses none and doubles none.
LEMMA MoveToEndKeeps ==
    ASSUME sessions \in Seq(Entry), NEW i \in 1..Len(sessions), Distinct(sessions),
           sessions' = MoveToEnd(i)
    PROVE  /\ sessions' \in Seq(Entry) /\ Len(sessions') = Len(sessions)
           /\ Distinct(sessions') /\ Ids(sessions') = Ids(sessions)
<1> DEFINE n == Len(sessions)
<1>1. n \in Nat /\ DOMAIN sessions = 1..n
  BY LenProperties
<1>2. sessions' \in Seq(Entry) /\ Len(sessions') = n
  BY MoveToEndProperties
<1>3. DOMAIN sessions' = 1..n
  BY <1>2, LenProperties
<1>4. PICK from :
         /\ \A j \in 1..n : from[j] \in 1..n /\ sessions'[j] = sessions[from[j]]
         /\ \A k \in 1..n : \E j \in 1..n : from[j] = k
         /\ \A j, k \in 1..n : j < k => from[j] # i /\ (from[k] = i \/ from[j] < from[k])
  BY MoveToEndPermutes
<1> HIDE DEF n
<1>5. \A j, k \in 1..n : j # k => from[j] # from[k]
  <2>1. ASSUME NEW j \in 1..n, NEW k \in 1..n, j < k PROVE from[j] # from[k]
    <3>1. from[j] \in 1..n /\ from[k] \in 1..n
      BY <1>4
    <3>2. from[j] # i /\ (from[k] = i \/ from[j] < from[k])
      BY <1>4, <2>1
    <3> QED  BY <1>1, <3>1, <3>2
  <2> QED  BY <1>1, <2>1
<1>6. \A j \in DOMAIN sessions' : from[j] \in DOMAIN sessions /\ sessions'[j] = sessions[from[j]]
  BY <1>1, <1>3, <1>4
<1>7. Distinct(sessions') /\ Ids(sessions') \subseteq Ids(sessions)
  <2>1. \A j, k \in DOMAIN sessions' : j # k => from[j] # from[k]
    BY <1>3, <1>5
  <2> QED  BY <1>6, <2>1, Renumbered
<1>8. Ids(sessions') = Ids(sessions)
  <2>1. ASSUME NEW k \in 1..n PROVE sessions[k].session \in Ids(sessions')
    <3>1. PICK j \in 1..n : from[j] = k
      BY <1>4
    <3>2. sessions'[j] = sessions[k]
      BY <1>4, <3>1
    <3> QED  BY <1>3, <3>2 DEF Ids
  <2> QED  BY <1>1, <1>7, <2>1 DEF Ids
<1> QED  BY <1>2, <1>7, <1>8 DEF n

\* A session stored is a new one, in a place of its own or in the place of the
\* one its context had.
LEMMA StoredKeeps ==
    ASSUME sessions \in Seq(Entry), NEW entry \in Entry, Distinct(sessions),
           entry.session \notin Ids(sessions)
    PROVE  /\ Stored(entry) \in Seq(Entry) /\ Len(Stored(entry)) <= Len(sessions) + 1
           /\ Distinct(Stored(entry))
           /\ Ids(Stored(entry)) \subseteq Ids(sessions) \cup {entry.session}
           /\ Entries(entry.context) = {} =>
                 Ids(Stored(entry)) = Ids(sessions) \cup {entry.session}
<1> DEFINE n == Len(sessions)
<1>1. n \in Nat /\ DOMAIN sessions = 1..n
  BY LenProperties
<1>2. Stored(entry) \in Seq(Entry)
  BY StoredProperties
<1>3. DOMAIN Stored(entry) = 1..Len(Stored(entry))
  BY <1>2, LenProperties
<1>4. CASE Entries(entry.context) = {}
  <2>1. /\ Len(Stored(entry)) = n + 1
        /\ \A j \in 1..n + 1 : Stored(entry)[j] = IF j <= n THEN sessions[j] ELSE entry
    BY <1>4, StoredProperties
  <2>2. \A j \in 1..n : sessions[j].context # entry.context
    BY <1>1, <1>4 DEF Entries
  <2>3. \A j \in 1..n : sessions[j].session # entry.session
    BY <1>1 DEF Ids
  <2> DEFINE new == Stored(entry)
  <2>4. DOMAIN new = 1..n + 1
    BY <1>3, <2>1
  <2>5. n + 1 \in 1..n + 1 /\ new[n + 1] = entry /\ \A j \in 1..n : j \in 1..n + 1 /\ new[j] = sessions[j]
    BY <1>1, <2>1
  <2>6. \A j \in 1..n + 1 : j \in 1..n \/ j = n + 1
    BY <1>1
  <2> HIDE DEF new, n
  <2>7. Distinct(new)
    BY <1>1, <2>2, <2>3, <2>4, <2>5, <2>6 DEF Distinct
  <2>8. Ids(new) = Ids(sessions) \cup {entry.session}
    BY <1>1, <2>4, <2>5, <2>6 DEF Ids
  <2> QED  BY <1>1, <1>2, <2>1, <2>7, <2>8 DEF new, n
<1>5. CASE Entries(entry.context) # {}
  <2>1. /\ Len(Stored(entry)) = n
        /\ \A j \in 1..n : Stored(entry)[j] =
              IF sessions[j].context = entry.context THEN entry ELSE sessions[j]
    BY <1>5, StoredProperties
  <2>2. \A j \in 1..n : sessions[j].session # entry.session
    BY <1>1 DEF Ids
  <2> DEFINE new == Stored(entry)
  <2>3. DOMAIN new = 1..n
    BY <1>3, <2>1
  <2>4. \A j \in 1..n : new[j].context = sessions[j].context
    BY <2>1
  <2>5. \A j \in 1..n : new[j].session =
          IF sessions[j].context = entry.context THEN entry.session ELSE sessions[j].session
    BY <2>1
  <2> HIDE DEF new, n
  <2>6. Distinct(new)
    BY <1>1, <2>2, <2>3, <2>4, <2>5 DEF Distinct
  <2>7. Ids(new) \subseteq Ids(sessions) \cup {entry.session}
    BY <1>1, <2>3, <2>5 DEF Ids
  <2> QED  BY <1>1, <1>2, <1>5, <2>1, <2>6, <2>7 DEF new, n
<1> QED  BY <1>4, <1>5

\* What the cases below need of the types.
LEMMA MapFacts ==
    ASSUME TypeOK
    PROVE  /\ sessions \in Seq(Entry) /\ Held = Ids(sessions)
           /\ made \in Nat /\ NoSession \notin alive /\ made + 1 \notin alive
           /\ scenario.maxSessions \in Nat
           /\ MapHoldsLive <=> /\ Len(sessions) <= scenario.maxSessions
                             /\ Ids(sessions) \subseteq alive /\ Distinct(sessions)
<1>1. Cardinality(Tasks) \in Nat
  BY A2AExecutorAssumption, FS_CardinalityType
<1>2. made \in Nat /\ NoSession \notin alive /\ made + 1 \notin alive
  BY <1>1 DEF TypeOK, SessionIds, NoSession
<1>3. scenario.maxSessions \in Nat
  BY A2AExecutorAssumption DEF TypeOK, Scenario
<1> QED  BY <1>2, <1>3 DEF TypeOK, Entry, Held, Ids, MapHoldsLive, Distinct

\* MapHoldsLive and EndedOnce of a state whose map holds the sessions `ids`.
LEMMA MapKept ==
    ASSUME TypeOK',
           (sessions \in Seq(Entry))', Len(sessions') <= scenario'.maxSessions, Distinct(sessions'),
           NEW ids, ids = Ids(sessions'), ids \subseteq alive',
           stuck' \subseteq alive', ids \cap stuck' = {},
           \A t \in Tasks : IF pc'[t] = "ending" THEN ending'[t] \in alive' \ (stuck' \cup ids)
                                              ELSE ending'[t] = NoSession,
           \A i \in DOMAIN draining' : draining'[i] \in alive' \ (stuck' \cup ids),
           \A t, u \in Tasks : pc'[t] = "ending" /\ ending'[t] = ending'[u] => t = u,
           \A i, j \in DOMAIN draining' : draining'[i] = draining'[j] => i = j,
           \A t \in Tasks : \A i \in DOMAIN draining' : ending'[t] # draining'[i]
    PROVE  MapHoldsLive' /\ EndedOnce'
<1>1. Held' = ids
  BY DEF Held, Ids
<1>2. MapHoldsLive'
  BY <1>1 DEF MapHoldsLive, Distinct
<1> QED  BY <1>1, <1>2 DEF EndedOnce

\* An eviction, in a state where what leaves the map elsewhere has left it.
LEMMA EvictionKeepsMap ==
    ASSUME TypeOK, TypeOK', NEW t \in Tasks, NEW entries \in Seq(Entry), NEW giving,
           EvictOrSend(t, entries, giving),
           Distinct(entries), Len(entries) <= scenario.maxSessions + 1,
           UNCHANGED <<scenario, draining>>,
           Ids(entries) \subseteq alive', stuck' \subseteq alive', Ids(entries) \cap stuck' = {},
           \A u \in Tasks \ {t} : IF pc[u] = "ending"
                                 THEN ending[u] \in alive' \ (stuck' \cup Ids(entries))
                                 ELSE ending[u] = NoSession,
           \A i \in DOMAIN draining : draining[i] \in alive' \ (stuck' \cup Ids(entries)),
           \A u, v \in Tasks \ {t} : pc[u] = "ending" /\ ending[u] = ending[v] => u = v,
           \A i, j \in DOMAIN draining : draining[i] = draining[j] => i = j,
           \A u \in Tasks \ {t} : \A i \in DOMAIN draining : ending[u] # draining[i]
    PROVE  MapHoldsLive' /\ EndedOnce'
<1> DEFINE ids == Ids(entries)
<1>1. /\ sessions' \in Seq(Entry) /\ Len(sessions') <= scenario.maxSessions
      /\ Distinct(sessions')
      /\ \/ /\ pc' = [pc EXCEPT ![t] = "send"]
            /\ ending' = [ending EXCEPT ![t] = NoSession]
            /\ Ids(sessions') = ids
         \/ /\ pc' = [pc EXCEPT ![t] = "ending"]
            /\ \E id \in ids : /\ ending' = [ending EXCEPT ![t] = id]
                              /\ Ids(sessions') = ids \ {id}
  BY MapFacts, EvictionKeepsLimit
<1>2. NoSession \notin alive'
  BY MapFacts DEF TypeOK, NoSession
<1>3. pc \in [Tasks -> Steps] /\ ending \in [Tasks -> SessionIds]
  BY DEF TypeOK
<1> HIDE DEF ids
<1>4. CASE /\ pc' = [pc EXCEPT ![t] = "send"]
           /\ ending' = [ending EXCEPT ![t] = NoSession]
           /\ Ids(sessions') = ids
  <2>1. /\ pc'[t] = "send" /\ ending'[t] = NoSession
        /\ \A u \in Tasks \ {t} : pc'[u] = pc[u] /\ ending'[u] = ending[u]
    BY <1>3, <1>4
  <2>2. \A u \in Tasks : IF pc'[u] = "ending" THEN ending'[u] \in alive' \ (stuck' \cup ids)
                                             ELSE ending'[u] = NoSession
    BY <2>1 DEF ids
  <2>3. \A u, v \in Tasks : pc'[u] = "ending" /\ ending'[u] = ending'[v] => u = v
    BY <1>2, <2>1, <2>2
  <2>4. \A u \in Tasks : \A i \in DOMAIN draining' : ending'[u] # draining'[i]
    BY <1>2, <2>1
  <2> QED  BY <1>1, <1>4, <2>2, <2>3, <2>4, MapKept DEF ids
<1>5. ASSUME NEW id \in ids, pc' = [pc EXCEPT ![t] = "ending"],
             ending' = [ending EXCEPT ![t] = id], Ids(sessions') = ids \ {id}
      PROVE  MapHoldsLive' /\ EndedOnce'
  <2>1. /\ pc'[t] = "ending" /\ ending'[t] = id
        /\ \A u \in Tasks \ {t} : pc'[u] = pc[u] /\ ending'[u] = ending[u]
    BY <1>3, <1>5
  <2>2. \A u \in Tasks \ {t} : ending'[u] \notin ids
    BY <1>2, <2>1 DEF ids
  <2>3. \A u \in Tasks : IF pc'[u] = "ending" THEN ending'[u] \in alive' \ (stuck' \cup (ids \ {id}))
                                             ELSE ending'[u] = NoSession
    BY <1>5, <2>1 DEF ids
  <2>4. \A u, v \in Tasks : pc'[u] = "ending" /\ ending'[u] = ending'[v] => u = v
    BY <1>5, <2>1, <2>2
  <2>5. \A u \in Tasks : \A i \in DOMAIN draining' : ending'[u] # draining'[i]
    BY <1>5, <2>1 DEF ids
  <2> QED  BY <1>1, <1>5, <2>3, <2>4, <2>5, MapKept DEF ids
<1> QED  BY <1>1, <1>4, <1>5

LEMMA StepKeepsMap ==
    ASSUME TypeOK, TypeOK', MapHoldsLive, EndedOnce, [Next]_vars
    PROVE  MapHoldsLive' /\ EndedOnce'
<1> DEFINE ids == Ids(sessions)
<1>0. /\ sessions \in Seq(Entry) /\ Len(sessions) <= scenario.maxSessions
      /\ Distinct(sessions) /\ ids \subseteq alive
      /\ made \in Nat /\ NoSession \notin alive /\ made + 1 \notin alive
      /\ scenario.maxSessions \in Nat
  BY MapFacts
<1>e. /\ stuck \subseteq alive /\ ids \cap stuck = {}
      /\ \A t \in Tasks : IF pc[t] = "ending" THEN ending[t] \in alive \ (stuck \cup ids)
                                            ELSE ending[t] = NoSession
      /\ \A i \in DOMAIN draining : draining[i] \in alive \ (stuck \cup ids)
      /\ \A t, u \in Tasks : pc[t] = "ending" /\ ending[t] = ending[u] => t = u
      /\ \A i, j \in DOMAIN draining : draining[i] = draining[j] => i = j
      /\ \A t \in Tasks : \A i \in DOMAIN draining : ending[t] # draining[i]
  BY MapFacts DEF EndedOnce
<1> HIDE DEF ids
<1>1. ASSUME NEW t \in Tasks, Quiet(t)
      PROVE  MapHoldsLive' /\ EndedOnce'
  <2>1. UNCHANGED <<scenario, map, session, ending, server>>
    BY <1>1, QuietStep
  <2>2. \A u \in Tasks : pc'[u] = "ending" <=> pc[u] = "ending"
    <3>1. PICK step \in Steps : pc' = [pc EXCEPT ![t] = step]
      BY <1>1, QuietStep
    <3>2. pc[t] # "ending" /\ pc'[t] # "ending"
      BY <1>1, QuietStep
    <3> QED  BY <3>1, <3>2 DEF TypeOK
  <2> QED  BY <2>1, <2>2 DEF MapHoldsLive, EndedOnce, Held, map, server
<1>2. ASSUME NEW t \in Tasks, FindSession(t)
      PROVE  MapHoldsLive' /\ EndedOnce'
  <2>1. /\ pc[t] = "working" /\ pc' = [pc EXCEPT ![t] = "send"]
        /\ UNCHANGED <<scenario, cancelled, ending, status, server>>
    BY <1>2 DEF FindSession, Goto
  <2>2. PICK i \in Entries(ContextOf[t]) : sessions' = MoveToEnd(i)
    BY <1>2 DEF FindSession
  <2>3. i \in 1..Len(sessions)
    BY <1>0, LenProperties DEF Entries
  <2>4. /\ sessions' \in Seq(Entry) /\ Len(sessions') = Len(sessions)
        /\ Distinct(sessions') /\ Ids(sessions') = ids
    BY <1>0, <2>2, <2>3, MoveToEndKeeps DEF ids
  <2>5. \A u \in Tasks : pc'[u] = "ending" <=> pc[u] = "ending"
    BY <2>1 DEF TypeOK
  <2> QED  BY <1>0, <1>e, <2>1, <2>4, <2>5, MapKept DEF server
<1>3. ASSUME NEW t \in Tasks, Created(t)
      PROVE  MapHoldsLive' /\ EndedOnce'
  <2> DEFINE entry == [context |-> ContextOf[t], session |-> made + 1]
             giving == [given EXCEPT ![ContextOf[t]] = @ \cup {made + 1}]
             entries == Stored(entry)
  <2>1. /\ pc[t] = "create" /\ made' = made + 1 /\ alive' = alive \cup {made + 1}
        /\ EvictOrSend(t, entries, giving)
        /\ UNCHANGED <<scenario, cancelled, status, draining, stuck>>
    BY <1>3 DEF Created
  <2>2. entry \in Entry /\ entry.session = made + 1 /\ entry.session \notin ids
    <3>1. made + 1 \in SessionIds
      BY <2>1 DEF TypeOK
    <3> QED  BY <1>0, <3>1, A2AExecutorAssumption DEF Entry
  <2>3. /\ entries \in Seq(Entry) /\ Len(entries) <= Len(sessions) + 1
        /\ Distinct(entries) /\ Ids(entries) \subseteq ids \cup {made + 1}
    <3> HIDE DEF entry
    <3> QED  BY <1>0, <2>2, StoredKeeps DEF ids
  <2>4. Len(entries) <= scenario.maxSessions + 1
    BY <1>0, <2>3, LenProperties
  <2>5. /\ Ids(entries) \subseteq alive' /\ stuck' \subseteq alive' /\ Ids(entries) \cap stuck' = {}
        /\ \A u \in Tasks : pc[u] = "ending" => ending[u] \in alive' \ (stuck' \cup Ids(entries))
        /\ \A i \in DOMAIN draining : draining[i] \in alive' \ (stuck' \cup Ids(entries))
    BY <1>0, <1>e, <2>1, <2>3
  <2> HIDE DEF entries, giving
  <2> QED  BY <1>e, <2>1, <2>3, <2>4, <2>5, EvictionKeepsMap
<1>4. ASSUME NEW t \in Tasks, Ended(t)
      PROVE  MapHoldsLive' /\ EndedOnce'
  <2>1. /\ pc[t] = "ending" /\ EvictOrSend(t, sessions, given)
        /\ UNCHANGED <<scenario, draining, made>>
        /\ \/ alive' = alive \ {ending[t]} /\ UNCHANGED stuck
           \/ stuck' = stuck \cup {ending[t]} /\ UNCHANGED alive
    BY <1>4 DEF Ended
  <2>2. /\ ending[t] \in alive \ (stuck \cup ids)
        /\ \A u \in Tasks \ {t} : ending[u] # ending[t]
        /\ \A i \in DOMAIN draining : draining[i] # ending[t]
    BY <1>e, <2>1
  <2>3. /\ ids \subseteq alive' /\ stuck' \subseteq alive' /\ ids \cap stuck' = {}
        /\ \A u \in Tasks \ {t} : pc[u] = "ending" => ending[u] \in alive' \ (stuck' \cup ids)
        /\ \A i \in DOMAIN draining : draining[i] \in alive' \ (stuck' \cup ids)
    BY <1>0, <1>e, <2>1, <2>2
  <2>4. Len(sessions) <= scenario.maxSessions + 1
    BY <1>0, LenProperties
  <2>5. \A u \in Tasks \ {t} : pc[u] # "ending" => ending[u] = NoSession
    BY <1>e
  <2> QED  BY <1>0, <1>e, <2>1, <2>3, <2>4, <2>5, EvictionKeepsMap DEF ids
<1>5. ASSUME NEW t \in Tasks, Aborted(t)
      PROVE  MapHoldsLive' /\ EndedOnce'
  <2>1. /\ \E step \in Over : pc' = [pc EXCEPT ![t] = step]
        /\ \/ alive' = alive
           \/ alive' = alive \cup {made + 1}
           \/ pc[t] = "ending" /\ alive' = alive \ {ending[t]}
        /\ ending' = [ending EXCEPT ![t] = NoSession]
        /\ UNCHANGED <<scenario, map, draining, stuck>>
    BY <1>5 DEF Aborted, Finish, Goto, Over
  <2>2. /\ pc'[t] # "ending" /\ ending'[t] = NoSession
        /\ \A u \in Tasks \ {t} : pc'[u] = pc[u] /\ ending'[u] = ending[u]
    BY <2>1 DEF TypeOK, Over
  <2>3. /\ ids \subseteq alive' /\ stuck' \subseteq alive'
        /\ \A u \in Tasks \ {t} : pc[u] = "ending" => ending[u] \in alive' \ (stuck \cup ids)
        /\ \A i \in DOMAIN draining : draining[i] \in alive' \ (stuck \cup ids)
    BY <1>0, <1>e, <2>1
  <2>4. \A u \in Tasks : IF pc'[u] = "ending" THEN ending'[u] \in alive' \ (stuck' \cup ids)
                                             ELSE ending'[u] = NoSession
    BY <1>e, <2>1, <2>2, <2>3
  <2>5. \A u, v \in Tasks : pc'[u] = "ending" /\ ending'[u] = ending'[v] => u = v
    BY <1>0, <1>e, <2>2
  <2>6. \A u \in Tasks : \A i \in DOMAIN draining' : ending'[u] # draining'[i]
    BY <1>0, <1>e, <2>1, <2>2
  <2> QED  BY <1>0, <1>e, <2>1, <2>3, <2>4, <2>5, <2>6, MapKept DEF map, ids
<1>6. ASSUME Close
      PROVE  MapHoldsLive' /\ EndedOnce'
  <2>1. /\ draining' = [i \in DOMAIN sessions |-> sessions[i].session]
        /\ sessions' = <<>>
        /\ UNCHANGED <<scenario, lastUse, cancelled, turn, made, alive, stuck>>
    BY <1>6 DEF Close
  <2>2. /\ (sessions \in Seq(Entry))' /\ Len(sessions') <= scenario'.maxSessions
        /\ Distinct(sessions') /\ Ids(sessions') = {}
    BY <1>0, <2>1 DEF Distinct, Ids
  <2>3. \A i \in DOMAIN draining' : draining'[i] \in ids
    BY <2>1 DEF ids, Ids
  <2>4. \A i, j \in DOMAIN draining' : draining'[i] = draining'[j] => i = j
    BY <1>0, <2>1 DEF Distinct
  <2>5. \A t \in Tasks : ending[t] \notin ids
    BY <1>0, <1>e
  <2>6. \A t \in Tasks : \A i \in DOMAIN draining' : ending'[t] # draining'[i]
    BY <2>1, <2>3, <2>5 DEF turn
  <2>7. \A t \in Tasks : IF pc'[t] = "ending" THEN ending'[t] \in alive' \ (stuck' \cup {})
                                             ELSE ending'[t] = NoSession
    BY <1>e, <2>1 DEF turn
  <2>8. \A i \in DOMAIN draining' : draining'[i] \in alive' \ (stuck' \cup {})
    BY <1>0, <1>e, <2>1, <2>3
  <2>9. \A t, u \in Tasks : pc'[t] = "ending" /\ ending'[t] = ending'[u] => t = u
    BY <1>e, <2>1 DEF turn
  <2>10. stuck' \subseteq alive'
    BY <1>e, <2>1
  <2> QED  BY <2>2, <2>4, <2>6, <2>7, <2>8, <2>9, <2>10, MapKept
<1>7. ASSUME CloseNext
      PROVE  MapHoldsLive' /\ EndedOnce'
  <2> DEFINE s == Head(draining)
  <2>1. /\ draining # <<>> /\ draining' = Tail(draining)
        /\ \/ alive' = alive \ {s} /\ UNCHANGED stuck
           \/ stuck' = stuck \cup {s} /\ UNCHANGED alive
        /\ UNCHANGED <<scenario, map, cancelled, turn, made>>
    BY <1>7 DEF CloseNext
  <2>2. draining \in Seq(SessionIds) /\ Len(draining) \in Nat \ {0}
        /\ DOMAIN draining = 1..Len(draining)
    BY <2>1, EmptySeq, LenProperties DEF TypeOK
  <2>3. /\ s = draining[1]
        /\ DOMAIN draining' = 1..Len(draining) - 1
        /\ \A i \in 1..Len(draining) - 1 : draining'[i] = draining[i + 1]
    BY <2>1, <2>2, HeadTailProperties, LenProperties
  <2>4. \A i \in DOMAIN draining' : i + 1 \in DOMAIN draining /\ draining'[i] = draining[i + 1]
                                   /\ draining'[i] # s
    BY <1>e, <2>2, <2>3
  <2>5. 1 \in DOMAIN draining /\ s \in alive \ (stuck \cup ids) /\ \A t \in Tasks : ending[t] # s
    BY <1>e, <2>2, <2>3
  <2>6. \A i, j \in DOMAIN draining' : draining'[i] = draining'[j] => i = j
    <3>1. ASSUME NEW i \in DOMAIN draining', NEW j \in DOMAIN draining', draining'[i] = draining'[j]
          PROVE  i = j
      <4>1. i + 1 = j + 1
        BY <1>e, <2>4, <3>1
      <4> QED  BY <2>2, <2>3, <4>1
    <3> QED  BY <3>1
  <2> HIDE DEF s
  <2>7. /\ ids \subseteq alive' /\ stuck' \subseteq alive' /\ ids \cap stuck' = {}
        /\ \A t \in Tasks : pc[t] = "ending" => ending[t] \in alive' \ (stuck' \cup ids)
        /\ \A i \in DOMAIN draining' : draining'[i] \in alive' \ (stuck' \cup ids)
    BY <1>0, <1>e, <2>1, <2>4, <2>5
  <2>8. \A t \in Tasks : IF pc'[t] = "ending" THEN ending'[t] \in alive' \ (stuck' \cup ids)
                                             ELSE ending'[t] = NoSession
    BY <1>e, <2>1, <2>7 DEF turn
  <2>9. \A t \in Tasks : \A i \in DOMAIN draining' : ending'[t] # draining'[i]
    BY <1>e, <2>1, <2>4 DEF turn
  <2>10. \A t, u \in Tasks : pc'[t] = "ending" /\ ending'[t] = ending'[u] => t = u
    BY <1>e, <2>1 DEF turn
  <2> QED  BY <1>0, <2>1, <2>6, <2>7, <2>8, <2>9, <2>10, MapKept DEF map, ids
<1>8. ASSUME UNCHANGED <<scenario, map, turn, server>>
      PROVE  MapHoldsLive' /\ EndedOnce'
  BY <1>8 DEF MapHoldsLive, EndedOnce, Held, map, turn, server
<1> QED  BY <1>1, <1>2, <1>3, <1>4, <1>5, <1>6, <1>7, <1>8, StepCases

\* The map stays within its limit and holds live sessions only, each once.
THEOREM MapStaysLive == Spec => [](MapHoldsLive /\ EndedOnce)
<1>1. Init => MapHoldsLive /\ EndedOnce
  <2> SUFFICES ASSUME Init PROVE MapHoldsLive /\ EndedOnce
    OBVIOUS
  <2>1. TypeOK
    BY InitTyped
  <2>2. Held = {} /\ DOMAIN sessions = {} /\ DOMAIN draining = {} /\ Len(sessions) = 0
    BY DEF Init, Held
  <2>3. scenario.maxSessions \in Nat
    BY <2>1, MapFacts
  <2> QED  BY <2>2, <2>3 DEF Init, MapHoldsLive, EndedOnce
<1>2. TypeOK /\ TypeOK' /\ MapHoldsLive /\ EndedOnce /\ [Next]_vars => MapHoldsLive' /\ EndedOnce'
  BY StepKeepsMap
<1> QED  BY <1>1, <1>2, TypeCorrect, PTL DEF Spec

-----------------------------------------------------------------------------
(* Turns that do not overlap.                                              *)

Without(entries, c) == \A i \in DOMAIN entries : entries[i].context # c

\* An eviction takes from a context what it was given, with its entry.
LEMMA EvictionKeepsOrder ==
    ASSUME TypeOK, NEW t \in Tasks, NEW entries \in Seq(Entry),
           NEW giving \in [Contexts -> SUBSET SessionIds], NEW use,
           EvictOrSend(t, entries, giving),
           Distinct(entries), Holds(entries, giving), Sorted(entries, use)
    PROVE  /\ Holds(sessions', given') /\ Sorted(sessions', use)
           /\ \A c \in Contexts : Without(entries, c) => Without(sessions', c)
           /\ pc' = [pc EXCEPT ![t] = "send"] \/ pc' = [pc EXCEPT ![t] = "ending"]
<1> DEFINE n == Len(entries)
<1>1. n \in Nat /\ DOMAIN entries = 1..n
  BY LenProperties
<1>2. scenario.maxSessions \in Nat
  BY MapFacts
<1>3. CASE n <= scenario.maxSessions
  <2>1. /\ sessions' = entries /\ given' = giving
        /\ pc' = [pc EXCEPT ![t] = "send"]
    BY <1>1, <1>2, <1>3, EvictOrSendProperties
  <2> QED  BY <2>1
<1>4. CASE n > scenario.maxSessions
  <2> DEFINE first == entries[1]
  <2>1. /\ first \in Entry /\ n \in Nat \ {0}
        /\ sessions' \in Seq(Entry) /\ Len(sessions') = n - 1
        /\ \A j \in 1..n - 1 : sessions'[j] = entries[j + 1]
        /\ given' = [giving EXCEPT ![first.context] = {}]
        /\ pc' = [pc EXCEPT ![t] = "ending"]
    <3> HIDE DEF n
    <3>1. ~(n <= scenario.maxSessions)
      BY <1>1, <1>2, <1>4
    <3> QED  BY <1>2, <3>1, EvictOrSendProperties DEF n
  <2>2. DOMAIN sessions' = 1..n - 1
    BY <2>1, LenProperties
  <2>3. first.context \in Contexts
    BY <2>1 DEF Entry
  <2> HIDE DEF n
  <2>4. \A j \in 1..n - 1 : j + 1 \in 1..n /\ 1 \in 1..n /\ j + 1 # 1
    BY <2>1
  <2>5. \A j \in 1..n - 1 : sessions'[j].context # first.context /\ entries[j + 1].context \in Contexts
    <3>1. \A j \in 1..n : entries[j] \in Entry
      BY ElementOfSeq DEF n
    <3>2. \A j \in 1..n - 1 : entries[j + 1].context # entries[1].context
      BY ONLY <1>1, <2>4, Distinct(entries) DEF Distinct
    <3>3. \A j \in 1..n - 1 : entries[j + 1] \in Entry /\ entries[j + 1].context \in Contexts
      BY ONLY <2>4, <3>1 DEF Entry
    <3> QED  BY <2>1, <3>2, <3>3
  <2>6. \A c \in Contexts : Without(entries, c) => Without(sessions', c)
    BY <1>1, <2>1, <2>2, <2>4 DEF Without
  <2>7. \A c \in Contexts : Without(sessions', c) => c = first.context \/ Without(entries, c)
    <3>1. ASSUME NEW c \in Contexts, Without(sessions', c), c # first.context, NEW i \in 1..n
          PROVE  entries[i].context # c
      <4>1. CASE i = 1
        BY <3>1, <4>1
      <4>2. CASE i # 1
        <5>1. i - 1 \in 1..n - 1 /\ (i - 1) + 1 = i
          BY <2>1, <4>2
        <5> QED  BY <2>1, <2>2, <3>1, <5>1 DEF Without
      <4> QED  BY <4>1, <4>2
    <3> QED  BY <1>1, <3>1 DEF Without
  <2>8. Holds(sessions', given')
    <3>1. ASSUME NEW c \in Contexts, Without(sessions', c)  PROVE given'[c] = {}
      BY <2>1, <2>3, <2>7, <3>1 DEF Holds, Without
    <3>2. ASSUME NEW j \in 1..n - 1  PROVE given'[sessions'[j].context] \subseteq {sessions'[j].session}
      <4>1. given'[sessions'[j].context] = giving[entries[j + 1].context]
        BY <2>1, <2>5
      <4> QED  BY <1>1, <2>1, <2>4, <4>1 DEF Holds
    <3> QED  BY <2>2, <3>1, <3>2 DEF Holds, Without
  <2>9. Sorted(sessions', use)
    <3>1. ASSUME NEW i \in 1..n - 1, NEW j \in 1..n - 1, i < j
          PROVE  use[sessions'[i].context] < use[sessions'[j].context]
      <4>1. i + 1 < j + 1
        BY <3>1, <2>1
      <4> QED  BY <1>1, <2>1, <2>4, <4>1 DEF Sorted
    <3> QED  BY <2>2, <3>1 DEF Sorted
  <2> QED  BY <2>1, <2>6, <2>8, <2>9
<1> QED  BY <1>1, <1>2, <1>3, <1>4

\* The entry that is used moves behind those used before it.
LEMMA UseKeepsOrder ==
    ASSUME TypeOK, NEW i \in 1..Len(sessions), NEW later,
           Distinct(sessions), Holds(sessions, given), Sorted(sessions, lastUse),
           sessions' = MoveToEnd(i),
           given' = [given EXCEPT ![sessions[i].context] =
                        given[sessions[i].context] \cup {sessions[i].session}],
           lastUse' = [lastUse EXCEPT ![sessions[i].context] = later],
           \A c \in Contexts : lastUse[c] < later
    PROVE  /\ Holds(sessions', given') /\ Sorted(sessions', lastUse')
           /\ \A c \in Contexts : Without(sessions, c) => Without(sessions', c)
<1> DEFINE n == Len(sessions)
           mine == sessions[i]
<1>1. n \in Nat /\ DOMAIN sessions = 1..n /\ sessions \in Seq(Entry)
      /\ \A j \in 1..n : sessions[j].context \in Contexts
  <2>1. sessions \in Seq(Entry)
    BY MapFacts
  <2>2. \A j \in 1..n : sessions[j] \in Entry
    BY <2>1, ElementOfSeq
  <2> QED  BY <2>1, <2>2, LenProperties DEF Entry
<1>2. DOMAIN sessions' = 1..n
  BY <1>1, MoveToEndProperties, LenProperties
<1>3. PICK from :
         /\ \A j \in 1..n : from[j] \in 1..n /\ sessions'[j] = sessions[from[j]]
         /\ \A k \in 1..n : \E j \in 1..n : from[j] = k
         /\ \A j, k \in 1..n : j < k => from[j] # i /\ (from[k] = i \/ from[j] < from[k])
  BY <1>1, MoveToEndPermutes
<1>6. /\ \A c \in Contexts \ {mine.context} : given'[c] = given[c] /\ lastUse'[c] = lastUse[c]
      /\ given'[mine.context] = given[mine.context] \cup {mine.session}
      /\ lastUse'[mine.context] = later
  BY <1>1 DEF TypeOK
<1>7. \A k \in 1..n : k # i => sessions[k].context # mine.context
  BY <1>1 DEF Distinct
<1> HIDE DEF n, mine
<1>8. \A c \in Contexts : Without(sessions', c) <=> Without(sessions, c)
  <2>1. ASSUME NEW c \in Contexts, Without(sessions, c)  PROVE Without(sessions', c)
    <3>1. ASSUME NEW j \in 1..n PROVE sessions'[j].context # c
      <4>1. from[j] \in DOMAIN sessions /\ sessions'[j] = sessions[from[j]]
        BY <1>1, <1>3
      <4>2. sessions[from[j]].context # c
        BY <2>1, <4>1 DEF Without
      <4> QED  BY <4>1, <4>2
    <3> QED  BY <1>2, <3>1 DEF Without
  <2>2. ASSUME NEW c \in Contexts, Without(sessions', c)  PROVE Without(sessions, c)
    <3>1. ASSUME NEW k \in 1..n PROVE sessions[k].context # c
      <4>1. PICK j \in 1..n : from[j] = k
        BY <1>3
      <4>2. sessions'[j] = sessions[k]
        BY <1>3, <4>1
      <4>3. sessions'[j].context # c
        BY <1>2, <2>2 DEF Without
      <4> QED  BY <4>2, <4>3
    <3> QED  BY <1>1, <3>1 DEF Without
  <2> QED  BY <2>1, <2>2
<1>9. Holds(sessions', given')
  <2>1. \A k \in 1..n : given'[sessions[k].context] \subseteq {sessions[k].session}
    BY <1>1, <1>6, <1>7 DEF Holds, mine
  <2>2. \A c \in Contexts : Without(sessions, c) => given'[c] = {}
    <3>1. i \in DOMAIN sessions /\ sessions[i] = mine
      BY <1>1 DEF mine, n
    <3> QED  BY <1>6, <3>1 DEF Holds, Without
  <2>3. \A j \in 1..n : given'[sessions'[j].context] \subseteq {sessions'[j].session}
    <3>1. \A j \in 1..n : from[j] \in 1..n /\ sessions'[j] = sessions[from[j]]
      BY <1>3
    <3> QED  BY <2>1, <3>1
  <2> QED  BY <1>2, <1>8, <2>2, <2>3 DEF Holds, Without
<1>10. Sorted(sessions', lastUse')
  <2>1. ASSUME NEW j \in 1..n, NEW k \in 1..n, j < k
        PROVE  lastUse'[sessions'[j].context] < lastUse'[sessions'[k].context]
    <3>1. from[j] \in 1..n /\ from[k] \in 1..n /\ from[j] # i
          /\ sessions'[j] = sessions[from[j]] /\ sessions'[k] = sessions[from[k]]
      BY <1>3, <2>1
    <3>2. lastUse'[sessions'[j].context] = lastUse[sessions[from[j]].context]
      BY <1>1, <1>6, <1>7, <3>1
    <3>3. CASE from[k] = i
      BY <1>1, <1>6, <3>1, <3>2, <3>3 DEF mine
    <3>4. CASE from[k] # i /\ from[j] < from[k]
      <4>1. lastUse'[sessions'[k].context] = lastUse[sessions[from[k]].context]
        BY <1>1, <1>6, <1>7, <3>1, <3>4
      <4> QED  BY <1>1, <3>1, <3>2, <3>4, <4>1 DEF Sorted
    <3> QED  BY <1>3, <2>1, <3>3, <3>4
  <2> QED  BY <1>2, <2>1 DEF Sorted
<1> QED  BY <1>8, <1>9, <1>10

\* A session stored is the last one given.
LEMMA StoredKeepsOrder ==
    ASSUME TypeOK, NEW entry \in Entry, NEW later,
           Without(sessions, entry.context), entry.session \in SessionIds,
           Holds(sessions, given), Sorted(sessions, lastUse),
           \A c \in Contexts : lastUse[c] < later
    PROVE  /\ Holds(Stored(entry), [given EXCEPT ![entry.context] = given[entry.context] \cup {entry.session}])
           /\ Sorted(Stored(entry), [lastUse EXCEPT ![entry.context] = later])
           /\ \A c \in Contexts \ {entry.context} :
                 Without(sessions, c) => Without(Stored(entry), c)
<1> DEFINE n == Len(sessions)
           entries == Stored(entry)
           giving == [given EXCEPT ![entry.context] = given[entry.context] \cup {entry.session}]
           use == [lastUse EXCEPT ![entry.context] = later]
<1>1. n \in Nat /\ DOMAIN sessions = 1..n /\ sessions \in Seq(Entry)
      /\ \A j \in 1..n : sessions[j].context \in Contexts /\ sessions[j].context # entry.context
  <2>1. sessions \in Seq(Entry)
    BY MapFacts
  <2>2. \A j \in 1..n : sessions[j] \in Entry
    BY <2>1, ElementOfSeq
  <2>3. n \in Nat /\ DOMAIN sessions = 1..n
    BY <2>1, LenProperties
  <2> QED  BY <2>1, <2>2, <2>3 DEF Entry, Without
<1>2. Entries(entry.context) = {}
  BY DEF Entries, Without
<1>3. /\ entries \in Seq(Entry) /\ Len(entries) = n + 1
      /\ \A j \in 1..n + 1 : entries[j] = IF j <= n THEN sessions[j] ELSE entry
  BY <1>1, <1>2, StoredProperties
<1>4. DOMAIN entries = 1..n + 1
  BY <1>3, LenProperties
<1>5. entry.context \in Contexts
  BY DEF Entry
<1>6. /\ \A c \in Contexts \ {entry.context} : giving[c] = given[c] /\ use[c] = lastUse[c]
      /\ giving[entry.context] = given[entry.context] \cup {entry.session}
      /\ use[entry.context] = later
  BY <1>5 DEF TypeOK
<1>7. given[entry.context] = {}
  BY <1>5 DEF Holds, Without
<1>8. \A j \in 1..n + 1 : \/ j \in 1..n /\ entries[j] = sessions[j]
                          \/ j = n + 1 /\ entries[j] = entry
  BY <1>1, <1>3
<1> HIDE DEF n, entries, giving, use
<1>9. Holds(entries, giving)
  <2>1. ASSUME NEW c \in Contexts, \A i \in DOMAIN entries : entries[i].context # c
        PROVE  giving[c] = {}
    <3>1. n + 1 \in 1..n + 1 /\ entries[n + 1] = entry
      BY <1>1, <1>8
    <3>2. c # entry.context
      BY <1>4, <2>1, <3>1
    <3>3. \A j \in 1..n : j \in 1..n + 1 /\ entries[j] = sessions[j]
      BY <1>1, <1>8
    <3>4. \A j \in 1..n : sessions[j].context # c
      BY <1>4, <2>1, <3>3
    <3> QED  BY <1>1, <1>6, <3>2, <3>4 DEF Holds
  <2>2. ASSUME NEW j \in 1..n + 1
        PROVE  giving[entries[j].context] \subseteq {entries[j].session}
    <3>1. CASE j \in 1..n /\ entries[j] = sessions[j]
      BY <1>1, <1>6, <3>1 DEF Holds
    <3>2. CASE entries[j] = entry
      BY <1>6, <1>7, <3>2
    <3> QED  BY <1>8, <3>1, <3>2
  <2> QED  BY <1>4, <2>1, <2>2 DEF Holds
<1>10. Sorted(entries, use)
  <2>1. ASSUME NEW i \in 1..n + 1, NEW j \in 1..n + 1, i < j
        PROVE  use[entries[i].context] < use[entries[j].context]
    <3>1. i \in 1..n /\ entries[i] = sessions[i]
      BY <1>1, <1>8, <2>1
    <3>2. use[entries[i].context] = lastUse[sessions[i].context]
      BY <1>1, <1>6, <3>1
    <3>3. CASE j \in 1..n /\ entries[j] = sessions[j]
      <4>1. use[entries[j].context] = lastUse[sessions[j].context]
        BY <1>1, <1>6, <3>3
      <4> QED  BY <1>1, <2>1, <3>1, <3>2, <3>3, <4>1 DEF Sorted
    <3>4. CASE entries[j] = entry
      BY <1>1, <1>6, <3>1, <3>2, <3>4
    <3> QED  BY <1>8, <3>3, <3>4
  <2> QED  BY <1>4, <2>1 DEF Sorted
<1>11. \A c \in Contexts \ {entry.context} : Without(sessions, c) => Without(entries, c)
  BY <1>1, <1>4, <1>8 DEF Without
<1> QED  BY <1>9, <1>10, <1>11 DEF entries, giving, use

\* A turn under way keeps its context to itself.
LEMMA TurnKept ==
    ASSUME TypeOK, OneTurnEach, NEW t \in Tasks, NEW step \in Steps,
           pc' = [pc EXCEPT ![t] = step],
           Active(t) \/ \A u \in Tasks : ContextOf[u] = ContextOf[t] => ~Active(u),
           step = "create" => Without(sessions', ContextOf[t]),
           \A u \in Tasks \ {t} : pc[u] = "create" /\ Without(sessions, ContextOf[u])
                => Without(sessions', ContextOf[u])
    PROVE  OneTurnEach'
<1>1. pc'[t] = step /\ \A u \in Tasks \ {t} : pc'[u] = pc[u]
  BY DEF TypeOK
<1>2. \A u \in Tasks : Active(u)' => u = t \/ Active(u)
  BY <1>1 DEF Active
<1>3. \A u, v \in Tasks : Active(u)' /\ Active(v)' /\ ContextOf[u] = ContextOf[v] => u = v
  BY <1>2 DEF OneTurnEach
<1>4. \A u \in Tasks : pc'[u] = "create" => Without(sessions', ContextOf[u])
  <2>1. \A u \in Tasks : pc[u] = "create" => Without(sessions, ContextOf[u])
    BY DEF OneTurnEach, Without, Entries
  <2> QED  BY <1>1, <2>1
<1> QED  BY <1>3, <1>4 DEF OneTurnEach, Without, Entries

LEMMA StepKeepsTurns ==
    ASSUME TypeOK, TypeOK', Counted, Cardinality(Past) \in Nat, MapHoldsLive, TurnsInv,
           [Next]_vars
    PROVE  TurnsInv'
<1>0. scenario' = scenario
  <2>1. \A t \in Tasks : Quiet(t) => scenario' = scenario
    BY QuietStep
  <2> QED  BY <2>1, StepCases DEF FindSession, Created, Ended, Aborted, Close, CloseNext
<1> SUFFICES ASSUME ~scenario.overlap
             PROVE  OneTurnEach' /\ Holds(sessions', given') /\ Sorted(sessions', lastUse')
  BY <1>0 DEF TurnsInv
<1>a. /\ OneTurnEach /\ Holds(sessions, given) /\ Sorted(sessions, lastUse)
      /\ Distinct(sessions) /\ sessions \in Seq(Entry)
  BY MapFacts DEF TurnsInv
<1>b. ASSUME NEW t \in Tasks, Active(t), NEW step \in {"send", "ending", "done", "cut"},
             pc' = [pc EXCEPT ![t] = step],
             \A u \in Tasks \ {t} : pc[u] = "create" /\ Without(sessions, ContextOf[u])
                => Without(sessions', ContextOf[u])
      PROVE  OneTurnEach'
  BY <1>a, <1>b, TurnKept DEF Steps
<1>1. ASSUME NEW t \in Tasks, Quiet(t)
      PROVE  OneTurnEach' /\ Holds(sessions', given') /\ Sorted(sessions', lastUse')
  <2>1. UNCHANGED <<scenario, map, session, ending, server>>
    BY <1>1, QuietStep
  <2>2. PICK step \in Steps : pc' = [pc EXCEPT ![t] = step]
    BY <1>1, QuietStep
  <2>3. step = pc'[t] /\ pc[t] \notin Over
    BY <1>1, <2>2, QuietStep DEF TypeOK, Over
  <2>4. Active(t) \/ \A u \in Tasks : ContextOf[u] = ContextOf[t] => ~Active(u)
    BY <1>1, <2>3, QuietStep DEF Active
  <2>5. step = "create" => Without(sessions', ContextOf[t])
    BY <1>1, <2>1, <2>3, QuietStep DEF Entries, Without, map
  <2> QED  BY <1>a, <2>1, <2>2, <2>4, <2>5, TurnKept DEF map
<1>2. ASSUME NEW t \in Tasks, FindSession(t)
      PROVE  OneTurnEach' /\ Holds(sessions', given') /\ Sorted(sessions', lastUse')
  <2>1. PICK i \in Entries(ContextOf[t]) : /\ sessions' = MoveToEnd(i)
                                           /\ session' = [session EXCEPT ![t] = sessions[i].session]
    BY <1>2 DEF FindSession
  <2>2. i \in 1..Len(sessions) /\ sessions[i].context = ContextOf[t]
    BY <1>a, LenProperties DEF Entries
  <2>3. session'[t] = sessions[i].session
    BY <2>1 DEF TypeOK
  <2>4. /\ given' = [given EXCEPT ![sessions[i].context] =
                        given[sessions[i].context] \cup {sessions[i].session}]
        /\ lastUse' = [lastUse EXCEPT ![sessions[i].context] = Later]
    BY <1>2, <2>2, <2>3 DEF FindSession
  <2>5. \A c \in Contexts : lastUse[c] < Later
    BY LaterIsLast
  <2>6. /\ Holds(sessions', given') /\ Sorted(sessions', lastUse')
        /\ \A c \in Contexts : Without(sessions, c) => Without(sessions', c)
    BY <1>a, <2>1, <2>2, <2>4, <2>5, UseKeepsOrder
  <2>7. Active(t) /\ pc' = [pc EXCEPT ![t] = "send"]
    BY <1>2 DEF FindSession, Active, Goto, Over
  <2>8. OneTurnEach'
    BY <1>b, <2>6, <2>7, A2AExecutorAssumption
  <2> QED  BY <2>6, <2>8
<1>3. ASSUME NEW t \in Tasks, Created(t)
      PROVE  OneTurnEach' /\ Holds(sessions', given') /\ Sorted(sessions', lastUse')
  <2> DEFINE c0 == ContextOf[t]
             entry == [context |-> c0, session |-> made + 1]
             giving == [given EXCEPT ![c0] = given[c0] \cup {made + 1}]
             entries == Stored(entry)
  <2>1. /\ pc[t] = "create" /\ made' = made + 1
        /\ lastUse' = [lastUse EXCEPT ![c0] = Later]
        /\ EvictOrSend(t, entries, giving)
    BY <1>3 DEF Created
  <2>2. made + 1 \in SessionIds /\ c0 \in Contexts /\ made + 1 \notin Ids(sessions)
    BY <2>1, MapFacts, A2AExecutorAssumption DEF TypeOK
  <2>3. entry \in Entry /\ entry.context = c0 /\ entry.session = made + 1
    BY <2>2 DEF Entry
  <2>4. Without(sessions, c0)
    BY <1>a, <2>1 DEF OneTurnEach, Entries, Without
  <2>5. \A c \in Contexts : lastUse[c] < Later
    BY LaterIsLast
  <2>6. entries \in Seq(Entry) /\ Distinct(entries)
    <3> HIDE DEF entry
    <3> QED  BY <1>a, <2>2, <2>3, StoredKeeps
  <2>7. /\ Holds(entries, giving) /\ Sorted(entries, lastUse')
        /\ \A c \in Contexts \ {c0} : Without(sessions, c) => Without(entries, c)
    <3> HIDE DEF entry
    <3> QED  BY <1>a, <2>1, <2>2, <2>3, <2>4, <2>5, StoredKeepsOrder
  <2>8. giving \in [Contexts -> SUBSET SessionIds]
    BY <2>2 DEF TypeOK
  <2> HIDE DEF entries, giving, entry
  <2>9. /\ Holds(sessions', given') /\ Sorted(sessions', lastUse')
        /\ \A c \in Contexts : Without(entries, c) => Without(sessions', c)
        /\ pc' = [pc EXCEPT ![t] = "send"] \/ pc' = [pc EXCEPT ![t] = "ending"]
    BY <2>1, <2>6, <2>7, <2>8, EvictionKeepsOrder
  <2>10. Active(t) /\ \A u \in Tasks \ {t} : pc[u] = "create" => ContextOf[u] # c0
    BY <1>a, <2>1 DEF Active, OneTurnEach, Over
  <2>11. \A u \in Tasks \ {t} : pc[u] = "create" /\ Without(sessions, ContextOf[u])
            => Without(sessions', ContextOf[u])
    BY <2>7, <2>9, <2>10, A2AExecutorAssumption
  <2>12. OneTurnEach'
    BY <1>b, <2>9, <2>10, <2>11
  <2> QED  BY <2>9, <2>12
<1>4. ASSUME NEW t \in Tasks, Ended(t)
      PROVE  OneTurnEach' /\ Holds(sessions', given') /\ Sorted(sessions', lastUse')
  <2>1. pc[t] = "ending" /\ EvictOrSend(t, sessions, given) /\ UNCHANGED lastUse
    BY <1>4 DEF Ended
  <2>2. /\ Holds(sessions', given') /\ Sorted(sessions', lastUse)
        /\ \A c \in Contexts : Without(sessions, c) => Without(sessions', c)
        /\ pc' = [pc EXCEPT ![t] = "send"] \/ pc' = [pc EXCEPT ![t] = "ending"]
    BY <1>a, <2>1, EvictionKeepsOrder DEF TypeOK
  <2>3. Active(t)
    BY <2>1 DEF Active, Over
  <2>4. OneTurnEach'
    BY <1>b, <2>2, <2>3, A2AExecutorAssumption
  <2> QED  BY <2>1, <2>2, <2>4
<1>5. ASSUME NEW t \in Tasks, Aborted(t)
      PROVE  OneTurnEach' /\ Holds(sessions', given') /\ Sorted(sessions', lastUse')
  <2>1. Active(t) /\ (\E step \in {"done", "cut"} : pc' = [pc EXCEPT ![t] = step]) /\ UNCHANGED map
    BY <1>5 DEF Aborted, Finish, Goto, Active, Over
  <2>2. OneTurnEach'
    BY <1>b, <2>1 DEF map
  <2> QED  BY <1>a, <2>1, <2>2 DEF map
<1>6. ASSUME Close
      PROVE  OneTurnEach' /\ Holds(sessions', given') /\ Sorted(sessions', lastUse')
  <2>1. /\ sessions' = <<>> /\ UNCHANGED pc
        /\ given' = [c \in Contexts |-> IF Entries(c) = {} THEN given[c] ELSE {}]
    BY <1>6 DEF Close, turn
  <2>2. \A c \in Contexts : given'[c] = {}
    BY <1>a, <2>1 DEF Holds, Entries
  <2>3. Holds(sessions', given') /\ Sorted(sessions', lastUse')
    BY <2>1, <2>2 DEF Holds, Sorted
  <2>4. OneTurnEach'
    BY <1>a, <2>1 DEF OneTurnEach, Active, Entries
  <2> QED  BY <2>3, <2>4
<1>7. ASSUME UNCHANGED <<map, pc>>
      PROVE  OneTurnEach' /\ Holds(sessions', given') /\ Sorted(sessions', lastUse')
  BY <1>a, <1>7 DEF OneTurnEach, Active, Entries, map
<1>8. CloseNext \/ UNCHANGED <<scenario, map, turn, server>> => UNCHANGED <<map, pc>>
  BY DEF CloseNext, turn
<1> QED  BY <1>1, <1>2, <1>3, <1>4, <1>5, <1>6, <1>7, <1>8, StepCases

LEMMA TurnsInvariant == Spec => []TurnsInv
<1>1. Init => TurnsInv
  BY DEF Init, TurnsInv, OneTurnEach, Active, Holds, Sorted
<1>2. TypeOK => Cardinality(Past) \in Nat
  <2>1. IsFiniteSet(Past)
    BY A2AExecutorAssumption, FS_Subset DEF Past
  <2> QED  BY <2>1, FS_CardinalityType
<1>3. /\ TypeOK /\ Counted /\ MapHoldsLive /\ TurnsInv /\ [Next]_vars
      /\ TypeOK'
      => TurnsInv'
  BY <1>2, StepKeepsTurns
<1> QED  BY <1>1, <1>3, TypeCorrect, MapStaysLive, PTL DEF Spec

\* Between evictions, the turns of a context talk to one session.
THEOREM ConversationIsOne == Spec => []OneConversation
<1>1. TypeOK /\ TurnsInv => OneConversation
  <2> SUFFICES ASSUME TypeOK, TurnsInv, ~scenario.overlap, NEW c \in Contexts
               PROVE  Cardinality(given[c]) <= 1
    BY DEF OneConversation
  <2>1. Holds(sessions, given)
    BY DEF TurnsInv
  <2>2. CASE Without(sessions, c)
    <3>1. given[c] = {}
      BY <2>1, <2>2 DEF Holds, Without
    <3> QED  BY <3>1, FS_EmptySet
  <2>3. CASE ~Without(sessions, c)
    <3>1. PICK i \in DOMAIN sessions : sessions[i].context = c
      BY <2>3 DEF Without
    <3>2. given[c] \subseteq {sessions[i].session}
      BY <2>1, <3>1 DEF Holds
    <3>3. IsFiniteSet({sessions[i].session}) /\ Cardinality({sessions[i].session}) = 1
      BY FS_Singleton
    <3> QED  BY <3>2, <3>3, FS_Subset
  <2> QED  BY <2>2, <2>3
<1> QED  BY <1>1, TypeCorrect, TurnsInvariant, PTL

\* What an eviction takes is what was used least recently.
THEOREM EvictsLeastRecent == Spec => []LeastRecentFirst
<1>1. TurnsInv => LeastRecentFirst
  BY DEF TurnsInv, LeastRecentFirst, Sorted
<1> QED  BY <1>1, TurnsInvariant, PTL

-----------------------------------------------------------------------------
(* No session is lost.                                                     *)

\* What someone holds, or has given up: the map, the evictions, aclose().
KnownSessions ==
    Held \cup {ending[t] : t \in Tasks} \cup stuck \cup {draining[i] : i \in DOMAIN draining}

\* An eviction passes the session it pops from the map to the turn.
LEMMA EvictionLosesNone ==
    ASSUME TypeOK, NEW t \in Tasks, NEW entries \in Seq(Entry), NEW giving,
           EvictOrSend(t, entries, giving),
           Distinct(entries), Len(entries) <= scenario.maxSessions + 1,
           UNCHANGED draining
    PROVE  (Ids(entries) \cup {ending[u] : u \in Tasks \ {t}} \cup stuck'
              \cup {draining[i] : i \in DOMAIN draining}) \subseteq KnownSessions'
<1>1. \/ ending' = [ending EXCEPT ![t] = NoSession] /\ Ids(sessions') = Ids(entries)
      \/ \E id \in Ids(entries) : /\ ending' = [ending EXCEPT ![t] = id]
                                  /\ Ids(sessions') = Ids(entries) \ {id}
  BY MapFacts, EvictionKeepsLimit
<1>2. Held' = Ids(sessions')
  BY DEF Held, Ids
<1>3. \A u \in Tasks \ {t} : ending'[u] = ending[u]
  BY <1>1 DEF TypeOK
<1>4. {ending[u] : u \in Tasks \ {t}} \subseteq KnownSessions'
  BY <1>3 DEF KnownSessions
<1>5. Ids(entries) \subseteq KnownSessions'
  <2>1. \A id : ending' = [ending EXCEPT ![t] = id] => ending'[t] = id
    BY DEF TypeOK
  <2> QED  BY <1>1, <1>2, <2>1 DEF KnownSessions
<1> QED  BY <1>4, <1>5 DEF KnownSessions

LEMMA StepLosesNone ==
    ASSUME TypeOK, TypeOK', MapHoldsLive, EndedOnce, TurnsInv, NoSessionLost, [Next]_vars
    PROVE  NoSessionLost'
<1>0. scenario' = scenario
  <2>1. \A t \in Tasks : Quiet(t) => scenario' = scenario
    BY QuietStep
  <2> QED  BY <2>1, StepCases DEF FindSession, Created, Ended, Aborted, Close, CloseNext
<1> SUFFICES ASSUME ~scenario.overlap, ~scenario.aborts
             PROVE  alive' \subseteq KnownSessions'
  BY <1>0 DEF NoSessionLost, KnownSessions
<1>a. /\ alive \subseteq KnownSessions
      /\ sessions \in Seq(Entry) /\ Held = Ids(sessions) /\ Distinct(sessions)
      /\ Ids(sessions) \subseteq alive /\ Len(sessions) <= scenario.maxSessions
      /\ NoSession \notin alive /\ made + 1 \notin alive
      /\ scenario.maxSessions \in Nat
  BY MapFacts DEF NoSessionLost, KnownSessions
<1>1. ASSUME NEW t \in Tasks, Quiet(t)
      PROVE  alive' \subseteq KnownSessions'
  <2>1. UNCHANGED <<map, ending, server>>
    BY <1>1, QuietStep
  <2> QED  BY <1>a, <2>1 DEF KnownSessions, Held, map, server
<1>2. ASSUME NEW t \in Tasks, FindSession(t)
      PROVE  alive' \subseteq KnownSessions'
  <2>1. PICK i \in Entries(ContextOf[t]) : sessions' = MoveToEnd(i)
    BY <1>2 DEF FindSession
  <2>2. i \in 1..Len(sessions)
    BY <1>a, LenProperties DEF Entries
  <2>3. Ids(sessions') = Ids(sessions) /\ Held' = Ids(sessions')
    BY <1>a, <2>1, <2>2, MoveToEndKeeps DEF Held, Ids
  <2>4. UNCHANGED <<ending, server>>
    BY <1>2 DEF FindSession
  <2> QED  BY <1>a, <2>3, <2>4 DEF KnownSessions, server
<1>3. ASSUME NEW t \in Tasks, Created(t)
      PROVE  alive' \subseteq KnownSessions'
  <2> DEFINE c0 == ContextOf[t]
             entry == [context |-> c0, session |-> made + 1]
             giving == [given EXCEPT ![c0] = @ \cup {made + 1}]
             entries == Stored(entry)
  <2>1. /\ pc[t] = "create" /\ made' = made + 1 /\ alive' = alive \cup {made + 1}
        /\ EvictOrSend(t, entries, giving)
        /\ UNCHANGED <<draining, stuck>>
    BY <1>3 DEF Created
  <2>2. entry \in Entry /\ entry.context = c0 /\ entry.session = made + 1
    <3>1. made + 1 \in SessionIds
      BY <2>1 DEF TypeOK
    <3> QED  BY <3>1, A2AExecutorAssumption DEF Entry
  <2>3. Entries(c0) = {}
    BY <2>1 DEF TurnsInv, OneTurnEach
  <2>4. /\ entries \in Seq(Entry) /\ Len(entries) <= Len(sessions) + 1
        /\ Distinct(entries) /\ Ids(entries) = Ids(sessions) \cup {made + 1}
    <3> HIDE DEF entry
    <3> QED  BY <1>a, <2>2, <2>3, StoredKeeps
  <2>5. Len(entries) <= scenario.maxSessions + 1
    BY <1>a, <2>4, LenProperties
  <2>6. ending[t] = NoSession
    BY <2>1 DEF EndedOnce
  <2> HIDE DEF entries, giving
  <2>7. (Ids(entries) \cup {ending[u] : u \in Tasks \ {t}} \cup stuck
           \cup {draining[i] : i \in DOMAIN draining}) \subseteq KnownSessions'
    BY <2>1, <2>4, <2>5, EvictionLosesNone
  <2> QED  BY <1>a, <2>1, <2>4, <2>6, <2>7 DEF KnownSessions
<1>4. ASSUME NEW t \in Tasks, Ended(t)
      PROVE  alive' \subseteq KnownSessions'
  <2>1. /\ EvictOrSend(t, sessions, given) /\ UNCHANGED draining
        /\ \/ alive' = alive \ {ending[t]} /\ stuck' = stuck
           \/ alive' = alive /\ stuck' = stuck \cup {ending[t]}
    BY <1>4 DEF Ended
  <2>2. Len(sessions) <= scenario.maxSessions + 1
    BY <1>a, LenProperties
  <2>3. (Ids(sessions) \cup {ending[u] : u \in Tasks \ {t}} \cup stuck'
           \cup {draining[i] : i \in DOMAIN draining}) \subseteq KnownSessions'
    BY <1>a, <2>1, <2>2, EvictionLosesNone
  <2> QED  BY <1>a, <2>1, <2>3 DEF KnownSessions
<1>5. ASSUME NEW t \in Tasks, Aborted(t)
      PROVE  FALSE
  BY <1>5 DEF Aborted
<1>6. ASSUME Close
      PROVE  alive' \subseteq KnownSessions'
  <2>1. /\ draining = <<>>
        /\ draining' = [i \in DOMAIN sessions |-> sessions[i].session]
        /\ UNCHANGED <<ending, alive, stuck>>
    BY <1>6 DEF Close, turn
  <2>2. {draining'[i] : i \in DOMAIN draining'} = Held
    BY <2>1 DEF Held
  <2>3. {draining[i] : i \in DOMAIN draining} = {}
    BY <2>1
  <2> QED  BY <1>a, <2>1, <2>2, <2>3 DEF KnownSessions
<1>7. ASSUME CloseNext
      PROVE  alive' \subseteq KnownSessions'
  <2> DEFINE s == Head(draining)
  <2>1. /\ draining # <<>> /\ draining' = Tail(draining)
        /\ \/ alive' = alive \ {s} /\ UNCHANGED stuck
           \/ stuck' = stuck \cup {s} /\ UNCHANGED alive
        /\ UNCHANGED <<map, turn>>
    BY <1>7 DEF CloseNext
  <2>2. draining \in Seq(SessionIds) /\ Len(draining) \in Nat \ {0}
        /\ DOMAIN draining = 1..Len(draining)
    BY <2>1, EmptySeq, LenProperties DEF TypeOK
  <2>3. /\ s = draining[1]
        /\ DOMAIN draining' = 1..Len(draining) - 1
        /\ \A i \in 1..Len(draining) - 1 : draining'[i] = draining[i + 1]
    BY <2>1, <2>2, HeadTailProperties, LenProperties
  <2> HIDE DEF s
  <2>4. ASSUME NEW i \in DOMAIN draining, draining[i] # s
        PROVE  draining[i] \in KnownSessions'
    <3>1. i - 1 \in DOMAIN draining' /\ (i - 1) + 1 = i
      BY <2>2, <2>3, <2>4
    <3>2. draining'[i - 1] = draining[i]
      BY <2>3, <3>1
    <3> QED  BY <3>1, <3>2 DEF KnownSessions
  <2>5. Held' = Held /\ ending' = ending
    BY <2>1 DEF Held, map, turn
  <2> QED  BY <1>a, <2>1, <2>4, <2>5 DEF KnownSessions
<1>8. ASSUME UNCHANGED <<map, turn, server>>
      PROVE  alive' \subseteq KnownSessions'
  BY <1>a, <1>8 DEF KnownSessions, Held, map, turn, server
<1> QED  BY <1>1, <1>2, <1>3, <1>4, <1>5, <1>6, <1>7, <1>8, StepCases

\* A session alive is in the map, being ended or could not be ended.
THEOREM SessionsAccountedFor == Spec => []NoSessionLost
<1>1. Init => NoSessionLost
  BY DEF Init, NoSessionLost
<1>2. /\ TypeOK /\ TypeOK' /\ MapHoldsLive /\ EndedOnce /\ TurnsInv /\ NoSessionLost
      /\ [Next]_vars
      => NoSessionLost'
  BY StepLosesNone
<1> QED  BY <1>1, <1>2, TypeCorrect, MapStaysLive, TurnsInvariant, PTL DEF Spec

-----------------------------------------------------------------------------
(* With the tools of the agent.                                            *)

\* The agent with tools takes steps of the executor.
LEMMA ToolsStepIsStep == [ToolsNext]_toolVars => [Next]_vars
<1> SUFFICES ASSUME [ToolsNext]_toolVars PROVE [Next]_vars
  OBVIOUS
<1>1. ASSUME NEW t \in Tasks, Prepares(t) \/ OpenFails(t) \/ GoesOn(t) \/ CreateSucceeds(t)
      PROVE  [Next]_vars
  BY <1>1 DEF Prepares, OpenFails, GoesOn, CreateSucceeds, Next
<1>2. ASSUME NEW t \in Tasks,
             \/ Sent(t) \/ CreateFails(t) \/ EvictedEnds(t) \/ RunEnds(t) \/ TurnAborted(t)
      PROVE  [Next]_vars
  BY <1>2 DEF Sent, CreateFails, EvictedEnds, RunEnds, TurnAborted, Next
<1>3. ASSUME NEW t \in Tasks, Opened(t) \/ Detaches(t) \/ AbortedFirstCloses(t)
      PROVE  [Next]_vars
  BY <1>3 DEF Opened, Detaches, AbortedFirstCloses
<1>4. SessionDetaches \/ SessionCloses => [Next]_vars
  BY DEF SessionDetaches, SessionCloses, Next
<1>5. Other => [Next]_vars
  BY DEF Other, Next
<1>6. UNCHANGED toolVars => [Next]_vars
  BY DEF toolVars
<1> QED  BY <1>1, <1>2, <1>3, <1>4, <1>5, <1>6 DEF ToolsNext

\* Every step of an executor whose sessions share references is a step of the
\* executor: what is proved of the sessions and the map holds of it too.
THEOREM ToolsRefineExecutor == ToolsSpec => Spec
<1>1. ToolsInit => Init
  BY DEF ToolsInit
<1> QED  BY <1>1, ToolsStepIsStep, PTL DEF ToolsSpec, Spec

\* Every step keeps the scenario, and keeps or changes one step of a turn.
LEMMA ScenarioKept ==
    ASSUME TypeOK, [Next]_vars
    PROVE  scenario' = scenario
<1>1. \A t \in Tasks : Quiet(t) => scenario' = scenario
  BY QuietStep
<1> QED  BY <1>1, StepCases DEF FindSession, Created, Ended, Aborted, Close, CloseNext

\* A step of a turn keeps the promise when what stays attached, and is not left
\* behind, has a session or this turn to close it, or was in other hands before.
LEMMA TurnMoves ==
    ASSUME TypeOK, ToolsTyped, SomeoneCloses,
           NEW t \in Tasks, NEW step \in Steps, NEW to \in Stages, NEW n \in 0..NumTools,
           pc' = [pc EXCEPT ![t] = step], Move(t, to, n),
           UNCHANGED <<scenario, draining, endRef>>,
           attached' \subseteq Refs, left' \subseteq attached', ToolsAtStep(t)',
           \A r \in attached' \ left' :
              \/ sessions' # <<>> \/ WillClose(t, r)'
              \/ r \in attached \ left /\ sessions = <<>> /\ ~WillClose(t, r)
    PROVE  ToolsTyped' /\ SomeoneCloses'
<1>1. \A u \in Tasks \ {t} : pc'[u] = pc[u] /\ stage'[u] = stage[u] /\ ref'[u] = ref[u]
  BY DEF TypeOK, ToolsTyped, Move
<1>2. stage' \in [Tasks -> Stages] /\ ref' \in [Tasks -> 0..NumTools]
  BY DEF ToolsTyped, Move
<1>3. \A u \in Tasks : ToolsAtStep(u)'
  <2>1. ASSUME NEW u \in Tasks \ {t}  PROVE ToolsAtStep(u)'
    <3>1. ToolsAtStep(u)
      BY DEF ToolsTyped
    <3> QED  BY <1>1, <3>1 DEF ToolsAtStep, HasTools
  <2> QED  BY <2>1
<1>4. ToolsTyped'
  BY <1>2, <1>3 DEF ToolsTyped
<1>5. ASSUME NEW r, NEW u \in Tasks \ {t}, WillClose(u, r)  PROVE WillClose(u, r)'
  BY <1>1, <1>5 DEF WillClose, HasTools
<1>6. \A r : WillDrain(r) => WillDrain(r)'
  BY DEF WillDrain
<1>7. ASSUME NEW r \in attached' \ left'
      PROVE  sessions' # <<>> \/ WillDrain(r)' \/ \E u \in Tasks : WillClose(u, r)'
  <2>1. CASE r \in attached \ left /\ sessions = <<>> /\ ~WillClose(t, r)
    <3>1. WillDrain(r) \/ \E u \in Tasks \ {t} : WillClose(u, r)
      BY <2>1 DEF SomeoneCloses
    <3> QED  BY <1>5, <1>6, <3>1
  <2> QED  BY <2>1
<1> QED  BY <1>4, <1>7 DEF SomeoneCloses

\* However resolving goes on, the turn will close what is attached then.
LEMMA ResolvingCloses ==
    ASSUME ToolsTyped, NEW t \in Tasks, NEW held \in SUBSET Refs, NEW n \in 0..NumTools,
           ResolvesFrom(t, held, n)
    PROVE  /\ attached' \subseteq held
           /\ \E to \in {"open", "use", "fail"}, m \in 0..NumTools :
                 /\ Move(t, to, m)
                 /\ IF to = "use" THEN m = 0 ELSE m \in Refs
                 /\ to = "fail" => \A r \in attached' : r > m
<1> DEFINE missing == {m \in Refs \ held : m > n}
<1>1. ASSUME NEW m \in First(missing), Move(t, "open", m), attached' = held
      PROVE  m \in Refs /\ m \in 0..NumTools
  BY <1>1, A2AToolsAssumption DEF First, Refs
<1>2. ASSUME NEW m \in First(held), attached' = held \ {m}
      PROVE  m \in Refs /\ m \in 0..NumTools /\ \A r \in attached' : r > m
  <2>1. m \in held /\ \A r \in held : m <= r
    BY DEF First
  <2> QED  BY <1>2, <2>1, A2AToolsAssumption DEF Refs
<1>3. 0 \in 0..NumTools
  BY A2AToolsAssumption
<1>4. \/ \E m \in First(missing) : Move(t, "open", m) /\ attached' = held
      \/ Move(t, "use", 0) /\ attached' = held
      \/ \E m \in First(held) : Move(t, "fail", m) /\ attached' = held \ {m}
  BY DEF ResolvesFrom
<1> HIDE DEF missing
<1> QED  BY <1>1, <1>2, <1>3, <1>4

\* A close loop detaches the first reference that is left to it: those after it
\* stay in its hands, and it had none before it.
LEMMA FirstOfRest ==
    ASSUME ToolsTyped, NEW n \in 0..NumTools, NEW m \in First({r \in attached : r > n}),
           attached' = attached \ {m}
    PROVE  /\ m \in Refs /\ m \in 0..NumTools
           /\ attached' \subseteq Refs
           /\ \A r \in attached' : r > m \/ r <= n
<1>1. m \in attached /\ \A r \in attached : r > n => m <= r
  BY DEF First
<1> QED  BY <1>1, A2AToolsAssumption DEF ToolsTyped, Refs

LEMMA OpeningStep ==
    ASSUME TypeOK, ToolsTyped, SomeoneCloses, NEW t \in Tasks,
           Prepares(t) \/ Opened(t) \/ OpenFails(t)
    PROVE  ToolsTyped' /\ SomeoneCloses'
<1>0. ToolsAtStep(t) /\ attached \subseteq Refs /\ 0 \in 0..NumTools
  BY A2AToolsAssumption DEF ToolsTyped
<1>1. CASE Prepares(t)
  <2>1. PICK step \in {"create", "send"} :
           /\ pc' = [pc EXCEPT ![t] = step] /\ (step = "send" <=> scenario.stateless)
           /\ UNCHANGED <<scenario, sessions, draining, endRef, left>>
    BY <1>1 DEF Prepares, NeedSession, RunStateless, Goto, map, server
  <2>2. PICK to \in {"open", "use", "fail"}, m \in 0..NumTools :
           /\ Move(t, to, m) /\ attached' \subseteq attached
           /\ IF to = "use" THEN m = 0 ELSE m \in Refs
           /\ to = "fail" => \A r \in attached' : r > m
    BY <1>0, <1>1, ResolvingCloses DEF Prepares
  <2>3. pc'[t] = step /\ stage'[t] = to /\ ref'[t] = m
    BY <2>1, <2>2 DEF TypeOK, ToolsTyped, Move
  <2>4. left' \subseteq attached'
    <3>1. {r \in Refs \ attached : r > 0} = {} => attached = Refs
      <4>1. \A r \in Refs : r > 0
        BY A2AToolsAssumption DEF Refs
      <4> QED  BY <1>0, <4>1
    <3>2. attached' = attached
      BY <1>1, <3>1 DEF Prepares, ResolvesFrom
    <3> QED  BY <2>1, <3>2 DEF ToolsTyped
  <2> QED  BY <1>0, <2>1, <2>2, <2>3, <2>4, TurnMoves
           DEF ToolsAtStep, WillClose, HasTools, Stages, Loops, Steps
<1>2. CASE Opened(t)
  <2>1. stage[t] = "open" /\ ref[t] \in Refs /\ HasTools(t)
    BY <1>0, <1>2 DEF Opened, ToolsAtStep
  <2>2. /\ pc' = [pc EXCEPT ![t] = pc[t]]
        /\ UNCHANGED <<scenario, sessions, draining, endRef>> /\ left' = left \cap attached'
    BY <1>2 DEF Opened, StillLeft, vars, turn, map, server, TypeOK
  <2>3. PICK to \in {"open", "use", "fail"}, m \in 0..NumTools :
           /\ Move(t, to, m) /\ attached' \subseteq Refs
           /\ IF to = "use" THEN m = 0 ELSE m \in Refs
           /\ to = "fail" => \A r \in attached' : r > m
    <3>1. attached \cup {ref[t]} \in SUBSET Refs /\ ref[t] \in 0..NumTools
      BY <1>0, <2>1 DEF ToolsTyped
    <3> QED  BY <1>2, <3>1, ResolvingCloses DEF Opened
  <2>4. pc'[t] = pc[t] /\ stage'[t] = to /\ ref'[t] = m
    BY <2>2, <2>3 DEF TypeOK, ToolsTyped, Move
  <2>5. ToolsAtStep(t)' /\ \A r \in attached' : WillClose(t, r)'
    BY <1>0, <2>1, <2>2, <2>3, <2>4 DEF ToolsAtStep, WillClose, HasTools, Loops
  <2>6. pc[t] \in Steps /\ to \in Stages
    BY DEF TypeOK, Stages, Loops
  <2> QED  BY <2>2, <2>3, <2>5, <2>6, TurnMoves
<1>3. CASE OpenFails(t)
  <2>1. PICK step \in {"done", "cut"} :
           /\ pc' = [pc EXCEPT ![t] = step]
           /\ UNCHANGED <<scenario, draining, endRef, attached>> /\ left' = attached
           /\ Move(t, "none", 0)
    BY <1>3 DEF OpenFails, CreateFailed, Failed, Finish, Goto, map, server
  <2>2. pc'[t] = step /\ stage'[t] = "none" /\ ref'[t] = 0
    BY <2>1 DEF TypeOK, ToolsTyped, Move
  <2>3. ToolsAtStep(t)'
    BY <2>2 DEF ToolsAtStep, HasTools, Loops
  <2> QED  BY <1>0, <2>1, <2>3, TurnMoves DEF Steps, Stages
<1> QED  BY <1>1, <1>2, <1>3

LEMMA UsingStep ==
    ASSUME TypeOK, TypeOK', ToolsTyped, SomeoneCloses, NEW t \in Tasks,
           GoesOn(t) \/ CreateSucceeds(t) \/ EvictedEnds(t) \/ Sent(t)
    PROVE  ToolsTyped' /\ SomeoneCloses'
<1>0. ToolsAtStep(t) /\ attached \subseteq Refs /\ left \subseteq attached /\ 0 \in 0..NumTools
  BY A2AToolsAssumption DEF ToolsTyped
<1>a. sessions \in Seq(Entry) /\ scenario.maxSessions \in Nat
  BY MapFacts
\* A turn that goes on to send.
<1>b. ASSUME ~scenario.stateless, pc' = [pc EXCEPT ![t] = "send"], Declares(t),
             UNCHANGED <<scenario, draining, endRef, attached, left>>,
             sessions' # <<>> \/ (sessions = <<>> /\ \A r \in attached : ~WillClose(t, r))
      PROVE  ToolsTyped' /\ SomeoneCloses'
  <2>1. PICK to \in {"use", "none"} : Move(t, to, 0)
    BY <1>b DEF Declares
  <2>2. pc'[t] = "send" /\ stage'[t] = to /\ ref'[t] = 0
    BY <1>b, <2>1 DEF TypeOK, ToolsTyped, Move
  <2>3. ToolsAtStep(t)'
    BY <1>b, <2>2 DEF ToolsAtStep, HasTools, Loops
  <2> QED  BY <1>0, <1>b, <2>1, <2>3, TurnMoves DEF Steps, Stages
\* A turn that goes on to end a session it has evicted.
<1>c. ASSUME ~scenario.stateless, pc' = [pc EXCEPT ![t] = "ending"], Move(t, "delete", 0),
             UNCHANGED <<scenario, draining, endRef, attached, left>>
      PROVE  ToolsTyped' /\ SomeoneCloses'
  <2>1. pc'[t] = "ending" /\ stage'[t] = "delete" /\ ref'[t] = 0
    BY <1>c DEF TypeOK, ToolsTyped, Move
  <2>2. ToolsAtStep(t)' /\ \A r : WillClose(t, r)'
    BY <1>c, <2>1 DEF ToolsAtStep, HasTools, WillClose, Loops
  <2> QED  BY <1>0, <1>c, <2>2, TurnMoves DEF Steps, Stages
<1>1. CASE GoesOn(t)
  <2>1. PICK i \in Entries(ContextOf[t]) : sessions' = MoveToEnd(i)
    BY <1>1 DEF GoesOn, FindSession
  <2>2. i \in 1..Len(sessions)
    BY <1>a, LenProperties DEF Entries
  <2>3. Len(sessions') = Len(sessions) /\ Len(sessions) \in Nat
    BY <1>a, <2>1, <2>2, MoveToEndProperties, LenProperties
  <2>4. sessions' # <<>>
    BY <2>2, <2>3
  <2>5. /\ ~scenario.stateless /\ pc' = [pc EXCEPT ![t] = "send"] /\ Declares(t)
        /\ UNCHANGED <<scenario, draining, endRef, attached, left>>
    BY <1>1 DEF GoesOn, FindSession, Goto, server
  <2> QED  BY <1>b, <2>4, <2>5
<1>2. CASE CreateSucceeds(t)
  <2> DEFINE entry == [context |-> ContextOf[t], session |-> made + 1]
             giving == [given EXCEPT ![ContextOf[t]] = given[ContextOf[t]] \cup {made + 1}]
  <2>1. /\ pc[t] = "create" /\ made' = made + 1 /\ EvictOrSend(t, Stored(entry), giving)
        /\ EndsOrDeclares(t) /\ UNCHANGED <<scenario, draining, endRef, attached, left>>
    BY <1>2 DEF CreateSucceeds, Created
  <2>2. entry \in Entry
    BY <2>1, A2AExecutorAssumption DEF Entry, TypeOK
  <2>3. ~scenario.stateless
    BY <1>0, <2>1 DEF ToolsAtStep
  <2> HIDE DEF entry, giving
  <2>4. Stored(entry) \in Seq(Entry) /\ Stored(entry) # <<>>
    <3>1. Entries(entry.context) # {} => Len(sessions) > 0
      BY <1>a, LenProperties DEF Entries
    <3>2. Len(Stored(entry)) > 0
      BY <1>a, <2>2, <3>1, StoredProperties, LenProperties
    <3> QED  BY <1>a, <2>2, <3>2, StoredProperties
  <2>5. \/ pc' = [pc EXCEPT ![t] = "ending"]
        \/ pc' = [pc EXCEPT ![t] = "send"] /\ sessions' # <<>>
    BY <1>a, <2>1, <2>4, EvictOrSendProperties
  <2>6. CASE pc' = [pc EXCEPT ![t] = "ending"]
    BY <1>c, <2>1, <2>3, <2>6 DEF EndsOrDeclares, TypeOK
  <2>7. CASE pc' = [pc EXCEPT ![t] = "send"] /\ sessions' # <<>>
    BY <1>b, <2>1, <2>3, <2>7 DEF EndsOrDeclares, TypeOK
  <2> QED  BY <2>5, <2>6, <2>7
<1>3. CASE EvictedEnds(t)
  <2>1. /\ pc[t] = "ending" /\ EvictOrSend(t, sessions, given) /\ Closes(t) /\ Rest(t) = {}
        /\ EndsOrDeclares(t) /\ UNCHANGED <<scenario, draining, endRef, attached, left>>
    BY <1>3 DEF EvictedEnds, Ended
  <2>2. ~scenario.stateless /\ \A r \in attached : ~WillClose(t, r)
    BY <1>0, <2>1, A2AToolsAssumption
       DEF ToolsAtStep, Closes, Rest, WillClose, Loops, Refs
  <2>3. \/ pc' = [pc EXCEPT ![t] = "ending"]
        \/ pc' = [pc EXCEPT ![t] = "send"] /\ sessions' = sessions
    BY <1>a, <2>1, EvictOrSendProperties
  <2>4. CASE pc' = [pc EXCEPT ![t] = "ending"]
    BY <1>c, <2>1, <2>2, <2>4 DEF EndsOrDeclares, TypeOK
  <2>5. CASE pc' = [pc EXCEPT ![t] = "send"] /\ sessions' = sessions
    BY <1>b, <2>1, <2>2, <2>5 DEF EndsOrDeclares, TypeOK
  <2> QED  BY <2>3, <2>4, <2>5
<1>4. CASE Sent(t)
  <2>1. PICK step \in {"done", "cut"} :
           /\ pc[t] = "send" /\ ~scenario.stateless /\ pc' = [pc EXCEPT ![t] = step]
           /\ UNCHANGED <<scenario, sessions, draining, endRef, attached, left>>
           /\ Move(t, "none", 0)
    BY <1>4 DEF Sent, Completed, Failed, Finish, Goto, map, server
  <2>2. pc'[t] = step /\ stage'[t] = "none" /\ ref'[t] = 0
    BY <2>1 DEF TypeOK, ToolsTyped, Move
  <2>3. ToolsAtStep(t)' /\ \A r : ~WillClose(t, r)
    BY <2>1, <2>2 DEF ToolsAtStep, HasTools, WillClose, Loops
  <2> QED  BY <1>0, <2>1, <2>3, TurnMoves DEF Steps, Stages
<1> QED  BY <1>1, <1>2, <1>3, <1>4

LEMMA ClosingStep ==
    ASSUME TypeOK, ToolsTyped, SomeoneCloses, NEW t \in Tasks,
           \/ Detaches(t) \/ AbortedFirstCloses(t)
           \/ CreateFails(t) \/ RunEnds(t) \/ TurnAborted(t)
    PROVE  ToolsTyped' /\ SomeoneCloses'
<1>0. /\ ToolsAtStep(t) /\ attached \subseteq Refs /\ left \subseteq attached
      /\ 0 \in 0..NumTools /\ ref[t] \in 0..NumTools
      /\ pc[t] \in Steps /\ pc = [pc EXCEPT ![t] = pc[t]]
  BY A2AToolsAssumption DEF ToolsTyped, TypeOK
\* A close loop, or its beginning, goes to its next reference.
<1>a. ASSUME NEW to \in Loops, NEW m \in First(Rest(t)), attached' = attached \ {m},
             Move(t, to, m), HasTools(t), pc[t] = "ending" => to # "fail",
             pc[t] = "create" => to # "abort", pc[t] = "ending" => to \in {"close", "abort"},
             UNCHANGED <<scenario, sessions, draining, endRef, pc>>, left' = left \cap attached',
             Closes(t) \/ InFinally(t)
      PROVE  ToolsTyped' /\ SomeoneCloses'
  <2>1. /\ m \in Refs /\ m \in 0..NumTools /\ attached' \subseteq Refs
        /\ \A r \in attached' : r > m \/ r <= ref[t]
    BY <1>0, <1>a, FirstOfRest DEF Rest
  <2>2. pc'[t] = pc[t] /\ stage'[t] = to /\ ref'[t] = m /\ HasTools(t)'
    BY <1>a DEF ToolsTyped, Move, HasTools
  <2>3. ToolsAtStep(t)'
    BY <1>0, <1>a, <2>1, <2>2 DEF ToolsAtStep, Loops
  <2>4. ASSUME NEW r \in attached', r <= ref[t]  PROVE ~WillClose(t, r)
    <3>1. r \in Refs /\ ref[t] # 0
      BY <2>1, <2>4, A2AToolsAssumption DEF Refs
    <3>2. stage[t] \in Loops
      BY <1>0, <1>a, <3>1 DEF ToolsAtStep, Closes, InFinally, Loops
    <3> QED  BY <1>0, <2>1, <2>4, <3>2, A2AToolsAssumption DEF WillClose, Loops, Refs
  <2>5. \A r \in attached' : WillClose(t, r)' \/ ~WillClose(t, r)
    BY <2>1, <2>2, <2>4 DEF WillClose
  <2> QED  BY <1>0, <1>a, <2>1, <2>3, <2>5, TurnMoves DEF Stages
\* A turn that is over, and has left behind what it would have closed.
<1>b. ASSUME NEW step \in {"done", "cut"}, pc' = [pc EXCEPT ![t] = step], Move(t, "none", 0),
             UNCHANGED <<scenario, sessions, draining, endRef, attached>>,
             left \subseteq left', left' \subseteq attached,
             \A r \in attached \ left' : ~WillClose(t, r)
      PROVE  ToolsTyped' /\ SomeoneCloses'
  <2>1. pc'[t] = step /\ stage'[t] = "none" /\ ref'[t] = 0
    BY <1>b DEF TypeOK, ToolsTyped, Move
  <2>2. ToolsAtStep(t)'
    BY <2>1 DEF ToolsAtStep, HasTools, Loops
  <2> QED  BY <1>0, <1>b, <2>2, TurnMoves DEF Steps, Stages
<1>1. CASE Detaches(t)
  <2>1. PICK m \in First(Rest(t)) : /\ attached' = attached \ {m}
                                    /\ Move(t, IF stage[t] \in Loops THEN stage[t] ELSE "close", m)
    BY <1>1 DEF Detaches
  <2> DEFINE to == IF stage[t] \in Loops THEN stage[t] ELSE "close"
  <2>2. /\ Closes(t) /\ left' = left \cap attached'
        /\ UNCHANGED <<scenario, sessions, draining, endRef, pc>>
    BY <1>1 DEF Detaches, StillLeft, vars, turn, map, server
  <2>3. HasTools(t) /\ to \in Loops
    BY <1>0, <2>2 DEF Closes, ToolsAtStep, HasTools, Loops
  <2>4. /\ pc[t] = "create" => to # "abort"
        /\ pc[t] = "ending" => to \in {"close", "abort"}
    BY <1>0 DEF ToolsAtStep, Loops
  <2> QED  BY <1>a, <2>1, <2>2, <2>3, <2>4
<1>2. CASE AbortedFirstCloses(t)
  <2>1. PICK m \in First(attached) : attached' = attached \ {m} /\ Move(t, "abort", m)
    BY <1>2 DEF AbortedFirstCloses
  <2>2. /\ InFinally(t) /\ left' = left \cap attached'
        /\ UNCHANGED <<scenario, sessions, draining, endRef, pc>>
    BY <1>2 DEF AbortedFirstCloses, StillLeft, vars, turn, map, server
  <2>3. Rest(t) = attached
    BY <1>0, <2>2, A2AToolsAssumption DEF InFinally, ToolsAtStep, Rest, Refs, Loops
  <2>4. HasTools(t) /\ pc[t] # "create"
    BY <1>0, <2>2 DEF InFinally, ToolsAtStep, HasTools
  <2> QED  BY <1>a, <2>1, <2>2, <2>3, <2>4 DEF Loops
<1>3. ASSUME Closes(t), Rest(t) = {}
      PROVE  \A r \in attached : ~WillClose(t, r)
  BY <1>0, <1>3, A2AToolsAssumption DEF ToolsAtStep, Closes, Rest, WillClose, Loops, Refs
<1>4. CASE CreateFails(t)
  <2>1. PICK step \in {"done", "cut"} :
           /\ pc' = [pc EXCEPT ![t] = step] /\ Closes(t) /\ Rest(t) = {}
           /\ UNCHANGED <<scenario, sessions, draining, endRef, attached, left>>
           /\ Move(t, "none", 0)
    BY <1>4 DEF CreateFails, CreateFailed, Finish, Goto, map, server
  <2> QED  BY <1>0, <1>b, <1>3, <2>1
<1>5. CASE RunEnds(t)
  <2>1. PICK step \in {"done", "cut"} :
           /\ pc' = [pc EXCEPT ![t] = step] /\ Closes(t) /\ Rest(t) = {}
           /\ UNCHANGED <<scenario, sessions, draining, endRef, attached, left>>
           /\ Move(t, "none", 0)
    BY <1>5 DEF RunEnds, Completed, Failed, Finish, Goto, map, server
  <2> QED  BY <1>0, <1>b, <1>3, <2>1
<1>6. CASE TurnAborted(t)
  <2>1. PICK step \in {"done", "cut"} :
           /\ pc' = [pc EXCEPT ![t] = step] /\ Move(t, "none", 0)
           /\ UNCHANGED <<scenario, sessions, draining, endRef, attached>>
           /\ left' = left \cup LeavesBehind(t) /\ (InFinally(t) => attached = {})
    BY <1>6 DEF TurnAborted, Aborted, Finish, Goto, map
  <2>2. left' \subseteq attached
    BY <1>0, <2>1 DEF LeavesBehind
  <2>3. ASSUME NEW r \in attached, WillClose(t, r)  PROVE r \in LeavesBehind(t)
    <3>1. ~InFinally(t)
      BY <2>1, <2>3
    <3>2. /\ stage[t] # "delete"
          /\ stage[t] = "use" => pc[t] = "create"
      BY <1>0, <2>3, <3>1 DEF InFinally, WillClose, HasTools, ToolsAtStep
    <3>3. stage[t] \in {"open", "use"} \cup Loops
      BY <1>0, <2>3, <3>2 DEF WillClose, HasTools, ToolsAtStep, Loops
    <3> QED  BY <2>3, <3>2, <3>3 DEF LeavesBehind, WillClose, Loops
  <2> QED  BY <1>0, <1>b, <2>1, <2>2, <2>3
<1> QED  BY <1>1, <1>2, <1>4, <1>5, <1>6

\* The steps that are not of a turn, and those that do not look at the references.
LEMMA OtherStep ==
    ASSUME TypeOK, ToolsTyped, SomeoneCloses,
           SessionDetaches \/ SessionCloses \/ Other \/ UNCHANGED toolVars
    PROVE  ToolsTyped' /\ SomeoneCloses'
<1>0. attached \subseteq Refs /\ left \subseteq attached /\ draining \in Seq(SessionIds)
  BY DEF ToolsTyped, TypeOK
<1>1. ASSUME UNCHANGED <<scenario, pc, stage, ref>>
      PROVE  \A t \in Tasks : /\ ToolsAtStep(t)'
                             /\ \A r : WillClose(t, r)' <=> WillClose(t, r)
  BY <1>1 DEF ToolsTyped, ToolsAtStep, WillClose, HasTools
<1>2. CASE SessionDetaches
  <2>1. PICK m \in First({r \in attached : r > endRef}) : attached' = attached \ {m} /\ endRef' = m
    BY <1>2 DEF SessionDetaches
  <2>2. /\ draining # <<>> /\ left' = left \cap attached'
        /\ UNCHANGED <<scenario, sessions, draining, pc, stage, ref>>
    BY <1>2 DEF SessionDetaches, StillLeft, vars, turn, map, server
  <2>3. m \in Refs /\ m \in 0..NumTools /\ \A r \in attached' : r > m \/ r <= endRef
    BY <2>1, FirstOfRest DEF ToolsTyped
  <2>4. ToolsTyped'
    BY <1>0, <1>1, <2>1, <2>2, <2>3 DEF ToolsTyped
  <2>5. \A r \in attached' : WillDrain(r) => WillDrain(r)'
    BY <1>0, <2>1, <2>2, <2>3, A2AToolsAssumption DEF WillDrain, Refs, ToolsTyped
  <2> QED  BY <1>0, <1>1, <2>1, <2>2, <2>4, <2>5 DEF SomeoneCloses
<1>3. CASE SessionCloses
  <2>1. /\ {r \in attached : r > endRef} = {} /\ endRef' = 0 /\ draining' = Tail(draining)
        /\ draining # <<>> /\ UNCHANGED <<scenario, sessions, pc, attached, stage, ref, left>>
    BY <1>3 DEF SessionCloses, CloseNext, map, turn
  <2>2. ToolsTyped'
    BY <1>0, <1>1, <2>1, A2AToolsAssumption DEF ToolsTyped
  <2>3. ASSUME NEW r \in attached, WillDrain(r)  PROVE WillDrain(r)'
    <3>1. Len(draining) > 1
      BY <2>1, <2>3 DEF WillDrain
    <3>2. Tail(draining) # <<>>
      <4> DEFINE rest == Tail(draining)
      <4>1. Len(draining) \in Nat /\ Len(rest) = Len(draining) - 1
        BY <1>0, <2>1, HeadTailProperties, LenProperties
      <4> HIDE DEF rest
      <4>2. Len(rest) # 0
        BY <3>1, <4>1
      <4>3. rest # <<>>
        BY <4>2
      <4> QED  BY <4>3 DEF rest
    <3> QED  BY <1>0, <2>1, <3>2, A2AToolsAssumption DEF WillDrain, Refs
  <2> QED  BY <1>0, <1>1, <2>1, <2>2, <2>3 DEF SomeoneCloses
<1>4. CASE Other
  <2>0. UNCHANGED <<attached, stage, ref, endRef, left>>
    BY <1>4 DEF Other, tools
  <2>1. ASSUME NEW t \in Tasks, NEW step \in Steps, pc' = [pc EXCEPT ![t] = step],
               pc[t] \notin {"create", "ending"},
               (scenario.stateless /\ pc[t] = "send") \/ stage[t] = "use" => step = pc[t],
               step \in {"idle", "announce", "working", "done", "cut"} \/ step = pc[t],
               UNCHANGED <<scenario, sessions, draining>>
        PROVE  ToolsTyped' /\ SomeoneCloses'
    <3>1. Move(t, stage[t], ref[t]) /\ stage[t] \in Stages /\ ref[t] \in 0..NumTools
      BY <2>0 DEF Move, ToolsTyped
    <3>2. pc'[t] = step /\ stage'[t] = stage[t] /\ ref'[t] = ref[t] /\ ToolsAtStep(t)
      BY <2>0, <2>1 DEF TypeOK, ToolsTyped
    <3>3. ToolsAtStep(t)' /\ \A r : WillClose(t, r) => WillClose(t, r)'
      BY <2>1, <3>2 DEF ToolsAtStep, WillClose, HasTools, Loops
    <3> QED  BY <1>0, <2>0, <2>1, <3>1, <3>3, TurnMoves
  <2>2. ASSUME NEW t \in Tasks, Execute(t) \/ Announce(t) \/ CancelledBeforeRun(t)
        PROVE  ToolsTyped' /\ SomeoneCloses'
    <3>1. /\ pc[t] \in {"idle", "announce", "working"}
          /\ \E step \in {"announce", "working", "done", "cut"} : pc' = [pc EXCEPT ![t] = step]
          /\ UNCHANGED <<scenario, sessions, draining>>
      BY <2>2 DEF Execute, Announce, CancelledBeforeRun, ReturnsCanceled, Finish, Goto, map, server
    <3>2. stage[t] # "use"
      BY <3>1 DEF ToolsTyped, ToolsAtStep
    <3> QED  BY <2>1, <3>1, <3>2 DEF Steps
  <2>3. ASSUME UNCHANGED <<scenario, sessions, draining, pc>>
        PROVE  ToolsTyped' /\ SomeoneCloses'
    BY <1>1, <2>0, <2>3 DEF ToolsTyped, SomeoneCloses, WillDrain
  <2>4. ASSUME Close
        PROVE  ToolsTyped' /\ SomeoneCloses'
    <3>1. /\ draining = <<>> /\ sessions # <<>>
          /\ draining' = [i \in DOMAIN sessions |-> sessions[i].session]
          /\ UNCHANGED <<scenario, pc>>
      BY <2>4 DEF Close, turn
    <3>2. endRef' = 0 /\ draining' # <<>>
      <4>1. sessions \in Seq(Entry)
        BY MapFacts
      <4>2. 1 \in DOMAIN sessions
        BY <3>1, <4>1, EmptySeq, LenProperties
      <4>3. 1 \in DOMAIN draining'
        BY <3>1, <4>2
      <4>4. DOMAIN <<>> = {}
        OBVIOUS
      <4> QED  BY <2>0, <3>1, <4>3, <4>4 DEF ToolsTyped
    <3>3. \A r \in Refs : WillDrain(r)'
      BY <3>2, A2AToolsAssumption DEF WillDrain, Refs
    <3>4. ToolsTyped'
      BY <1>1, <2>0, <3>1, <3>2 DEF ToolsTyped
    <3> QED  BY <1>0, <2>0, <3>3, <3>4 DEF SomeoneCloses
  <2>5. ASSUME NEW t \in Tasks, Cancel(t) \/ Delta(t)
        PROVE  UNCHANGED <<scenario, sessions, draining, pc>>
    BY <2>5 DEF Cancel, Delta, map, turn, server
  <2>6. AllDone => UNCHANGED <<scenario, sessions, draining, pc>>
    BY DEF AllDone, vars, map, turn, server
  <2> QED  BY <1>4, <2>2, <2>3, <2>4, <2>5, <2>6 DEF Other
<1>5. CASE UNCHANGED toolVars
  <2>1. UNCHANGED <<scenario, sessions, draining, pc, attached, stage, ref, endRef, left>>
    BY <1>5 DEF toolVars, tools, vars, map, turn, server
  <2> QED  BY <1>1, <2>1 DEF ToolsTyped, SomeoneCloses, WillDrain
<1> QED  BY <1>2, <1>3, <1>4, <1>5

\* References are closed when there is no session and no turn to use them, but
\* for those a turn that gave up has left behind.
THEOREM ToolsHaveAnEnd == ToolsSpec => []ToolsEndWithSessions
<1>1. ToolsInit => ToolsTyped /\ SomeoneCloses
  <2> SUFFICES ASSUME ToolsInit PROVE ToolsTyped /\ SomeoneCloses
    OBVIOUS
  <2>1. 0 \in 0..NumTools
    BY A2AToolsAssumption
  <2>2. \A t \in Tasks : ToolsAtStep(t)
    BY DEF ToolsInit, Init, ToolsAtStep, Loops
  <2> QED  BY <2>1, <2>2 DEF ToolsInit, ToolsTyped, SomeoneCloses, Stages
<1>2. TypeOK /\ TypeOK' /\ ToolsTyped /\ SomeoneCloses /\ [ToolsNext]_toolVars
      => ToolsTyped' /\ SomeoneCloses'
  BY OpeningStep, UsingStep, ClosingStep, OtherStep DEF ToolsNext
<1>3. SomeoneCloses => ToolsEndWithSessions
  BY DEF SomeoneCloses, ToolsEndWithSessions, WillClose, WillDrain
<1> QED  BY <1>1, <1>2, <1>3, ToolsRefineExecutor, TypeCorrect, PTL DEF ToolsSpec
=============================================================================

-------------------------- MODULE McpPortalProofs --------------------------
(***************************************************************************)
(* That any number of threads or tasks, each with references of its own,   *)
(* keep the transports of their runs and sessions through each other's     *)
(* calls, failures and cancellations, call no closed transport, and leave  *)
(* none behind that a call has closed; and what becomes of the portals     *)
(* when threads start them at once.                                        *)
(*                                                                         *)
(* References that two users share can be detached by one under the other  *)
(* (_local_resolver.py, close).  The invariant holds with them too, and    *)
(* says what is certain about a reference only one user passes; the        *)
(* theorems about all references are for users that share none.            *)
(***************************************************************************)
EXTENDS McpPortal, FiniteSetTheorems, TLAPS

\* The references that no other user passes.
Own(u) == {r \in ToolSet(u) : \A v \in Users : v # u => r \notin ToolSet(v)}
Shared(r) == \E u, v \in Users : u # v /\ r \in ToolSet(u) /\ r \in ToolSet(v)
OwnRefs == \A r \in Refs : ~Shared(r)

LEMMA OwnOrShared ==
    ASSUME NEW u \in Users, NEW r \in ToolSet(u)
    PROVE  /\ r \in Own(u) \/ Shared(r)
           /\ r \in Own(u) => ~Shared(r) /\ \A v \in Users : v # u => r \notin ToolSet(v)
BY DEF Own, Shared

-----------------------------------------------------------------------------
(* The portals.                                                            *)

\* Tasks open their transports on their own event loop.
TasksHaveNoPortal ==
    client = "tasks" => /\ portals = <<>>
                        /\ \A u \in Users : step[u] = "none" /\ via[u] = None

\* A thread is at _ensure_started while it resolves, and in close() between
\* calls or turns.
StepPlaces == \A u \in Users :
    /\ step[u] \in StartSteps \cup {"return"} => pc[u] = "resolve"
    /\ step[u] = "closing" => pc[u] \in {"idle", "ready", "streaming"} /\ closes > 0

\* What becomes of the portal a thread has in hand is up to that thread.
InHand(u) ==
    /\ step[u] = "entering" => via[u] \in DOMAIN portals /\ portals[via[u]] = "starting"
    /\ step[u] = "closing" => via[u] \in DOMAIN portals /\ portals[via[u]] = "stopping"
    /\ pc[u] = "opening" /\ client = "threads" =>
          via[u] \in DOMAIN portals /\ portals[via[u]] \in {"running", "stopping"}

Hands ==
    /\ \A u \in Users : InHand(u)
    /\ \A u, v \in Users :
          step[u] = step[v] /\ step[u] \in {"entering", "closing"} /\ via[u] = via[v] => u = v

PortalRuns ==
    /\ portal # None => portal \in DOMAIN portals /\ portals[portal] = "running"
    /\ stack # None => stack \in DOMAIN portals

\* Without a race there is one portal at a time, and one thread that starts it.
OnePortal == ~raced =>
    /\ \A p \in DOMAIN portals : portals[p] = "running" => p = stack /\ p = portal
    /\ \A u, v \in Users : step[u] \in StartSteps /\ step[v] \in StartSteps => u = v
    /\ \A u \in Users : step[u] \in StartSteps => portal = None
    /\ \A u \in Users : step[u] = "entering" => via[u] = stack

PortalInv ==
    /\ PortalTypeOK
    /\ TasksHaveNoPortal
    /\ StepPlaces
    /\ Hands
    /\ PortalRuns
    /\ OnePortal

-----------------------------------------------------------------------------
(* The calls.                                                              *)

In(s, x) == \E i \in 1..Len(s) : s[i] = x

\* Which references of a user are attached: while it resolves those it has
\* visited, in its run or session all, while it closes those it has yet to
\* visit, and after it has closed none.
Progress(u) ==
    /\ todo[u] \in Seq(ToolSet(u))
    /\ pc[u] \in {"resolve", "opening"} =>
          \A r \in Own(u) : resolved[r] # None \/ In(todo[u], r)
    /\ pc[u] = "opening" =>
          todo[u] # <<>> /\ (Head(todo[u]) \in Own(u) => resolved[Head(todo[u])] = None)
    /\ pc[u] \in {"request", "use", "ready", "streaming"} =>
          \A r \in Own(u) : resolved[r] # None
    /\ pc[u] \in {"close", "closing"} =>
          \A r \in Own(u) : resolved[r] = None \/ In(todo[u], r)
    /\ pc[u] = "idle" /\ ended[u] = "closed" => \A r \in Own(u) : resolved[r] = None
    /\ closing[u] # None <=> pc[u] = "closing"

CallsInv == \A u \in Users : Progress(u)

-----------------------------------------------------------------------------
(* The transports.                                                         *)

\* A transport lives on a portal that was started and will not start again.
Lived == {"running", "stopping", "stopped"}
Homes ==
    /\ client = "threads" => \A n \in DOMAIN transports :
          home[n] \in DOMAIN portals /\ portals[home[n]] \in Lived
    /\ \A u \in Users : tool[u] # None =>
          tool[u] \in DOMAIN transports /\ placed[u] = home[tool[u]]

\* An attached transport is its reference's, and open but for a portal that
\* close() has stopped.
Attached == \A r \in Refs : resolved[r] # None =>
    /\ resolved[r] \in DOMAIN transports
    /\ transports[resolved[r]].ref = r
    /\ transports[resolved[r]].state # "open" =>
          /\ closes > 0 /\ client = "threads"
          /\ portals[home[resolved[r]]] = "stopped"

\* A transport that is being closed has been detached by its user, and only
\* another user of its reference can have attached a new one since.
IsDetached(u, n) ==
    /\ n \in DOMAIN transports
    /\ transports[n].ref \in ToolSet(u)
    /\ resolved[transports[n].ref] # n
    /\ transports[n].ref \in Own(u) => resolved[transports[n].ref] = None
Detached == \A u \in Users : closing[u] # None => IsDetached(u, closing[u])

\* An open transport is attached, or somebody is closing it, or its portal
\* is about to stop; or the reference is shared, and two users opened it at
\* once.
BeingClosed(n) == \E u \in Users : closing[u] = n
IsAccounted(n) ==
    \/ resolved[transports[n].ref] = n
    \/ BeingClosed(n)
    \/ client = "threads" /\ ~Runs(home[n])
Accounted == \A n \in DOMAIN transports :
    transports[n].state = "open" /\ ~Shared(transports[n].ref) => IsAccounted(n)

\* A tools/call that its user waits for is on a transport of the user's, which
\* is attached and open if the reference is the user's own.
IsHeld(u, n) ==
    /\ pc[u] \in {"use", "streaming"}
    /\ transports[n].ref \in ToolSet(u)
    /\ transports[n].ref \in Own(u) =>
          resolved[transports[n].ref] = n /\ transports[n].state = "open"
ToolHeld == \A u \in Users : tool[u] # None /\ ~outlived[u] => IsHeld(u, tool[u])

TransportsInv ==
    /\ Homes
    /\ Attached
    /\ Detached
    /\ Accounted
    /\ ToolHeld

IInv == PortalInv /\ CallsInv /\ TransportsInv

-----------------------------------------------------------------------------
(* Facts about the values.                                                 *)

LEMMA Opening == MaxOpens \in Nat /\ None \in Opens /\ Opens \subseteq Nat
BY McpRefsAssumption DEF Opens, None

LEMMA HeadTail ==
    ASSUME NEW S, NEW s \in Seq(S), s # <<>>
    PROVE  /\ Head(s) \in S /\ Tail(s) \in Seq(S)
           /\ \A x : In(s, x) <=> x = Head(s) \/ In(Tail(s), x)
<1>1. Len(s) \in Nat /\ Len(s) >= 1 /\ Head(s) = s[1] /\ s[1] \in S
  OBVIOUS
<1>2. /\ Tail(s) \in Seq(S) /\ Len(Tail(s)) = Len(s) - 1
      /\ \A i \in 1..Len(Tail(s)) : Tail(s)[i] = s[i + 1]
  BY <1>1
<1>3. ASSUME NEW x, In(s, x), x # Head(s) PROVE In(Tail(s), x)
  <2>1. PICK i \in 1..Len(s) : s[i] = x
    BY <1>3 DEF In
  <2>2. i - 1 \in 1..Len(Tail(s)) /\ Tail(s)[i - 1] = x
    BY <2>1, <1>1, <1>2, <1>3
  <2> QED
    BY <2>2 DEF In
<1>4. ASSUME NEW x, In(Tail(s), x) PROVE In(s, x)
  <2>1. PICK i \in 1..Len(Tail(s)) : Tail(s)[i] = x
    BY <1>4 DEF In
  <2>2. i + 1 \in 1..Len(s) /\ s[i + 1] = x
    BY <2>1, <1>1, <1>2
  <2> QED
    BY <2>2 DEF In
<1>5. In(s, Head(s))
  BY <1>1 DEF In
<1> QED
  BY <1>1, <1>2, <1>3, <1>4, <1>5

LEMMA ToolsOfUser ==
    ASSUME NEW u \in Users
    PROVE  /\ ToolSet(u) \subseteq Refs
           /\ ToolsOf[u] \in Seq(ToolSet(u))
           /\ Own(u) \subseteq ToolSet(u)
           /\ \A r \in Own(u) : In(ToolsOf[u], r)
           /\ \A s \in Seq(ToolSet(u)) : s \in Seq(Refs)
<1>1. ToolsOf[u] \in Seq(Refs)
  BY McpRefsAssumption
<1>2. ToolSet(u) \subseteq Refs
  BY <1>1 DEF ToolSet
<1>3. ToolsOf[u] \in Seq(ToolSet(u))
  <2>1. \A i \in 1..Len(ToolsOf[u]) : ToolsOf[u][i] \in ToolSet(u)
    BY <1>1 DEF ToolSet
  <2> QED
    BY <1>1, <2>1
<1>4. Own(u) \subseteq ToolSet(u) /\ \A r \in Own(u) : In(ToolsOf[u], r)
  BY <1>1 DEF ToolSet, Own, In
<1>5. \A s \in Seq(ToolSet(u)) : s \in Seq(Refs)
  BY <1>2
<1> QED
  BY <1>2, <1>3, <1>4, <1>5

-----------------------------------------------------------------------------
(* The calls: what a user does with its own state.                         *)

Places == {"idle", "resolve", "opening", "request", "use", "ready", "streaming", "close",
           "closing"}

MovesTo(u, s, k, t, e) ==
    /\ pc' = [pc EXCEPT ![u] = s]
    /\ call' = [call EXCEPT ![u] = k]
    /\ todo' = [todo EXCEPT ![u] = t]
    /\ ended' = [ended EXCEPT ![u] = e]

LEMMA OverMoves ==
    ASSUME TypeOK, NEW u \in Users, NEW how \in {"closed", "left"}, Over(u, how)
    PROVE  MovesTo(u, "idle", "none", <<>>, how)
BY DEF Over, Goto, MovesTo

LEMMA GotoMoves ==
    ASSUME TypeOK, NEW u \in Users, NEW s, Goto(u, s), UNCHANGED <<call, todo, ended>>
    PROVE  MovesTo(u, s, call[u], todo[u], ended[u])
BY DEF TypeOK, Goto, MovesTo

LEMMA ClosingMoves ==
    ASSUME TypeOK, NEW u \in Users, StartClosing(u)
    PROVE  MovesTo(u, "close", call[u], ToolsOf[u], ended[u])
BY DEF TypeOK, StartClosing, Goto, MovesTo, ToClose

\* The state of the user after the move, and of the others.
LEMMA MoveMeans ==
    ASSUME TypeOK, NEW u \in Users, NEW s \in Places, NEW k \in Calls \cup {"none"},
           NEW t \in Seq(Refs), NEW e \in {"new", "closed", "left"}, MovesTo(u, s, k, t, e)
    PROVE  /\ pc' \in [Users -> Places]
           /\ call' \in [Users -> Calls \cup {"none"}]
           /\ todo' \in [Users -> Seq(Refs)]
           /\ ended' \in [Users -> {"new", "closed", "left"}]
           /\ pc'[u] = s /\ todo'[u] = t /\ ended'[u] = e
           /\ \A v \in Users : v # u =>
                 pc'[v] = pc[v] /\ todo'[v] = todo[v] /\ ended'[v] = ended[v]
<1>1. pc \in [Users -> Places] /\ pc' = [pc EXCEPT ![u] = s]
  BY DEF TypeOK, MovesTo, Places
<1>2. call' \in [Users -> Calls \cup {"none"}]
  BY DEF TypeOK, MovesTo
<1>3. todo \in [Users -> Seq(Refs)] /\ todo' = [todo EXCEPT ![u] = t]
  BY DEF TypeOK, MovesTo
<1>4. /\ ended \in [Users -> {"new", "closed", "left"}]
      /\ ended' = [ended EXCEPT ![u] = e]
  BY DEF TypeOK, MovesTo
<1>5. pc' \in [Users -> Places] /\ pc'[u] = s /\ \A v \in Users : v # u => pc'[v] = pc[v]
  BY <1>1
<1>6. /\ todo' \in [Users -> Seq(Refs)] /\ todo'[u] = t
      /\ \A v \in Users : v # u => todo'[v] = todo[v]
  BY <1>3
<1>7. /\ ended' \in [Users -> {"new", "closed", "left"}] /\ ended'[u] = e
      /\ \A v \in Users : v # u => ended'[v] = ended[v]
  BY <1>4
<1> QED
  BY <1>2, <1>5, <1>6, <1>7

\* The other users are where they were.
Alone(u) == \A v \in Users : v # u =>
    /\ pc'[v] = pc[v] /\ todo'[v] = todo[v] /\ ended'[v] = ended[v]
    /\ outlived'[v] = outlived[v]

\* A user that leaves its run or session with a tools/call in flight is the
\* one that gave it up.
KeepsTool(u) ==
    /\ tool[u] # None /\ outlived[u] => outlived'[u]
    /\ tool[u] # None /\ ~outlived'[u] /\ pc[u] \in {"use", "streaming"} =>
          pc'[u] \in {"use", "streaming"}

\* What the steps by which a call goes on have in common.
GoesOn(u) ==
    /\ TypeOK'
    /\ UNCHANGED <<resolved, transports, closing, tool, client>>
    /\ Alone(u)
    /\ Progress(u)'
    /\ pc'[u] # "closing" /\ pc[u] \notin {"opening", "closing"}
    /\ KeepsTool(u)

\* What a step may do to the history `outlived`.
Outlives(u) ==
    /\ outlived' \in [Users -> BOOLEAN]
    /\ \A v \in Users : v # u => outlived'[v] = outlived[v]
    /\ outlived[u] => outlived'[u]

LEMMA SameOutlived == TypeOK /\ UNCHANGED outlived => \A u \in Users : Outlives(u)
BY DEF TypeOK, Outlives

LEMMA MoveGoesOn ==
    ASSUME TypeOK, NEW u \in Users, NEW s \in Places, NEW k \in Calls \cup {"none"},
           NEW t \in Seq(ToolSet(u)), NEW e \in {"new", "closed", "left"},
           MovesTo(u, s, k, t, e),
           UNCHANGED <<resolved, transports, closing, client, tool>>, Outlives(u),
           Progress(u), pc[u] \notin {"opening", "closing"}, s # "closing",
           s \in {"resolve", "opening"} =>
              \A r \in Own(u) : resolved[r] # None \/ In(t, r),
           s = "opening" => t # <<>> /\ resolved[Head(t)] = None,
           s \in {"request", "use", "ready", "streaming"} =>
              \A r \in Own(u) : resolved[r] # None,
           s = "close" => \A r \in Own(u) : resolved[r] = None \/ In(t, r),
           s = "idle" /\ e = "closed" => \A r \in Own(u) : resolved[r] = None,
           pc[u] \in {"use", "streaming"} /\ s \notin {"use", "streaming"} =>
              tool[u] = None \/ outlived'[u]
    PROVE  GoesOn(u)
<1>1. t \in Seq(Refs)
  BY ToolsOfUser
<1>2. /\ pc' \in [Users -> Places]
      /\ call' \in [Users -> Calls \cup {"none"}]
      /\ todo' \in [Users -> Seq(Refs)]
      /\ ended' \in [Users -> {"new", "closed", "left"}]
      /\ pc'[u] = s /\ todo'[u] = t /\ ended'[u] = e
      /\ \A v \in Users : v # u =>
            pc'[v] = pc[v] /\ todo'[v] = todo[v] /\ ended'[v] = ended[v]
  BY ONLY <1>1, MoveMeans, TypeOK, u \in Users, s \in Places, k \in Calls \cup {"none"},
          e \in {"new", "closed", "left"}, MovesTo(u, s, k, t, e)
<1>3. TypeOK'
  BY <1>2 DEF TypeOK, Places, Outlives
<1>4. Alone(u)
  BY <1>2 DEF Alone, Outlives
<1>5. Progress(u)'
  BY <1>2 DEF Progress
<1>6. KeepsTool(u)
  BY <1>2 DEF KeepsTool, Outlives
<1> QED
  BY <1>2, <1>3, <1>4, <1>5, <1>6 DEF GoesOn

LEMMA StartStep ==
    ASSUME TypeOK, NEW u \in Users, Progress(u), NEW kind \in CallsOf[u], Start(u, kind)
    PROVE  GoesOn(u)
<1>1. kind \in Calls
  BY McpRefsAssumption
<1>2. MovesTo(u, "resolve", kind, ToolsOf[u], ended[u])
  BY DEF Start, Goto, MovesTo, TypeOK
<1>3. ToolsOf[u] \in Seq(ToolSet(u)) /\ \A r \in Own(u) : In(ToolsOf[u], r)
  BY ToolsOfUser
<1>4. /\ UNCHANGED <<resolved, transports, closing, client, tool, outlived>>
      /\ pc[u] = "idle" /\ ended[u] \in {"new", "closed", "left"}
  BY DEF Start, refs, rest, TypeOK
<1> QED
  BY <1>1, <1>2, <1>3, <1>4, MoveGoesOn, SameOutlived DEF Places

LEMMA SkipStep ==
    ASSUME TypeOK, NEW u \in Users, Progress(u), Skip(u)
    PROVE  GoesOn(u)
<1>1. /\ UNCHANGED <<resolved, transports, closing, client, tool, outlived>>
      /\ pc[u] = "resolve" /\ todo[u] # <<>> /\ resolved[Head(todo[u])] # None
      /\ call[u] \in Calls \cup {"none"} /\ ended[u] \in {"new", "closed", "left"}
  BY DEF Skip, NeedsOpening, refs, rest, TypeOK
<1>2. MovesTo(u, "resolve", call[u], Tail(todo[u]), ended[u])
  BY <1>1 DEF Skip, MovesTo, TypeOK
<1>3. /\ Tail(todo[u]) \in Seq(ToolSet(u))
      /\ \A r : In(todo[u], r) => r = Head(todo[u]) \/ In(Tail(todo[u]), r)
  BY <1>1, HeadTail DEF Progress
<1>4. \A r \in Own(u) : resolved[r] # None \/ In(Tail(todo[u]), r)
  BY <1>1, <1>3 DEF Progress
<1> QED
  BY <1>1, <1>2, <1>3, <1>4, MoveGoesOn, SameOutlived DEF Places

LEMMA OpenStep ==
    ASSUME TypeOK, NEW u \in Users, Progress(u), Open(u)
    PROVE  GoesOn(u) /\ pc[u] = "resolve" /\ pc'[u] = "opening" /\ UNCHANGED outlived
<1>1. /\ UNCHANGED <<resolved, transports, closing, client, tool, outlived>>
      /\ pc[u] = "resolve" /\ todo[u] # <<>> /\ resolved[Head(todo[u])] = None
      /\ call[u] \in Calls \cup {"none"} /\ ended[u] \in {"new", "closed", "left"}
      /\ pc' = [pc EXCEPT ![u] = "opening"] /\ pc'[u] = "opening"
  BY DEF Open, Goto, NeedsOpening, refs, rest, TypeOK
<1>2. MovesTo(u, "opening", call[u], todo[u], ended[u])
  BY GotoMoves DEF Open
<1>3. todo[u] \in Seq(ToolSet(u)) /\ \A r \in Own(u) : resolved[r] # None \/ In(todo[u], r)
  BY <1>1 DEF Progress
<1>4. UNCHANGED <<resolved, transports, closing, client, tool>> /\ Outlives(u)
  BY <1>1, SameOutlived
<1>5. todo[u] # <<>> /\ resolved[Head(todo[u])] = None /\ pc[u] = "resolve"
  BY <1>1
<1>6. GoesOn(u)
  BY <1>1, <1>2, <1>3, <1>4, <1>5, MoveGoesOn, SMTT(60) DEF Places
<1> QED
  BY <1>1, <1>6

LEMMA SubmitStep ==
    ASSUME TypeOK, NEW u \in Users, Progress(u), Submit(u)
    PROVE  GoesOn(u)
<1>1. /\ UNCHANGED <<resolved, transports, closing, client, tool, outlived>>
      /\ pc[u] = "resolve" /\ todo[u] = <<>> /\ todo[u] \in Seq(ToolSet(u))
      /\ call[u] \in Calls \cup {"none"} /\ ended[u] \in {"new", "closed", "left"}
  BY DEF Submit, refs, rest, TypeOK, Progress
<1>2. \A r \in Own(u) : resolved[r] # None
  BY <1>1 DEF Progress, In
<1>3. \E s \in {"ready", "request"} : MovesTo(u, s, call[u], todo[u], ended[u])
  BY GotoMoves DEF Submit
<1> QED
  BY <1>1, <1>2, <1>3, MoveGoesOn, SameOutlived DEF Places

LEMMA EmptyList == \A u \in Users : <<>> \in Seq(ToolSet(u))
OBVIOUS

\* A call that leaves its references as they are.
LEMMA LeftStep ==
    ASSUME TypeOK, NEW u \in Users, Progress(u), Over(u, "left"),
           UNCHANGED <<resolved, transports, closing, client, tool, outlived>>,
           pc[u] \notin {"opening", "closing"},
           pc[u] \in {"use", "streaming"} => tool[u] = None
    PROVE  GoesOn(u)
<1>1. MovesTo(u, "idle", "none", <<>>, "left")
  BY OverMoves
<1> QED
  BY <1>1, EmptyList, MoveGoesOn, SameOutlived DEF Places

\* A call that begins to close them.
LEMMA ToCloseStep ==
    ASSUME TypeOK, NEW u \in Users, Progress(u), StartClosing(u),
           UNCHANGED <<resolved, transports, closing, client, tool>>, Outlives(u),
           pc[u] \notin {"opening", "closing"},
           pc[u] \in {"use", "streaming"} => tool[u] = None \/ outlived'[u]
    PROVE  GoesOn(u)
<1>1. MovesTo(u, "close", call[u], ToolsOf[u], ended[u])
  BY ClosingMoves
<1>2. ToolsOf[u] \in Seq(ToolSet(u)) /\ \A r \in Own(u) : In(ToolsOf[u], r)
  BY ToolsOfUser
<1>3. call[u] \in Calls \cup {"none"} /\ ended[u] \in {"new", "closed", "left"}
  BY DEF TypeOK
<1> QED
  BY <1>1, <1>2, <1>3, MoveGoesOn DEF Places

\* A call that goes on within its run or session.
LEMMA StaysStep ==
    ASSUME TypeOK, NEW u \in Users, Progress(u), NEW s \in {"use", "ready", "streaming"},
           Goto(u, s), UNCHANGED <<call, todo, ended>>,
           UNCHANGED <<resolved, transports, closing, client, tool>>, Outlives(u),
           pc[u] \in {"request", "use", "ready", "streaming"},
           pc[u] \in {"use", "streaming"} => tool[u] = None \/ outlived'[u]
    PROVE  GoesOn(u)
<1>1. MovesTo(u, s, call[u], todo[u], ended[u])
  BY GotoMoves
<1>2. /\ todo[u] \in Seq(ToolSet(u)) /\ \A r \in Own(u) : resolved[r] # None
      /\ call[u] \in Calls \cup {"none"} /\ ended[u] \in {"new", "closed", "left"}
  BY DEF TypeOK, Progress
<1> QED
  BY <1>1, <1>2, MoveGoesOn DEF Places

LEMMA AcceptedStep ==
    ASSUME TypeOK, NEW u \in Users, Progress(u), Accepted(u)
    PROVE  GoesOn(u) /\ pc'[u] # "opening"
<1>1. /\ UNCHANGED <<resolved, transports, closing, client, tool, outlived>>
      /\ pc[u] = "request"
  BY DEF Accepted, refs, rest
<1>2. \/ Over(u, "left")
      \/ \E s \in {"ready", "use"} : Goto(u, s) /\ UNCHANGED <<call, todo, ended>>
  BY DEF Accepted
<1>3. pc'[u] # "opening"
  BY <1>2 DEF Over, Goto, TypeOK
<1> QED
  BY <1>1, <1>2, <1>3, LeftStep, StaysStep, SameOutlived

LEMMA TurnBeginsStep ==
    ASSUME TypeOK, NEW u \in Users, Progress(u), TurnBegins(u)
    PROVE  GoesOn(u) /\ pc'[u] # "opening"
<1>1. /\ UNCHANGED <<resolved, transports, closing, client, tool, outlived>>
      /\ pc[u] = "ready"
  BY DEF TurnBegins, refs, rest
<1>2. \E s \in {"use", "streaming"} : Goto(u, s) /\ UNCHANGED <<call, todo, ended>>
  BY DEF TurnBegins
<1>3. pc'[u] # "opening"
  BY <1>2 DEF Goto, TypeOK
<1> QED
  BY <1>1, <1>2, <1>3, StaysStep, SameOutlived

LEMMA RefusedStep ==
    ASSUME TypeOK, NEW u \in Users, Progress(u), Refused(u) \/ Interrupted(u) \/ Drop(u)
    PROVE  GoesOn(u)
<1>1. /\ UNCHANGED <<resolved, transports, closing, client, tool, outlived>>
      /\ pc[u] \in {"request", "use"} /\ (pc[u] = "use" => tool[u] = None)
      /\ StartClosing(u) \/ Over(u, "left")
  BY DEF Refused, Interrupted, Drop, refs, rest
<1> QED
  BY <1>1, LeftStep, ToCloseStep, SameOutlived

\* A run that is over takes its call on to the next turn or to its close loop.
LEMMA RunOverStep ==
    ASSUME TypeOK, NEW u \in Users, Progress(u), RunOver(u),
           UNCHANGED <<resolved, transports, closing, client, tool>>, Outlives(u),
           pc[u] \in {"use", "streaming"}, tool[u] = None \/ outlived'[u]
    PROVE  GoesOn(u)
<1>1. \/ Goto(u, "ready") /\ UNCHANGED <<call, todo, ended>>
      \/ StartClosing(u)
  BY DEF RunOver
<1>2. CASE Goto(u, "ready") /\ UNCHANGED <<call, todo, ended>>
  <2>1. MovesTo(u, "ready", call[u], todo[u], ended[u])
    BY <1>2, GotoMoves
  <2>2. /\ todo[u] \in Seq(ToolSet(u)) /\ \A r \in Own(u) : resolved[r] # None
        /\ call[u] \in Calls \cup {"none"} /\ ended[u] \in {"new", "closed", "left"}
    BY DEF TypeOK, Progress
  <2> QED
    BY <2>1, <2>2, MoveGoesOn DEF Places
<1> QED
  BY <1>1, <1>2, ToCloseStep

LEMMA EndStep ==
    ASSUME TypeOK, NEW u \in Users, Progress(u), End(u)
    PROVE  GoesOn(u)
<1>1. /\ UNCHANGED <<resolved, transports, closing, client, tool, outlived>>
      /\ pc[u] \in {"use", "streaming"} /\ tool[u] = None /\ RunOver(u)
  BY DEF End, MayEnd, refs, rest
<1> QED
  BY <1>1, RunOverStep, SameOutlived

LEMMA GiveUpStep ==
    ASSUME TypeOK, NEW u \in Users, Progress(u), GiveUp(u)
    PROVE  GoesOn(u)
<1>1. /\ UNCHANGED <<resolved, transports, closing, client, tool>>
      /\ pc[u] \in {"use", "streaming"} /\ RunOver(u)
      /\ outlived' = [outlived EXCEPT ![u] = TRUE]
  BY DEF GiveUp, refs
<1>2. Outlives(u) /\ outlived'[u]
  BY <1>1 DEF TypeOK, Outlives
<1> QED
  BY <1>1, <1>2, RunOverStep

LEMMA EndSessionStep ==
    ASSUME TypeOK, NEW u \in Users, Progress(u), EndSession(u)
    PROVE  GoesOn(u)
<1>1. /\ UNCHANGED <<resolved, transports, closing, client, tool>>
      /\ pc[u] \in {"ready", "streaming"} /\ StartClosing(u)
      /\ outlived' = [outlived EXCEPT ![u] =
            outlived[u] \/ (pc[u] = "streaming" /\ tool[u] # None)]
  BY DEF EndSession, refs
<1>2. DEFINE b == outlived[u] \/ (pc[u] = "streaming" /\ tool[u] # None)
<1>3. b \in BOOLEAN /\ outlived \in [Users -> BOOLEAN]
  BY DEF TypeOK
<1>4. Outlives(u) /\ outlived'[u] = b
  BY <1>1, <1>3 DEF Outlives
<1> QED
  BY <1>1, <1>4, ToCloseStep

LEMMA PassStep ==
    ASSUME TypeOK, NEW u \in Users, Progress(u), Pass(u)
    PROVE  GoesOn(u)
<1>1. /\ UNCHANGED <<resolved, transports, closing, client, tool, outlived>>
      /\ pc[u] = "close" /\ todo[u] # <<>> /\ resolved[Head(todo[u])] = None
      /\ call[u] \in Calls \cup {"none"} /\ ended[u] \in {"new", "closed", "left"}
  BY DEF Pass, refs, rest, TypeOK
<1>2. MovesTo(u, "close", call[u], Tail(todo[u]), ended[u])
  BY <1>1 DEF Pass, MovesTo, TypeOK
<1>3. /\ Tail(todo[u]) \in Seq(ToolSet(u))
      /\ \A r : In(todo[u], r) => r = Head(todo[u]) \/ In(Tail(todo[u]), r)
  BY <1>1, HeadTail DEF Progress
<1>4. \A r \in Own(u) : resolved[r] = None \/ In(Tail(todo[u]), r)
  BY <1>1, <1>3 DEF Progress
<1> QED
  BY <1>1, <1>2, <1>3, <1>4, MoveGoesOn, SameOutlived DEF Places

LEMMA CloseDoneStep ==
    ASSUME TypeOK, NEW u \in Users, Progress(u), CloseDone(u)
    PROVE  GoesOn(u)
<1>1. /\ UNCHANGED <<resolved, transports, closing, client, tool, outlived>>
      /\ pc[u] = "close" /\ todo[u] = <<>>
  BY DEF CloseDone, refs, rest
<1>2. MovesTo(u, "idle", "none", <<>>, "closed")
  BY OverMoves DEF CloseDone
<1>3. \A r \in Own(u) : resolved[r] = None
  BY <1>1 DEF Progress, In
<1> QED
  BY <1>1, <1>2, <1>3, EmptyList, MoveGoesOn, SameOutlived DEF Places

LEMMA CallingStep ==
    ASSUME TypeOK, NEW u \in Users, Progress(u), Calling(u)
    PROVE  GoesOn(u) /\ pc'[u] # "opening"
<1>1. GoesOn(u)
  BY StartStep, SkipStep, SubmitStep, RefusedStep, EndStep, GiveUpStep, EndSessionStep,
     PassStep, CloseDoneStep DEF Calling
<1>2. pc'[u] # "opening"
  BY DEF Calling, Start, Skip, Submit, Refused, Interrupted, End, GiveUp, Drop, EndSession,
         Pass, CloseDone, RunOver, StartClosing, Over, Goto, TypeOK
<1> QED
  BY <1>1, <1>2

-----------------------------------------------------------------------------
(* What a step of one user leaves as it was.                               *)

\* What the portals do: one that was started does not start again, and one
\* that is stopped stays so.
PortalsAge ==
    /\ DOMAIN portals \subseteq DOMAIN portals'
    /\ \A p \in DOMAIN portals : portals[p] \in Lived =>
          /\ portals'[p] \in Lived
          /\ portals[p] # "running" => portals'[p] # "running"
          /\ portals[p] = "stopped" => portals'[p] = "stopped"
    /\ closes > 0 => closes' > 0

LEMMA SamePortalsAge == UNCHANGED <<portals, closes>> => PortalsAge
BY DEF PortalsAge

LEMMA CallsFrame ==
    ASSUME CallsInv, NEW u \in Users,
           \A v \in Users : v # u => /\ pc'[v] = pc[v] /\ todo'[v] = todo[v]
                                     /\ ended'[v] = ended[v] /\ closing'[v] = closing[v],
           \A r \in Refs \ ToolSet(u) : resolved'[r] = resolved[r],
           Progress(u)'
    PROVE  CallsInv'
<1> SUFFICES ASSUME NEW v \in Users, v # u PROVE Progress(v)'
  BY DEF CallsInv
<1>1. Progress(v)
  BY DEF CallsInv
<1>2. \A r \in Own(v) : resolved'[r] = resolved[r]
  BY ToolsOfUser, OwnOrShared
<1>3. /\ pc'[v] = pc[v] /\ todo'[v] = todo[v]
      /\ ended'[v] = ended[v] /\ closing'[v] = closing[v]
  OBVIOUS
<1>4. pc[v] = "opening" => Head(todo[v]) \in ToolSet(v)
  BY <1>1, HeadTail DEF Progress
<1> QED
  BY <1>1, <1>2, <1>3, <1>4 DEF Progress

LEMMA TransportsFrame ==
    ASSUME TransportsInv,
           UNCHANGED <<client, resolved, transports, closing, tool, home, placed>>,
           PortalsAge,
           \A v \in Users : tool[v] # None /\ ~outlived'[v] =>
              /\ ~outlived[v]
              /\ pc[v] \in {"use", "streaming"} => pc'[v] \in {"use", "streaming"}
    PROVE  TransportsInv'
<1>1. Homes'
  BY DEF TransportsInv, Homes, PortalsAge
<1>2. Attached'
  <2> SUFFICES ASSUME NEW r \in Refs, resolved[r] # None,
                      transports[resolved[r]].state # "open"
               PROVE  closes' > 0 /\ client = "threads" /\ portals'[home[resolved[r]]] = "stopped"
    BY DEF TransportsInv, Attached
  <2>1. /\ closes > 0 /\ client = "threads" /\ resolved[r] \in DOMAIN transports
        /\ portals[home[resolved[r]]] = "stopped"
    BY DEF TransportsInv, Attached
  <2>2. home[resolved[r]] \in DOMAIN portals
    BY <2>1 DEF TransportsInv, Homes
  <2> QED
    BY <2>1, <2>2 DEF PortalsAge, Lived
<1>3. Detached'
  BY DEF TransportsInv, Detached, IsDetached
<1>4. Accounted'
  <2> SUFFICES ASSUME NEW n \in DOMAIN transports, transports[n].state = "open",
                      client = "threads", ~Runs(home[n])
               PROVE  ~Runs(home[n])'
    BY DEF TransportsInv, Accounted, IsAccounted, BeingClosed
  <2>1. home[n] \in DOMAIN portals /\ portals[home[n]] \in Lived
    BY DEF TransportsInv, Homes
  <2> QED
    BY <2>1 DEF Runs, PortalsAge
<1>5. ToolHeld'
  BY DEF TransportsInv, ToolHeld, IsHeld
<1> QED
  BY <1>1, <1>2, <1>3, <1>4, <1>5 DEF TransportsInv

LEMMA PortalFrame ==
    ASSUME PortalInv, PortalTypeOK', NEW u \in Users,
           UNCHANGED <<client, portal, stack, portals, closes, raced, step>>,
           step[u] = "none",
           \A v \in Users : v # u => pc'[v] = pc[v] /\ via'[v] = via[v],
           client = "tasks" => via'[u] = None,
           pc'[u] = "opening" /\ client = "threads" =>
              via'[u] \in DOMAIN portals /\ portals[via'[u]] \in {"running", "stopping"}
    PROVE  PortalInv'
<1>1. TasksHaveNoPortal'
  BY DEF PortalInv, TasksHaveNoPortal
<1>2. StepPlaces'
  BY DEF PortalInv, StepPlaces, StartSteps
<1>3. Hands'
  <2>1. \A v \in Users : InHand(v)'
    BY DEF PortalInv, Hands, InHand
  <2> QED
    BY <2>1 DEF PortalInv, Hands
<1>4. PortalRuns' /\ OnePortal'
  BY DEF PortalInv, PortalRuns, OnePortal
<1> QED
  BY <1>1, <1>2, <1>3, <1>4 DEF PortalInv

\* The steps of a call that leave references, transports and portals alone.
LEMMA GoesOnStep ==
    ASSUME IInv, NEW u \in Users, GoesOn(u), pc'[u] # "opening", Free(u),
           UNCHANGED pvars
    PROVE  IInv'
<1> USE DEF pvars, loop, thread
<1>1. TypeOK' /\ UNCHANGED <<resolved, transports, closing, tool, client>>
  BY DEF GoesOn
<1>2. PortalTypeOK'
  BY <1>1 DEF IInv, PortalInv, PortalTypeOK
<1>3. \A v \in Users : v # u => /\ pc'[v] = pc[v] /\ todo'[v] = todo[v]
                                /\ ended'[v] = ended[v] /\ outlived'[v] = outlived[v]
  BY DEF GoesOn, Alone
<1>4. PortalInv'
  BY <1>1, <1>2, <1>3, PortalFrame DEF IInv, PortalInv, TasksHaveNoPortal, Free
<1>5. CallsInv'
  BY <1>1, <1>3, CallsFrame, ToolsOfUser DEF GoesOn, IInv, TypeOK, PortalTypeOK
<1>6. TransportsInv'
  <2>1. \A v \in Users : tool[v] # None /\ ~outlived'[v] =>
              /\ ~outlived[v]
              /\ pc[v] \in {"use", "streaming"} => pc'[v] \in {"use", "streaming"}
    BY <1>3 DEF GoesOn, KeepsTool
  <2> QED
    BY <1>1, <2>1, TransportsFrame, SamePortalsAge DEF IInv
<1> QED
  BY <1>4, <1>5, <1>6 DEF IInv

-----------------------------------------------------------------------------
(* _ensure_started.                                                        *)

PortalStates == {"created", "starting", "running", "stopping", "stopped"}
Steps == {"none", "return", "closing"} \cup StartSteps

LEMMA BecomeMeans ==
    ASSUME PortalTypeOK, NEW p \in DOMAIN portals, NEW s \in PortalStates, Become(p, s)
    PROVE  /\ portals' \in Seq(PortalStates) /\ Len(portals') = Len(portals)
           /\ DOMAIN portals' = DOMAIN portals
           /\ portals'[p] = s
           /\ \A q \in DOMAIN portals : q # p => portals'[q] = portals[q]
           /\ p \in PortalNumbers /\ p # None
<1>1. portals \in Seq(PortalStates) /\ portals' = [portals EXCEPT ![p] = s]
  BY DEF PortalTypeOK, PortalStates, Become
<1>2. p \in 1..Len(portals) /\ Len(portals) \in Nat /\ Len(portals) <= MaxPortals
  BY <1>1 DEF PortalTypeOK
<1>3. p \in PortalNumbers /\ p # None
  BY <1>2, McpPortalAssumption DEF PortalNumbers, None
<1> QED
  BY <1>1, <1>3

LEMMA AdvanceMeans ==
    ASSUME PortalTypeOK, NEW u \in Users, NEW s \in Steps, Advance(u, s)
    PROVE  /\ step' \in [Users -> Steps]
           /\ step'[u] = s /\ \A v \in Users : v # u => step'[v] = step[v]
BY DEF PortalTypeOK, Steps, Advance

LEMMA ViaMeans ==
    ASSUME PortalTypeOK, NEW u \in Users, NEW p \in PortalNumbers,
           via' = [via EXCEPT ![u] = p]
    PROVE  /\ via' \in [Users -> PortalNumbers]
           /\ via'[u] = p /\ \A v \in Users : v # u => via'[v] = via[v]
BY DEF PortalTypeOK

LEMMA NoPortal == None \in PortalNumbers
BY McpPortalAssumption DEF None, PortalNumbers

\* A step that leaves every call where it is, or one raised out of it.
LEMMA CallsStay ==
    ASSUME IInv, UNCHANGED vars, PortalInv', PortalsAge, UNCHANGED <<home, placed>>
    PROVE  IInv'
<1> USE DEF vars, refs, user, rest
<1>1. CallsInv'
  BY DEF IInv, CallsInv, Progress
<1>2. TransportsInv'
  <2>1. \A v \in Users : tool[v] # None /\ ~outlived'[v] =>
              /\ ~outlived[v]
              /\ pc[v] \in {"use", "streaming"} => pc'[v] \in {"use", "streaming"}
    OBVIOUS
  <2> QED
    BY <2>1, TransportsFrame DEF IInv
<1> QED
  BY <1>1, <1>2 DEF IInv

LEMMA CallGoesOn ==
    ASSUME IInv, NEW u \in Users, GoesOn(u), PortalInv', PortalsAge,
           UNCHANGED <<home, placed>>
    PROVE  IInv'
<1>1. UNCHANGED <<resolved, transports, closing, tool, client>>
  BY DEF GoesOn
<1>2. \A v \in Users : v # u => /\ pc'[v] = pc[v] /\ todo'[v] = todo[v]
                                /\ ended'[v] = ended[v] /\ outlived'[v] = outlived[v]
  BY DEF GoesOn, Alone
<1>3. CallsInv'
  BY <1>1, <1>2, CallsFrame, ToolsOfUser DEF GoesOn, IInv
<1>4. \A v \in Users : tool[v] # None /\ ~outlived'[v] =>
            /\ ~outlived[v]
            /\ pc[v] \in {"use", "streaming"} => pc'[v] \in {"use", "streaming"}
  BY <1>2 DEF GoesOn, KeepsTool
<1>5. TransportsInv'
  BY <1>1, <1>4, TransportsFrame DEF IInv
<1> QED
  BY <1>3, <1>5 DEF IInv

LEMMA LookStep ==
    ASSUME IInv, NEW u \in Users, Look(u)
    PROVE  IInv'
<1>1. /\ UNCHANGED <<vars, http, portal, stack, portals, closes, via, home, placed>>
      /\ client = "threads" /\ pc[u] = "resolve" /\ step[u] = "none"
      /\ raced' \in BOOLEAN /\ (~raced' => ~raced)
      /\ ~raced' /\ portal = None => \A v \in Users \ {u} : step[v] \notin StartSteps
  BY DEF Look, Free, IInv, PortalInv, PortalTypeOK
<1>2. /\ step' \in [Users -> Steps] /\ \A v \in Users : v # u => step'[v] = step[v]
      /\ \/ step'[u] = "return"
         \/ step'[u] = "create" /\ portal = None
  BY AdvanceMeans DEF Look, Steps, StartSteps, IInv, PortalInv
<1> USE DEF vars, refs, user, rest
<1>3. PortalTypeOK'
  BY <1>1, <1>2 DEF IInv, PortalInv, PortalTypeOK, TypeOK, Steps
<1>4. TasksHaveNoPortal' /\ StepPlaces'
  BY <1>1, <1>2 DEF IInv, PortalInv, TasksHaveNoPortal, StepPlaces
<1>5. Hands'
  BY <1>1, <1>2 DEF IInv, PortalInv, Hands, InHand
<1>6. PortalRuns'
  BY <1>1 DEF IInv, PortalInv, PortalRuns
<1>7. OnePortal'
  BY <1>1, <1>2 DEF IInv, PortalInv, OnePortal, StartSteps
<1>8. PortalInv'
  BY <1>3, <1>4, <1>5, <1>6, <1>7 DEF PortalInv
<1> QED
  BY <1>1, <1>8, CallsStay, SamePortalsAge

LEMMA CreateStep ==
    ASSUME IInv, NEW u \in Users, Create(u)
    PROVE  IInv'
<1>1. /\ UNCHANGED <<vars, http, portal, closes, raced, via, home, placed>>
      /\ step[u] = "create"
  BY DEF Create
<1>2. /\ portals' \in Seq(PortalStates) /\ Len(portals') = Len(portals) + 1
      /\ Len(portals') <= MaxPortals /\ stack' = Len(portals')
      /\ DOMAIN portals \subseteq DOMAIN portals' /\ stack' \in DOMAIN portals'
      /\ \A p \in DOMAIN portals : portals'[p] = portals[p]
      /\ \A p \in DOMAIN portals' : p \in DOMAIN portals \/ portals'[p] = "created"
      /\ stack' \in PortalNumbers
  <2>1. portals \in Seq(PortalStates) /\ Len(portals) \in Nat
    BY DEF IInv, PortalInv, PortalTypeOK, PortalStates
  <2>2. /\ portals' = Append(portals, "created") /\ stack' = Len(portals')
        /\ Len(portals) < MaxPortals /\ "created" \in PortalStates
    BY DEF Create, PortalStates
  <2>3. /\ portals' \in Seq(PortalStates) /\ Len(portals') = Len(portals) + 1
        /\ DOMAIN portals = 1..Len(portals) /\ DOMAIN portals' = 1..Len(portals) + 1
        /\ \A p \in 1..Len(portals) : portals'[p] = portals[p]
        /\ portals'[Len(portals) + 1] = "created"
    BY <2>1, <2>2
  <2> QED
    BY <2>1, <2>2, <2>3, McpPortalAssumption DEF PortalNumbers
<1>3. /\ step' \in [Users -> Steps] /\ step'[u] = "enter"
      /\ \A v \in Users : v # u => step'[v] = step[v]
  BY AdvanceMeans DEF Create, Steps, StartSteps, IInv, PortalInv
<1> USE DEF vars, refs, user, rest
<1>4. PortalTypeOK'
  BY <1>1, <1>2, <1>3 DEF IInv, PortalInv, PortalTypeOK, TypeOK, Steps, PortalStates
<1>5. TasksHaveNoPortal' /\ StepPlaces'
  BY <1>1, <1>3 DEF IInv, PortalInv, TasksHaveNoPortal, StepPlaces, StartSteps
<1>6. Hands'
  BY <1>1, <1>2, <1>3 DEF IInv, PortalInv, Hands, InHand
<1>7. PortalRuns'
  BY <1>1, <1>2 DEF IInv, PortalInv, PortalRuns
<1>8. OnePortal'
  <2> SUFFICES ASSUME ~raced PROVE OnePortal'
    BY <1>1 DEF OnePortal
  <2>1. portal = None /\ \A v \in Users : step[v] \in StartSteps => v = u
    BY <1>1 DEF IInv, PortalInv, OnePortal, StartSteps
  <2>2. \A p \in DOMAIN portals' : portals'[p] # "running"
    <3>1. \A p \in DOMAIN portals : p # None
      BY DEF IInv, PortalInv, PortalTypeOK, None
    <3> QED
      BY <1>2, <2>1, <3>1 DEF IInv, PortalInv, OnePortal
  <2> QED
    BY <1>1, <1>3, <2>1, <2>2 DEF OnePortal, StartSteps
<1>9. PortalInv'
  BY <1>4, <1>5, <1>6, <1>7, <1>8 DEF PortalInv
<1>10. PortalsAge
  BY <1>1, <1>2 DEF PortalsAge
<1> QED
  BY <1>1, <1>9, <1>10, CallsStay

\* A thread that raises out of _ensure_started ends its call.
LEMMA RaisesGoesOn ==
    ASSUME IInv, NEW u \in Users, Raises(u), pc[u] = "resolve"
    PROVE  GoesOn(u) /\ pc'[u] = "idle" /\ UNCHANGED <<resolved, transports, closing, tool, client>>
<1>1. /\ Over(u, "left")
      /\ UNCHANGED <<resolved, transports, closing, client, tool, outlived>>
  BY DEF Raises, refs, rest
<1>2. pc'[u] = "idle"
  BY <1>1 DEF Over, Goto, IInv, PortalInv, PortalTypeOK, TypeOK
<1> QED
  BY <1>1, <1>2, LeftStep, SameOutlived DEF IInv, PortalInv, PortalTypeOK, CallsInv

LEMMA EnterStep ==
    ASSUME IInv, NEW u \in Users, Enter(u)
    PROVE  IInv'
<1>1. /\ UNCHANGED <<http, portal, stack, closes, raced, home, placed>>
      /\ step[u] = "enter" /\ pc[u] = "resolve" /\ client = "threads"
  BY DEF Enter, IInv, PortalInv, StepPlaces, StartSteps, TasksHaveNoPortal, PortalTypeOK, TypeOK
<1>2. CASE stack # None /\ portals[stack] = "created"
  <2>1. Become(stack, "starting") /\ UNCHANGED vars /\ stack \in DOMAIN portals
    BY <1>2 DEF Enter, IInv, PortalInv, PortalRuns
  <2>2. /\ portals' \in Seq(PortalStates) /\ Len(portals') = Len(portals)
        /\ DOMAIN portals' = DOMAIN portals /\ portals'[stack] = "starting"
        /\ \A q \in DOMAIN portals : q # stack => portals'[q] = portals[q]
    BY <2>1, BecomeMeans DEF IInv, PortalInv, PortalStates
  <2>3. /\ step' \in [Users -> Steps] /\ step'[u] = "entering"
        /\ \A v \in Users : v # u => step'[v] = step[v]
    BY <1>2, AdvanceMeans DEF Enter, Steps, StartSteps, IInv, PortalInv
  <2>4. /\ via' \in [Users -> PortalNumbers] /\ via'[u] = stack
        /\ \A v \in Users : v # u => via'[v] = via[v]
    BY <1>2, ViaMeans DEF Enter, IInv, PortalInv, PortalTypeOK
  <2> USE DEF vars, refs, user, rest
  <2>5. PortalTypeOK'
    BY <1>1, <2>1, <2>2, <2>3, <2>4
       DEF IInv, PortalInv, PortalTypeOK, TypeOK, Steps, PortalStates
  <2>6. TasksHaveNoPortal' /\ StepPlaces'
    BY <1>1, <2>1, <2>3 DEF IInv, PortalInv, TasksHaveNoPortal, StepPlaces, StartSteps
  <2>7. Hands'
    <3>1. \A v \in Users : InHand(v)'
      BY <1>1, <1>2, <2>1, <2>2, <2>3, <2>4 DEF IInv, PortalInv, Hands, InHand
    <3>2. \A v \in Users : step[v] = "entering" => via[v] # stack
      BY <1>2 DEF IInv, PortalInv, Hands, InHand
    <3> QED
      BY <3>1, <3>2, <2>3, <2>4 DEF IInv, PortalInv, Hands
  <2>8. PortalRuns'
    BY <1>1, <1>2, <2>1, <2>2 DEF IInv, PortalInv, PortalRuns
  <2>9. OnePortal'
    BY <1>1, <2>2, <2>3, <2>4 DEF IInv, PortalInv, OnePortal, StartSteps
  <2>10. PortalInv'
    BY <2>5, <2>6, <2>7, <2>8, <2>9 DEF PortalInv
  <2>11. PortalsAge
    BY <1>1, <1>2, <2>2 DEF PortalsAge, Lived
  <2> QED
    BY <1>1, <2>1, <2>10, <2>11, CallsStay
<1>3. CASE ~(stack # None /\ portals[stack] = "created")
  <2>1. Raises(u) /\ UNCHANGED <<portals, via>>
    BY <1>3 DEF Enter
  <2>2. /\ step' \in [Users -> Steps] /\ step'[u] = "none"
        /\ \A v \in Users : v # u => step'[v] = step[v]
    BY <1>3, AdvanceMeans DEF Enter, Steps, IInv, PortalInv
  <2>3. GoesOn(u) /\ pc'[u] = "idle" /\ UNCHANGED <<resolved, transports, closing, tool, client>>
    BY <1>1, <2>1, RaisesGoesOn
  <2>4. TypeOK' /\ \A v \in Users : v # u => pc'[v] = pc[v]
    BY <2>3 DEF GoesOn, Alone
  <2>5. PortalTypeOK'
    BY <1>1, <2>1, <2>2, <2>3, <2>4 DEF IInv, PortalInv, PortalTypeOK, Steps
  <2>6. TasksHaveNoPortal' /\ StepPlaces'
    BY <1>1, <2>1, <2>2, <2>3, <2>4
       DEF IInv, PortalInv, TasksHaveNoPortal, StepPlaces, StartSteps
  <2>7. Hands'
    BY <1>1, <2>1, <2>2, <2>3, <2>4 DEF IInv, PortalInv, Hands, InHand
  <2>8. PortalRuns' /\ OnePortal'
    BY <1>1, <2>1, <2>2 DEF IInv, PortalInv, PortalRuns, OnePortal, StartSteps
  <2>9. PortalInv'
    BY <2>5, <2>6, <2>7, <2>8 DEF PortalInv
  <2> QED
    BY <1>1, <2>1, <2>3, <2>9, CallGoesOn, SamePortalsAge
<1> QED
  BY <1>2, <1>3

LEMMA StartedStep ==
    ASSUME IInv, NEW u \in Users, Started(u)
    PROVE  IInv'
<1> DEFINE p == via[u]
<1>1. /\ UNCHANGED <<vars, http, stack, closes, raced, home, placed>>
      /\ step[u] = "entering" /\ portal' = p /\ Become(p, "running")
      /\ p \in DOMAIN portals /\ portals[p] = "starting" /\ client = "threads"
  BY DEF Started, IInv, PortalInv, Hands, InHand, TasksHaveNoPortal, PortalTypeOK, TypeOK
<1>2. /\ portals' \in Seq(PortalStates) /\ Len(portals') = Len(portals)
      /\ DOMAIN portals' = DOMAIN portals /\ portals'[p] = "running"
      /\ \A q \in DOMAIN portals : q # p => portals'[q] = portals[q]
      /\ p \in PortalNumbers /\ p # None
  BY <1>1, BecomeMeans DEF IInv, PortalInv, PortalStates
<1>3. /\ step' \in [Users -> Steps] /\ step'[u] = "return"
      /\ \A v \in Users : v # u => step'[v] = step[v]
  BY AdvanceMeans DEF Started, Steps, IInv, PortalInv
<1>4. /\ via' \in [Users -> PortalNumbers] /\ via'[u] = None
      /\ \A v \in Users : v # u => via'[v] = via[v]
  BY ViaMeans, NoPortal DEF Started, IInv, PortalInv
<1> HIDE DEF p
<1> USE DEF vars, refs, user, rest
<1>5. PortalTypeOK'
  BY <1>1, <1>2, <1>3, <1>4 DEF IInv, PortalInv, PortalTypeOK, TypeOK, Steps, PortalStates
<1>6. TasksHaveNoPortal' /\ StepPlaces'
  BY <1>1, <1>3 DEF IInv, PortalInv, TasksHaveNoPortal, StepPlaces, StartSteps
<1>7. Hands'
  <2>1. \A v \in Users : step[v] = "entering" /\ v # u => via[v] # p
    BY <1>1 DEF p, IInv, PortalInv, Hands
  <2>2. \A v \in Users : v # u => InHand(v)'
    BY <1>1, <1>2, <1>3, <1>4, <2>1 DEF IInv, PortalInv, Hands, InHand
  <2>3. pc[u] = "resolve"
    BY <1>1 DEF IInv, PortalInv, StepPlaces, StartSteps
  <2>4. InHand(u)'
    BY <1>1, <1>3, <2>3 DEF InHand
  <2> QED
    BY <1>3, <1>4, <2>2, <2>4 DEF IInv, PortalInv, Hands
<1>8. PortalRuns'
  BY <1>1, <1>2 DEF IInv, PortalInv, PortalRuns
<1>9. OnePortal'
  <2> SUFFICES ASSUME ~raced PROVE OnePortal'
    BY <1>1 DEF OnePortal
  <2>1. /\ portal = None /\ \A v \in Users : step[v] \in StartSteps => v = u
        /\ p = stack
    BY <1>1 DEF p, IInv, PortalInv, OnePortal, StartSteps
  <2>2. \A q \in DOMAIN portals : portals[q] # "running"
    <3>1. \A q \in DOMAIN portals : q # None
      BY DEF IInv, PortalInv, PortalTypeOK, None
    <3> QED
      BY <2>1, <3>1 DEF IInv, PortalInv, OnePortal
  <2> QED
    BY <1>1, <1>2, <1>3, <2>1, <2>2 DEF OnePortal, StartSteps
<1>10. PortalInv'
  BY <1>5, <1>6, <1>7, <1>8, <1>9 DEF PortalInv
<1>11. PortalsAge
  BY <1>1, <1>2 DEF PortalsAge, Lived
<1> QED
  BY <1>1, <1>10, <1>11, CallsStay

LEMMA StartFailsStep ==
    ASSUME IInv, NEW u \in Users, StartFails(u)
    PROVE  IInv'
<1>1. /\ UNCHANGED <<http, portal, stack, closes, raced, home, placed>>
      /\ Raises(u) /\ step[u] \in {"create", "entering"}
      /\ pc[u] = "resolve" /\ client = "threads"
  BY DEF StartFails, IInv, PortalInv, StepPlaces, StartSteps, TasksHaveNoPortal,
         PortalTypeOK, TypeOK
<1>2. /\ portals' \in Seq(PortalStates) /\ Len(portals') = Len(portals)
      /\ DOMAIN portals' = DOMAIN portals
      /\ \A q \in DOMAIN portals :
            \/ portals'[q] = portals[q]
            \/ /\ step[u] = "entering" /\ q = via[u]
               /\ portals[q] = "starting" /\ portals'[q] = "stopped"
  <2>1. portals \in Seq(PortalStates) /\ Len(portals) \in Nat
    BY DEF IInv, PortalInv, PortalTypeOK, PortalStates
  <2>2. portals' = [q \in 1..Len(portals) |->
              IF step[u] = "entering" /\ q = via[u] THEN "stopped" ELSE portals[q]]
    BY <2>1 DEF StartFails
  <2>3. portals' \in Seq(PortalStates) /\ Len(portals') = Len(portals)
    BY <2>1, <2>2 DEF PortalStates
  <2>4. step[u] = "entering" => portals[via[u]] = "starting"
    BY DEF IInv, PortalInv, Hands, InHand
  <2> QED
    BY <2>1, <2>2, <2>3, <2>4
<1>3. /\ step' \in [Users -> Steps] /\ step'[u] = "none"
      /\ \A v \in Users : v # u => step'[v] = step[v]
  BY AdvanceMeans DEF StartFails, Steps, IInv, PortalInv
<1>4. /\ via' \in [Users -> PortalNumbers] /\ via'[u] = None
      /\ \A v \in Users : v # u => via'[v] = via[v]
  BY ViaMeans, NoPortal DEF StartFails, IInv, PortalInv
<1>5. GoesOn(u) /\ pc'[u] = "idle" /\ UNCHANGED <<resolved, transports, closing, tool, client>>
  BY <1>1, RaisesGoesOn
<1>6. TypeOK' /\ \A v \in Users : v # u => pc'[v] = pc[v]
  BY <1>5 DEF GoesOn, Alone
<1>7. PortalTypeOK'
  BY <1>1, <1>2, <1>3, <1>4, <1>5, <1>6 DEF IInv, PortalInv, PortalTypeOK, Steps, PortalStates
<1>8. TasksHaveNoPortal' /\ StepPlaces'
  BY <1>1, <1>3, <1>5, <1>6 DEF IInv, PortalInv, TasksHaveNoPortal, StepPlaces, StartSteps
<1>9. Hands'
  <2>1. \A v \in Users : step[v] = "entering" /\ step[u] = "entering" /\ v # u => via[v] # via[u]
    BY DEF IInv, PortalInv, Hands
  <2>2. \A v \in Users : v # u => InHand(v)'
    BY <1>2, <1>3, <1>4, <1>5, <1>6, <2>1 DEF IInv, PortalInv, Hands, InHand
  <2>3. InHand(u)'
    BY <1>3, <1>5 DEF InHand
  <2> QED
    BY <1>3, <1>4, <2>2, <2>3 DEF IInv, PortalInv, Hands
<1>10. PortalRuns'
  BY <1>1, <1>2 DEF IInv, PortalInv, PortalRuns
<1>11. OnePortal'
  BY <1>1, <1>2, <1>3, <1>4 DEF IInv, PortalInv, OnePortal, StartSteps
<1>12. PortalInv'
  BY <1>7, <1>8, <1>9, <1>10, <1>11 DEF PortalInv
<1>13. PortalsAge
  BY <1>1, <1>2 DEF PortalsAge, Lived
<1> QED
  BY <1>1, <1>5, <1>12, <1>13, CallGoesOn

LEMMA CallOnPortalStep ==
    ASSUME IInv, NEW u \in Users, CallOnPortal(u)
    PROVE  IInv'
<1>1. /\ UNCHANGED <<http, portal, stack, portals, closes, raced, home, placed>>
      /\ step[u] = "return" /\ pc[u] = "resolve" /\ client = "threads"
  BY DEF CallOnPortal, loop, IInv, PortalInv, StepPlaces, TasksHaveNoPortal, PortalTypeOK, TypeOK
<1>2. /\ step' \in [Users -> Steps] /\ step'[u] = "none"
      /\ \A v \in Users : v # u => step'[v] = step[v]
  BY AdvanceMeans DEF CallOnPortal, Steps, IInv, PortalInv
<1>3. /\ GoesOn(u) /\ UNCHANGED <<resolved, transports, closing, tool, client>>
      /\ via' \in [Users -> PortalNumbers] /\ \A v \in Users : v # u => via'[v] = via[v]
      /\ \/ pc'[u] = "opening" /\ via'[u] = portal /\ Runs(portal)
         \/ pc'[u] = "idle"
  <2>1. CASE Runs(portal)
    <3>1. Open(u) /\ via' = [via EXCEPT ![u] = portal]
      BY <2>1 DEF CallOnPortal
    <3>2. GoesOn(u) /\ pc'[u] = "opening"
      BY <3>1, OpenStep DEF IInv, PortalInv, PortalTypeOK, CallsInv
    <3>3. /\ via' \in [Users -> PortalNumbers] /\ via'[u] = portal
          /\ \A v \in Users : v # u => via'[v] = via[v]
      BY <3>1, ViaMeans DEF IInv, PortalInv, PortalTypeOK
    <3> QED
      BY <2>1, <3>2, <3>3 DEF GoesOn
  <2>2. CASE ~Runs(portal)
    <3>1. Raises(u) /\ UNCHANGED via
      BY <2>2 DEF CallOnPortal
    <3> QED
      BY <1>1, <3>1, RaisesGoesOn DEF IInv, PortalInv, PortalTypeOK
  <2> QED
    BY <2>1, <2>2
<1>4. TypeOK' /\ \A v \in Users : v # u => pc'[v] = pc[v]
  BY <1>3 DEF GoesOn, Alone
<1>5. PortalTypeOK'
  BY <1>1, <1>2, <1>3, <1>4 DEF IInv, PortalInv, PortalTypeOK, Steps
<1>6. TasksHaveNoPortal' /\ StepPlaces'
  BY <1>1, <1>2, <1>3, <1>4 DEF IInv, PortalInv, TasksHaveNoPortal, StepPlaces, StartSteps
<1>7. Hands'
  <2>1. \A v \in Users : v # u => InHand(v)'
    BY <1>1, <1>2, <1>3, <1>4 DEF IInv, PortalInv, Hands, InHand
  <2>2. InHand(u)'
    BY <1>1, <1>2, <1>3 DEF InHand, Runs, IInv, PortalInv, PortalRuns
  <2> QED
    BY <1>2, <1>3, <2>1, <2>2 DEF IInv, PortalInv, Hands
<1>8. PortalRuns' /\ OnePortal'
  BY <1>1, <1>2, <1>3 DEF IInv, PortalInv, PortalRuns, OnePortal, StartSteps
<1>9. PortalInv'
  BY <1>5, <1>6, <1>7, <1>8 DEF PortalInv
<1> QED
  BY <1>1, <1>3, <1>9, CallGoesOn, SamePortalsAge

LEMMA OpenInTaskStep ==
    ASSUME IInv, NEW u \in Users, OpenInTask(u)
    PROVE  IInv'
<1>1. /\ client = "tasks" /\ Open(u)
      /\ UNCHANGED <<http, portal, stack, portals, closes, raced, step, via, home, placed>>
  BY DEF OpenInTask, pvars, loop, thread
<1>2. GoesOn(u) /\ UNCHANGED <<resolved, transports, closing, tool, client>>
  BY <1>1, OpenStep DEF GoesOn, IInv, PortalInv, PortalTypeOK, CallsInv
<1>3. TypeOK' /\ \A v \in Users : v # u => pc'[v] = pc[v]
  BY <1>2 DEF GoesOn, Alone
<1>4. PortalTypeOK'
  BY <1>1, <1>2, <1>3 DEF IInv, PortalInv, PortalTypeOK
<1>5. step[u] = "none" /\ via[u] = None
  BY <1>1 DEF IInv, PortalInv, TasksHaveNoPortal
<1>6. PortalInv'
  BY <1>1, <1>2, <1>3, <1>4, <1>5, PortalFrame DEF IInv
<1> QED
  BY <1>1, <1>2, <1>6, CallGoesOn, SamePortalsAge

-----------------------------------------------------------------------------
(* close() of the client.                                                  *)

LEMMA CloseClientStep ==
    ASSUME IInv, NEW u \in Users, CloseClient(u)
    PROVE  IInv'
<1>1. /\ UNCHANGED <<vars, home, placed>>
      /\ step[u] = "none" /\ pc[u] \in {"idle", "ready", "streaming"}
      /\ closes' = closes + 1 /\ closes < MaxCloses
      /\ http' \in {"own", "given", "closed"}
  BY DEF CloseClient, Free, IInv, PortalInv, PortalTypeOK
<1>2. closes \in Nat /\ closes' \in 0..MaxCloses /\ closes' > 0
  BY <1>1, McpPortalAssumption DEF IInv, PortalInv, PortalTypeOK
<1> USE DEF vars, refs, user, rest
<1>3. CASE UNCHANGED <<portals, step, via>>
  <2>1. \/ UNCHANGED <<portal, stack, raced>>
        \/ /\ stack' = None /\ portal' = None /\ raced' \in BOOLEAN
           /\ ~raced' => ~raced /\ portals[stack] # "starting"
           /\ portals[stack] # "running"
    <3>1. CASE stack = None
      BY <3>1 DEF CloseClient
    <3>2. CASE stack # None
      <4>1. /\ stack' = None /\ portal' = None
            /\ raced' = (raced \/ portals[stack] = "starting")
            /\ stack \in DOMAIN portals
        BY <3>2 DEF CloseClient, ForgetPortal, IInv, PortalInv, PortalRuns
      <4>2. portals[stack] # "running"
        BY <3>2, <1>3, <4>1, BecomeMeans DEF CloseClient, IInv, PortalInv, PortalStates
      <4> QED
        BY <4>1, <4>2 DEF IInv, PortalInv, PortalTypeOK
    <3> QED
      BY <3>1, <3>2
  <2>2. PortalTypeOK'
    BY <1>1, <1>2, <1>3, <2>1, NoPortal DEF IInv, PortalInv, PortalTypeOK, TypeOK
  <2>3. TasksHaveNoPortal' /\ StepPlaces'
    BY <1>1, <1>2, <1>3 DEF IInv, PortalInv, TasksHaveNoPortal, StepPlaces
  <2>4. Hands'
    BY <1>1, <1>3 DEF IInv, PortalInv, Hands, InHand
  <2>5. PortalRuns'
    BY <1>3, <2>1 DEF IInv, PortalInv, PortalRuns
  <2>6. OnePortal'
    <3>1. CASE UNCHANGED <<portal, stack, raced>>
      BY <1>3, <3>1 DEF IInv, PortalInv, OnePortal
    <3>2. CASE raced'
      BY <3>2 DEF OnePortal
    <3>3. ASSUME ~raced, portals[stack] # "starting", portals[stack] # "running",
                 portal' = None
          PROVE  OnePortal'
      <4>1. \A p \in DOMAIN portals : portals[p] # "running"
        BY <3>3 DEF IInv, PortalInv, OnePortal
      <4>2. \A v \in Users : step[v] # "entering"
        BY <3>3 DEF IInv, PortalInv, OnePortal, Hands, InHand
      <4> QED
        BY <1>3, <3>3, <4>1, <4>2 DEF IInv, PortalInv, OnePortal
    <3> QED
      BY <2>1, <3>1, <3>2, <3>3
  <2>7. PortalInv'
    BY <2>2, <2>3, <2>4, <2>5, <2>6 DEF PortalInv
  <2>8. PortalsAge
    BY <1>2, <1>3 DEF PortalsAge
  <2> QED
    BY <1>1, <2>7, <2>8, CallsStay
<1>4. CASE stack # None /\ portals[stack] = "created"
  <2>1. /\ stack' = None /\ portal' = None /\ raced' = raced
        /\ Become(stack, "stopped") /\ UNCHANGED <<step, via>>
        /\ stack \in DOMAIN portals
    BY <1>4 DEF CloseClient, ForgetPortal, thread, IInv, PortalInv, PortalRuns, PortalTypeOK
  <2>2. /\ portals' \in Seq(PortalStates) /\ Len(portals') = Len(portals)
        /\ DOMAIN portals' = DOMAIN portals /\ portals'[stack] = "stopped"
        /\ \A q \in DOMAIN portals : q # stack => portals'[q] = portals[q]
    BY <2>1, BecomeMeans DEF IInv, PortalInv, PortalStates
  <2>3. PortalTypeOK'
    BY <1>1, <1>2, <2>1, <2>2, NoPortal DEF IInv, PortalInv, PortalTypeOK, TypeOK, PortalStates
  <2>4. TasksHaveNoPortal' /\ StepPlaces'
    BY <1>1, <1>2, <2>1, <1>4 DEF IInv, PortalInv, TasksHaveNoPortal, StepPlaces
  <2>5. Hands'
    BY <1>1, <1>4, <2>1, <2>2 DEF IInv, PortalInv, Hands, InHand
  <2>6. PortalRuns'
    BY <2>1 DEF PortalRuns
  <2>7. OnePortal'
    BY <1>4, <2>1, <2>2 DEF IInv, PortalInv, OnePortal, Hands, InHand
  <2>8. PortalInv'
    BY <2>3, <2>4, <2>5, <2>6, <2>7 DEF PortalInv
  <2>9. PortalsAge
    BY <1>2, <1>4, <2>2 DEF PortalsAge, Lived
  <2> QED
    BY <1>1, <2>8, <2>9, CallsStay
<1>5. CASE stack # None /\ portals[stack] = "running"
  <2>1. /\ stack' = None /\ portal' = None /\ raced' = raced
        /\ Become(stack, "stopping") /\ via' = [via EXCEPT ![u] = stack]
        /\ Advance(u, "closing")
        /\ stack \in DOMAIN portals
    BY <1>5 DEF CloseClient, ForgetPortal, IInv, PortalInv, PortalRuns, PortalTypeOK
  <2>2. /\ portals' \in Seq(PortalStates) /\ Len(portals') = Len(portals)
        /\ DOMAIN portals' = DOMAIN portals /\ portals'[stack] = "stopping"
        /\ \A q \in DOMAIN portals : q # stack => portals'[q] = portals[q]
        /\ stack \in PortalNumbers
    BY <2>1, BecomeMeans DEF IInv, PortalInv, PortalStates
  <2>3. /\ step' \in [Users -> Steps] /\ step'[u] = "closing"
        /\ \A v \in Users : v # u => step'[v] = step[v]
    BY <2>1, AdvanceMeans DEF Steps, IInv, PortalInv
  <2>4. /\ via' \in [Users -> PortalNumbers] /\ via'[u] = stack
        /\ \A v \in Users : v # u => via'[v] = via[v]
    BY <2>1, <2>2, ViaMeans DEF IInv, PortalInv
  <2>5. client = "threads"
    BY <2>1 DEF IInv, PortalInv, PortalTypeOK, TypeOK, TasksHaveNoPortal
  <2>6. PortalTypeOK'
    BY <1>1, <1>2, <2>1, <2>2, <2>3, <2>4, NoPortal
       DEF IInv, PortalInv, PortalTypeOK, TypeOK, PortalStates, Steps
  <2>7. TasksHaveNoPortal' /\ StepPlaces'
    BY <1>1, <1>2, <2>3, <2>5 DEF IInv, PortalInv, TasksHaveNoPortal, StepPlaces, StartSteps
  <2>8. Hands'
    <3>1. \A v \in Users : InHand(v)'
      BY <1>1, <1>5, <2>1, <2>2, <2>3, <2>4 DEF IInv, PortalInv, Hands, InHand
    <3>2. \A v \in Users : step[v] = "closing" => via[v] # stack
      BY <1>5 DEF IInv, PortalInv, Hands, InHand
    <3> QED
      BY <3>1, <3>2, <2>3, <2>4 DEF IInv, PortalInv, Hands
  <2>9. PortalRuns'
    BY <2>1 DEF PortalRuns
  <2>10. OnePortal'
    BY <1>5, <2>1, <2>2, <2>3, <2>4 DEF IInv, PortalInv, OnePortal, Hands, InHand, StartSteps
  <2>11. PortalInv'
    BY <2>6, <2>7, <2>8, <2>9, <2>10 DEF PortalInv
  <2>12. PortalsAge
    BY <1>2, <1>5, <2>2 DEF PortalsAge, Lived
  <2> QED
    BY <1>1, <2>11, <2>12, CallsStay
<1>6. CASE stack = None \/ portals[stack] \notin {"created", "running"}
  BY <1>6, <1>3 DEF CloseClient, thread
<1> QED
  BY <1>3, <1>4, <1>5, <1>6

-----------------------------------------------------------------------------
(* The transports: opening one.                                            *)

\* What a user that is opening a transport has in hand.
LEMMA WhileOpening ==
    ASSUME IInv, NEW u \in Users, pc[u] = "opening"
    PROVE  /\ step[u] = "none" /\ closing[u] = None
           /\ todo[u] \in Seq(ToolSet(u)) /\ todo[u] # <<>>
           /\ Head(todo[u]) \in ToolSet(u) /\ Head(todo[u]) \in Refs
           /\ Head(todo[u]) \in Own(u) => resolved[Head(todo[u])] = None
           /\ client = "threads" => via[u] \in DOMAIN portals /\ portals[via[u]] \in Lived
           /\ \A r \in Own(u) : resolved[r] # None \/ In(todo[u], r)
<1>1. step[u] = "none"
  BY DEF IInv, PortalInv, PortalTypeOK, StepPlaces, StartSteps
<1>2. Progress(u)
  BY DEF IInv, CallsInv
<1>3. Head(todo[u]) \in ToolSet(u)
  BY <1>2, HeadTail DEF Progress
<1>4. client = "threads" => via[u] \in DOMAIN portals /\ portals[via[u]] \in Lived
  BY DEF IInv, PortalInv, Hands, InHand, Lived
<1> QED
  BY <1>1, <1>2, <1>3, <1>4, ToolsOfUser DEF Progress

Transport == [ref : Refs, state : {"open", "orphan", "closed"}]

\* One more transport, attached to the reference or dropped.
LEMMA TransportAdded ==
    ASSUME IInv, NEW u \in Users, pc[u] = "opening", NEW n,
           n = Len(transports) + 1,
           DOMAIN transports' = DOMAIN transports \cup {n},
           \A i \in DOMAIN transports : transports'[i] = transports[i] /\ home'[i] = home[i],
           home'[n] = via[u],
           \/ /\ transports'[n] = [ref |-> Head(todo[u]), state |-> "open"]
              /\ resolved' = [resolved EXCEPT ![Head(todo[u])] = n]
           \/ transports'[n].state = "orphan" /\ resolved' = resolved,
           \A v \in Users : v # u => pc'[v] = pc[v],
           UNCHANGED <<client, closing, tool, outlived, portals, closes, placed>>
    PROVE  TransportsInv'
<1> DEFINE h == Head(todo[u])
<1>1. /\ closing[u] = None /\ h \in ToolSet(u) /\ h \in Refs
      /\ h \in Own(u) => resolved[h] = None
      /\ client = "threads" => via[u] \in DOMAIN portals /\ portals[via[u]] \in Lived
  BY WhileOpening
<1>2. /\ \A r \in Refs : r # h => resolved'[r] = resolved[r]
      /\ \/ resolved'[h] = n /\ transports'[n].ref = h /\ transports'[n].state = "open"
         \/ resolved'[h] = resolved[h] /\ transports'[n].state = "orphan"
  BY <1>1 DEF IInv, PortalInv, PortalTypeOK, TypeOK
<1>3. \A i \in DOMAIN transports : /\ i # None /\ i # n
                                   /\ transports[i].ref \in Refs
  <2>1. transports \in Seq(Transport)
    BY DEF IInv, PortalInv, PortalTypeOK, TypeOK, Transport
  <2>2. DOMAIN transports = 1..Len(transports) /\ Len(transports) \in Nat
    BY <2>1
  <2>3. \A i \in DOMAIN transports : i # None /\ i # n
    BY <2>2 DEF None
  <2>4. \A i \in DOMAIN transports : transports[i] \in Transport
    BY <2>1, <2>2
  <2> QED
    BY <2>3, <2>4 DEF Transport
<1>4. h \in Own(u) \/ Shared(h)
  BY <1>1, OwnOrShared
<1>12. \A v \in Users : v # u => h \notin Own(v)
  BY <1>1 DEF Own
<1> HIDE DEF h
<1>5. Homes'
  BY <1>1 DEF IInv, TransportsInv, Homes
<1>6. Attached'
  <2> SUFFICES ASSUME NEW r \in Refs, resolved'[r] # None
               PROVE  /\ resolved'[r] \in DOMAIN transports'
                      /\ transports'[resolved'[r]].ref = r
                      /\ transports'[resolved'[r]].state # "open" =>
                            /\ closes > 0 /\ client = "threads"
                            /\ portals[home'[resolved'[r]]] = "stopped"
    BY DEF Attached
  <2>1. CASE /\ r = h /\ resolved'[h] = n
             /\ transports'[n].ref = h /\ transports'[n].state = "open"
    BY <2>1
  <2>2. CASE resolved'[r] = resolved[r]
    <3> DEFINE m == resolved[r]
    <3>1. /\ m \in DOMAIN transports /\ transports[m].ref = r
          /\ transports[m].state # "open" =>
                closes > 0 /\ client = "threads" /\ portals[home[m]] = "stopped"
      BY <2>2 DEF IInv, TransportsInv, Attached
    <3>2. /\ m \in DOMAIN transports'
          /\ transports'[m] = transports[m] /\ home'[m] = home[m]
      BY <3>1
    <3> HIDE DEF m
    <3>3. resolved'[r] = m
      BY <2>2 DEF m
    <3> QED
      BY <3>1, <3>2, <3>3
  <2> QED
    BY <2>1, <2>2, <1>2
<1>7. Detached'
  <2> SUFFICES ASSUME NEW v \in Users, closing[v] # None
               PROVE  IsDetached(v, closing[v])'
    BY DEF Detached
  <2> DEFINE c == closing[v]
             r == transports[c].ref
  <2>1. c \in DOMAIN transports /\ r \in ToolSet(v) /\ resolved[r] # c
        /\ (r \in Own(v) => resolved[r] = None) /\ v # u
    BY <1>1 DEF IInv, TransportsInv, Detached, IsDetached
  <2>2. transports'[c] = transports[c] /\ r \in Refs /\ c # n /\ c # None
    BY <2>1, <1>3
  <2> HIDE DEF c
  <2>3. resolved'[r] # c
    BY <2>1, <2>2, <1>2
  <2>4. r \in Own(v) => resolved'[r] = None
    BY <2>1, <2>2, <1>2, <1>12
  <2> QED
    BY <2>1, <2>2, <2>3, <2>4 DEF c, IsDetached
<1>8. Accounted'
  <2> SUFFICES ASSUME NEW i \in DOMAIN transports', transports'[i].state = "open",
                      ~Shared(transports'[i].ref)
               PROVE  IsAccounted(i)'
    BY DEF Accounted
  <2>1. CASE i = n
    BY <2>1, <1>2 DEF IsAccounted
  <2>2. CASE i \in DOMAIN transports
    <3>1. IsAccounted(i)
      BY <2>2 DEF IInv, TransportsInv, Accounted
    <3>2. resolved[transports[i].ref] = i => transports[i].ref # h
      BY <1>1, <1>3, <1>4, <2>2
    <3>3. BeingClosed(i) => BeingClosed(i)'
      BY DEF BeingClosed
    <3>4. ~Runs(home[i]) => ~Runs(home[i])'
      BY <2>2 DEF Runs
    <3> QED
      BY <2>2, <3>1, <3>2, <3>3, <3>4, <1>2, <1>3 DEF IsAccounted
  <2> QED
    BY <2>1, <2>2
<1>9. ToolHeld'
  <2> SUFFICES ASSUME NEW v \in Users, tool[v] # None, ~outlived[v]
               PROVE  IsHeld(v, tool[v])'
    BY DEF ToolHeld
  <2> DEFINE m == tool[v]
             r == transports[m].ref
  <2>1. /\ pc[v] \in {"use", "streaming"} /\ r \in ToolSet(v)
        /\ r \in Own(v) => resolved[r] = m /\ transports[m].state = "open"
        /\ m \in DOMAIN transports
    BY DEF IInv, TransportsInv, ToolHeld, IsHeld, Homes
  <2>2. v # u /\ r \in Refs /\ transports'[m] = transports[m]
    BY <2>1, <1>3
  <2>3. r \in Own(v) => resolved'[r] = resolved[r]
    BY <2>2, <1>2, <1>12
  <2> QED
    BY <2>1, <2>2, <2>3 DEF IsHeld
<1> QED
  BY <1>5, <1>6, <1>7, <1>8, <1>9 DEF TransportsInv

LEMMA AppendMeans ==
    ASSUME PortalTypeOK, NEW t \in Transport, NEW p \in PortalNumbers,
           transports' = Append(transports, t), home' = Append(home, p),
           Len(transports) < MaxOpens
    PROVE  LET n == Len(transports) + 1 IN
           /\ transports' \in Seq(Transport) /\ Len(transports') = n /\ n <= MaxOpens
           /\ Len(home') = Len(transports') /\ home' \in Seq(PortalNumbers)
           /\ DOMAIN transports' = DOMAIN transports \cup {n}
           /\ \A i \in DOMAIN transports : transports'[i] = transports[i] /\ home'[i] = home[i]
           /\ transports'[n] = t /\ home'[n] = p
           /\ n \in Opens /\ n # None
<1>1. /\ transports \in Seq(Transport) /\ home \in Seq(PortalNumbers)
      /\ Len(home) = Len(transports) /\ Len(transports) \in Nat
  BY DEF PortalTypeOK, TypeOK, Transport
<1>2. Len(transports) + 1 \in Opens /\ Len(transports) + 1 # None /\ Len(transports) + 1 <= MaxOpens
  BY <1>1, Opening DEF Opens, None
<1>3. /\ transports' \in Seq(Transport) /\ Len(transports') = Len(transports) + 1
      /\ \A i \in 1..Len(transports) : transports'[i] = transports[i]
      /\ transports'[Len(transports) + 1] = t
  BY <1>1
<1>4. /\ home' \in Seq(PortalNumbers) /\ Len(home') = Len(home) + 1
      /\ \A i \in 1..Len(home) : home'[i] = home[i]
      /\ home'[Len(home) + 1] = p
  BY <1>1
<1>5. /\ DOMAIN transports = 1..Len(transports)
      /\ DOMAIN transports' = 1..(Len(transports) + 1)
  BY <1>1, <1>3
<1>6. 1..(Len(transports) + 1) = 1..Len(transports) \cup {Len(transports) + 1}
  BY <1>1
<1> QED
  BY <1>1, <1>2, <1>3, <1>4, <1>5, <1>6

\* The other variables, when a transport was opened or was not.
LEMMA OpeningEndsPortal ==
    ASSUME IInv, NEW u \in Users, OpeningEnds(u)
    PROVE  /\ UNCHANGED <<http, portal, stack, portals, closes, raced, step, placed>>
           /\ pc[u] = "opening" /\ step[u] = "none" /\ via'[u] = None
           /\ via' \in [Users -> PortalNumbers] /\ \A v \in Users : v # u => via'[v] = via[v]
<1>1. /\ UNCHANGED <<http, portal, stack, portals, closes, raced, step, placed>>
      /\ pc[u] = "opening" /\ via' = [via EXCEPT ![u] = None]
  BY DEF OpeningEnds, loop, Opened, OpenFailed
<1> QED
  BY <1>1, WhileOpening, ViaMeans, NoPortal DEF IInv, PortalInv

LEMMA OpenedStep ==
    ASSUME IInv, NEW u \in Users, OpeningEnds(u), Opened(u)
    PROVE  IInv'
<1> DEFINE h == Head(todo[u])
           n == Len(transports) + 1
<1>1. /\ UNCHANGED <<http, portal, stack, portals, closes, raced, step, placed>>
      /\ pc[u] = "opening" /\ step[u] = "none" /\ via'[u] = None
      /\ via' \in [Users -> PortalNumbers] /\ \A v \in Users : v # u => via'[v] = via[v]
  BY OpeningEndsPortal
<1>2. /\ closing[u] = None /\ todo[u] \in Seq(ToolSet(u)) /\ todo[u] # <<>>
      /\ h \in ToolSet(u) /\ h \in Refs
      /\ \A r \in Own(u) : resolved[r] # None \/ In(todo[u], r)
  BY <1>1, WhileOpening
<1>3. /\ transports' = Append(transports, [ref |-> h, state |-> "open"])
      /\ Len(transports) < MaxOpens
      /\ resolved' = [resolved EXCEPT ![h] = Len(transports')]
      /\ todo' = [todo EXCEPT ![u] = Tail(todo[u])]
      /\ pc' = [pc EXCEPT ![u] = "resolve"]
      /\ UNCHANGED <<call, closing, ended, client, tool, outlived>>
  BY DEF Opened, Goto, rest
<1>4. /\ Len(transports') > Len(transports) /\ home' = Append(home, via[u])
  <2>1. Len(transports') = Len(transports) + 1 /\ Len(transports) \in Nat
    BY <1>3 DEF IInv, PortalInv, PortalTypeOK, TypeOK
  <2> QED
    BY <2>1 DEF OpeningEnds
<1>5. /\ transports' \in Seq(Transport) /\ Len(transports') = n /\ n <= MaxOpens
      /\ Len(home') = Len(transports') /\ home' \in Seq(PortalNumbers)
      /\ DOMAIN transports' = DOMAIN transports \cup {n}
      /\ \A i \in DOMAIN transports : transports'[i] = transports[i] /\ home'[i] = home[i]
      /\ transports'[n] = [ref |-> h, state |-> "open"] /\ home'[n] = via[u]
      /\ n \in Opens /\ n # None
  <2>1. [ref |-> h, state |-> "open"] \in Transport /\ via[u] \in PortalNumbers
    BY <1>2 DEF Transport, IInv, PortalInv, PortalTypeOK
  <2> HIDE DEF h
  <2> QED
    BY <1>3, <1>4, <2>1, AppendMeans DEF IInv, PortalInv
<1>6. Tail(todo[u]) \in Seq(ToolSet(u)) /\ \A x : In(todo[u], x) => x = h \/ In(Tail(todo[u]), x)
  BY <1>2, HeadTail
<1> HIDE DEF h, n
<1>7. /\ pc' \in [Users -> Places] /\ pc'[u] = "resolve"
      /\ \A v \in Users : v # u => pc'[v] = pc[v]
  <2>1. pc \in [Users -> Places]
    BY DEF IInv, PortalInv, PortalTypeOK, TypeOK, Places
  <2> QED
    BY <1>3, <2>1 DEF Places
<1>8. /\ todo' \in [Users -> Seq(Refs)] /\ todo'[u] = Tail(todo[u])
      /\ \A v \in Users : v # u => todo'[v] = todo[v]
  BY <1>3, <1>6, ToolsOfUser DEF IInv, PortalInv, PortalTypeOK, TypeOK
<1>9. /\ resolved' \in [Refs -> Opens] /\ resolved'[h] = n
      /\ \A r \in Refs : r # h => resolved'[r] = resolved[r]
  BY <1>2, <1>3, <1>5 DEF IInv, PortalInv, PortalTypeOK, TypeOK
<1>10. PortalTypeOK'
  <2>1. TypeOK'
    BY <1>3, <1>5, <1>7, <1>8, <1>9
       DEF IInv, PortalInv, PortalTypeOK, TypeOK, Places, Transport
  <2> QED
    BY <2>1, <1>1, <1>5 DEF IInv, PortalInv, PortalTypeOK
<1>11. PortalInv'
  BY <1>1, <1>3, <1>7, <1>10, PortalFrame DEF IInv
<1>12. CallsInv'
  <2>1. Progress(u)'
    <3>1. \A r \in Own(u) : resolved'[r] # None \/ In(Tail(todo[u]), r)
      BY <1>2, <1>5, <1>6, <1>9, ToolsOfUser
    <3> QED
      BY <1>2, <1>3, <1>6, <1>7, <1>8, <3>1 DEF Progress
  <2> QED
    BY <1>2, <1>3, <1>7, <1>8, <1>9, <2>1, CallsFrame DEF IInv
<1>13. TransportsInv'
  BY <1>1, <1>3, <1>5, <1>7, TransportAdded DEF h, n
<1> QED
  BY <1>11, <1>12, <1>13 DEF IInv

LEMMA OpenFailedStep ==
    ASSUME IInv, NEW u \in Users, OpeningEnds(u), OpenFailed(u)
    PROVE  IInv'
<1> DEFINE n == Len(transports) + 1
<1>1. /\ UNCHANGED <<http, portal, stack, portals, closes, raced, step, placed>>
      /\ pc[u] = "opening" /\ step[u] = "none" /\ via'[u] = None
      /\ via' \in [Users -> PortalNumbers] /\ \A v \in Users : v # u => via'[v] = via[v]
  BY OpeningEndsPortal
<1>2. closing[u] = None /\ Head(todo[u]) \in Refs
  BY <1>1, WhileOpening
<1>3. Over(u, "left") /\ UNCHANGED <<resolved, closing, client, tool, outlived>>
  BY DEF OpenFailed, rest
<1>4. MovesTo(u, "idle", "none", <<>>, "left")
  BY <1>3, OverMoves DEF IInv, PortalInv, PortalTypeOK
<1>5. /\ pc' \in [Users -> Places]
      /\ call' \in [Users -> Calls \cup {"none"}]
      /\ todo' \in [Users -> Seq(Refs)]
      /\ ended' \in [Users -> {"new", "closed", "left"}]
      /\ pc'[u] = "idle" /\ todo'[u] = <<>> /\ ended'[u] = "left"
      /\ \A v \in Users : v # u =>
            pc'[v] = pc[v] /\ todo'[v] = todo[v] /\ ended'[v] = ended[v]
  <2>1. "idle" \in Places /\ "none" \in Calls \cup {"none"} /\ <<>> \in Seq(Refs)
    BY DEF Places
  <2> QED
    BY <1>4, <2>1, MoveMeans DEF IInv, PortalInv, PortalTypeOK
<1>6. CallsInv'
  <2>1. Progress(u)'
    BY <1>2, <1>3, <1>5, EmptyList DEF Progress
  <2> QED
    BY <1>3, <1>5, <2>1, CallsFrame, ToolsOfUser DEF IInv
<1>7. CASE UNCHANGED transports
  <2>1. UNCHANGED home
    BY <1>7 DEF OpeningEnds, IInv, PortalInv, PortalTypeOK, TypeOK
  <2>2. PortalTypeOK'
    BY <1>1, <1>3, <1>5, <1>7, <2>1 DEF IInv, PortalInv, PortalTypeOK, TypeOK, Places
  <2>3. PortalInv'
    BY <1>1, <1>3, <1>5, <2>2, PortalFrame DEF IInv
  <2>4. TransportsInv'
    BY <1>1, <1>3, <1>5, <1>7, <2>1, TransportsFrame, SamePortalsAge DEF IInv
  <2> QED
    BY <1>6, <2>3, <2>4 DEF IInv
<1>8. CASE /\ Len(transports) < MaxOpens
           /\ transports' = Append(transports, [ref |-> Head(todo[u]), state |-> "orphan"])
  <2> DEFINE t == [ref |-> Head(todo[u]), state |-> "orphan"]
  <2>1. home' = Append(home, via[u])
    <3>1. Len(transports') = Len(transports) + 1 /\ Len(transports) \in Nat
      BY <1>8 DEF IInv, PortalInv, PortalTypeOK, TypeOK
    <3> QED
      BY <3>1 DEF OpeningEnds
  <2>2. t \in Transport /\ via[u] \in PortalNumbers /\ t.state = "orphan"
    BY <1>2 DEF Transport, IInv, PortalInv, PortalTypeOK
  <2>3. transports' = Append(transports, t)
    BY <1>8
  <2> HIDE DEF t
  <2>4. /\ transports' \in Seq(Transport) /\ Len(transports') = n /\ n <= MaxOpens
        /\ Len(home') = Len(transports') /\ home' \in Seq(PortalNumbers)
        /\ DOMAIN transports' = DOMAIN transports \cup {n}
        /\ \A i \in DOMAIN transports : transports'[i] = transports[i] /\ home'[i] = home[i]
        /\ transports'[n] = t /\ home'[n] = via[u]
    BY <1>8, <2>1, <2>2, <2>3, AppendMeans DEF IInv, PortalInv
  <2> HIDE DEF n
  <2>5. PortalTypeOK'
    <3>1. TypeOK'
      BY <1>3, <1>5, <2>4 DEF IInv, PortalInv, PortalTypeOK, TypeOK, Places, Transport
    <3> QED
      BY <3>1, <1>1, <2>4 DEF IInv, PortalInv, PortalTypeOK
  <2>6. PortalInv'
    BY <1>1, <1>3, <1>5, <2>5, PortalFrame DEF IInv
  <2>7. TransportsInv'
    BY <1>1, <1>3, <1>5, <2>2, <2>4, TransportAdded DEF n
  <2> QED
    BY <1>6, <2>6, <2>7 DEF IInv
<1> QED
  BY <1>7, <1>8 DEF OpenFailed

-----------------------------------------------------------------------------
(* The transports: calling one.                                            *)

\* The steps that leave the calls where they are, and the portals.
LEMMA PortalStays ==
    ASSUME PortalInv, PortalTypeOK',
           UNCHANGED <<client, portal, stack, portals, closes, raced, step, via, pc>>
    PROVE  PortalInv'
<1>1. TasksHaveNoPortal' /\ StepPlaces'
  BY DEF PortalInv, TasksHaveNoPortal, StepPlaces
<1>2. Hands'
  BY DEF PortalInv, Hands, InHand
<1>3. PortalRuns' /\ OnePortal'
  BY DEF PortalInv, PortalRuns, OnePortal
<1> QED
  BY <1>1, <1>2, <1>3 DEF PortalInv

LEMMA DispatchOnStep ==
    ASSUME IInv, NEW u \in Users, DispatchOn(u)
    PROVE  IInv'
<1>1. PICK r \in ToolSet(u) : resolved[r] # None /\ tool' = [tool EXCEPT ![u] = resolved[r]]
  BY DEF DispatchOn, Dispatch
<1> DEFINE n == resolved[r]
<1>2. /\ pc[u] \in {"use", "streaming"}
      /\ UNCHANGED <<resolved, transports, pc, call, todo, closing, ended, client, outlived>>
      /\ UNCHANGED <<http, portal, stack, portals, closes, raced, step, via, home>>
  BY DEF DispatchOn, Dispatch, refs, user, loop, thread
<1>3. /\ n \in DOMAIN transports /\ n \in Opens
      /\ transports[n].state # "open" =>
            client = "threads" /\ portals[home[n]] = "stopped"
  <2>1. r \in Refs /\ n # None
    BY <1>1, ToolsOfUser
  <2> QED
    BY <2>1 DEF IInv, TransportsInv, Attached, PortalInv, PortalTypeOK, TypeOK
<1>12. transports[n].ref = r
  BY <1>1, ToolsOfUser DEF IInv, TransportsInv, Attached
<1>4. tool' \in [Users -> Opens] /\ tool'[u] = n /\ \A v \in Users : v # u => tool'[v] = tool[v]
  BY <1>1, <1>3 DEF IInv, PortalInv, PortalTypeOK, TypeOK
<1>5. /\ placed' \in [Users -> PortalNumbers] /\ placed'[u] = home[n]
      /\ \A v \in Users : v # u => placed'[v] = placed[v]
  <2>1. placed' = [placed EXCEPT ![u] = home[n]]
    BY <1>4 DEF DispatchOn, CallPortal
  <2>2. home[n] \in PortalNumbers
    <3>1. /\ home \in Seq(PortalNumbers) /\ Len(home) = Len(transports)
          /\ transports \in Seq(Transport)
      BY DEF IInv, PortalInv, PortalTypeOK, TypeOK, Transport
    <3>2. n \in 1..Len(home)
      BY <1>3, <3>1
    <3> QED
      BY <3>1, <3>2
  <2> QED
    BY <2>1, <2>2 DEF IInv, PortalInv, PortalTypeOK
<1>6. transports[n].state = "open"
  BY <1>3, <1>4 DEF DispatchOn, CallPortal, Runs
<1> HIDE DEF n
<1>7. PortalTypeOK'
  BY <1>2, <1>4, <1>5 DEF IInv, PortalInv, PortalTypeOK, TypeOK
<1>8. PortalInv'
  BY <1>2, <1>7, PortalStays DEF IInv
<1>9. CallsInv'
  BY <1>2 DEF IInv, CallsInv, Progress
<1>10. Homes' /\ Attached' /\ Detached' /\ Accounted'
  <2>1. Homes'
    BY <1>2, <1>3, <1>4, <1>5 DEF IInv, TransportsInv, Homes
  <2>2. Attached' /\ Detached'
    BY <1>2 DEF IInv, TransportsInv, Attached, Detached, IsDetached
  <2>3. Accounted'
    BY <1>2 DEF IInv, TransportsInv, Accounted, IsAccounted, BeingClosed, Runs
  <2> QED
    BY <2>1, <2>2, <2>3
<1>11. ToolHeld'
  <2>1. /\ tool'[u] = n /\ resolved'[transports[n].ref] = n
        /\ transports[n].ref \in ToolSet(u)
    BY <1>1, <1>2, <1>4, <1>12 DEF n
  <2>2. ASSUME NEW v \in Users, v # u, tool[v] # None, ~outlived[v]
        PROVE  IsHeld(v, tool[v])'
    <3>1. IsHeld(v, tool[v])
      BY <2>2 DEF IInv, TransportsInv, ToolHeld
    <3> QED
      BY <2>2, <3>1, <1>2, <1>4 DEF IsHeld
  <2>3. \A v \in Users : tool'[v] # None /\ ~outlived'[v] => IsHeld(v, tool[v])'
    <3> SUFFICES ASSUME NEW v \in Users, tool'[v] # None, ~outlived'[v]
                 PROVE  IsHeld(v, tool[v])'
      OBVIOUS
    <3>1. CASE v = u
      BY <3>1, <2>1, <1>2, <1>6 DEF IsHeld
    <3>2. CASE v # u
      BY <3>2, <2>2, <1>2, <1>4 DEF IsHeld
    <3> QED
      BY <3>1, <3>2
  <2> QED
    BY <2>3 DEF ToolHeld
<1> QED
  BY <1>8, <1>9, <1>10, <1>11 DEF IInv, TransportsInv

LEMMA AnsweredOnStep ==
    ASSUME IInv, NEW u \in Users, AnsweredOn(u)
    PROVE  IInv'
<1>1. /\ tool' = [tool EXCEPT ![u] = None] /\ outlived' = [outlived EXCEPT ![u] = FALSE]
      /\ placed' = [placed EXCEPT ![u] = None]
      /\ UNCHANGED <<resolved, transports, pc, call, todo, closing, ended, client>>
      /\ UNCHANGED <<http, portal, stack, portals, closes, raced, step, via, home>>
  BY DEF AnsweredOn, Answered, refs, user, loop, thread
<1>2. /\ tool' \in [Users -> Opens] /\ tool'[u] = None
      /\ outlived' \in [Users -> BOOLEAN] /\ placed' \in [Users -> PortalNumbers]
      /\ \A v \in Users : v # u => /\ tool'[v] = tool[v] /\ placed'[v] = placed[v]
                                   /\ outlived'[v] = outlived[v]
  BY <1>1, Opening, NoPortal DEF IInv, PortalInv, PortalTypeOK, TypeOK
<1>3. PortalTypeOK'
  BY <1>1, <1>2 DEF IInv, PortalInv, PortalTypeOK, TypeOK
<1>4. PortalInv'
  BY <1>1, <1>3, PortalStays DEF IInv
<1>5. CallsInv'
  BY <1>1 DEF IInv, CallsInv, Progress
<1>6. Homes'
  BY <1>1, <1>2 DEF IInv, TransportsInv, Homes
<1>7. Attached' /\ Detached'
  BY <1>1 DEF IInv, TransportsInv, Attached, Detached, IsDetached
<1>8. Accounted'
  BY <1>1 DEF IInv, TransportsInv, Accounted, IsAccounted, BeingClosed, Runs
<1>9. ToolHeld'
  BY <1>1, <1>2 DEF IInv, TransportsInv, ToolHeld, IsHeld
<1> QED
  BY <1>4, <1>5, <1>6, <1>7, <1>8, <1>9 DEF IInv, TransportsInv

-----------------------------------------------------------------------------
(* The transports: closing one.                                            *)

\* What a user whose close loop has come to an attached reference has in hand.
LEMMA WhileDetaching ==
    ASSUME IInv, NEW u \in Users, pc[u] = "close", todo[u] # <<>>,
           resolved[Head(todo[u])] # None
    PROVE  LET h == Head(todo[u]) IN
           /\ step[u] = "none" /\ closing[u] = None
           /\ h \in ToolSet(u) /\ h \in Refs
           /\ resolved[h] \in DOMAIN transports /\ resolved[h] \in Opens
           /\ transports[resolved[h]].ref = h
           /\ Tail(todo[u]) \in Seq(ToolSet(u)) /\ Tail(todo[u]) \in Seq(Refs)
           /\ \A r \in Own(u) : resolved[r] = None \/ r = h \/ In(Tail(todo[u]), r)
<1>1. Progress(u)
  BY DEF IInv, CallsInv
<1>2. /\ Head(todo[u]) \in ToolSet(u) /\ Tail(todo[u]) \in Seq(ToolSet(u))
      /\ \A x : In(todo[u], x) => x = Head(todo[u]) \/ In(Tail(todo[u]), x)
  BY <1>1, HeadTail DEF Progress
<1>3. Head(todo[u]) \in Refs /\ Tail(todo[u]) \in Seq(Refs)
  BY <1>2, ToolsOfUser
<1>4. step[u] = "none"
  BY DEF IInv, PortalInv, PortalTypeOK, StepPlaces, StartSteps
<1>5. /\ resolved[Head(todo[u])] \in DOMAIN transports
      /\ transports[resolved[Head(todo[u])]].ref = Head(todo[u])
  BY <1>3 DEF IInv, TransportsInv, Attached
<1>6. resolved[Head(todo[u])] \in Opens
  BY <1>3 DEF IInv, PortalInv, PortalTypeOK, TypeOK
<1> QED
  BY <1>1, <1>2, <1>3, <1>4, <1>5, <1>6 DEF Progress

\* A reference is detached: its transport is being closed, or its portal gone.
LEMMA TransportDetached ==
    ASSUME IInv, NEW u \in Users, NEW h \in ToolSet(u), NEW n,
           n = resolved[h], n # None, n \in DOMAIN transports, transports[n].ref = h,
           closing[u] = None, pc[u] = "close",
           resolved' = [resolved EXCEPT ![h] = None],
           \/ closing' = [closing EXCEPT ![u] = n]
           \/ UNCHANGED closing /\ client = "threads" /\ ~Runs(home[n]),
           \A v \in Users : v # u => pc'[v] = pc[v],
           UNCHANGED <<client, transports, tool, outlived, portals, closes, home, placed>>
    PROVE  TransportsInv'
<1>1. /\ h \in Refs /\ resolved'[h] = None
      /\ \A r \in Refs : r # h => resolved'[r] = resolved[r]
  BY ToolsOfUser DEF IInv, PortalInv, PortalTypeOK, TypeOK
<1>2. /\ \A v \in Users : v # u => closing'[v] = closing[v]
      /\ closing'[u] \in {None, n}
      /\ closing'[u] = n \/ (client = "threads" /\ ~Runs(home[n]))
  BY DEF IInv, PortalInv, PortalTypeOK, TypeOK
<1>3. \A i \in DOMAIN transports : transports[i].ref \in Refs
  <2>1. transports \in Seq(Transport)
    BY DEF IInv, PortalInv, PortalTypeOK, TypeOK, Transport
  <2>2. \A i \in DOMAIN transports : transports[i] \in Transport
    BY <2>1
  <2> QED
    BY <2>2 DEF Transport
<1>4. Homes'
  BY DEF IInv, TransportsInv, Homes
<1>5. Attached'
  BY <1>1 DEF IInv, TransportsInv, Attached
<1>6. Detached'
  <2> SUFFICES ASSUME NEW v \in Users, closing'[v] # None
               PROVE  IsDetached(v, closing[v])'
    BY DEF Detached
  <2>1. CASE v = u
    BY <2>1, <1>1, <1>2 DEF IsDetached
  <2>2. CASE v # u
    <3>1. IsDetached(v, closing[v]) /\ closing'[v] = closing[v]
      BY <2>2, <1>2 DEF IInv, TransportsInv, Detached
    <3> QED
      BY <3>1, <1>1, <1>3 DEF IsDetached
  <2> QED
    BY <2>1, <2>2
<1>7. Accounted'
  <2> SUFFICES ASSUME NEW i \in DOMAIN transports, transports[i].state = "open",
                      ~Shared(transports[i].ref)
               PROVE  IsAccounted(i)'
    BY DEF Accounted
  <2>1. \/ resolved[transports[i].ref] = i
        \/ BeingClosed(i)
        \/ client = "threads" /\ ~Runs(home[i])
    BY DEF IInv, TransportsInv, Accounted, IsAccounted
  <2>2. ~Runs(home[i]) => ~Runs(home[i])'
    BY DEF Runs
  <2>3. CASE i = n
    BY <2>3, <2>2, <1>2 DEF IsAccounted, BeingClosed
  <2>4. CASE i # n
    <3>1. resolved[transports[i].ref] = i => resolved'[transports[i].ref] = i
      BY <2>4, <1>1, <1>3
    <3>2. ASSUME BeingClosed(i) PROVE BeingClosed(i)'
      <4>1. PICK w \in Users : closing[w] = i
        BY <3>2 DEF BeingClosed
      <4>2. i # None
        BY DEF IInv, PortalInv, PortalTypeOK, TypeOK, None
      <4>3. closing'[w] = i
        BY <4>1, <4>2, <1>2
      <4> QED
        BY <4>3 DEF BeingClosed
    <3> QED
      BY <2>1, <2>2, <3>1, <3>2 DEF IsAccounted
  <2> QED
    BY <2>3, <2>4
<1>8. ToolHeld'
  <2> SUFFICES ASSUME NEW v \in Users, tool[v] # None, ~outlived[v]
               PROVE  IsHeld(v, tool[v])'
    BY DEF ToolHeld
  <2> DEFINE m == tool[v]
             r == transports[m].ref
  <2>1. /\ pc[v] \in {"use", "streaming"} /\ r \in ToolSet(v)
        /\ r \in Own(v) => resolved[r] = m /\ transports[m].state = "open"
    BY DEF IInv, TransportsInv, ToolHeld, IsHeld
  <2>2. v # u /\ r \in Refs
    BY <2>1, ToolsOfUser
  <2>3. r \in Own(v) => resolved'[r] = resolved[r]
    BY <2>1, <2>2, <1>1, OwnOrShared
  <2> QED
    BY <2>1, <2>2, <2>3 DEF IsHeld
<1> QED
  BY <1>4, <1>5, <1>6, <1>7, <1>8 DEF TransportsInv

LEMMA CloseOnStep ==
    ASSUME IInv, NEW u \in Users, CloseOn(u)
    PROVE  IInv'
<1> DEFINE h == Head(todo[u])
           n == resolved[h]
<1>1. /\ pc[u] = "close" /\ todo[u] # <<>> /\ n # None
      /\ resolved' = [resolved EXCEPT ![h] = None]
      /\ todo' = [todo EXCEPT ![u] = Tail(todo[u])]
      /\ \/ UNCHANGED <<closing, pc>> /\ client = "threads" /\ ~Runs(home[n])
         \/ closing' = [closing EXCEPT ![u] = n] /\ pc' = [pc EXCEPT ![u] = "closing"]
      /\ UNCHANGED <<transports, call, ended, client, tool, outlived>>
      /\ UNCHANGED <<http, portal, stack, portals, closes, raced, step, via, home, placed>>
  BY DEF CloseOn, CloseNext, Detach, Goto, rest, pvars, loop, thread
<1>2. /\ step[u] = "none" /\ closing[u] = None
      /\ h \in ToolSet(u) /\ h \in Refs
      /\ n \in DOMAIN transports /\ n \in Opens /\ transports[n].ref = h
      /\ Tail(todo[u]) \in Seq(ToolSet(u)) /\ Tail(todo[u]) \in Seq(Refs)
      /\ \A r \in Own(u) : resolved[r] = None \/ r = h \/ In(Tail(todo[u]), r)
  BY <1>1, WhileDetaching
<1> HIDE DEF h, n
<1>3. /\ resolved' \in [Refs -> Opens] /\ resolved'[h] = None
      /\ \A r \in Refs : r # h => resolved'[r] = resolved[r]
  BY <1>1, <1>2, Opening DEF IInv, PortalInv, PortalTypeOK, TypeOK
<1>4. /\ todo' \in [Users -> Seq(Refs)] /\ todo'[u] = Tail(todo[u])
      /\ \A v \in Users : v # u => todo'[v] = todo[v]
  BY <1>1, <1>2 DEF IInv, PortalInv, PortalTypeOK, TypeOK
<1>5. /\ pc' \in [Users -> Places] /\ closing' \in [Users -> Opens]
      /\ \A v \in Users : v # u => pc'[v] = pc[v] /\ closing'[v] = closing[v]
      /\ \/ pc'[u] = "close" /\ closing'[u] = None
         \/ pc'[u] = "closing" /\ closing'[u] = n
  <2>1. pc \in [Users -> Places] /\ closing \in [Users -> Opens] /\ "closing" \in Places
    BY DEF IInv, PortalInv, PortalTypeOK, TypeOK, Places
  <2>2. CASE UNCHANGED <<closing, pc>>
    BY <2>1, <2>2, <1>1, <1>2
  <2>3. CASE closing' = [closing EXCEPT ![u] = n] /\ pc' = [pc EXCEPT ![u] = "closing"]
    <3>1. closing' \in [Users -> Opens] /\ closing'[u] = n
          /\ \A v \in Users : v # u => closing'[v] = closing[v]
      BY <2>1, <2>3, <1>2
    <3>2. pc' \in [Users -> Places] /\ pc'[u] = "closing"
          /\ \A v \in Users : v # u => pc'[v] = pc[v]
      BY <2>1, <2>3
    <3> QED
      BY <3>1, <3>2
  <2> QED
    BY <1>1, <2>2, <2>3
<1>6. PortalTypeOK'
  BY <1>1, <1>3, <1>4, <1>5 DEF IInv, PortalInv, PortalTypeOK, TypeOK, Places
<1>7. PortalInv'
  BY <1>1, <1>2, <1>5, <1>6, PortalFrame DEF IInv, PortalInv, TasksHaveNoPortal
<1>8. CallsInv'
  <2>1. \A r \in Own(u) : resolved'[r] = None \/ In(Tail(todo[u]), r)
    BY <1>2, <1>3, ToolsOfUser
  <2>2. Progress(u)'
    BY <1>1, <1>2, <1>4, <1>5, <2>1 DEF Progress
  <2>3. \A r \in Refs \ ToolSet(u) : resolved'[r] = resolved[r]
    BY <1>2, <1>3
  <2> QED
    BY <1>1, <1>4, <1>5, <2>2, <2>3, CallsFrame DEF IInv
<1>9. TransportsInv'
  BY <1>1, <1>2, <1>5, TransportDetached DEF n
<1> QED
  BY <1>7, <1>8, <1>9 DEF IInv

\* A close() returns to the call's close loop or leaves the run or session.
LEMMA BackOrLeft ==
    ASSUME TypeOK, NEW u \in Users, todo[u] \in Seq(ToolSet(u)),
           \/ Goto(u, "close") /\ UNCHANGED <<call, todo, ended>>
           \/ Over(u, "left")
    PROVE  /\ pc' \in [Users -> Places] /\ call' \in [Users -> Calls \cup {"none"}]
           /\ todo' \in [Users -> Seq(Refs)] /\ ended' \in [Users -> {"new", "closed", "left"}]
           /\ todo'[u] \in Seq(ToolSet(u))
           /\ \/ pc'[u] = "close" /\ todo'[u] = todo[u]
              \/ pc'[u] = "idle" /\ ended'[u] = "left"
           /\ \A v \in Users : v # u =>
                 pc'[v] = pc[v] /\ todo'[v] = todo[v] /\ ended'[v] = ended[v]
<1>1. /\ call[u] \in Calls \cup {"none"} /\ ended[u] \in {"new", "closed", "left"}
      /\ todo[u] \in Seq(Refs) /\ <<>> \in Seq(Refs) /\ <<>> \in Seq(ToolSet(u))
      /\ "close" \in Places /\ "idle" \in Places
  BY ToolsOfUser, EmptyList DEF TypeOK, Places
<1>2. CASE Goto(u, "close") /\ UNCHANGED <<call, todo, ended>>
  <2>1. MovesTo(u, "close", call[u], todo[u], ended[u])
    BY <1>2, GotoMoves
  <2> QED
    BY <1>1, <2>1, MoveMeans
<1>3. CASE Over(u, "left")
  <2>1. MovesTo(u, "idle", "none", <<>>, "left")
    BY <1>3, OverMoves
  <2> QED
    BY <1>1, <2>1, MoveMeans
<1> QED
  BY <1>2, <1>3

LEMMA ClosingEndsStep ==
    ASSUME IInv, NEW u \in Users, ClosingEnds(u)
    PROVE  IInv'
<1> DEFINE c == closing[u]
<1>1. PICK s \in {"orphan", "closed"} :
          transports' = [transports EXCEPT ![c].state = s]
  BY DEF ClosingEnds, Closed, CloseInterrupted
<1>2. /\ pc[u] = "closing"
      /\ closing' = [closing EXCEPT ![u] = None]
      /\ \/ Goto(u, "close") /\ UNCHANGED <<call, todo, ended>>
         \/ Over(u, "left")
      /\ UNCHANGED <<resolved, client, tool, outlived>>
      /\ UNCHANGED <<http, portal, stack, portals, closes, raced, step, via, home, placed>>
  BY DEF ClosingEnds, Closed, CloseInterrupted, rest, pvars, loop, thread
<1>3. Progress(u) /\ c # None
  BY <1>2 DEF IInv, CallsInv, Progress
<1>4. /\ c \in DOMAIN transports /\ transports[c].ref \in ToolSet(u)
      /\ resolved[transports[c].ref] # c
      /\ transports[c].ref \in Own(u) => resolved[transports[c].ref] = None
  BY <1>3 DEF IInv, TransportsInv, Detached, IsDetached
<1>5. /\ transports' \in Seq(Transport) /\ Len(transports') = Len(transports)
      /\ DOMAIN transports' = DOMAIN transports
      /\ transports'[c].state = s /\ transports'[c].ref = transports[c].ref
      /\ \A i \in DOMAIN transports : i # c => transports'[i] = transports[i]
  <2>1. transports \in Seq(Transport)
    BY DEF IInv, PortalInv, PortalTypeOK, TypeOK, Transport
  <2>2. c \in 1..Len(transports) /\ Len(transports) \in Nat /\ transports[c] \in Transport
    BY <2>1, <1>4
  <2> DEFINE t == [transports[c] EXCEPT !.state = s]
  <2>3. t \in Transport /\ t.state = s /\ t.ref = transports[c].ref
    BY <2>2 DEF Transport
  <2>4. transports' = [transports EXCEPT ![c] = t]
    BY <1>1
  <2> HIDE DEF t, c
  <2> QED
    BY <2>1, <2>2, <2>3, <2>4
<1>7. /\ pc' \in [Users -> Places] /\ call' \in [Users -> Calls \cup {"none"}]
      /\ todo' \in [Users -> Seq(Refs)] /\ ended' \in [Users -> {"new", "closed", "left"}]
      /\ todo'[u] \in Seq(ToolSet(u))
      /\ \/ pc'[u] = "close" /\ todo'[u] = todo[u]
         \/ pc'[u] = "idle" /\ ended'[u] = "left"
      /\ \A v \in Users : v # u =>
            pc'[v] = pc[v] /\ todo'[v] = todo[v] /\ ended'[v] = ended[v]
  BY <1>2, <1>3, BackOrLeft DEF IInv, PortalInv, PortalTypeOK, Progress
<1>8. /\ closing' \in [Users -> Opens] /\ closing'[u] = None
      /\ \A v \in Users : v # u => closing'[v] = closing[v]
  BY <1>2, Opening DEF IInv, PortalInv, PortalTypeOK, TypeOK
<1> HIDE DEF c
<1>9. step[u] = "none"
  BY <1>2 DEF IInv, PortalInv, PortalTypeOK, StepPlaces, StartSteps
<1>10. PortalTypeOK'
  BY <1>2, <1>5, <1>7, <1>8 DEF IInv, PortalInv, PortalTypeOK, TypeOK, Places, Transport
<1>11. PortalInv'
  BY <1>2, <1>7, <1>9, <1>10, PortalFrame DEF IInv, PortalInv, TasksHaveNoPortal
<1>12. CallsInv'
  <2>1. Progress(u)'
    BY <1>2, <1>3, <1>7, <1>8 DEF Progress
  <2> QED
    BY <1>2, <1>7, <1>8, <2>1, CallsFrame, ToolsOfUser DEF IInv
<1>13. Homes'
  BY <1>2, <1>5 DEF IInv, TransportsInv, Homes
<1>14. \A r \in Refs : resolved[r] # None => resolved[r] \in DOMAIN transports /\ resolved[r] # c
  BY <1>4 DEF IInv, TransportsInv, Attached
<1>15. Attached'
  BY <1>2, <1>5, <1>14 DEF IInv, TransportsInv, Attached
<1>16. Detached'
  BY <1>2, <1>5, <1>8 DEF IInv, TransportsInv, Detached, IsDetached
<1>17. Accounted'
  <2> SUFFICES ASSUME NEW i \in DOMAIN transports, i # c, transports[i].state = "open",
                      ~Shared(transports[i].ref)
               PROVE  IsAccounted(i)'
    BY <1>5 DEF Accounted
  <2>1. \/ resolved[transports[i].ref] = i
        \/ BeingClosed(i)
        \/ client = "threads" /\ ~Runs(home[i])
    BY DEF IInv, TransportsInv, Accounted, IsAccounted
  <2>2. ~Runs(home[i]) => ~Runs(home[i])'
    BY <1>2 DEF Runs
  <2>3. BeingClosed(i) => BeingClosed(i)'
    BY <1>8 DEF BeingClosed, c
  <2> QED
    BY <2>1, <2>2, <2>3, <1>2, <1>5 DEF IsAccounted
<1>18. ToolHeld'
  <2> SUFFICES ASSUME NEW v \in Users, tool[v] # None, ~outlived[v]
               PROVE  IsHeld(v, tool[v])'
    BY <1>2 DEF ToolHeld
  <2> DEFINE m == tool[v]
             r == transports[m].ref
  <2>1. /\ pc[v] \in {"use", "streaming"} /\ r \in ToolSet(v)
        /\ r \in Own(v) => resolved[r] = m /\ transports[m].state = "open"
        /\ m \in DOMAIN transports /\ v # u
    BY <1>2 DEF IInv, TransportsInv, ToolHeld, IsHeld, Homes
  <2>2. transports'[m].ref = r
    BY <2>1, <1>5
  <2>3. r \in Own(v) => transports'[m].state = "open"
    BY <2>1, <1>4, <1>5
  <2> QED
    BY <2>1, <2>2, <2>3, <1>2, <1>7 DEF IsHeld
<1> QED
  BY <1>11, <1>12, <1>13, <1>15, <1>16, <1>17, <1>18 DEF IInv, TransportsInv

-----------------------------------------------------------------------------
(* close() of the client: the portal it stops, and the transports on it.   *)

\* Its transports end with a portal, the others stay as they are.
LEMMA TransportsEnd ==
    ASSUME PortalTypeOK, NEW p,
           transports' = [n \in DOMAIN transports |->
               IF home[n] = p THEN [transports[n] EXCEPT !.state = "closed"] ELSE transports[n]]
    PROVE  /\ transports' \in Seq(Transport) /\ Len(transports') = Len(transports)
           /\ DOMAIN transports' = DOMAIN transports
           /\ \A n \in DOMAIN transports :
                 /\ transports'[n].ref = transports[n].ref
                 /\ home[n] = p => transports'[n].state = "closed"
                 /\ home[n] # p => transports'[n] = transports[n]
<1>1. transports \in Seq(Transport)
  BY DEF PortalTypeOK, TypeOK, Transport
<1>2. /\ Len(transports) \in Nat /\ DOMAIN transports = 1..Len(transports)
      /\ \A n \in DOMAIN transports : transports[n] \in Transport
  BY <1>1
<1> DEFINE t(n) == IF home[n] = p THEN [transports[n] EXCEPT !.state = "closed"] ELSE transports[n]
<1>3. \A n \in DOMAIN transports : /\ t(n) \in Transport /\ t(n).ref = transports[n].ref
                                   /\ home[n] = p => t(n).state = "closed"
                                   /\ home[n] # p => t(n) = transports[n]
  BY <1>2 DEF Transport
<1>4. transports' = [n \in 1..Len(transports) |-> t(n)]
  BY <1>2
<1> HIDE DEF t
<1>5. transports' \in Seq(Transport) /\ Len(transports') = Len(transports)
  BY <1>2, <1>3, <1>4
<1> QED
  BY <1>2, <1>3, <1>4, <1>5

LEMMA ClientClosedStep ==
    ASSUME IInv, NEW u \in Users, ClientClosed(u)
    PROVE  IInv'
<1> DEFINE p == via[u]
<1>1. /\ step[u] = "closing" /\ ~Busy(p) /\ Become(p, "stopped")
      /\ p \in DOMAIN portals /\ portals[p] = "stopping"
      /\ closes > 0 /\ client = "threads" /\ client # "tasks"
      /\ pc[u] \in {"idle", "ready", "streaming"}
  BY DEF ClientClosed, IInv, PortalInv, Hands, InHand, StepPlaces, TasksHaveNoPortal,
         PortalTypeOK, TypeOK
<1>2. /\ UNCHANGED <<resolved, pc, call, todo, closing, ended, client, tool, outlived>>
      /\ UNCHANGED <<http, portal, stack, closes, raced, home, placed>>
  BY DEF ClientClosed, user, rest
<1>3. /\ portals' \in Seq(PortalStates) /\ Len(portals') = Len(portals)
      /\ DOMAIN portals' = DOMAIN portals /\ portals'[p] = "stopped"
      /\ \A q \in DOMAIN portals : q # p => portals'[q] = portals[q]
  BY <1>1, BecomeMeans DEF IInv, PortalInv, PortalStates
<1>4. /\ step' \in [Users -> Steps] /\ step'[u] = "none"
      /\ \A v \in Users : v # u => step'[v] = step[v]
  BY AdvanceMeans DEF ClientClosed, Steps, IInv, PortalInv
<1>5. /\ via' \in [Users -> PortalNumbers] /\ via'[u] = None
      /\ \A v \in Users : v # u => via'[v] = via[v]
  BY ViaMeans, NoPortal DEF ClientClosed, IInv, PortalInv
<1>6. /\ transports' \in Seq(Transport) /\ Len(transports') = Len(transports)
      /\ DOMAIN transports' = DOMAIN transports
      /\ \A n \in DOMAIN transports :
            /\ transports'[n].ref = transports[n].ref
            /\ home[n] = p => transports'[n].state = "closed"
            /\ home[n] # p => transports'[n] = transports[n]
  BY TransportsEnd DEF ClientClosed, IInv, PortalInv
<1>7. \A v \in Users : /\ pc[v] = "opening" => via[v] # p
                       /\ placed[v] # p
                       /\ step[v] = "closing" /\ v # u => via[v] # p
  BY <1>1 DEF Busy, IInv, PortalInv, Hands
<1> HIDE DEF p
<1>8. PortalTypeOK'
  BY <1>2, <1>3, <1>4, <1>5, <1>6
     DEF IInv, PortalInv, PortalTypeOK, TypeOK, Transport, PortalStates, Steps
<1>9. TasksHaveNoPortal' /\ StepPlaces'
  BY <1>1, <1>2, <1>4 DEF IInv, PortalInv, TasksHaveNoPortal, StepPlaces, StartSteps
<1>10. Hands'
  <2>1. \A v \in Users : v # u => InHand(v)'
    BY <1>1, <1>2, <1>3, <1>4, <1>5, <1>7 DEF IInv, PortalInv, Hands, InHand
  <2>2. InHand(u)'
    BY <1>1, <1>2, <1>4 DEF InHand
  <2> QED
    BY <1>4, <1>5, <2>1, <2>2 DEF IInv, PortalInv, Hands
<1>11. PortalRuns'
  BY <1>1, <1>2, <1>3 DEF IInv, PortalInv, PortalRuns
<1>12. OnePortal'
  BY <1>1, <1>2, <1>3, <1>4, <1>5 DEF IInv, PortalInv, OnePortal, StartSteps
<1>13. CallsInv'
  BY <1>2 DEF IInv, CallsInv, Progress
<1>14. Homes'
  BY <1>1, <1>2, <1>3, <1>6 DEF IInv, TransportsInv, Homes, Lived
<1>15. Attached'
  <2> SUFFICES ASSUME NEW r \in Refs, resolved[r] # None
               PROVE  /\ resolved[r] \in DOMAIN transports
                      /\ transports'[resolved[r]].ref = r
                      /\ transports'[resolved[r]].state # "open" =>
                            portals'[home[resolved[r]]] = "stopped"
    BY <1>1, <1>2, <1>6 DEF Attached
  <2>1. /\ resolved[r] \in DOMAIN transports /\ transports[resolved[r]].ref = r
        /\ transports[resolved[r]].state # "open" => portals[home[resolved[r]]] = "stopped"
        /\ home[resolved[r]] \in DOMAIN portals
    BY <1>1 DEF IInv, TransportsInv, Attached, Homes
  <2> QED
    BY <2>1, <1>3, <1>6
<1>16. Detached'
  BY <1>2, <1>6 DEF IInv, TransportsInv, Detached, IsDetached
<1>17. Accounted'
  <2> SUFFICES ASSUME NEW n \in DOMAIN transports, transports'[n].state = "open",
                      ~Shared(transports[n].ref)
               PROVE  IsAccounted(n)'
    BY <1>6 DEF Accounted
  <2>1. /\ transports[n].state = "open" /\ home[n] # p /\ home[n] \in DOMAIN portals
        /\ transports'[n] = transports[n]
    BY <1>1, <1>6 DEF IInv, TransportsInv, Homes
  <2>2. \/ resolved[transports[n].ref] = n
        \/ BeingClosed(n)
        \/ client = "threads" /\ ~Runs(home[n])
    BY <2>1 DEF IInv, TransportsInv, Accounted, IsAccounted
  <2>3. ~Runs(home[n]) => ~Runs(home[n])'
    BY <1>2, <1>3, <2>1 DEF Runs
  <2>4. BeingClosed(n) => BeingClosed(n)'
    BY <1>2 DEF BeingClosed
  <2> QED
    BY <2>1, <2>2, <2>3, <2>4, <1>2 DEF IsAccounted
<1>18. ToolHeld'
  <2> SUFFICES ASSUME NEW v \in Users, tool[v] # None, ~outlived[v]
               PROVE  IsHeld(v, tool[v])'
    BY <1>2 DEF ToolHeld
  <2>1. /\ tool[v] \in DOMAIN transports /\ placed[v] = home[tool[v]]
        /\ IsHeld(v, tool[v])
    BY DEF IInv, TransportsInv, Homes, ToolHeld
  <2>2. transports'[tool[v]] = transports[tool[v]]
    BY <2>1, <1>6, <1>7
  <2> QED
    BY <2>1, <2>2, <1>2 DEF IsHeld
<1>19. PortalInv'
  BY <1>8, <1>9, <1>10, <1>11, <1>12 DEF PortalInv
<1> QED
  BY <1>13, <1>14, <1>15, <1>16, <1>17, <1>18, <1>19 DEF IInv, TransportsInv

-----------------------------------------------------------------------------
(* The inductive invariant.                                                *)

LEMMA InitIInv == PortalInit => IInv
<1> SUFFICES ASSUME PortalInit PROVE IInv
  OBVIOUS
<1> USE DEF PortalInit, Init
<1>1. PortalTypeOK
  <2>1. TypeOK
    BY Opening DEF TypeOK
  <2>2. portals \in Seq(PortalStates) /\ Len(portals) = 0
    BY DEF PortalStates
  <2>3. home \in Seq(PortalNumbers) /\ Len(home) = Len(transports)
    OBVIOUS
  <2>4. closes \in 0..MaxCloses /\ 0 <= MaxPortals
    BY McpPortalAssumption
  <2>5. step \in [Users -> Steps]
    BY DEF Steps
  <2> QED
    BY <2>1, <2>2, <2>3, <2>4, <2>5, NoPortal DEF PortalTypeOK, PortalStates, Steps
<1>2. TasksHaveNoPortal /\ StepPlaces
  BY DEF TasksHaveNoPortal, StepPlaces, StartSteps
<1>3. Hands
  BY DEF Hands, InHand
<1>4. PortalRuns /\ OnePortal
  BY DEF PortalRuns, OnePortal, StartSteps
<1>5. CallsInv
  BY EmptyList DEF CallsInv, Progress
<1>6. TransportsInv
  BY DEF TransportsInv, Homes, Attached, Detached, Accounted, ToolHeld
<1> QED
  BY <1>1, <1>2, <1>3, <1>4, <1>5, <1>6 DEF IInv, PortalInv

LEMMA IInvStep == IInv /\ [PortalNext]_allVars => IInv'
<1> SUFFICES ASSUME IInv, [PortalNext]_allVars PROVE IInv'
  OBVIOUS
<1>1. CASE UNCHANGED allVars
  <2>1. /\ UNCHANGED vars
        /\ UNCHANGED <<http, portal, stack, portals, closes, raced, step, via, home, placed>>
    BY <1>1 DEF allVars, pvars, loop, thread
  <2>2. UNCHANGED <<client, resolved, transports, pc, call, todo, closing, ended, tool, outlived>>
    BY <2>1 DEF vars, refs, user, rest
  <2>3. PortalTypeOK'
    BY <2>1, <2>2 DEF IInv, PortalInv, PortalTypeOK, TypeOK
  <2>4. PortalInv'
    BY <2>1, <2>2, <2>3, PortalStays DEF IInv
  <2> QED
    BY <2>1, <2>4, CallsStay, SamePortalsAge
<1>2. ASSUME PortalNext PROVE IInv'
  <2> PICK u \in Users :
         \/ Free(u) /\ Calling(u) /\ UNCHANGED pvars
         \/ Free(u) /\ http # "closed" /\ Requesting(u) /\ UNCHANGED pvars
         \/ Look(u) \/ Create(u) \/ Enter(u) \/ Started(u)
         \/ StartFails(u) \/ CallOnPortal(u)
         \/ OpenInTask(u) \/ OpeningEnds(u)
         \/ DispatchOn(u) \/ AnsweredOn(u)
         \/ CloseOn(u) \/ ClosingEnds(u)
         \/ CloseClient(u) \/ ClientClosed(u)
    BY <1>2 DEF PortalNext
  <2> Progress(u) /\ TypeOK
    BY DEF IInv, CallsInv, PortalInv, PortalTypeOK
  <2>1. CASE Free(u) /\ Calling(u) /\ UNCHANGED pvars
    BY <2>1, CallingStep, GoesOnStep
  <2>2. CASE Free(u) /\ http # "closed" /\ Requesting(u) /\ UNCHANGED pvars
    BY <2>2, AcceptedStep, TurnBeginsStep, GoesOnStep DEF Requesting
  <2>3. CASE Look(u)
    BY <2>3, LookStep
  <2>4. CASE Create(u)
    BY <2>4, CreateStep
  <2>5. CASE Enter(u)
    BY <2>5, EnterStep
  <2>6. CASE Started(u)
    BY <2>6, StartedStep
  <2>7. CASE StartFails(u)
    BY <2>7, StartFailsStep
  <2>8. CASE CallOnPortal(u)
    BY <2>8, CallOnPortalStep
  <2>9. CASE OpenInTask(u)
    BY <2>9, OpenInTaskStep
  <2>10. CASE OpeningEnds(u)
    BY <2>10, OpenedStep, OpenFailedStep DEF OpeningEnds
  <2>11. CASE DispatchOn(u)
    BY <2>11, DispatchOnStep
  <2>12. CASE AnsweredOn(u)
    BY <2>12, AnsweredOnStep
  <2>13. CASE CloseOn(u)
    BY <2>13, CloseOnStep
  <2>14. CASE ClosingEnds(u)
    BY <2>14, ClosingEndsStep
  <2>15. CASE CloseClient(u)
    BY <2>15, CloseClientStep
  <2>16. CASE ClientClosed(u)
    BY <2>16, ClientClosedStep
  <2> QED
    BY <2>1, <2>2, <2>3, <2>4, <2>5, <2>6, <2>7, <2>8, <2>9, <2>10, <2>11, <2>12, <2>13,
       <2>14, <2>15, <2>16
<1> QED
  BY <1>1, <1>2

LEMMA Invariance == PortalSpec => []IInv
BY InitIInv, IInvStep, PTL DEF PortalSpec

-----------------------------------------------------------------------------
(* The theorems.                                                           *)

\* The state is the one its variables are declared with.
THEOREM PortalTypeCorrect == PortalSpec => []PortalTypeOK
<1>1. IInv => PortalTypeOK
  BY DEF IInv, PortalInv
<1> QED
  BY <1>1, Invariance, PTL

\* The portal a call is sent to runs, whichever threads raced to start one
\* (_ensure_started) or to stop it; and without a race the portal that runs is
\* the one close() stops.
THEOREM OnePortalIsOwned == PortalSpec => []PortalIsOwned
<1>1. IInv => PortalIsOwned
  BY DEF IInv, PortalInv, PortalRuns, OnePortal, PortalIsOwned
<1> QED
  BY <1>1, Invariance, PTL

\* The properties of McpRefs and McpPortal, of the references of one user only.
OwnKept == closes = 0 => \A u \in Using : \A r \in Own(u) : resolved[r] \in OpenOf(r)
OwnToolsRun == \A u \in Users :
    tool[u] # None /\ ~outlived[u] /\ transports[tool[u]].ref \in Own(u) =>
        transports[tool[u]].state = "open"
OwnClosed == \A u \in Users : pc[u] = "idle" /\ ended[u] = "closed" =>
    \A r \in Own(u) : resolved[r] = None /\ LiveOf(r) = {}
OwnOpenOnce == \A r \in Refs : ~Shared(r) => Cardinality(LiveOf(r)) <= 1

\* A live transport of a reference that is not shared is attached, or is being
\* closed by the user whose reference it is.
LEMMA LiveTransports ==
    ASSUME IInv, NEW r, ~Shared(r), NEW n \in LiveOf(r)
    PROVE  /\ n # None
           /\ \/ resolved[r] = n
              \/ \E w \in Users : closing[w] = n /\ r \in Own(w) /\ resolved[r] = None
<1>1. /\ n \in DOMAIN transports /\ transports[n].ref = r /\ transports[n].state = "open"
      /\ client = "threads" => Runs(home[n])
  BY DEF LiveOf, OpenOf
<1>2. n # None
  BY <1>1 DEF IInv, PortalInv, PortalTypeOK, TypeOK, None
<1>3. resolved[r] = n \/ BeingClosed(n)
  BY <1>1 DEF IInv, TransportsInv, Accounted, IsAccounted
<1>4. ASSUME NEW w \in Users, closing[w] = n PROVE r \in Own(w) /\ resolved[r] = None
  BY <1>1, <1>2, <1>4, OwnOrShared DEF IInv, TransportsInv, Detached, IsDetached
<1> QED
  BY <1>2, <1>3, <1>4 DEF BeingClosed

\* What every program can count on for the references it passes to the calls
\* of one thread or task only, whatever it does with others: an open transport
\* while a run or session goes on, unless the client is closed; no call on a
\* closed one; nothing attached and nothing open after a close loop; and never
\* two transports at once.
THEOREM OwnReferencesAreSafe ==
    PortalSpec => [](OwnKept /\ OwnToolsRun /\ OwnClosed /\ OwnOpenOnce)
<1> SUFFICES IInv => OwnKept /\ OwnToolsRun /\ OwnClosed /\ OwnOpenOnce
  BY Invariance, PTL
<1> SUFFICES ASSUME IInv PROVE OwnKept /\ OwnToolsRun /\ OwnClosed /\ OwnOpenOnce
  OBVIOUS
<1>1. OwnKept
  <2> SUFFICES ASSUME closes = 0, NEW u \in Using, NEW r \in Own(u)
               PROVE  resolved[r] \in OpenOf(r)
    BY DEF OwnKept
  <2>1. u \in Users /\ pc[u] \in {"use", "ready", "streaming"}
    BY DEF Using
  <2>2. resolved[r] # None /\ r \in Refs
    BY <2>1, ToolsOfUser DEF IInv, CallsInv, Progress
  <2>3. /\ resolved[r] \in DOMAIN transports /\ transports[resolved[r]].ref = r
        /\ transports[resolved[r]].state = "open"
    BY <2>2 DEF IInv, TransportsInv, Attached
  <2> QED
    BY <2>3 DEF OpenOf
<1>2. OwnToolsRun
  BY DEF OwnToolsRun, IInv, TransportsInv, ToolHeld, IsHeld
<1>3. OwnClosed
  <2> SUFFICES ASSUME NEW u \in Users, pc[u] = "idle", ended[u] = "closed", NEW r \in Own(u)
               PROVE  resolved[r] = None /\ LiveOf(r) = {}
    BY DEF OwnClosed
  <2>1. resolved[r] = None /\ closing[u] = None
    BY DEF IInv, CallsInv, Progress
  <2>2. r \in ToolSet(u) /\ ~Shared(r) /\ \A w \in Users : w # u => r \notin Own(w)
    BY ToolsOfUser, OwnOrShared DEF Own
  <2>3. ASSUME NEW n \in LiveOf(r) PROVE FALSE
    BY <2>1, <2>2, <2>3, LiveTransports
  <2> QED
    BY <2>1, <2>3
<1>4. OwnOpenOnce
  <2> SUFFICES ASSUME NEW r \in Refs, ~Shared(r) PROVE Cardinality(LiveOf(r)) <= 1
    BY DEF OwnOpenOnce
  <2>1. \A v, w \in Users : r \in Own(v) /\ r \in Own(w) => v = w
    BY DEF Own
  <2>2. \A n, m \in LiveOf(r) : n = m
    BY <2>1, LiveTransports
  <2>3. LiveOf(r) = {} \/ \E n : LiveOf(r) = {n}
    BY <2>2
  <2>4. LiveOf(r) = {} => Cardinality(LiveOf(r)) = 0
    BY FS_EmptySet
  <2>5. ASSUME NEW n, LiveOf(r) = {n} PROVE Cardinality(LiveOf(r)) = 1
    BY <2>5, FS_Singleton
  <2> QED
    BY <2>3, <2>4, <2>5
<1> QED
  BY <1>1, <1>2, <1>3, <1>4

\* The properties of McpRefs and McpPortal are about all references of a user;
\* they need that no two users share one.
LEMMA AllOwn ==
    ASSUME OwnRefs, NEW u \in Users
    PROVE  Own(u) = ToolSet(u)
BY ToolsOfUser, OwnOrShared DEF OwnRefs

\* While the client is not closed, every reference of a run or a session that
\* goes on keeps an open transport: what its user resolved (_resolve_local_refs)
\* no failure, cancellation or end of another call takes away.
THEOREM TransportsLast ==
    ASSUME OwnRefs
    PROVE  PortalSpec => []TransportsLastUntilClose
<1>1. OwnKept => TransportsLastUntilClose
  BY AllOwn DEF OwnKept, TransportsLastUntilClose, UsersHaveTransports, Using
<1> QED
  BY <1>1, OwnReferencesAreSafe, PTL

\* A tools/call is on an open transport until it is answered, through the
\* closing of other calls' references and of the client itself, unless its own
\* user gave the run up (mcp_local in _dispatch_local_tool).
THEOREM ToolsOnOpenTransports ==
    ASSUME OwnRefs
    PROVE  PortalSpec => []ToolsRunOnOpenTransports
<1>1. IInv => ToolsRunOnOpenTransports
  BY AllOwn DEF IInv, TransportsInv, ToolHeld, IsHeld, ToolsRunOnOpenTransports
<1> QED
  BY <1>1, Invariance, PTL

\* A call that has run its close loop (_close_mcp_refs) has left nothing
\* attached and nothing open of its references that a portal still serves.
THEOREM CallsCloseTheirs ==
    ASSUME OwnRefs
    PROVE  PortalSpec => []ClosingIsThorough
<1>1. OwnClosed => ClosingIsThorough
  BY AllOwn DEF OwnClosed, ClosingIsThorough
<1> QED
  BY <1>1, OwnReferencesAreSafe, PTL

\* "No double-open": no reference ever has two transports open on portals that
\* run, not even while one is closed and the next is opened.
THEOREM NoReferenceOpensTwice ==
    ASSUME OwnRefs
    PROVE  PortalSpec => []NoDoubleOpen
<1>1. OwnOpenOnce => NoDoubleOpen
  BY DEF OwnOpenOnce, OwnRefs, NoDoubleOpen
<1> QED
  BY <1>1, OwnReferencesAreSafe, PTL
=============================================================================

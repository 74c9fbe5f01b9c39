---------------------------- MODULE RequestsProofs ----------------------------
(***************************************************************************)
(* That what the client sends is what the caller said and what the         *)
(* protocol takes, for every value of every option, every conversation,    *)
(* and every list of tools.  A behaviour is one call, so the invariant     *)
(* says only what was given and what was made of it; the work is in the    *)
(* lemmas about the operators.                                             *)
(***************************************************************************)
EXTENDS Requests, FiniteSetTheorems, TLAPS

-----------------------------------------------------------------------------
(* The normalisers (tools.py).                                             *)

\* An integer of a tested range is in it, and nothing else is.
LEMMA InRangeMeans ==
    ASSUME NEW v \in Number, NEW low \in Int, NEW high \in Int, AbsentOr(v, low, high)
    PROVE  v = Absent \/ v \in low..high
BY OptionsAssumption DEF AbsentOr, InRange, Number

LEMMA LevelIsTaken ==
    ASSUME NEW v \in Inputs["reasoningLevel"], ReasoningLevel(v) # Refused
    PROVE  Takes("reasoningLevel", ReasoningLevel(v))
<1>1. v \in Number \cup {Level}
  BY RequestsAssumption DEF Takeable
<1>2. ReasoningLevel(v) = v /\ (v \in {Absent, Level} \/ InRange(v, 0, 100))
  BY DEF ReasoningLevel
<1>3. v \in {Absent, Level} \/ v \in 0..100
  BY <1>1, <1>2, InRangeMeans DEF AbsentOr
<1> QED
  BY <1>2, <1>3 DEF Takes, LevelTaken

LEMMA DetectionIsTaken ==
    ASSUME NEW v \in Inputs["loopDetection"], LoopDetection(v) # Refused
    PROVE  Takes("loopDetection", LoopDetection(v))
<1>1. \/ v \in {Absent, Wrong, On, Off}
      \/ v \in [consecutiveThreshold : Number, consecutive_threshold : Number,
                hardCutoffThreshold : Number, hard_cutoff_threshold : Number]
  BY RequestsAssumption DEF Takeable
<1>2. CASE v \in {Absent, Off}
  <2>1. LoopDetection(v) = v
    BY <1>2, OptionsAssumption DEF LoopDetection
  <2> QED
    BY <1>2, <2>1 DEF Takes, DetectionTaken
<1>3. CASE v \in {On, Wrong} /\ v \notin {Absent, Off}
  BY <1>3 DEF LoopDetection
<1>4. CASE v \notin {Absent, Wrong, On, Off}
  <2> DEFINE c == Field(v.consecutiveThreshold, v.consecutive_threshold)
             h == Field(v.hardCutoffThreshold, v.hard_cutoff_threshold)
             r == [consecutiveThreshold |-> c, hardCutoffThreshold |-> h]
  <2>1. c \in Number /\ h \in Number
    BY <1>1, <1>4 DEF Field
  <2>2. /\ LoopDetection(v) = r
        /\ AbsentOr(c, 2, ThresholdMax) /\ AbsentOr(h, 3, ThresholdMax) /\ CutoffAfterNudge(c, h)
    BY <1>4 DEF LoopDetection
  <2>3. r.consecutiveThreshold = c /\ r.hardCutoffThreshold = h
    OBVIOUS
  <2> HIDE DEF c, h
  <2>4. (c = Absent \/ c \in 2..100) /\ (h = Absent \/ h \in 3..100)
    BY <2>1, <2>2, InRangeMeans DEF ThresholdMax
  <2>5. c = Absent \/ h = Absent \/ c < h
    BY <2>2, <2>4 DEF CutoffAfterNudge
  <2> HIDE DEF r
  <2> QED
    BY <2>2, <2>3, <2>4, <2>5 DEF Takes, DetectionTaken
<1> QED
  BY <1>2, <1>3, <1>4

LEMMA BudgetsAreTaken ==
    ASSUME NEW v \in Inputs["toolBudgets"], ToolBudgets(v) # Refused
    PROVE  Takes("toolBudgets", ToolBudgets(v))
<1>1. CASE v = Absent
  <2>1. ToolBudgets(v) = v
    BY <1>1, OptionsAssumption DEF ToolBudgets
  <2> QED
    BY <1>1, <2>1 DEF Takes
<1>2. CASE v = Wrong
  BY <1>2, OptionsAssumption DEF ToolBudgets
<1>3. CASE v \notin {Absent, Wrong}
  <2> DEFINE Calls2(name) == Field(v[name].maxCalls, v[name].max_calls)
             r == [name \in DOMAIN v |-> Calls2(name)]
  <2>1. /\ DOMAIN v \subseteq Int \cup {Wrong}
        /\ \A name \in DOMAIN v :
              v[name] \in {Wrong} \cup [maxCalls : Number, max_calls : Number]
    BY <1>3, RequestsAssumption
  <2>2. /\ ToolBudgets(v) = r
        /\ Cardinality(DOMAIN v) <= MaxEntries
        /\ \A name \in DOMAIN v :
              /\ InRange(name, 1, NameMax)
              /\ v[name] # Wrong
              /\ Calls2(name) # Absent /\ InRange(Calls2(name), 0, CallsMax)
    BY <1>3 DEF ToolBudgets
  <2>3. DOMAIN v \subseteq 1..120
    BY <2>1, <2>2 DEF InRange, NameMax
  <2>4. \A name \in DOMAIN v : Calls2(name) \in 0..1000
    <3> SUFFICES ASSUME NEW name \in DOMAIN v PROVE Calls2(name) \in 0..1000
      OBVIOUS
    <3>1. Calls2(name) \in Number
      BY <2>1, <2>2 DEF Field
    <3>2. Calls2(name) # Absent /\ AbsentOr(Calls2(name), 0, CallsMax)
      BY <2>2 DEF AbsentOr
    <3> HIDE DEF Calls2
    <3> QED
      BY <3>1, <3>2, InRangeMeans DEF CallsMax
  <2>5. DOMAIN r = DOMAIN v /\ \A name \in DOMAIN r : r[name] \in 0..1000
    BY <2>4
  <2> HIDE DEF r
  <2> QED
    BY <2>2, <2>3, <2>5 DEF Takes, BudgetsTaken
<1> QED
  BY <1>1, <1>2, <1>3

LEMMA SupervisorIsTaken ==
    ASSUME NEW v \in Inputs["supervisor"], Supervisor(v) # Refused
    PROVE  Takes("supervisor", Supervisor(v))
<1>1. \/ v \in {Absent, Wrong, On, Off}
      \/ v \in [interval : Number, modelId : {Absent, Text},
                reasoningTrigger : {Absent, Wrong, On, Off} \cup [chars : Number, ms : Number]]
  BY RequestsAssumption DEF Takeable
<1>2. CASE v \in {Absent, Off}
  <2>1. Supervisor(v) = v
    BY <1>2, OptionsAssumption DEF Supervisor
  <2> QED
    BY <1>2, <2>1 DEF Takes, SupervisorTaken
<1>3. CASE v \in {On, Wrong} /\ v \notin {Absent, Off}
  BY <1>3 DEF Supervisor
<1>4. CASE v \notin {Absent, Wrong, On, Off}
  <2> DEFINE trigger == v.reasoningTrigger
             r == [interval |-> v.interval, reasoningTrigger |-> trigger]
  <2>1. /\ v.interval \in Number
        /\ trigger \in {Absent, Wrong, On, Off} \cup [chars : Number, ms : Number]
    BY <1>1, <1>4
  <2>2. /\ Supervisor(v) = r
        /\ AbsentOr(v.interval, 1, IntervalMax)
        /\ trigger \notin {On, Wrong}
        /\ trigger \notin {Absent, Off} =>
              AbsentOr(trigger.chars, 1, CharsMax) /\ AbsentOr(trigger.ms, 1, MsMax)
    BY <1>4 DEF Supervisor
  <2>3. r.interval = v.interval /\ r.reasoningTrigger = trigger
    OBVIOUS
  <2> HIDE DEF trigger
  <2>4. v.interval = Absent \/ v.interval \in 1..100
    BY <2>1, <2>2, InRangeMeans DEF IntervalMax
  <2>5. TriggerTaken(trigger)
    <3>1. CASE trigger \in {Absent, Off}
      BY <3>1 DEF TriggerTaken
    <3>2. CASE trigger \notin {Absent, Off}
      <4>1. trigger.chars \in Number /\ trigger.ms \in Number
        BY <2>1, <2>2, <3>2
      <4>2. CharsMax \in Int /\ MsMax \in Int /\ CharsTaken = CharsMax /\ MsTaken = MsMax
        BY DEF CharsMax, MsMax, CharsTaken, MsTaken
      <4>3. /\ trigger.chars = Absent \/ trigger.chars \in 1..CharsMax
            /\ trigger.ms = Absent \/ trigger.ms \in 1..MsMax
        BY <2>2, <3>2, <4>1, <4>2, InRangeMeans
      <4> QED
        BY <4>2, <4>3 DEF TriggerTaken
    <3> QED
      BY <3>1, <3>2
  <2> HIDE DEF r
  <2> QED
    BY <2>2, <2>3, <2>4, <2>5 DEF Takes, SupervisorTaken
<1> QED
  BY <1>2, <1>3, <1>4

LEMMA PlanIsTaken ==
    ASSUME NEW v \in Inputs["plan"] \cup {Absent}, Plan(v) # Refused
    PROVE  Takes("plan", Plan(v))
<1>1. CASE v \in {Absent, On, Off} \cup Modes
  <2>1. Plan(v) = v
    BY <1>1, OptionsAssumption DEF Plan
  <2> QED
    BY <1>1, <2>1 DEF Takes, PlanTaken
<1>2. CASE v = Wrong
  BY <1>2, OptionsAssumption DEF Plan
<1>3. CASE v \notin {Absent, Wrong, On, Off} \cup Modes
  <2>1. /\ Plan(v) = v
        /\ v.mode \in {Absent} \cup Modes
        /\ v.planOnly \in {Absent, On, Off}
        /\ v.brief \in {Absent, Text}
        /\ v.steps # Absent => \A i \in DOMAIN v.steps : v.steps[i] = Text
    BY <1>3 DEF Plan
  <2>2. v.steps # Absent => ToSet(v.steps) \subseteq {Text}
    BY <2>1 DEF ToSet
  <2> QED
    BY <2>1, <2>2 DEF Takes, PlanTaken
<1> QED
  BY <1>1, <1>2, <1>3

LEMMA SchemaIsTaken ==
    ASSUME NEW v \in Inputs["outputSchema"], OutputSchema(v) # Refused
    PROVE  Takes("outputSchema", OutputSchema(v)) \/ v.name = NewlineName
<1>1. CASE v = Absent
  <2>1. OutputSchema(v) = v
    BY <1>1, OptionsAssumption DEF OutputSchema
  <2> QED
    BY <1>1, <2>1 DEF Takes
<1>2. CASE v = Wrong
  BY <1>2, OptionsAssumption DEF OutputSchema
<1>3. CASE v \notin {Absent, Wrong}
  <2>1. /\ OutputSchema(v) = v
        /\ v.name \in {Absent, Text, NewlineName}
        /\ v.schema = Text
        /\ v.bytes <= SchemaMaxBytes
    BY <1>3 DEF OutputSchema
  <2>2. SchemaMaxBytes = 32768
    BY DEF SchemaMaxBytes
  <2> QED
    BY <2>1, <2>2 DEF Takes, SchemaTaken
<1> QED
  BY <1>1, <1>2, <1>3

\* What passes its normaliser is within the limits of the protocol.
LEMMA NormalizedIsTaken ==
    ASSUME NEW option \in OptionNames, NEW v, v \in Inputs[option] \/ (option = "plan" /\ v = Absent),
           Normalize(option, v) # Refused
    PROVE  Takes(option, Normalize(option, v)) \/ (option = "outputSchema" /\ v.name = NewlineName)
<1>1. CASE option = "reasoningLevel"
  BY <1>1, LevelIsTaken DEF Normalize
<1>2. CASE option = "loopDetection"
  BY <1>2, DetectionIsTaken DEF Normalize
<1>3. CASE option = "toolBudgets"
  BY <1>3, BudgetsAreTaken DEF Normalize
<1>4. CASE option = "supervisor"
  BY <1>4, SupervisorIsTaken DEF Normalize
<1>5. CASE option = "plan"
  BY <1>5, PlanIsTaken DEF Normalize
<1>6. CASE option = "outputSchema"
  BY <1>6, SchemaIsTaken DEF Normalize
<1> QED
  BY <1>1, <1>2, <1>3, <1>4, <1>5, <1>6 DEF OptionNames

-----------------------------------------------------------------------------
(* The names of tools (tools.py, client.py).                               *)

\* A server is asked for the name it listed: what _prefixed_mcp_tool_name puts
\* before a name, _dispatch_local_tool takes off again, but off a name that
\* had it from the start.
LEMMA NamesRoundTrip ==
    ASSUME NEW server \in Name, NEW name \in Name, ~IsStrictPrefix(server, name)
    PROVE  UpstreamName(server, WireName(server, name)) = name
<1> DEFINE w == server \o name
<1>1. /\ server \in Seq(Parts) /\ name \in Seq(Parts)
      /\ Len(server) \in Nat /\ Len(name) \in Nat /\ Len(name) > 0
  BY DEF Name
<1>2. /\ w \in Seq(Parts) /\ Len(w) = Len(server) + Len(name)
      /\ \A i \in 1..Len(server) : w[i] = server[i]
      /\ \A i \in 1..Len(name) : w[Len(server) + i] = name[i]
  BY <1>1
<1>3. WireName(server, name) = w
  BY DEF WireName
<1> HIDE DEF w
<1>4. IsStrictPrefix(server, w)
  <2>1. SubSeq(server, 1, Len(server)) = SubSeq(w, 1, Len(server))
    BY <1>1, <1>2
  <2>2. server # w /\ Len(server) <= Len(w)
    BY <1>1, <1>2
  <2> QED
    BY <2>1, <2>2 DEF IsStrictPrefix, IsPrefix
<1>5. SubSeq(w, Len(server) + 1, Len(w)) = name
  BY <1>1, <1>2
<1> QED
  BY <1>3, <1>4, <1>5 DEF UpstreamName

\* The only tool of its name is the one that is found.
LEMMA OnlyOneFound ==
    ASSUME NEW i \in Nat
    PROVE  LastOf({i}) = i
<1>1. \A x \in {i} : (\A y \in {i} : x >= y) => x = i
  OBVIOUS
<1>2. Max({i}) = i
  BY <1>1 DEF Max
<1> QED
  BY <1>2 DEF LastOf

\* A call of what a tool's entry offers is dispatched to that tool, and asks
\* for the name the tool knows.
LEMMA CallsFindTheirTool ==
    ASSUME NEW tools \in Seq(Tool), NEW i \in DOMAIN tools, tools[i].kind \in Local,
           NEW n \in DOMAIN Offers(Entry(tools[i])),
           OfferedOnce(Entries(tools)),
           \A j \in DOMAIN tools :
              tools[i].kind = "mcp_local" /\ tools[j].kind = "mcp_local" /\ tools[j].name = tools[i].name
                 => j = i,
           tools[i].kind = "mcp_local" => ~IsStrictPrefix(tools[i].name, tools[i].lists[n])
    PROVE  Dispatched(tools, CallOf(Entries(tools)[i], n)) =
              [tool |-> i, asked |-> IF tools[i].kind = "mcp_local" THEN tools[i].lists[n]
                                     ELSE tools[i].name]
<1> DEFINE t == tools[i]
<1>1. /\ t \in Tool /\ i \in Nat
      /\ DOMAIN Entries(tools) = DOMAIN tools
      /\ \A j \in DOMAIN tools : tools[j] \in Tool /\ Entries(tools)[j] = Entry(tools[j])
  BY DEF Entries
<1>2. \A j \in DOMAIN tools : /\ Entry(tools[j]).kind = tools[j].kind
                              /\ Entry(tools[j]).name = tools[j].name
  BY DEF Entry
<1>3. CASE t.kind = "mcp_local"
  <2>1. /\ Offers(Entry(t)) = [m \in DOMAIN t.lists |-> WireName(t.name, t.lists[m])]
    BY <1>3 DEF Offers, Entry
  <2>2. n \in DOMAIN t.lists /\ t.lists \in Seq(Name) /\ t.lists[n] \in Name /\ t.name \in Name
    BY <1>1, <2>1 DEF Tool
  <2>3. UpstreamName(t.name, WireName(t.name, t.lists[n])) = t.lists[n]
    BY <1>3, <2>2, NamesRoundTrip
  <2>4. {j \in DOMAIN tools : tools[j].kind = "mcp_local" /\ tools[j].name = t.name} = {i}
    BY <1>3
  <2>5. Handler(tools, "mcp_local", t.name) = i
    BY <1>1, <2>4, OnlyOneFound DEF Handler
  <2>6. /\ CallOf(Entry(t), n).kind = "mcp_local" /\ CallOf(Entry(t), n).mcpServer = t.name
        /\ CallOf(Entry(t), n).mcpToolName = WireName(t.name, t.lists[n])
    BY <1>2, <1>3, <2>1, <2>2 DEF CallOf
  <2> QED
    BY <1>1, <1>3, <2>3, <2>5, <2>6 DEF Dispatched
<1>4. CASE t.kind # "mcp_local"
  <2>1. \A j \in DOMAIN tools : tools[j].kind # "mcp_local" => Offers(Entry(tools[j])) = <<tools[j].name>>
    BY <1>2 DEF Offers
  <2>2. n = 1 /\ Offers(Entry(t))[n] = t.name
    BY <1>4, <2>1
  <2>3. ASSUME NEW j \in DOMAIN tools, tools[j].kind = t.kind, tools[j].name = t.name
        PROVE  j = i
    <3>1. /\ 1 \in DOMAIN Offers(Entries(tools)[i]) /\ 1 \in DOMAIN Offers(Entries(tools)[j])
          /\ Offers(Entries(tools)[i])[1] = Offers(Entries(tools)[j])[1]
      BY <1>1, <1>4, <2>1, <2>3
    <3> QED
      BY <1>1, <3>1 DEF OfferedOnce
  <2>4. {j \in DOMAIN tools : tools[j].kind = t.kind /\ tools[j].name = t.name} = {i}
    BY <2>3
  <2>5. Handler(tools, t.kind, t.name) = i
    BY <1>1, <2>4, OnlyOneFound DEF Handler
  <2>6. CallOf(Entry(t), n).kind = t.kind /\ CallOf(Entry(t), n).name = t.name
    BY <1>2, <2>2 DEF CallOf
  <2> QED
    BY <1>1, <1>4, <2>5, <2>6 DEF Dispatched
<1> QED
  BY <1>3, <1>4

-----------------------------------------------------------------------------
(* The tools of an eval run (client.py).                                   *)

\* A set of numbers that has zero and, of every number in it, the next, has
\* them all: among the intervals 0..n that end at a number it lacks, one
\* would be the smallest.
LEMMA AllNumbers ==
    ASSUME NEW S, 0 \in S, \A n \in Nat : n \in S => n + 1 \in S
    PROVE  \A n \in Nat : n \in S
<1> SUFFICES ASSUME {n \in Nat : n \notin S} # {} PROVE FALSE
  OBVIOUS
<1> DEFINE Upto(n) == 0..n
           Missing == {n \in Nat : n \notin S}
           Sets == {Upto(n) : n \in Missing}
<1>1. Sets \subseteq FiniteSubsetsOf(Nat) /\ Sets # {}
  <2>1. \A n \in Nat : IsFiniteSet(Upto(n)) /\ Upto(n) \subseteq Nat
    BY FS_Interval
  <2> QED
    BY <2>1 DEF FiniteSubsetsOf
<1>2. \E g \in Sets : \A h \in Sets : <<h, g>> \notin StrictSubsetOrdering(Nat)
  <2> HIDE DEF Sets
  <2> QED
    BY <1>1, FS_StrictSubsetOrderingWellFounded, WFMin
<1>3. PICK n \in Missing :
          \A m \in Missing : <<Upto(m), Upto(n)>> \notin StrictSubsetOrdering(Nat)
  BY <1>2
<1>4. n - 1 \in Missing
  OBVIOUS
<1>5. /\ Upto(n - 1) \subseteq Upto(n) /\ Upto(n - 1) # Upto(n)
      /\ Upto(n) \subseteq Nat /\ Upto(n - 1) \subseteq Nat
  <2>1. n \in Upto(n) /\ n \notin Upto(n - 1)
    OBVIOUS
  <2> QED
    BY <2>1
<1> QED
  <2> HIDE DEF Upto
  <2> QED
    BY <1>3, <1>4, <1>5 DEF StrictSubsetOrdering


\* What the loop does at the n-th tool, from what it has.
Keep(list, S, f, n) ==
    IF n = 0 THEN <<>>
    ELSE IF list[n] \in S THEN Append(f[n - 1], list[n]) ELSE f[n - 1]

LEMMA LoopDefined ==
    ASSUME NEW list, NEW S, NEW N \in Nat
    PROVE  \E f : f = [n \in 0..N |-> Keep(list, S, f, n)]
<1> DEFINE Loops(m, f) == f = [n \in 0..m |-> Keep(list, S, f, n)]
           Defined == {m \in Nat : \E f : Loops(m, f)}
<1>1. 0 \in Defined
  <2> DEFINE f == [n \in 0..0 |-> <<>>]
  <2>1. \A n \in 0..0 : Keep(list, S, f, n) = <<>>
    BY DEF Keep
  <2>2. Loops(0, f)
    BY <2>1
  <2> QED
    BY <2>2
<1>2. ASSUME NEW m \in Nat, m \in Defined PROVE m + 1 \in Defined
  <2>1. PICK f : Loops(m, f)
    BY <1>2
  <2> DEFINE g == [n \in 0..m + 1 |-> Keep(list, S, f, n)]
  <2>2. \A n \in 0..m : g[n] = f[n]
    BY <2>1
  <2>3. \A n \in 0..m + 1 : Keep(list, S, f, n) = Keep(list, S, g, n)
    <3> HIDE DEF g
    <3> QED
      BY <2>2 DEF Keep
  <2>4. Loops(m + 1, g)
    BY <2>3
  <2> HIDE DEF g, Loops
  <2>5. \E h : Loops(m + 1, h)
    BY <2>4
  <2> QED
    BY <2>5
<1> HIDE DEF Defined
<1>3. N \in Defined
  BY <1>1, <1>2, AllNumbers
<1> QED
  BY <1>3 DEF Defined

\* The loop over a list keeps the tools of it that are in the set, and no
\* other.
LEMMA KeptOfMeans ==
    ASSUME NEW A, NEW list \in Seq(A), NEW S
    PROVE  KeptOf(list, S) \in Seq(A) /\ ToSet(KeptOf(list, S)) = ToSet(list) \cap S
<1>1. PICK kept : /\ \A n \in 0..Len(list) : kept[n] = Keep(list, S, kept, n)
                  /\ KeptOf(list, S) = kept[Len(list)]
  <2> DEFINE kept == CHOOSE f : f = [n \in 0..Len(list) |-> Keep(list, S, f, n)]
  <2>1. kept = [n \in 0..Len(list) |-> Keep(list, S, kept, n)]
    BY LoopDefined
  <2>2. KeptOf(list, S) = kept[Len(list)]
    BY DEF KeptOf, Keep
  <2> HIDE DEF kept
  <2>3. \A n \in 0..Len(list) : kept[n] = Keep(list, S, kept, n)
    BY <2>1
  <2> QED
    BY <2>2, <2>3
<1> DEFINE Upto(n) == {list[i] : i \in 1..n}
           Good == {n \in Nat : n <= Len(list) =>
                       kept[n] \in Seq(A) /\ ToSet(kept[n]) = Upto(n) \cap S}
<1> HIDE DEF Upto
<1>2. 0 \in Good
  <2>1. kept[0] = <<>>
    BY <1>1 DEF Keep
  <2>2. ToSet(<<>>) = {} /\ Upto(0) = {}
    BY DEF ToSet, Upto
  <2>3. kept[0] \in Seq(A) /\ ToSet(kept[0]) = Upto(0) \cap S
    BY <2>1, <2>2
  <2> QED
    BY <2>3
<1>3. ASSUME NEW n \in Nat, n \in Good PROVE n + 1 \in Good
  <2> SUFFICES ASSUME n + 1 <= Len(list)
               PROVE  /\ kept[n + 1] \in Seq(A)
                      /\ ToSet(kept[n + 1]) = Upto(n + 1) \cap S
    OBVIOUS
  <2> DEFINE e == list[n + 1]
             k == kept[n]
  <2>1. k \in Seq(A) /\ ToSet(k) = Upto(n) \cap S /\ e \in A
    BY <1>3
  <2>2. kept[n + 1] = IF e \in S THEN Append(k, e) ELSE k
    BY <1>1 DEF Keep
  <2>3. Upto(n + 1) = Upto(n) \cup {e}
    BY DEF Upto
  <2> HIDE DEF k, e
  <2>4. ToSet(Append(k, e)) = ToSet(k) \cup {e} /\ Append(k, e) \in Seq(A)
    <3>1. Append(k, e) \in Seq(A) /\ DOMAIN Append(k, e) = DOMAIN k \cup {Len(k) + 1}
      BY <2>1
    <3>2. Append(k, e)[Len(k) + 1] = e /\ \A i \in DOMAIN k : Append(k, e)[i] = k[i]
      BY <2>1
    <3> QED
      BY <3>1, <3>2 DEF ToSet
  <2> QED
    BY <2>1, <2>2, <2>3, <2>4
<1>4. Len(list) \in Good
  <2> HIDE DEF Good
  <2> QED
    BY <1>2, <1>3, AllNumbers
<1>5. ToSet(list) = Upto(Len(list))
  BY DEF ToSet, Upto
<1> QED
  BY <1>1, <1>4, <1>5

\* _coerce_eval_tools, run twice by run_eval, and the body of the inline agent
\* drop no tool of the caller's and add none.
LEMMA EvalToolsAreThoseGiven ==
    ASSUME NEW g, NEW passed,
           g.agent \in {Absent} \cup ToolLists, g.tools \in ToolLists,
           passed \in {g.tools, Coerce(g.agent, g.tools)}
    PROVE  ToSet(EvalTools(g, Coerce(g.agent, passed))) =
               ToSet(g.tools) \cup (IF g.agent = Absent THEN {} ELSE ToSet(g.agent))
<1> DEFINE A == Refs \cup {Dict}
           refs == RefsOf(g.agent)
<1>1. \A s, t \in Seq(A) : s \o t \in Seq(A) /\ ToSet(s \o t) = ToSet(s) \cup ToSet(t)
  <2> SUFFICES ASSUME NEW s \in Seq(A), NEW t \in Seq(A)
               PROVE  s \o t \in Seq(A) /\ ToSet(s \o t) = ToSet(s) \cup ToSet(t)
    OBVIOUS
  <2> HIDE DEF A
  <2>1. s \o t \in Seq(A) /\ DOMAIN (s \o t) = 1..Len(s) + Len(t)
    OBVIOUS
  <2>2. /\ \A i \in 1..Len(s) : (s \o t)[i] = s[i]
        /\ \A i \in 1..Len(t) : (s \o t)[Len(s) + i] = t[i]
    OBVIOUS
  <2>3. \A i \in 1..Len(s) + Len(t) :
            i \in 1..Len(s) \/ \E j \in 1..Len(t) : i = Len(s) + j
    <3> SUFFICES ASSUME NEW i \in 1..Len(s) + Len(t), i \notin 1..Len(s)
                 PROVE  i - Len(s) \in 1..Len(t) /\ i = Len(s) + (i - Len(s))
      OBVIOUS
    <3> QED
      OBVIOUS
  <2>4. /\ \A j \in 1..Len(t) : Len(s) + j \in 1..Len(s) + Len(t)
        /\ 1..Len(s) \subseteq 1..Len(s) + Len(t)
    OBVIOUS
  <2>5. /\ ToSet(s \o t) = {(s \o t)[i] : i \in 1..Len(s) + Len(t)}
        /\ ToSet(s) = {s[i] : i \in 1..Len(s)}
        /\ ToSet(t) = {t[i] : i \in 1..Len(t)}
    BY <2>1 DEF ToSet
  <2>6. ASSUME NEW i \in 1..Len(s) + Len(t)
        PROVE  (s \o t)[i] \in ToSet(s) \cup ToSet(t)
    BY <2>2, <2>3, <2>5
  <2>7. ASSUME NEW i \in 1..Len(s) PROVE s[i] \in ToSet(s \o t)
    BY <2>2, <2>4, <2>5
  <2>8. ASSUME NEW i \in 1..Len(t) PROVE t[i] \in ToSet(s \o t)
    BY <2>2, <2>4, <2>5
  <2> QED
    BY <2>1, <2>5, <2>6, <2>7, <2>8
<1>2. g.tools \in Seq(A) /\ (g.agent # Absent => g.agent \in Seq(A))
  BY RequestsAssumption
<1>3. CASE g.agent = Absent
  <2>1. refs = <<>> /\ refs \in Seq(A) /\ ToSet(refs) = {}
    BY <1>3 DEF RefsOf, ToSet
  <2>2. EvalTools(g, Coerce(g.agent, passed)) = refs \o passed
    BY <1>3 DEF EvalTools, Coerce
  <2>3. passed \in Seq(A) /\ ToSet(passed) = ToSet(g.tools)
    <3> HIDE DEF refs, A
    <3> QED
      BY <1>1, <1>2, <2>1 DEF Coerce, refs
  <2> HIDE DEF refs, A
  <2> QED
    BY <1>1, <1>3, <2>1, <2>2, <2>3
<1>4. CASE g.agent # Absent
  <2> DEFINE dicts == DictsOf(g.agent)
  <2>1. /\ refs \in Seq(A) /\ ToSet(refs) = ToSet(g.agent) \cap Refs
        /\ dicts \in Seq(A) /\ ToSet(dicts) = ToSet(g.agent) \cap {Dict}
    BY <1>2, <1>4, KeptOfMeans DEF RefsOf, DictsOf
  <2>2. ToSet(g.agent) \subseteq A
    BY <1>2, <1>4 DEF ToSet
  <2>3. EvalTools(g, Coerce(g.agent, passed)) = (dicts \o refs) \o (refs \o passed)
    BY <1>4 DEF EvalTools, Coerce
  <2>4. passed \in Seq(A) /\ ToSet(g.tools) \subseteq ToSet(passed)
        /\ ToSet(passed) \subseteq ToSet(g.tools) \cup ToSet(refs)
    <3>1. passed = g.tools \/ passed = refs \o g.tools
      BY DEF Coerce
    <3> HIDE DEF refs, A
    <3>2. /\ refs \o g.tools \in Seq(A)
          /\ ToSet(refs \o g.tools) = ToSet(refs) \cup ToSet(g.tools)
      BY <1>1, <1>2, <2>1
    <3> QED
      BY <1>2, <3>1, <3>2
  <2>5. ToSet(dicts) \cup ToSet(refs) = ToSet(g.agent)
    BY <2>1, <2>2
  <2> HIDE DEF refs, dicts, A
  <2>6. ToSet((dicts \o refs) \o (refs \o passed)) =
            (ToSet(dicts) \cup ToSet(refs)) \cup (ToSet(refs) \cup ToSet(passed))
    <3>1. dicts \o refs \in Seq(A) /\ ToSet(dicts \o refs) = ToSet(dicts) \cup ToSet(refs)
      BY <1>1, <2>1
    <3>2. refs \o passed \in Seq(A) /\ ToSet(refs \o passed) = ToSet(refs) \cup ToSet(passed)
      BY <1>1, <2>1, <2>4
    <3> QED
      BY <1>1, <3>1, <3>2
  <2> QED
    BY <1>4, <2>3, <2>4, <2>5, <2>6
<1> QED
  BY <1>3, <1>4

-----------------------------------------------------------------------------
(* The invariant: what was given, and what was made of it.                 *)

Given ==
    /\ call \in {"run", "message"} =>
          /\ given.option \in OptionNames
          /\ given.value \in Inputs[given.option] \/ (given.option = "plan" /\ given.value = Absent)
    /\ call \in {"create_eval_run", "run_eval"} =>
          given.agent \in {Absent} \cup ToolLists /\ given.tools \in ToolLists
    /\ call = "tool" =>
          /\ given.tools \in Seq(Tool) /\ given.of \in DOMAIN given.tools
          /\ given.tools[given.of].kind \in Local
          /\ given.nth \in DOMAIN Offers(Entry(given.tools[given.of]))

Value == Normalize(given.option, given.value)

MadeOfGiven ==
    wire \notin {Absent, Refused} =>
        /\ call = "run" =>
              /\ Identified(given) /\ Value # Refused
              /\ wire = [agent |-> given.agent, turn |-> TurnInput(given.turn), value |-> Value]
        /\ call = "message" =>
              /\ Value # Refused
              /\ wire = [turn |-> TurnInput(given.turn), value |-> Value]
        /\ call \in {"create_eval_run", "run_eval"} =>
              \E passed \in {given.tools, Coerce(given.agent, given.tools)} :
                  wire = [tools |-> EvalTools(given, Coerce(given.agent, passed))]
        /\ call = "tool" =>
              wire = [entries |-> Entries(given.tools),
                      run |-> Dispatched(given.tools,
                                         CallOf(Entries(given.tools)[given.of], given.nth))]

LEMMA InitGiven == Init => Given /\ MadeOfGiven
<1> SUFFICES ASSUME Init PROVE Given /\ MadeOfGiven
  OBVIOUS
<1>1. MadeOfGiven
  BY DEF Init, MadeOfGiven
<1>2. CASE /\ call = "run"
           /\ \E a \in Agents, t \in Turns :
                 given = [agent |-> a, turn |-> t, option |-> "plan", value |-> Absent]
  BY <1>1, <1>2 DEF Given, OptionNames
<1>3. CASE /\ call \in {"run", "message"}
           /\ \E o \in OptionNames : \E v \in Inputs[o] :
                 given = [agent |-> ByAgentId, turn |-> Prompted, option |-> o, value |-> v]
  BY <1>1, <1>3 DEF Given
<1>4. CASE /\ call \in {"create_eval_run", "run_eval"}
           /\ given \in [dataset_id : BOOLEAN, dataset : BOOLEAN, agent_id : BOOLEAN,
                         agent : {Absent} \cup ToolLists, tools : RefLists]
  <2>1. given.agent \in {Absent} \cup ToolLists /\ given.tools \in ToolLists
    BY <1>4 DEF RefLists
  <2> QED
    BY <1>1, <1>4, <2>1 DEF Given
<1>5. CASE /\ call = "tool"
           /\ \E tools \in Declarations : \E i \in DOMAIN tools :
                 /\ tools[i].kind \in Local
                 /\ \E n \in DOMAIN Offers(Entry(tools[i])) :
                       given = [tools |-> tools, of |-> i, nth |-> n]
  BY <1>1, <1>5, RequestsAssumption DEF Given
<1> QED
  BY <1>1, <1>2, <1>3, <1>4, <1>5 DEF Init

\* What is made does not change what was given.
LEMMA StaysGiven ==
    ASSUME Given, UNCHANGED <<call, given>>
    PROVE  Given' /\ Value' = Value
BY DEF Given, Value

LEMMA StepGiven == Given /\ MadeOfGiven /\ [Next]_vars => Given' /\ MadeOfGiven'
<1> SUFFICES ASSUME Given, MadeOfGiven, [Next]_vars PROVE Given' /\ MadeOfGiven'
  OBVIOUS
<1>1. UNCHANGED <<call, given>>
  BY DEF vars, Next, Made, RunAgent, SendMessage, CreateEvalRun, CallTool, Make
<1>2. Given' /\ Value' = Value
  BY <1>1, StaysGiven
<1>3. CASE UNCHANGED wire
  BY <1>1, <1>2, <1>3 DEF MadeOfGiven
<1>4. CASE RunAgent
  <2>1. /\ call = "run"
        /\ \/ wire' = Refused
           \/ /\ Identified(given) /\ Value # Refused
              /\ wire' = [agent |-> given.agent, turn |-> TurnInput(given.turn), value |-> Value]
    BY <1>4 DEF RunAgent, Make, Value
  <2> QED
    BY <1>1, <1>2, <2>1 DEF MadeOfGiven
<1>5. CASE SendMessage
  <2>1. /\ call = "message"
        /\ \/ wire' = Refused
           \/ Value # Refused /\ wire' = [turn |-> TurnInput(given.turn), value |-> Value]
    BY <1>5 DEF SendMessage, Make, Value
  <2> QED
    BY <1>1, <1>2, <2>1 DEF MadeOfGiven
<1>6. CASE CreateEvalRun
  <2>1. /\ call \in {"create_eval_run", "run_eval"}
        /\ \/ wire' = Refused
           \/ \E passed \in {given.tools, Coerce(given.agent, given.tools)} :
                 wire' = [tools |-> EvalTools(given, Coerce(given.agent, passed))]
    BY <1>6 DEF CreateEvalRun, Make
  <2> QED
    BY <1>1, <1>2, <2>1 DEF MadeOfGiven
<1>7. CASE CallTool
  <2> DEFINE run == Dispatched(given.tools, CallOf(Entries(given.tools)[given.of], given.nth))
  <2>1. /\ call = "tool"
        /\ \/ wire' = Refused
           \/ wire' = [entries |-> Entries(given.tools), run |-> run]
    BY <1>7 DEF CallTool, Make
  <2> QED
    BY <1>1, <1>2, <2>1 DEF MadeOfGiven
<1> QED
  BY <1>2, <1>3, <1>4, <1>5, <1>6, <1>7 DEF Next, Made, vars

LEMMA Invariance == Spec => [](Given /\ MadeOfGiven)
BY InitGiven, StepGiven, PTL DEF Spec

-----------------------------------------------------------------------------
(* The theorems.                                                           *)

\* For every value of every option, inside its limits, at them and outside:
\* what the normalisers let through is what the server takes, but for a schema
\* name that ends in a newline.
THEOREM WhatIsSentIsTaken == Spec => []SentIsTaken
<1>1. Given /\ MadeOfGiven => SentIsTaken
  <2> SUFFICES ASSUME Given, MadeOfGiven, Sent, call \in {"run", "message"}
               PROVE  \/ Takes(given.option, wire.value)
                      \/ given.option = "outputSchema" /\ given.value.name = NewlineName
    BY DEF SentIsTaken
  <2>1. wire.value = Value /\ Value # Refused
    BY DEF MadeOfGiven, Sent
  <2> QED
    BY <2>1, NormalizedIsTaken DEF Given, Value
<1> QED
  BY <1>1, Invariance, PTL

\* However prompt, messages and attachments are combined: a body that is sent
\* says who is to answer, in the agent or in the messages it carries
\* (_serialize_agent_spec looks at the turn, _serialize_turn_input sends it).
THEOREM EveryBodyNamesTheAgent == Spec => []BodyNamesTheAgent
<1>1. MadeOfGiven => BodyNamesTheAgent
  <2> SUFFICES ASSUME MadeOfGiven, Sent, call = "run",
                      ~given.agent.agentId, ~given.agent.systemPrompt
               PROVE  "messages" \in DOMAIN wire.turn /\ "system" \in ToSet(wire.turn.messages)
    BY DEF BodyNamesTheAgent, MadeOfGiven, Sent
  <2> DEFINE t == given.turn
  <2>1. wire.turn = TurnInput(t) /\ SystemMessageIn(IdentityMessages(t))
    BY DEF MadeOfGiven, Sent, Identified
  <2>2. "system" \notin ToSet(<<"user">>)
    BY DEF ToSet
  <2>3. t.messages # Absent /\ "system" \in ToSet(t.messages)
    BY <2>1, <2>2 DEF SystemMessageIn, IdentityMessages
  <2>4. TurnInput(t) = [messages |-> t.messages]
    BY <2>3 DEF TurnInput
  <2> QED
    BY <2>1, <2>3, <2>4
<1> QED
  BY <1>1, Invariance, PTL

\* Whatever tools the caller puts in an inline agent and beside it: the body
\* of the eval run declares all of them and no other, also when run_eval has
\* already taken those of the agent before create_eval_run takes them again.
THEOREM EveryEvalToolIsDeclared == Spec => []EveryToolDeclared
<1>1. Given /\ MadeOfGiven => EveryToolDeclared
  <2> SUFFICES ASSUME Given, MadeOfGiven, Sent, call \in {"create_eval_run", "run_eval"}
               PROVE  ToSet(wire.tools) =
                          ToSet(given.tools) \cup
                          (IF given.agent = Absent THEN {} ELSE ToSet(given.agent))
    BY DEF EveryToolDeclared
  <2>1. given.agent \in {Absent} \cup ToolLists /\ given.tools \in ToolLists
    BY DEF Given
  <2>2. PICK passed \in {given.tools, Coerce(given.agent, given.tools)} :
            wire = [tools |-> EvalTools(given, Coerce(given.agent, passed))]
    BY DEF MadeOfGiven, Sent
  <2>3. wire.tools = EvalTools(given, Coerce(given.agent, passed))
    BY <2>2
  <2> QED
    BY <2>1, <2>2, <2>3, EvalToolsAreThoseGiven
<1> QED
  BY <1>1, Invariance, PTL

\* For every list of tools, of any kinds and names: the tool the model calls
\* is the tool that runs, and an MCP server is asked for the name it listed.
THEOREM EveryDeclaredToolIsCalled == Spec => []DeclaredToolIsCalled
<1>1. Given /\ MadeOfGiven => DeclaredToolIsCalled
  <2> SUFFICES ASSUME Given, MadeOfGiven, Sent, call = "tool"
               PROVE  DeclaredToolIsCalled
    BY DEF DeclaredToolIsCalled
  <2> DEFINE tools == given.tools
             i == given.of
             n == given.nth
             listed == IF tools[i].kind = "mcp_local" THEN tools[i].lists[n] ELSE tools[i].name
  <2>1. /\ wire.entries = Entries(tools)
        /\ wire.run = Dispatched(tools, CallOf(Entries(tools)[i], n))
    BY DEF MadeOfGiven, Sent
  <2>2. /\ tools \in Seq(Tool) /\ i \in DOMAIN tools /\ tools[i].kind \in Local
        /\ n \in DOMAIN Offers(Entry(tools[i]))
    BY DEF Given
  <2>3. ASSUME OfferedOnce(Entries(tools)), ServersDiffer,
               ~(tools[i].kind = "mcp_local" /\ IsStrictPrefix(tools[i].name, listed))
        PROVE  wire.run = [tool |-> i, asked |-> listed]
    <3>1. \A j \in DOMAIN tools :
              tools[i].kind = "mcp_local" /\ tools[j].kind = "mcp_local" /\ tools[j].name = tools[i].name
                 => j = i
      BY <2>2, <2>3 DEF ServersDiffer, Servers
    <3>2. tools[i].kind = "mcp_local" => ~IsStrictPrefix(tools[i].name, tools[i].lists[n])
      BY <2>3
    <3> HIDE DEF tools, i, n
    <3> QED
      BY <2>1, <2>2, <2>3, <3>1, <3>2, CallsFindTheirTool
  <2> QED
    BY <2>1, <2>3 DEF DeclaredToolIsCalled
<1> QED
  BY <1>1, Invariance, PTL
=============================================================================

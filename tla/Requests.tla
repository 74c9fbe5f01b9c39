------------------------------ MODULE Requests ------------------------------
(***************************************************************************)
(* What the client makes of a call before anything is sent, and of a tool  *)
(* call that comes back: the bodies of POST /agent-runs, of the messages   *)
(* of a session and of POST /eval-runs (client.py), and the names under    *)
(* which local MCP tools are offered to the model and called (tools.py).   *)
(* A behaviour is one call: what the caller passed, and what is made of it.*)
(***************************************************************************)
EXTENDS Options, LocalTools

CONSTANTS
    Refs,         \* local tools, given as objects
    Dict,         \* a tool given as a dict of the wire's shape
    Inputs,       \* for each option, the values callers pass
    MaxMessages,  \* bound on the messages of a turn
    ToolLists,    \* the sequences of tools callers put in an inline agent
    Declarations  \* the sequences of tools callers declare

\* What an option is given: a value of its type, the fields of a dict in
\* either spelling, or Wrong for anything else.
Number == Int \cup {Absent, Wrong}
Takeable == [
    reasoningLevel |-> Number \cup {Level},
    loopDetection |->
        {Absent, Wrong, On, Off} \cup
        [consecutiveThreshold : Number, consecutive_threshold : Number,
         hardCutoffThreshold : Number, hard_cutoff_threshold : Number],
    supervisor |->
        {Absent, Wrong, On, Off} \cup
        [interval : Number, modelId : {Absent, Text},
         reasoningTrigger : {Absent, Wrong, On, Off} \cup [chars : Number, ms : Number]],
    plan |->
        {Absent, Wrong, On, Off} \cup Modes \cup
        [mode : {Absent, Wrong} \cup Modes, planOnly : {Absent, Wrong, On, Off},
         brief : {Absent, Wrong, Text}, steps : {Absent, Wrong} \cup Seq({Text, Wrong})],
    outputSchema |->
        {Absent, Wrong} \cup
        [name : {Absent, Wrong, Text, BadName, NewlineName}, enforcement : {Absent, Wrong, Text},
         schema : {Absent, Wrong, Text}, bytes : Nat]]

ASSUME RequestsAssumption ==
    /\ DOMAIN Inputs = OptionNames
    /\ MaxMessages \in Nat
    /\ \A option \in DOMAIN Takeable : Inputs[option] \subseteq Takeable[option]
    /\ \A v \in Inputs["toolBudgets"] \ {Absent, Wrong} :
          /\ DOMAIN v \subseteq Int \cup {Wrong}
          /\ \A name \in DOMAIN v :
                v[name] \in {Wrong} \cup [maxCalls : Number, max_calls : Number]
    /\ ToolLists \subseteq Seq(Refs \cup {Dict})
    /\ Declarations \subseteq Seq(Tool)

VARIABLES
    call,   \* the function called
    given,  \* what the caller passed
    wire    \* what is sent, Refused, or Absent before the call

vars == <<call, given, wire>>

\* A message is its role; "blank" is a system message without content.
Conversations == {Absent} \cup UNION {[1..n -> {"system", "blank", "user"}] : n \in 0..MaxMessages}

Agents == [agentId : BOOLEAN, systemPrompt : BOOLEAN]
Turns == [prompt : {Absent, Text}, attachments : BOOLEAN, messages : Conversations]
Prompted == [prompt |-> Text, attachments |-> FALSE, messages |-> Absent]
ByAgentId == [agentId |-> TRUE, systemPrompt |-> FALSE]

\* The tools beside the agent are objects.
RefLists == {list \in ToolLists : ToSet(list) \subseteq Refs}

Init ==
    /\ wire = Absent
    /\ \/ /\ call = "run"
          /\ \E a \in Agents, t \in Turns :
                given = [agent |-> a, turn |-> t, option |-> "plan", value |-> Absent]
       \/ /\ call \in {"run", "message"}
          /\ \E o \in OptionNames : \E v \in Inputs[o] :
                given = [agent |-> ByAgentId, turn |-> Prompted, option |-> o, value |-> v]
       \/ /\ call \in {"create_eval_run", "run_eval"}
          /\ given \in [dataset_id : BOOLEAN, dataset : BOOLEAN, agent_id : BOOLEAN,
                        agent : {Absent} \cup ToolLists, tools : RefLists]
       \/ /\ call = "tool"
          /\ \E tools \in Declarations : \E i \in DOMAIN tools :
                /\ tools[i].kind \in Local
                /\ \E n \in DOMAIN Offers(Entry(tools[i])) : given = [tools |-> tools, of |-> i, nth |-> n]

Make(body) ==
    /\ wire = Absent
    /\ wire' = body
    /\ UNCHANGED <<call, given>>

-----------------------------------------------------------------------------
(* Runs and messages.                                                      *)

\* _serialize_turn_input
PromptFirst(t) ==
    CASE t.prompt # Absent /\ t.attachments -> [messages |-> <<"user">>]
      [] t.prompt # Absent -> [prompt |-> Text]
      [] t.messages # Absent -> [messages |-> t.messages]
      [] OTHER -> [nothing |-> TRUE]

TurnInput(t) ==
    CASE t.messages # Absent -> [messages |-> t.messages]
      [] t.messages = Absent /\ t.prompt # Absent ->
            IF t.attachments THEN [messages |-> <<"user">>] ELSE [prompt |-> Text]
      [] OTHER -> [nothing |-> TRUE]

SystemMessageIn(messages) == messages # Absent /\ "system" \in ToSet(messages)

\* What _serialize_agent_spec looks for a system message in.
IdentityMessages(t) ==
    IF t.messages = Absent /\ t.attachments /\ t.prompt # Absent
    THEN <<"user">> ELSE t.messages

Identified(g) ==
    \/ g.agent.agentId \/ g.agent.systemPrompt
    \/ SystemMessageIn(IdentityMessages(g.turn))

\* _serialize_agent_spec
RunAgent ==
    /\ call = "run"
    /\ LET value == Normalize(given.option, given.value)
       IN Make(IF Identified(given) /\ value # Refused
               THEN [agent |-> given.agent, turn |-> TurnInput(given.turn), value |-> value]
               ELSE Refused)

\* AgentSession._build_message_body
SendMessage ==
    /\ call = "message"
    /\ LET value == Normalize(given.option, given.value)
       IN Make(IF value # Refused
               THEN [turn |-> TurnInput(given.turn), value |-> value]
               ELSE Refused)

-----------------------------------------------------------------------------
(* Eval runs.                                                              *)

\* The loop over a list of tools that appends those it keeps.
KeptOf(list, S) ==
    LET kept[n \in 0..Len(list)] ==
            IF n = 0 THEN <<>>
            ELSE IF list[n] \in S THEN Append(kept[n - 1], list[n]) ELSE kept[n - 1]
    IN  kept[Len(list)]

\* _extract_tool_refs; a saved agent has no tools of the caller's.
RefsOf(agent) == IF agent = Absent THEN <<>> ELSE KeptOf(agent, Refs)
DictsOf(agent) == KeptOf(agent, {Dict})

\* _coerce_eval_tools
Coerce(agent, tools) == RefsOf(agent) \o tools

\* _serialize_create_eval_run and _serialize_inline_eval_agent: the tools of
\* the body, or of its agent.
EvalRefs(g, tools) == IF g.agent = Absent THEN tools ELSE RefsOf(g.agent) \o tools
EvalTools(g, tools) ==
    IF g.agent = Absent THEN tools ELSE DictsOf(g.agent) \o RefsOf(g.agent) \o tools

\* run_eval passes on the list it has already coerced.
CreateEvalRun ==
    /\ call \in {"create_eval_run", "run_eval"}
    /\ LET passed == IF call = "run_eval" THEN Coerce(given.agent, given.tools) ELSE given.tools
           tools == Coerce(given.agent, passed)
       IN Make(IF given.dataset_id # given.dataset /\ given.agent_id = (given.agent = Absent)
               THEN [tools |-> EvalTools(given, tools)]
               ELSE Refused)

-----------------------------------------------------------------------------
(* Local tools.                                                            *)

\* The model calls what the n-th place of an entry offers it.
CallTool ==
    /\ call = "tool"
    /\ Make(IF \A i \in DOMAIN given.tools : Definable(given.tools[i])
            THEN LET sent == Entries(given.tools)
                 IN [entries |-> sent,
                     run |-> Dispatched(given.tools, CallOf(sent[given.of], given.nth))]
            ELSE Refused)

Made == wire # Absent /\ UNCHANGED vars

Next == RunAgent \/ SendMessage \/ CreateEvalRun \/ CallTool \/ Made

Spec == Init /\ [][Next]_vars

-----------------------------------------------------------------------------
(* What docs/agent-runs-protocol.md says the server takes (4.4 to 4.9).    *)

LevelTaken(v) == v = Level \/ v \in 0..100

DetectionTaken(v) ==
    v = Off \/
    LET c == v.consecutiveThreshold
        h == v.hardCutoffThreshold
    IN /\ c = Absent \/ c \in 2..100
       /\ h = Absent \/ h \in 3..100
       /\ c = Absent \/ h = Absent \/ c < h

BudgetsTaken(v) ==
    /\ Cardinality(DOMAIN v) <= MaxEntries
    /\ DOMAIN v \subseteq 1..120
    /\ \A name \in DOMAIN v : v[name] \in 0..1000

CharsTaken == 50000
MsTaken == 600000
TriggerTaken(t) ==
    \/ t \in {Absent, Off}
    \/ /\ t.chars = Absent \/ t.chars \in 1..CharsTaken
       /\ t.ms = Absent \/ t.ms \in 1..MsTaken

SupervisorTaken(v) ==
    \/ v \in {On, Off}
    \/ /\ v.interval = Absent \/ v.interval \in 1..100
       /\ TriggerTaken(v.reasoningTrigger)

PlanTaken(v) ==
    \/ v \in {On, Off} \cup Modes
    \/ /\ v.mode \in {Absent} \cup Modes /\ v.planOnly \in {Absent, On, Off}
       /\ v.brief \in {Absent, Text}
       /\ v.steps = Absent \/ ToSet(v.steps) \subseteq {Text}

SchemaTaken(v) ==
    /\ v.name \in {Absent, Text}
    /\ v.schema = Text
    /\ v.bytes <= 32768

Takes(option, v) ==
    \/ v = Absent
    \/ option = "reasoningLevel" /\ LevelTaken(v)
    \/ option = "loopDetection" /\ DetectionTaken(v)
    \/ option = "toolBudgets" /\ BudgetsTaken(v)
    \/ option = "supervisor" /\ SupervisorTaken(v)
    \/ option = "plan" /\ PlanTaken(v)
    \/ option = "outputSchema" /\ SchemaTaken(v)

-----------------------------------------------------------------------------
(* Properties.                                                             *)

Sent == wire \notin {Absent, Refused}

\* "Mirrors the server-side 400 invalid_request checks" (tools.py, of every
\* normaliser): what passes them is within the limits of the protocol, but
\* for the schema name that ends in a newline.
SentIsTaken ==
    Sent /\ call \in {"run", "message"} =>
        \/ Takes(given.option, wire.value)
        \/ given.option = "outputSchema" /\ given.value.name = NewlineName

\* "A run is valid when it has an agentId, a systemPrompt, or at least one
\* non-empty system message in messages" (docs/agent-runs-protocol.md): the
\* messages that are looked at are the ones that are sent.
BodyNamesTheAgent ==
    Sent /\ call = "run" =>
        \/ wire.agent.agentId \/ wire.agent.systemPrompt
        \/ "messages" \in DOMAIN wire.turn /\ "system" \in ToSet(wire.turn.messages)

\* An eval run declares every tool its caller passed, in the agent or beside
\* it, and no other.
EveryToolDeclared ==
    Sent /\ call \in {"create_eval_run", "run_eval"} =>
        ToSet(wire.tools) = ToSet(given.tools) \cup
                            (IF given.agent = Absent THEN {} ELSE ToSet(given.agent))

\* What the model calls by a name that only one tool offers is that tool, and
\* an MCP server is asked for the tool it listed, whatever other tools of any
\* kind are declared, so long as no two local MCP servers have one name and
\* the listed name does not itself begin with the server's.
OfferedOnce(entries) ==
    \A i, j \in DOMAIN entries :
        \A m \in DOMAIN Offers(entries[i]), n \in DOMAIN Offers(entries[j]) :
            Offers(entries[i])[m] = Offers(entries[j])[n] => i = j /\ m = n

Servers == {i \in DOMAIN given.tools : given.tools[i].kind = "mcp_local"}
ServersDiffer == \A i, j \in Servers : given.tools[i].name = given.tools[j].name => i = j

DeclaredToolIsCalled ==
    Sent /\ call = "tool" =>
        LET tool == given.tools[given.of]
            listed == IF tool.kind = "mcp_local" THEN tool.lists[given.nth] ELSE tool.name
        IN \/ wire.run = [tool |-> given.of, asked |-> listed]
           \/ ~OfferedOnce(wire.entries)
           \/ ~ServersDiffer
           \/ tool.kind = "mcp_local" /\ IsStrictPrefix(tool.name, listed)
=============================================================================
